-------------------------- MODULE GoalCommunication --------------------------
(***************************************************************************)
(* The rules by which the agent talks: which condition of the goal it asks *)
(* HR about, how it reads the answer, and which document it delivers.      *)
(***************************************************************************)
EXTENDS Integers, Sequences, FiniteSets

-----------------------------------------------------------------------------
(* The condition to ask about *)

\* "not in the region ..., at the place of work ...": the matching filters it.
ConsumedByMatching(clause) == clause.verb = "exclude" /\ clause.located

\* The job's text answers it: outsourcing by the nature of the job alone, anything
\* else by being mentioned (words like "region" are no part of the job's text).
Confirmed(clause, job) ==
  IF clause.topic = "outsourcing" THEN job.outsourced
  ELSE clause.topic \in job.mentions /\ ~clause.located

\* A clause that names the pay, or an "at least" of the words known here: "shared"
\* ones are known to the matching too, "round" ones only to it.
TakenForSalary(clause) == clause.pay \/ clause.atLeast = "shared"

\* "nothing": no condition is left of the clause.
IsOpen(clause, job) ==
  /\ ~Confirmed(clause, job)
  /\ clause.topic # "outsourcing" =>
       /\ clause.topic # "nothing"
       /\ ~TakenForSalary(clause) /\ ~ConsumedByMatching(clause)

\* The first open clause of an active goal: its place, or 0.
GoalConditionGap(active, clauses, job) ==
  LET open == {i \in DOMAIN clauses : IsOpen(clauses[i], job)} IN
  IF ~active \/ open = {} THEN 0
  ELSE CHOOSE i \in open : \A k \in open : i <= k

StopOnYes(clause) == clause.verb \in {"exclude", "reject"}

-----------------------------------------------------------------------------
(* The answer: a text of "yes" words, "not", and others *)

IsYesAt(text, i) == text[i] = "yes" /\ (i = 1 \/ text[i - 1] # "not")
IsNoAt(text, i)  == text[i] = "yes" /\ i > 1 /\ text[i - 1] = "not"

\* mutant: a yes anywhere is a yes.
ParseBinaryAnswerYesFirst(text) ==
  IF \E i \in DOMAIN text : IsYesAt(text, i) THEN "yes"
  ELSE IF \E i \in DOMAIN text : IsNoAt(text, i) THEN "no" ELSE "unclear"
ParseBinaryAnswer(text) ==
  LET yes == \E i \in DOMAIN text : IsYesAt(text, i)
      no  == \E i \in DOMAIN text : IsNoAt(text, i)
  IN IF yes = no THEN "unclear" ELSE IF yes THEN "yes" ELSE "no"

Verdict(clause, answer) ==
  IF answer = "unclear" THEN "pending"
  ELSE IF (answer = "yes") = StopOnYes(clause) THEN "stop" ELSE "continue"

-----------------------------------------------------------------------------
(* The document: kinds by their names, in the order in which they are tried *)

Kinds == <<"certificate", "photo", "academic_status", "proof">>

\* Of the words for papers of enrolment one, "academic_proof", contains the word for
\* a proof; "academic_status" stands for the others.
NamesKind(words, kind) ==
  \/ kind \in words
  \/ kind \in {"academic_status", "proof"} /\ "academic_proof" \in words

\* What a message asks for, or "none": the first kind it names, else the name it
\* gives ("other" stands for such a name).
DocumentIntent(requests, words) ==
  LET named == SelectSeq(Kinds, LAMBDA kind : NamesKind(words, kind))
  IN IF ~requests THEN "none"
     ELSE IF named # <<>> THEN Head(named)
     ELSE IF "other" \in words THEN "other" ELSE "none"

Fitting(intent, documents) == {d \in documents : NamesKind(d.words, intent)}

\* The one that fits, if one fits.
ResolveDocument(intent, documents) ==
  IF Cardinality(Fitting(intent, documents)) = 1 THEN Fitting(intent, documents) ELSE {}
=============================================================================
