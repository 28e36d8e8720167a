------------------------------ MODULE Decisions ------------------------------
(***************************************************************************)
(* What is decided about one candidate and one job, by the rules of        *)
(* Matching and GoalCommunication: the job is evaluated; if it matches,    *)
(* there is an application, HR opens its conversation, the agent may ask   *)
(* about a condition of the goal, and HR's answer is judged.  A request    *)
(* for a document is decided by itself, and so is what is read of a resume *)
(* with at most two requests to a language model.                          *)
(***************************************************************************)
EXTENDS Matching, GoalCommunication, ResumeProfile

CONSTANTS
  Pairs,     \* sets of [job, candidate, clauses]: what a round compares
  Text,      \* answers of HR
  Wanted,    \* [requests, words, documents]: a message and the documents there are
  Replies,   \* for a resume, [headings, times, pieces, canonical, shown, empty], the
             \* replies of the model: [kind] or [kind |-> "profile", profile]
  Today      \* the month

\* What the round reads of a job and the talk with HR of the same job's text.
JobFields ==
  [place : Place \cup {Unknown}, min : Nat \cup {Unknown}, max : Nat \cup {Unknown},
   title : SUBSET STRING, words : SUBSET STRING, months : Nat \cup {Unknown},
   skills : SUBSET Skill, outsourced : BOOLEAN, mentions : SUBSET (Place \cup STRING)]

\* What both read of a clause of the goal: atLeast says which word for a lower bound
\* is in it, amount and unit what follows that word, pay whether it names the pay.
GoalClause ==
  [topic : Place \cup STRING, verb : {"exclude", "reject", "want"}, located : BOOLEAN,
   prefer : SUBSET {"first", "near", "last"}, pay : BOOLEAN,
   atLeast : {"none", "shared", "round"}, amount : Nat \cup {Unknown},
   unit : {"none", "k", "wan"}]

ASSUME DecisionsAssumption ==
  /\ \A Pair \in Pairs : \A pair \in Pair :
       /\ pair.candidate \in Profile
       /\ pair.job \in JobFields /\ IsFiniteSet(pair.job.skills)
       /\ DOMAIN pair.clauses \subseteq Nat \ {0}
       /\ \A i \in DOMAIN pair.clauses : pair.clauses[i] \in GoalClause
  /\ \A text \in Text : DOMAIN text \subseteq Nat \ {0}
  /\ \A source \in DOMAIN Replies :
       /\ source.shown \in [Scalars -> STRING \cup {Null}]
       /\ \A value \in DOMAIN source.times : source.times[value] \in Nat \ {0}
       /\ \A reply \in Replies[source] : reply.kind = "profile" => reply.profile \in Profiles
  /\ Today \in Nat

VARIABLES
  input,     \* the pair, the request or the resume
  stage,     \* how far it has come
  result,    \* of the evaluation
  asked,     \* the clause asked about, or 0
  answer,    \* what HR says
  verdict,   \* what it means
  delivered, \* the document found, as a set
  recovery,  \* the profile that a reply is to mend, or NoProfile
  reasons,   \* what is wrong with it
  profile,   \* what is read of the resume, or NoProfile
  failure    \* why nothing is

rvars == <<recovery, reasons, profile, failure>>
dvars == <<input, stage, result, asked, answer, verdict, delivered, rvars>>

NoResult == [status |-> "none", reason |-> "none", total |-> Unknown]

Init ==
  /\ \/ \E Pair \in Pairs : input \in Pair /\ stage = "job"
     \/ input \in Wanted /\ stage = "request"
     \/ input \in DOMAIN Replies /\ stage = "resume"
  /\ result = NoResult /\ asked = 0 /\ answer = <<>> /\ verdict = "none"
  /\ delivered = {}
  /\ recovery = NoProfile /\ reasons = {} /\ profile = NoProfile /\ failure = "none"

EvaluateJob ==
  /\ stage = "job"
  /\ result' = Evaluate(input.job, input.candidate, input.clauses)
  /\ stage' = IF result'.status = "matched" THEN "applied" ELSE "ended"
  /\ UNCHANGED <<input, asked, answer, verdict, delivered, rvars>>

AskHr ==
  /\ stage = "applied"
  /\ asked' = GoalConditionGap(TRUE, input.clauses, input.job)
  /\ stage' = IF asked' = 0 THEN "ended" ELSE "asked"
  /\ UNCHANGED <<input, result, answer, verdict, delivered, rvars>>

JudgeAnswer(text) ==
  /\ stage = "asked"
  /\ answer' = text
  /\ verdict' = Verdict(input.clauses[asked], ParseBinaryAnswer(text))
  /\ stage' = IF verdict' = "pending" THEN "asked" ELSE "ended"
  /\ UNCHANGED <<input, result, asked, delivered, rvars>>

FindDocument ==
  /\ stage = "request"
  /\ delivered' = ResolveDocument(DocumentIntent(input.requests, input.words), input.documents)
  /\ stage' = "ended"
  /\ UNCHANGED <<input, result, asked, answer, verdict, rvars>>

-----------------------------------------------------------------------------
(* The resume.  "reading" waits for the first reply, "rereading" for the last. *)

Fails(code) == stage' = "ended" /\ failure' = code

\* The first request asks for a whole profile, unless the text is the PDF's own: then
\* the contact is taken from it and the request is for work, projects and skills.  A
\* text without contact makes no profile, which counts as a fault of the service.
OpenResume ==
  /\ stage = "resume"
  /\ UNCHANGED <<input, result, asked, answer, verdict, delivered, profile>>
  /\ \/ input.empty /\ Fails("schema_validation_failed") /\ UNCHANGED <<recovery, reasons>>
     \/ /\ ~input.empty /\ ~input.canonical
        /\ stage' = "reading" /\ UNCHANGED <<recovery, reasons, failure>>
     \/ /\ ~input.empty /\ input.canonical /\ Accepted(Base(input))
        /\ recovery' = Base(input)
        /\ reasons' = {"work_experience", "project_experience", "skills"}
        /\ stage' = "reading" /\ UNCHANGED failure
     \/ /\ ~input.empty /\ input.canonical /\ ~Accepted(Base(input))
        /\ Fails("internal_error") /\ UNCHANGED <<recovery, reasons>>

Waiting ==
  /\ stage \in {"reading", "rereading"}
  /\ UNCHANGED <<input, result, asked, answer, verdict, delivered>>

\* The same request once more, or never again.
Repeat ==
  /\ UNCHANGED <<recovery, reasons, profile>>
  /\ IF stage = "reading" THEN stage' = "rereading" /\ UNCHANGED failure
                          ELSE Fails("schema_validation_failed")

ReplyFails(reply) ==
  /\ Waiting
  /\ \/ reply.kind = "late" /\ Fails("parser_timeout")
     \/ reply.kind = "unavailable" /\ Fails("internal_error")
  /\ UNCHANGED <<recovery, reasons, profile>>

ReplyMalformed(reply) == Waiting /\ reply.kind = "malformed" /\ Repeat

\* The profile of a reply, before the schema has looked at it.
Proposed(reply) ==
  Consolidated(IF recovery = NoProfile THEN Educated(input, reply.profile)
               ELSE Recovered(recovery, reasons, reply.profile))

\* A reply that the schema refuses; a mended profile that it refuses is a fault.
ReplyRefused(reply) ==
  /\ Waiting /\ reply.kind = "profile" /\ ~Accepted(Proposed(reply))
  /\ IF recovery = NoProfile THEN Repeat
     ELSE Fails("internal_error") /\ UNCHANGED <<recovery, reasons, profile>>

\* A profile that is not the resume's: the next request is to mend it, if it can.
ReplyInvalid(reply) ==
  LET invalid == InvalidFacts(input, Proposed(reply)) IN
  /\ Waiting /\ reply.kind = "profile" /\ Accepted(Proposed(reply)) /\ invalid # {}
  /\ IF stage = "reading" /\ invalid \cap NeedsRecovery # {}
     THEN /\ recovery' = Proposed(reply) /\ reasons' = invalid
          /\ stage' = "rereading" /\ UNCHANGED <<profile, failure>>
     ELSE Repeat

ReplyKept(reply) ==
  LET kept == Consolidated([Proposed(reply) EXCEPT !.years =
                              YearsOfExperience(Proposed(reply).work, Today)]) IN
  /\ Waiting /\ reply.kind = "profile" /\ Accepted(Proposed(reply))
  /\ InvalidFacts(input, Proposed(reply)) = {}
  /\ UNCHANGED <<recovery, reasons>>
  /\ IF Accepted(kept) THEN profile' = kept /\ stage' = "ended" /\ UNCHANGED failure
                        ELSE Fails("internal_error") /\ UNCHANGED profile

ReadReply(reply) ==
  \/ ReplyFails(reply) \/ ReplyMalformed(reply) \/ ReplyRefused(reply)
  \/ ReplyInvalid(reply) \/ ReplyKept(reply)

ReadResume == stage \in {"reading", "rereading"} /\ \E reply \in Replies[input] : ReadReply(reply)

Next ==
  \/ EvaluateJob \/ AskHr \/ (\E text \in Text : JudgeAnswer(text)) \/ FindDocument
  \/ OpenResume \/ ReadResume

Spec == Init /\ [][Next]_dvars

-----------------------------------------------------------------------------
(* Properties *)

Evaluated == result.status # "none"

\* The match is decided by the exact sum 0.35 role + 0.25 level + 0.40 skills: the
\* rounding of the total to two digits never lifts one to the threshold.
ThresholdIsExact ==
  Evaluated /\ result.status # "filtered_out" =>
    LET job == input.job
        required == Cardinality(job.skills)
        points == IF required = 0 THEN 0
                  ELSE SkillWeight * 100 * Cardinality(job.skills \cap input.candidate.skills)
        rest == RoleWeight * RoleScore(job, input.candidate)
                  + LevelWeight * LevelScore(job, input.candidate)
        n == IF required = 0 THEN 1 ELSE required
    IN result.status = "matched" <=> points + n * rest >= Threshold * 100 * n

\* One more skill in the resume, or one more sign of the job's field in it, never
\* costs a match.
MoreEvidenceNeverHurts ==
  stage = "applied" =>
    \A s \in Skill, t \in AiTerms \cup {"development"} :
      LET better == [input.candidate EXCEPT !.skills = @ \cup {s},
                                            !.words = IF @ = {} THEN @ ELSE @ \cup {t}]
      IN Evaluate(input.job, better, input.clauses).status = "matched"

\* How pay is written decides nothing: the job's "15" and "15000", the goal's "20k",
\* "20" and "2 wan" are the same to the round, whichever of several demands is the
\* first.  (Told apart by its size, a job's pay of 1000 yuan or less cannot be written
\* in yuan, nor one above a million in thousands.)
InOtherUnit(pay) ==
  IF pay = Unknown THEN Unknown
  ELSE IF 2 <= pay /\ pay <= 1000 THEN pay * 1000
  ELSE IF 2000 <= pay /\ pay <= 1000 * 1000 /\ pay % 1000 = 0 THEN pay \div 1000
  ELSE pay

Reworded(clause) ==
  IF clause.amount = Unknown THEN clause
  ELSE IF clause.unit = "wan" THEN [clause EXCEPT !.amount = 10 * @, !.unit = "k"]
  ELSE IF clause.amount % 10 = 0 THEN [clause EXCEPT !.amount = @ \div 10, !.unit = "wan"]
  ELSE [clause EXCEPT !.unit = IF @ = "k" THEN "none" ELSE "k"]

NotationNeverDecides ==
  Evaluated =>
    LET job == [input.job EXCEPT !.min = InOtherUnit(@), !.max = InOtherUnit(@)]
        clauses == [i \in DOMAIN input.clauses |-> Reworded(input.clauses[i])]
    IN \A j \in {input.job, job}, c \in {input.clauses, clauses} :
         Evaluate(j, input.candidate, c) = result

\* An answer decides exactly if all its yes and no words agree, and it stops the
\* talk exactly if it says that the job has what the candidate refuses, or has not
\* what the candidate wants.
AnswerDecides ==
  stage # "job" /\ verdict # "none" =>
    LET Negated(i) == i > 1 /\ answer[i - 1] = "not"
        said == {Negated(i) : i \in {k \in DOMAIN answer : answer[k] = "yes"}}
        refused == input.clauses[asked].verb # "want"
    IN /\ verdict = "pending" <=> Cardinality(said) # 1
       /\ verdict = "stop" => said = {~refused}
       /\ verdict = "continue" => said = {refused}

Read == profile # NoProfile

\* Every name in a profile is in the text, a company as often as it has entries, the
\* technologies of the projects included; and what the text shows is in the profile:
\* with a name in it, a resume that shows education, a way of contact and something
\* done can be matched.  It does not matter which of two replies the parts are from.
ProfileIsFaithful ==
  Read =>
    LET jobs == {profile.work[i] : i \in DOMAIN profile.work}
        claims == {profile.scalar[f] : f \in Scalars} \cup profile.skills
                    \cup {j.company : j \in jobs} \cup {j.title : j \in jobs}
                    \cup {p.name : p \in profile.projects}
                    \cup UNION {p.technologies \ {Blank} : p \in profile.projects}
    IN /\ \A value \in claims \ {Null} : Supports(input, value)
       /\ \A j \in jobs : j.company # Null =>
            Cardinality(Jobs(profile, j.company)) <= Times(input, j.company)
       /\ "skills" \in input.headings => profile.skills # {}
       /\ /\ Stated(profile.scalar["full_name"]) /\ "education" \in input.headings
          /\ {"phone", "email"} \cap input.headings # {}
          /\ {"work", "projects"} \cap input.headings # {}
          => MatchingReady(profile)

\* Experience is the time in which there was any work: no month counts twice, and none
\* of an internship, of a gap or of an entry without its dates counts.
ExperienceIsCoveredTime ==
  Read =>
    LET end(item) == IF item.end = Present THEN Today ELSE item.end
        dated == {i \in DOMAIN profile.work :
                    /\ profile.work[i].type = "work"
                    /\ profile.work[i].start \in Nat /\ profile.work[i].end # Null}
        months == Cardinality(UNION {profile.work[i].start .. end(profile.work[i]) : i \in dated})
    IN profile.years = IF months = 0 THEN UnknownYears ELSE Duration(months)
=============================================================================
