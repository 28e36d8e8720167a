------------------------------- MODULE Matching -------------------------------
(***************************************************************************)
(* The matching algorithm v0.1: what excludes a job, and how a job that is *)
(* not excluded is scored.  Texts are the sets of terms the algorithm      *)
(* looks for in them; amounts and scores are integers.                     *)
(***************************************************************************)
EXTENDS Integers, Sequences, FiniteSets

CONSTANTS
  Place,     \* places of work
  Skill,     \* the canonical names of _SKILL_ALIASES
  Unknown    \* None: a place, an amount or a time nobody has stated

ASSUME MatchingAssumption == Unknown \notin Place \cup Int

RoleWeight  == 35
LevelWeight == 25
SkillWeight == 40
Threshold   == 60

DirectTerms == {"agent"}             \* agent, rag, llm and their Chinese names
AiTerms == DirectTerms \cup {"ai"}

\* What the algorithm reads of a resume; similar: its role is the job's by name.
Profile == [similar : BOOLEAN, words : SUBSET STRING, months : Nat \cup {Unknown},
            skills : SUBSET Skill]

-----------------------------------------------------------------------------
(* Hard filters *)

\* Words of preference ("preferably") near what clause i says, in the clause itself
\* or, the four characters looked at being those of the whole text, where the next
\* one begins or the one before it ends.
Soft(clauses, i) ==
  \/ "near" \in clauses[i].prefer
  \/ i + 1 \in DOMAIN clauses /\ "first" \in clauses[i + 1].prefer
  \/ i - 1 \in DOMAIN clauses /\ "last" \in clauses[i - 1].prefer

\* What the clauses name to leave out.
ExcludedLocations(clauses) ==
  {clauses[i].topic : i \in {k \in DOMAIN clauses :
     clauses[k].verb = "exclude" /\ ~Soft(clauses, k)}}

\* The clauses with a number behind an "at least", whatever it is a number of.
Demands(clauses) == {i \in DOMAIN clauses : clauses[i].amount # Unknown}

\* Yuan, of the first demand only; "wan" is ten thousand, any other number thousands.
MinimumSalary(clauses) ==
  LET first == CHOOSE i \in Demands(clauses) : \A k \in Demands(clauses) : i <= k
  IN IF Demands(clauses) = {} THEN Unknown
     ELSE IF Soft(clauses, first) THEN Unknown
     ELSE clauses[first].amount * (IF clauses[first].unit = "wan" THEN 10000 ELSE 1000)

\* mutant: five digits make yuan.
SalaryLargeOnly(v) == IF v > 10000 THEN v ELSE v * 1000
\* Yuan: more than 1000 is yuan, anything else thousands.
Salary(v) == IF v > 1000 THEN v ELSE v * 1000

JobSalary(job) == IF job.min # Unknown THEN job.min ELSE job.max

IsAiSoftwareJob(title) == title \cap AiTerms # {} /\ "development" \in title

Underpays(job, clauses) ==
  /\ MinimumSalary(clauses) # Unknown /\ JobSalary(job) # Unknown
  /\ Salary(JobSalary(job)) < MinimumSalary(clauses)

\* The first reason that applies, or "none".
HardFilterReason(job, clauses) ==
  IF job.place \in ExcludedLocations(clauses) THEN "excluded_location"
  ELSE IF Underpays(job, clauses) THEN "salary_below_minimum"
  ELSE IF ~IsAiSoftwareJob(job.title) THEN "unsupported_job_family"
  ELSE "none"

-----------------------------------------------------------------------------
(* Scores *)

\* mutant: evidence of development is looked for before evidence of AI.
RoleScoreGeneralFirst(job, candidate) ==
  IF candidate.words = {} THEN 0
  ELSE IF candidate.similar THEN 100
  ELSE IF "development" \in candidate.words THEN 40
  ELSE IF candidate.words \cap AiTerms # {} THEN 80
  ELSE 0
RoleScore(job, candidate) ==
  IF candidate.words = {} THEN 0
  ELSE IF candidate.similar THEN 100
  ELSE IF candidate.words \cap AiTerms # {}
       THEN IF candidate.words \cap job.title \cap DirectTerms # {} THEN 100 ELSE 80
  ELSE IF "development" \in candidate.words THEN 40
  ELSE 0

LevelFromMonths(months) ==
  CASE months = Unknown -> 2
    [] months # Unknown -> IF months <= 24 THEN 1 ELSE IF months <= 60 THEN 2 ELSE 3

\* 1, 2, 3: low, mid, high.  A word for a high level wins over one for a low one.
Level(words, months) ==
  IF "senior" \in words THEN 3 ELSE IF "junior" \in words THEN 1 ELSE LevelFromMonths(months)

LevelScore(job, candidate) ==
  LET a == Level(job.title \cup job.words, job.months)
      b == Level(candidate.words, candidate.months)
  IN CASE a = b -> 100 [] a - b \in {1, -1} -> 60 [] OTHER -> 0

\* mutant: the total is rounded to a whole number.
TotalScoreWhole(role, level, matched, required) ==
  LET exact == (RoleWeight * role + LevelWeight * level) * required
                 + SkillWeight * 100 * matched
  IN ((2 * exact + 100 * required) \div (200 * required)) * 100
\* In hundredths, rounded: matched of required skills, none of none being zero.
TotalScore(role, level, matched, required) ==
  LET exact == (RoleWeight * role + LevelWeight * level) * required
                 + SkillWeight * 100 * matched
  IN IF required = 0 THEN RoleWeight * role + LevelWeight * level
     ELSE (2 * exact + required) \div (2 * required)

Matched(total) == total >= Threshold * 100

\* How many of the required skills the resume shows, and how many there are.
Covered(job, candidate) ==
  <<Cardinality(job.skills \cap candidate.skills), Cardinality(job.skills)>>

-----------------------------------------------------------------------------
\* An excluded job has no score.
Evaluate(job, candidate, clauses) ==
  LET reason == HardFilterReason(job, clauses)
      total == TotalScore(RoleScore(job, candidate), LevelScore(job, candidate),
                          Covered(job, candidate)[1], Covered(job, candidate)[2])
  IN IF reason # "none"
     THEN [status |-> "filtered_out", reason |-> reason, total |-> Unknown]
     ELSE IF Matched(total)
     THEN [status |-> "matched", reason |-> "matched", total |-> total]
     ELSE [status |-> "not_matched", reason |-> "below_threshold", total |-> total]
=============================================================================
