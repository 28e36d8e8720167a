--------------------------- MODULE Decisions_proofs ---------------------------
(* Theorems about the rules, for every job, resume, goal, answer and request   *)
(* that the assumptions allow, where the run checks those of its instance.     *)
EXTENDS Decisions, ResumeProfile_proofs

(* The rounding of the total is to the half of a hundredth; 200 skills make it *)
(* as large as one point of the sum.                                           *)
FewSkills == \A Pair \in Pairs : \A pair \in Pair : Cardinality(pair.job.skills) < 200

(* What has been decided is what the rules say of the input.                   *)
IsPair == \E Pair \in Pairs : input \in Pair

Told ==
  /\ stage \in {"job", "applied", "asked"} => IsPair
  /\ stage \in {"request", "job"} => ~Evaluated
  /\ Evaluated => IsPair /\ result = Evaluate(input.job, input.candidate, input.clauses)
  /\ stage = "applied" => result.status = "matched"
  /\ stage \in {"job", "applied"} => asked = 0
  /\ stage = "asked" => asked # 0
  /\ asked # 0 => /\ IsPair /\ result.status = "matched"
                  /\ asked = GoalConditionGap(TRUE, input.clauses, input.job)
  /\ stage \notin {"asked", "ended"} => verdict = "none"
  /\ verdict # "none" => /\ asked # 0
                         /\ verdict = Verdict(input.clauses[asked], ParseBinaryAnswer(answer))
                         /\ DOMAIN answer \subseteq Nat \ {0}

(* The clause asked about is an open one.                                      *)
LEMMA FirstOpen ==
  ASSUME NEW clauses, NEW job, DOMAIN clauses \subseteq Nat \ {0},
         GoalConditionGap(TRUE, clauses, job) # 0
  PROVE  /\ GoalConditionGap(TRUE, clauses, job) \in DOMAIN clauses
         /\ IsOpen(clauses[GoalConditionGap(TRUE, clauses, job)], job)
<1> DEFINE open == {i \in DOMAIN clauses : IsOpen(clauses[i], job)}
<1>1. open # {} /\ open \subseteq Nat
  BY DEF GoalConditionGap
<1>2. GoalConditionGap(TRUE, clauses, job) = CHOOSE i \in open : \A k \in open : i <= k
  BY DEF GoalConditionGap
<1> HIDE DEF open
<1>3. GoalConditionGap(TRUE, clauses, job) \in open
  BY <1>1, <1>2, Least
<1> QED BY <1>3 DEF open

(* What is read of a resume leaves what is decided of a pair or a request.     *)
LEMMA ResumeSteps ==
  ASSUME OpenResume \/ ReadResume
  PROVE  /\ stage \in {"resume", "reading", "rereading"}
         /\ stage' \in {"reading", "rereading", "ended"}
         /\ UNCHANGED <<input, result, asked, answer, verdict, delivered>>
<1>1. CASE OpenResume
  BY <1>1 DEF OpenResume, Fails
<1>2. CASE ReadResume
  <2>1. PICK reply \in Replies[input] : ReadReply(reply)
    BY <1>2 DEF ReadResume
  <2>2. Waiting
    BY <2>1 DEF ReadReply, ReplyFails, ReplyMalformed, ReplyRefused, ReplyInvalid, ReplyKept
  <2>3. stage' \in {"reading", "rereading", "ended"}
    <3>1. CASE ReplyFails(reply)
      BY <3>1 DEF ReplyFails, Fails
    <3>2. CASE ReplyMalformed(reply)
      BY <3>2 DEF ReplyMalformed, Repeat, Fails
    <3>3. CASE ReplyRefused(reply)
      BY <3>3 DEF ReplyRefused, Repeat, Fails
    <3>4. CASE ReplyInvalid(reply)
      BY <3>4 DEF ReplyInvalid, Repeat, Fails
    <3>5. CASE ReplyKept(reply)
      BY <3>5 DEF ReplyKept, Fails
    <3> QED BY <2>1, <3>1, <3>2, <3>3, <3>4, <3>5 DEF ReadReply
  <2> QED BY <2>2, <2>3 DEF Waiting
<1> QED BY <1>1, <1>2

LEMMA ToldInvariant == Spec => []Told
<1>1. Init => Told
  BY DEF Init, Told, NoResult, Evaluated, IsPair
<1>2. Told /\ [Next]_dvars => Told'
  <2> SUFFICES ASSUME Told, [Next]_dvars PROVE Told'
    OBVIOUS
  <2>1. CASE EvaluateJob
    <3>1. stage = "job" /\ stage' \in {"applied", "ended"} /\ UNCHANGED <<input, asked, answer, verdict, delivered>>
      BY <2>1 DEF EvaluateJob
    <3>2. result' = Evaluate(input.job, input.candidate, input.clauses)
      BY <2>1 DEF EvaluateJob
    <3>3. stage' = "applied" => result'.status = "matched"
      BY <2>1 DEF EvaluateJob
    <3> QED BY <3>1, <3>2, <3>3 DEF Told, Evaluated, IsPair
  <2>2. CASE AskHr
    <3>1. /\ stage = "applied" /\ stage' \in {"ended", "asked"}
          /\ asked' = GoalConditionGap(TRUE, input.clauses, input.job)
          /\ stage' = "asked" => asked' # 0
          /\ UNCHANGED <<input, result, answer, verdict, delivered>>
      BY <2>2 DEF AskHr
    <3> QED BY <3>1 DEF Told, Evaluated, IsPair
  <2>3. ASSUME NEW text \in Text, JudgeAnswer(text) PROVE Told'
    <3>1. DOMAIN text \subseteq Nat \ {0}
      BY DecisionsAssumption DEF DecisionsAssumption
    <3> QED BY <2>3, <3>1 DEF JudgeAnswer, Told, Evaluated, IsPair
  <2>4. CASE FindDocument
    BY <2>4 DEF FindDocument, Told, Evaluated, IsPair
  <2>5. CASE OpenResume \/ ReadResume
    <3>1. /\ stage \in {"resume", "reading", "rereading"}
          /\ stage' \in {"reading", "rereading", "ended"}
          /\ UNCHANGED <<input, result, asked, answer, verdict, delivered>>
      BY <2>5, ResumeSteps
    <3> QED BY <3>1 DEF Told, Evaluated, IsPair
  <2>6. CASE UNCHANGED dvars
    BY <2>6 DEF dvars, Told, Evaluated, IsPair
  <2> QED BY <2>1, <2>2, <2>3, <2>4, <2>5, <2>6 DEF Next
<1> QED BY <1>1, <1>2, PTL DEF Spec

-----------------------------------------------------------------------------
(* Scores                                                                    *)

LEMMA Scores ==
  ASSUME NEW job, NEW candidate
  PROVE  RoleScore(job, candidate) \in {0, 40, 80, 100} /\ LevelScore(job, candidate) \in {0, 60, 100}
BY DEF RoleScore, LevelScore

LEMMA Quotient ==
  ASSUME NEW x \in Nat, NEW d \in Nat, d > 0
  PROVE  /\ x \div d \in Nat
         /\ \A t \in Nat : x \div d >= t <=> x >= t * d
<1>1. /\ x \div d \in Nat
      /\ (x \div d) * d <= x /\ x < (x \div d) * d + d
  OBVIOUS
<1>2. \A q \in Nat, t \in Nat : q * d <= x /\ x < q * d + d => (q >= t <=> x >= t * d)
  OBVIOUS
<1> QED BY <1>1, <1>2

(* A job matches if the exact sum reaches the threshold, and only then.        *)
LEMMA RoundingIsExact ==
  ASSUME NEW role \in {0, 40, 80, 100}, NEW level \in {0, 60, 100},
         NEW n \in Nat, NEW k \in Nat, n < 200, k <= n
  PROVE  Matched(TotalScore(role, level, k, n)) <=>
           (IF n = 0 THEN 0 ELSE SkillWeight * 100 * k)
             + (IF n = 0 THEN 1 ELSE n) * (RoleWeight * role + LevelWeight * level)
               >= Threshold * 100 * (IF n = 0 THEN 1 ELSE n)
<1>1. PICK rest \in Nat : RoleWeight * role + LevelWeight * level = 100 * rest
  <2>1. /\ RoleWeight * role \in {0, 1400, 2800, 3500} /\ LevelWeight * level \in {0, 1500, 2500}
    BY DEF RoleWeight, LevelWeight
  <2>2. \A a \in {0, 1400, 2800, 3500}, b \in {0, 1500, 2500} : \E rest \in 0..60 : a + b = 100 * rest
    <3> SUFFICES ASSUME NEW a \in {0, 1400, 2800, 3500}, NEW b \in {0, 1500, 2500}
                 PROVE  \E rest \in 0..60 : a + b = 100 * rest
      OBVIOUS
    <3> WITNESS (a + b) \div 100 \in 0..60
    <3> QED OBVIOUS
  <2>3. \E rest \in 0..60 : RoleWeight * role + LevelWeight * level = 100 * rest
    BY <2>1, <2>2
  <2> QED BY <2>3
<1>2. CASE n = 0
  BY <1>1, <1>2 DEF TotalScore, Matched, Threshold
<1>3. CASE n # 0
  <2>1. PICK e \in Nat : e = rest * n + 40 * k
    OBVIOUS
  <2>2. (RoleWeight * role + LevelWeight * level) * n + SkillWeight * 100 * k = 100 * e
    <3>1. (100 * rest) * n + 4000 * k = 100 * e
      BY <2>1
    <3> QED BY <1>1, <3>1 DEF SkillWeight
  <2>3. TotalScore(role, level, k, n) = (2 * (100 * e) + n) \div (2 * n)
    BY <1>3, <2>2 DEF TotalScore
  <2>4. 2 * (100 * e) + n \in Nat /\ 2 * n \in Nat /\ 2 * n > 0 /\ 6000 \in Nat
    BY <1>3
  <2>5. (2 * (100 * e) + n) \div (2 * n) >= 6000 <=> 2 * (100 * e) + n >= 6000 * (2 * n)
    BY <2>4, Quotient
  <2>6. 2 * (100 * e) + n >= 6000 * (2 * n) <=> 100 * e >= 6000 * n
    BY <1>3
  <2>7. SkillWeight * 100 * k + n * (RoleWeight * role + LevelWeight * level) = 100 * e
    <3>1. 4000 * k + n * (100 * rest) = 100 * e
      BY <2>1
    <3> QED BY <1>1, <3>1 DEF SkillWeight
  <2> QED BY <1>3, <2>3, <2>5, <2>6, <2>7 DEF Matched, Threshold
<1> QED BY <1>2, <1>3

(* No score is lost by a higher role or by more of the skills.                 *)
LEMMA TotalGrows ==
  ASSUME NEW low \in {0, 40, 80, 100}, NEW high \in {0, 40, 80, 100}, low <= high,
         NEW level \in {0, 60, 100},
         NEW n \in Nat, NEW k \in Nat, NEW m \in Nat, k <= m,
         Matched(TotalScore(low, level, k, n))
  PROVE  Matched(TotalScore(high, level, m, n))
<1>1. PICK a \in Nat : a = RoleWeight * low + LevelWeight * level
  BY DEF RoleWeight, LevelWeight
<1>2. PICK b \in Nat : b = RoleWeight * high + LevelWeight * level
  BY DEF RoleWeight, LevelWeight
<1>3. a <= b
  BY <1>1, <1>2 DEF RoleWeight, LevelWeight
<1>4. CASE n = 0
  BY <1>1, <1>2, <1>3, <1>4 DEF TotalScore, Matched, Threshold
<1>5. CASE n # 0
  <2>1. PICK x \in Nat : x = a * n + 4000 * k
    OBVIOUS
  <2>2. PICK y \in Nat : y = b * n + 4000 * m
    OBVIOUS
  <2>3. x <= y
    <3>1. a * n <= b * n
      BY <1>3
    <3>2. a * n \in Nat /\ b * n \in Nat
      OBVIOUS
    <3> QED BY <2>1, <2>2, <3>1, <3>2
  <2>4. /\ TotalScore(low, level, k, n) = (2 * x + n) \div (2 * n)
        /\ TotalScore(high, level, m, n) = (2 * y + n) \div (2 * n)
    BY <1>1, <1>2, <1>5, <2>1, <2>2 DEF TotalScore, SkillWeight
  <2>5. /\ 2 * x + n \in Nat /\ 2 * y + n \in Nat /\ 2 * n \in Nat /\ 2 * n > 0 /\ 6000 \in Nat
        /\ 2 * x + n <= 2 * y + n
    BY <1>5, <2>3
  <2>6. 2 * x + n >= 6000 * (2 * n)
    BY <2>4, <2>5, Quotient DEF Matched, Threshold
  <2>7. 2 * y + n >= 6000 * (2 * n)
    BY <2>5, <2>6
  <2> QED BY <2>4, <2>5, <2>7, Quotient DEF Matched, Threshold
<1> QED BY <1>4, <1>5

(* The rounding to two digits never decides: evaluate's round(total, 2) >= 60. *)
THEOREM RoundingDecidesNothing ==
  ASSUME FewSkills
  PROVE  Spec => []ThresholdIsExact
<1>1. Told => ThresholdIsExact
  <2> SUFFICES ASSUME Told, Evaluated, result.status # "filtered_out"
               PROVE  LET job == input.job
                          required == Cardinality(job.skills)
                          points == IF required = 0 THEN 0
                                    ELSE SkillWeight * 100
                                           * Cardinality(job.skills \cap input.candidate.skills)
                          rest == RoleWeight * RoleScore(job, input.candidate)
                                    + LevelWeight * LevelScore(job, input.candidate)
                          n == IF required = 0 THEN 1 ELSE required
                      IN result.status = "matched" <=> points + n * rest >= Threshold * 100 * n
    BY DEF ThresholdIsExact
  <2> DEFINE n == Cardinality(input.job.skills)
             k == Cardinality(input.job.skills \cap input.candidate.skills)
             role == RoleScore(input.job, input.candidate)
             level == LevelScore(input.job, input.candidate)
  <2>1. PICK Pair \in Pairs : input \in Pair
    BY DEF Told, IsPair
  <2>2. IsFiniteSet(input.job.skills) /\ n < 200
    BY <2>1, DecisionsAssumption DEF DecisionsAssumption, FewSkills
  <2>3. n \in Nat /\ k \in Nat /\ k <= n
    BY <2>2, FS_CardinalityType, FS_Intersection
  <2>4. role \in {0, 40, 80, 100} /\ level \in {0, 60, 100}
    BY Scores
  <2>5. result.status = "matched" <=> Matched(TotalScore(role, level, k, n))
    BY DEF Told, Evaluate, Covered
  <2> HIDE DEF n, k, role, level
  <2>6. Matched(TotalScore(role, level, k, n)) <=>
          (IF n = 0 THEN 0 ELSE SkillWeight * 100 * k)
            + (IF n = 0 THEN 1 ELSE n) * (RoleWeight * role + LevelWeight * level)
              >= Threshold * 100 * (IF n = 0 THEN 1 ELSE n)
    BY <2>2, <2>3, <2>4, RoundingIsExact
  <2> QED BY <2>5, <2>6 DEF n, k, role, level
<1> QED BY <1>1, ToldInvariant, PTL

(* Whatever a resume shows beside what it showed, the match remains:            *)
(* _role_score, _level_score, _skill_score and the hard filters together.       *)
THEOREM EvidenceNeverHurts == Spec => []MoreEvidenceNeverHurts
<1>1. Told => MoreEvidenceNeverHurts
  <2> SUFFICES ASSUME Told, stage = "applied", NEW s \in Skill, NEW t \in AiTerms \cup {"development"}
               PROVE  LET better == [input.candidate EXCEPT !.skills = @ \cup {s},
                                        !.words = IF @ = {} THEN @ ELSE @ \cup {t}]
                      IN Evaluate(input.job, better, input.clauses).status = "matched"
    BY DEF MoreEvidenceNeverHurts
  <2> DEFINE job == input.job
             old == input.candidate
             better == [old EXCEPT !.skills = @ \cup {s},
                                   !.words = IF @ = {} THEN @ ELSE @ \cup {t}]
  <2>1. Evaluated /\ result.status = "matched"
    BY DEF Told, Evaluated
  <2>2. PICK Pair \in Pairs : input \in Pair
    BY <2>1 DEF Told, IsPair
  <2>3. IsFiniteSet(job.skills) /\ old \in Profile
    BY <2>2, DecisionsAssumption DEF DecisionsAssumption
  <2>4. /\ better.similar = old.similar /\ better.months = old.months
        /\ better.skills = old.skills \cup {s}
        /\ better.words = IF old.words = {} THEN {} ELSE old.words \cup {t}
    BY <2>3 DEF Profile
  <2>5. HardFilterReason(job, input.clauses) = "none" /\
        Matched(TotalScore(RoleScore(job, old), LevelScore(job, old),
                           Cardinality(job.skills \cap old.skills), Cardinality(job.skills)))
    BY <2>1 DEF Told, Evaluate, Covered
  <2> HIDE DEF better, old, job
  <2>6. RoleScore(job, old) <= RoleScore(job, better)
    <3>1. CASE old.words = {}
      BY <2>4, <3>1 DEF RoleScore
    <3>2. CASE old.words # {} /\ old.similar
      BY <2>4, <3>2 DEF RoleScore
    <3>3. CASE old.words # {} /\ ~old.similar
      <4>1. better.words # {} /\ ~better.similar /\ old.words \subseteq better.words
        BY <2>4, <3>3
      <4>2. /\ old.words \cap AiTerms # {} => better.words \cap AiTerms # {}
            /\ old.words \cap job.title \cap DirectTerms # {} =>
                 better.words \cap job.title \cap DirectTerms # {}
            /\ "development" \in old.words => "development" \in better.words
        BY <4>1
      <4> QED BY <3>3, <4>1, <4>2 DEF RoleScore
    <3> QED BY <3>1, <3>2, <3>3
  <2>7. LevelScore(job, better) = LevelScore(job, old)
    <3>1. /\ "senior" \in better.words <=> "senior" \in old.words
          /\ "junior" \in better.words <=> "junior" \in old.words
      BY <2>4 DEF AiTerms, DirectTerms
    <3>2. Level(better.words, better.months) = Level(old.words, old.months)
      BY <2>4, <3>1 DEF Level
    <3> QED BY <3>2 DEF LevelScore
  <2> DEFINE k == Cardinality(job.skills \cap old.skills)
             m == Cardinality(job.skills \cap better.skills)
             n == Cardinality(job.skills)
  <2>8. n \in Nat /\ k \in Nat /\ m \in Nat /\ k <= m
    <3>1. IsFiniteSet(job.skills \cap better.skills) /\ IsFiniteSet(job.skills \cap old.skills)
      BY <2>3, FS_Intersection
    <3>2. job.skills \cap old.skills \in SUBSET (job.skills \cap better.skills)
      BY <2>4
    <3> QED BY <2>3, <3>1, <3>2, FS_CardinalityType, FS_Subset
  <2>9. Matched(TotalScore(RoleScore(job, old), LevelScore(job, old), k, n))
    BY <2>5
  <2> HIDE DEF k, m, n
  <2>10. Matched(TotalScore(RoleScore(job, better), LevelScore(job, old), m, n))
    BY <2>6, <2>8, <2>9, Scores, TotalGrows
  <2>11. Evaluate(job, better, input.clauses).status = "matched"
    BY <2>5, <2>7, <2>10 DEF Evaluate, Covered, k, m, n
  <2> QED BY <2>11 DEF better, old, job
<1> QED BY <1>1, ToldInvariant, PTL

-----------------------------------------------------------------------------
(* How pay is written                                                        *)

(* What the job and the clauses of a pair of the model may be.                 *)
LEMMA PairAssumed ==
  ASSUME IsPair
  PROVE  /\ input.job \in JobFields
         /\ DOMAIN input.clauses \subseteq Nat \ {0}
         /\ \A i \in DOMAIN input.clauses : input.clauses[i] \in GoalClause
<1>1. PICK Pair \in Pairs : input \in Pair
  BY DEF IsPair
<1> QED BY <1>1, DecisionsAssumption DEF DecisionsAssumption

(* _salary_k reads a pay in thousands and the same in yuan alike.              *)
LEMMA AmountReads ==
  ASSUME NEW pay \in Nat
  PROVE  InOtherUnit(pay) \in Nat /\ Salary(InOtherUnit(pay)) = Salary(pay)
<1> DEFINE small == 2 <= pay /\ pay <= 1000
           large == 2000 <= pay /\ pay <= 1000 * 1000 /\ pay % 1000 = 0
<1>1. pay # Unknown
  BY MatchingAssumption DEF MatchingAssumption
<1>2. CASE small
  <2>1. pay * 1000 \in Nat /\ pay * 1000 > 1000 /\ ~(pay > 1000)
    BY <1>2
  <2>2. InOtherUnit(pay) = pay * 1000
    BY <1>1, <1>2 DEF InOtherUnit
  <2> QED BY <2>1, <2>2 DEF Salary
<1>3. CASE ~small /\ large
  <2> DEFINE q == pay \div 1000
  <2>1. q \in Nat /\ pay = 1000 * q /\ ~(q > 1000) /\ pay > 1000
    BY <1>3
  <2>2. InOtherUnit(pay) = q
    BY <1>1, <1>3 DEF InOtherUnit
  <2> HIDE DEF q
  <2>3. Salary(q) = q * 1000 /\ Salary(pay) = pay /\ q * 1000 = 1000 * q
    BY <2>1 DEF Salary
  <2> QED BY <2>1, <2>2, <2>3
<1>4. CASE ~small /\ ~large
  BY <1>1, <1>4 DEF InOtherUnit
<1> QED BY <1>2, <1>3, <1>4

LEMMA PayReads ==
  ASSUME NEW pay \in Nat \cup {Unknown}
  PROVE  /\ InOtherUnit(pay) = Unknown <=> pay = Unknown
         /\ pay # Unknown => Salary(InOtherUnit(pay)) = Salary(pay)
<1>1. Unknown \notin Nat
  BY MatchingAssumption DEF MatchingAssumption
<1>2. CASE pay = Unknown
  BY <1>2 DEF InOtherUnit
<1>3. CASE pay \in Nat
  BY <1>1, <1>3, AmountReads
<1> QED BY <1>2, <1>3

(* A clause says the same in another unit.                                     *)
LEMMA Rewording ==
  ASSUME NEW clause \in GoalClause
  PROVE  LET other == Reworded(clause)
         IN /\ other.amount = Unknown <=> clause.amount = Unknown
            /\ clause.amount # Unknown =>
                 other.amount * (IF other.unit = "wan" THEN 10000 ELSE 1000)
                   = clause.amount * (IF clause.unit = "wan" THEN 10000 ELSE 1000)
            /\ other.prefer = clause.prefer /\ other.verb = clause.verb
            /\ other.topic = clause.topic
<1>1. Unknown \notin Int /\ clause.amount \in Nat \cup {Unknown}
      /\ clause.unit \in {"none", "k", "wan"}
  BY MatchingAssumption DEF MatchingAssumption, GoalClause
<1>2. CASE clause.amount = Unknown
  BY <1>2 DEF Reworded
<1>3. CASE clause.amount # Unknown /\ clause.unit = "wan"
  <2> DEFINE other == [clause EXCEPT !.amount = 10 * @, !.unit = "k"]
  <2>1. Reworded(clause) = other
    BY <1>3 DEF Reworded
  <2>2. /\ other.amount = 10 * clause.amount /\ other.unit = "k"
        /\ other.prefer = clause.prefer /\ other.verb = clause.verb /\ other.topic = clause.topic
    BY DEF GoalClause
  <2> HIDE DEF other
  <2>3. other.amount \in Nat /\ other.amount * 1000 = clause.amount * 10000
    BY <1>1, <1>3, <2>2
  <2> QED BY <1>1, <1>3, <2>1, <2>2, <2>3
<1>4. CASE clause.amount # Unknown /\ clause.unit # "wan" /\ clause.amount % 10 = 0
  <2> DEFINE other == [clause EXCEPT !.amount = @ \div 10, !.unit = "wan"]
  <2>1. Reworded(clause) = other
    BY <1>4 DEF Reworded
  <2>2. /\ other.amount = clause.amount \div 10 /\ other.unit = "wan"
        /\ other.prefer = clause.prefer /\ other.verb = clause.verb /\ other.topic = clause.topic
    BY DEF GoalClause
  <2> HIDE DEF other
  <2>3. other.amount \in Nat /\ other.amount * 10000 = clause.amount * 1000
    BY <1>1, <1>4, <2>2
  <2> QED BY <1>1, <1>4, <2>1, <2>2, <2>3
<1>5. CASE clause.amount # Unknown /\ clause.unit # "wan" /\ clause.amount % 10 # 0
  <2> DEFINE other == [clause EXCEPT !.unit = IF @ = "k" THEN "none" ELSE "k"]
  <2>1. Reworded(clause) = other
    BY <1>5 DEF Reworded
  <2>2. /\ other.amount = clause.amount /\ other.unit # "wan"
        /\ other.prefer = clause.prefer /\ other.verb = clause.verb /\ other.topic = clause.topic
    BY DEF GoalClause
  <2> HIDE DEF other
  <2> QED BY <1>1, <1>5, <2>1, <2>2
<1> QED BY <1>2, <1>3, <1>4, <1>5

(* The goal's demand and its exclusions are the same in other units.           *)
LEMMA SameFilters ==
  ASSUME NEW clauses, \A i \in DOMAIN clauses : clauses[i] \in GoalClause,
         DOMAIN clauses \subseteq Nat \ {0}
  PROVE  LET other == [i \in DOMAIN clauses |-> Reworded(clauses[i])]
         IN /\ MinimumSalary(other) = MinimumSalary(clauses)
            /\ ExcludedLocations(other) = ExcludedLocations(clauses)
<1> DEFINE other == [i \in DOMAIN clauses |-> Reworded(clauses[i])]
           demands == Demands(clauses)
           first == CHOOSE i \in demands : \A k \in demands : i <= k
<1>1. DOMAIN other = DOMAIN clauses
  OBVIOUS
<1>2. \A i \in DOMAIN clauses :
        /\ other[i].amount = Unknown <=> clauses[i].amount = Unknown
        /\ clauses[i].amount # Unknown =>
             other[i].amount * (IF other[i].unit = "wan" THEN 10000 ELSE 1000)
               = clauses[i].amount * (IF clauses[i].unit = "wan" THEN 10000 ELSE 1000)
        /\ other[i].prefer = clauses[i].prefer /\ other[i].verb = clauses[i].verb
        /\ other[i].topic = clauses[i].topic
  <2> SUFFICES ASSUME NEW i \in DOMAIN clauses
               PROVE  /\ other[i].amount = Unknown <=> clauses[i].amount = Unknown
                      /\ clauses[i].amount # Unknown =>
                           other[i].amount * (IF other[i].unit = "wan" THEN 10000 ELSE 1000)
                             = clauses[i].amount * (IF clauses[i].unit = "wan" THEN 10000 ELSE 1000)
                      /\ other[i].prefer = clauses[i].prefer /\ other[i].verb = clauses[i].verb
                      /\ other[i].topic = clauses[i].topic
    OBVIOUS
  <2>1. other[i] = Reworded(clauses[i]) /\ clauses[i] \in GoalClause
    OBVIOUS
  <2> HIDE DEF other
  <2> QED BY <2>1, Rewording
<1> HIDE DEF other
<1>3. \A i \in DOMAIN clauses : Soft(other, i) <=> Soft(clauses, i)
  BY <1>1, <1>2 DEF Soft
<1>4. Demands(other) = demands /\ demands \subseteq DOMAIN clauses
  BY <1>1, <1>2 DEF Demands
<1>5. ExcludedLocations(other) = ExcludedLocations(clauses)
  <2>1. {k \in DOMAIN other : other[k].verb = "exclude" /\ ~Soft(other, k)}
          = {k \in DOMAIN clauses : clauses[k].verb = "exclude" /\ ~Soft(clauses, k)}
    BY <1>1, <1>2, <1>3
  <2>2. \A x : x \in ExcludedLocations(other) <=> x \in ExcludedLocations(clauses)
    BY <1>2, <2>1 DEF ExcludedLocations
  <2> QED BY <2>2
<1>6. CASE demands = {}
  BY <1>4, <1>5, <1>6 DEF MinimumSalary, other
<1>7. CASE demands # {}
  <2>1. first \in demands
    BY <1>4, <1>7, Least
  <2>2. MinimumSalary(other) =
          IF Soft(other, first) THEN Unknown
          ELSE other[first].amount * (IF other[first].unit = "wan" THEN 10000 ELSE 1000)
    BY <1>4, <1>7 DEF MinimumSalary
  <2>3. MinimumSalary(clauses) =
          IF Soft(clauses, first) THEN Unknown
          ELSE clauses[first].amount * (IF clauses[first].unit = "wan" THEN 10000 ELSE 1000)
    BY <1>7 DEF MinimumSalary
  <2>4. first \in DOMAIN clauses /\ clauses[first].amount # Unknown
    BY <1>4, <2>1 DEF Demands
  <2> HIDE DEF first
  <2>5. MinimumSalary(other) = MinimumSalary(clauses)
    BY <1>2, <1>3, <2>2, <2>3, <2>4
  <2> QED BY <1>5, <2>5 DEF other
<1> QED BY <1>6, <1>7

(* The round decides alike however the pay of the job and the demand of the     *)
(* goal are written: _salary_k, _parse_filters and _hard_filter_reason.         *)
THEOREM NotationsDecideNothing == Spec => []NotationNeverDecides
<1>1. Told => NotationNeverDecides
  <2> DEFINE job == [input.job EXCEPT !.min = InOtherUnit(@), !.max = InOtherUnit(@)]
             clauses == [i \in DOMAIN input.clauses |-> Reworded(input.clauses[i])]
  <2> SUFFICES ASSUME Told, Evaluated, NEW j \in {input.job, job}, NEW c \in {input.clauses, clauses}
               PROVE  Evaluate(j, input.candidate, c) = result
    BY DEF NotationNeverDecides
  <2>1. IsPair /\ result = Evaluate(input.job, input.candidate, input.clauses)
    BY DEF Told
  <2>2. /\ MinimumSalary(c) = MinimumSalary(input.clauses)
        /\ ExcludedLocations(c) = ExcludedLocations(input.clauses)
    BY <2>1, PairAssumed, SameFilters
  <2> HIDE DEF clauses
  <2>3. input.job \in JobFields
    BY <2>1, PairAssumed
  <2>4. /\ j.place = input.job.place /\ j.title = input.job.title /\ j.words = input.job.words
        /\ j.months = input.job.months /\ j.skills = input.job.skills
        /\ \/ j.min = input.job.min /\ j.max = input.job.max
           \/ j.min = InOtherUnit(input.job.min) /\ j.max = InOtherUnit(input.job.max)
    BY <2>3 DEF JobFields
  <2>5. input.job.min \in Nat \cup {Unknown} /\ input.job.max \in Nat \cup {Unknown}
    BY <2>3 DEF JobFields
  <2> HIDE DEF job
  <2>6. /\ JobSalary(j) = Unknown <=> JobSalary(input.job) = Unknown
        /\ JobSalary(j) # Unknown => Salary(JobSalary(j)) = Salary(JobSalary(input.job))
    BY <2>4, <2>5, PayReads DEF JobSalary
  <2>7. Underpays(j, c) <=> Underpays(input.job, input.clauses)
    BY <2>2, <2>6 DEF Underpays
  <2>8. HardFilterReason(j, c) = HardFilterReason(input.job, input.clauses)
    BY <2>2, <2>4, <2>7 DEF HardFilterReason
  <2>9. /\ RoleScore(j, input.candidate) = RoleScore(input.job, input.candidate)
        /\ LevelScore(j, input.candidate) = LevelScore(input.job, input.candidate)
        /\ Covered(j, input.candidate) = Covered(input.job, input.candidate)
    BY <2>4 DEF RoleScore, LevelScore, Covered
  <2> QED BY <2>1, <2>8, <2>9 DEF Evaluate
<1> QED BY <1>1, ToldInvariant, PTL

-----------------------------------------------------------------------------
(* Answers                                                                   *)

(* The clause asked about.                                                     *)
LEMMA AskedClause ==
  ASSUME Told, asked # 0
  PROVE  /\ asked \in DOMAIN input.clauses /\ IsOpen(input.clauses[asked], input.job)
         /\ input.clauses[asked].verb \in {"exclude", "reject", "want"}
<1>1. DOMAIN input.clauses \subseteq Nat \ {0}
  BY PairAssumed DEF Told
<1>2. asked = GoalConditionGap(TRUE, input.clauses, input.job)
  BY DEF Told
<1>3. asked \in DOMAIN input.clauses /\ IsOpen(input.clauses[asked], input.job)
  BY <1>1, <1>2, FirstOpen
<1>4. IsPair
  BY DEF Told
<1>5. \A i \in DOMAIN input.clauses : input.clauses[i].verb \in {"exclude", "reject", "want"}
  BY <1>4, PairAssumed DEF GoalClause
<1> QED BY <1>3, <1>5

(* An answer of any length decides exactly if its yes and no words agree, and   *)
(* decides as the condition demands: parse_binary_answer, _judge_goal_answer.   *)
THEOREM AnswersDecide == Spec => []AnswerDecides
<1>1. Told => AnswerDecides
  <2> SUFFICES ASSUME Told, stage # "job", verdict # "none"
               PROVE  LET Negated(i) == i > 1 /\ answer[i - 1] = "not"
                          said == {Negated(i) : i \in {k \in DOMAIN answer : answer[k] = "yes"}}
                          refused == input.clauses[asked].verb # "want"
                      IN /\ verdict = "pending" <=> Cardinality(said) # 1
                         /\ verdict = "stop" => said = {~refused}
                         /\ verdict = "continue" => said = {refused}
    BY DEF AnswerDecides
  <2> DEFINE Negated(i) == i > 1 /\ answer[i - 1] = "not"
             said == {Negated(i) : i \in {k \in DOMAIN answer : answer[k] = "yes"}}
             refused == input.clauses[asked].verb # "want"
             yes == \E i \in DOMAIN answer : IsYesAt(answer, i)
             no == \E i \in DOMAIN answer : IsNoAt(answer, i)
  <2>1. /\ DOMAIN answer \subseteq Nat \ {0}
        /\ verdict = Verdict(input.clauses[asked], ParseBinaryAnswer(answer))
    BY DEF Told
  <2>2. said \subseteq BOOLEAN
    OBVIOUS
  <2>3. yes <=> FALSE \in said
    <3>1. \A i \in DOMAIN answer : IsYesAt(answer, i) <=> (answer[i] = "yes" /\ ~Negated(i))
      BY <2>1 DEF IsYesAt
    <3> QED BY <3>1
  <2>4. no <=> TRUE \in said
    <3>1. \A i \in DOMAIN answer : IsNoAt(answer, i) <=> (answer[i] = "yes" /\ Negated(i))
      BY <2>1 DEF IsNoAt
    <3> QED BY <3>1
  <2>5. ParseBinaryAnswer(answer) = IF yes <=> no THEN "unclear" ELSE IF yes THEN "yes" ELSE "no"
    BY DEF ParseBinaryAnswer
  <2> HIDE DEF said, yes, no
  <2>6. Cardinality(said) = 1 <=> ~(yes <=> no)
    <3>1. IsFiniteSet(said)
      <4>1. IsFiniteSet({TRUE, FALSE})
        <5>1. IsFiniteSet({TRUE} \cup {FALSE})
          BY FS_Singleton, FS_AddElement
        <5> QED BY <5>1
      <4>2. said \in SUBSET {TRUE, FALSE}
        BY <2>2
      <4> QED BY <4>1, <4>2, FS_Subset
    <3>2. Cardinality(said) = 1 <=> \E x : said = {x}
      BY <3>1, FS_Singleton
    <3>3. (\E x : said = {x}) <=> said = {TRUE} \/ said = {FALSE}
      BY <2>2, Zenon
    <3>4. said = {TRUE} <=> TRUE \in said /\ FALSE \notin said
      BY <2>2, Zenon
    <3>5. said = {FALSE} <=> FALSE \in said /\ TRUE \notin said
      BY <2>2, Zenon
    <3> QED BY <2>3, <2>4, <3>2, <3>3, <3>4, <3>5, Zenon
  <2>7. yes /\ ~no => said = {FALSE}
    BY <2>2, <2>3, <2>4, Zenon
  <2>8. no /\ ~yes => said = {TRUE}
    BY <2>2, <2>3, <2>4, Zenon
  <2>9. StopOnYes(input.clauses[asked]) <=> refused
    <3>1. input.clauses[asked].verb \in {"exclude", "reject", "want"}
      BY AskedClause DEF Told
    <3> QED BY <3>1 DEF StopOnYes
  <2>10. ASSUME yes <=> no
         PROVE  verdict = "pending" /\ Cardinality(said) # 1
    BY <2>1, <2>5, <2>6, <2>10 DEF Verdict
  <2>11. ASSUME ~(yes <=> no)
         PROVE  /\ verdict # "pending" /\ Cardinality(said) = 1
                /\ verdict = "stop" => said = {~refused}
                /\ verdict = "continue" => said = {refused}
    <3>1. CASE yes /\ refused
      <4>1. verdict = "stop" /\ said = {FALSE} /\ (~refused) = FALSE
        BY <2>1, <2>5, <2>7, <2>9, <2>11, <3>1 DEF Verdict
      <4> QED BY <2>6, <2>11, <4>1
    <3>2. CASE yes /\ ~refused
      <4>1. verdict = "continue" /\ said = {FALSE} /\ refused = FALSE
        BY <2>1, <2>5, <2>7, <2>9, <2>11, <3>2 DEF Verdict
      <4> QED BY <2>6, <2>11, <4>1
    <3>3. CASE ~yes /\ refused
      <4>1. verdict = "continue" /\ said = {TRUE} /\ refused = TRUE
        BY <2>1, <2>5, <2>8, <2>9, <2>11, <3>3 DEF Verdict
      <4> QED BY <2>6, <2>11, <4>1
    <3>4. CASE ~yes /\ ~refused
      <4>1. verdict = "stop" /\ said = {TRUE} /\ (~refused) = TRUE
        <5>1. ParseBinaryAnswer(answer) = "no" /\ StopOnYes(input.clauses[asked]) = FALSE
          BY <2>5, <2>9, <2>11, <3>4 DEF StopOnYes
        <5>2. verdict = "stop"
          BY <2>1, <5>1 DEF Verdict
        <5>3. said = {TRUE}
          BY <2>8, <2>11, <3>4
        <5> QED BY <3>4, <5>2, <5>3
      <4> QED BY <2>6, <2>11, <4>1
    <3> QED BY <3>1, <3>2, <3>3, <3>4
  <2> QED BY <2>10, <2>11 DEF said
<1> QED BY <1>1, ToldInvariant, PTL

-----------------------------------------------------------------------------
(* The resume                                                                *)

(* The facts of a profile, everything but the derived years.                  *)
SameFacts(p, q) ==
  /\ p.scalar = q.scalar /\ p.skills = q.skills
  /\ p.work = q.work /\ p.projects = q.projects

Technologies(p) == (UNION {project.technologies : project \in p.projects}) \ {Blank}

(* A mended profile stays one, and what is kept was found to have no fault.    *)
Founded ==
  /\ stage \in {"resume", "reading", "rereading"} \/ Read => input \in DOMAIN Replies
  /\ recovery \in Profiles
  /\ Read => \E p \in Profiles : /\ SameFacts(profile, p) /\ Technologies(p) \subseteq p.skills
                                /\ InvalidFacts(input, p) = {}
                                /\ profile.years = YearsOfExperience(p.work, Today)

LEMMA NoProfileTyped == NoProfile \in Profiles
  BY DEF NoProfile, Profiles, UnknownYears

LEMMA BaseTyped ==
  ASSUME NEW source \in DOMAIN Replies
  PROVE  Base(source) \in Profiles
<1>1. source.shown \in [Scalars -> STRING \cup {Null}]
  BY DecisionsAssumption DEF DecisionsAssumption
<1> QED BY <1>1, NoProfileTyped DEF Base, Profiles

LEMMA EducatedTyped ==
  ASSUME NEW source \in DOMAIN Replies, NEW p \in Profiles
  PROVE  Educated(source, p) \in Profiles
<1>1. source.shown["education"] \in STRING \cup {Null}
  BY DecisionsAssumption DEF DecisionsAssumption, Scalars
<1>2. p.scalar \in [Scalars -> STRING \cup {Null}]
  BY DEF Profiles
<1>3. [p.scalar EXCEPT !["education"] = source.shown["education"]] \in [Scalars -> STRING \cup {Null}]
  BY <1>1, <1>2
<1>4. [p EXCEPT !.scalar = [p.scalar EXCEPT !["education"] = source.shown["education"]]] \in Profiles
  BY <1>3 DEF Profiles
<1> QED BY <1>4 DEF Educated

LEMMA RecoveredTyped ==
  ASSUME NEW p \in Profiles, NEW why, NEW reply \in Profiles
  PROVE  Recovered(p, why, reply) \in Profiles
  BY DEF Recovered, Profiles

(* The technologies of the projects are skills: consolidate_explicit_skills.   *)
LEMMA ConsolidatedTyped ==
  ASSUME NEW p \in Profiles
  PROVE  /\ Consolidated(p) \in Profiles
         /\ Technologies(Consolidated(p)) \subseteq Consolidated(p).skills
<1>1. Technologies(p) \subseteq STRING
  BY DEF Technologies, Profiles
<1>2. Consolidated(p) = [p EXCEPT !.skills = p.skills \cup Technologies(p)]
  BY DEF Consolidated, Technologies
<1>3. /\ Consolidated(p) \in Profiles
      /\ Consolidated(p).projects = p.projects
      /\ Consolidated(p).skills = p.skills \cup Technologies(p)
  BY <1>1, <1>2 DEF Profiles
<1> QED BY <1>3 DEF Technologies

(* Deriving the years changes no fact of a profile that is consolidated.       *)
LEMMA YearsChangeNoFact ==
  ASSUME NEW p \in Profiles, NEW years, Technologies(p) \subseteq p.skills
  PROVE  /\ SameFacts(Consolidated([p EXCEPT !.years = years]), p)
         /\ Consolidated([p EXCEPT !.years = years]).years = years
<1> DEFINE q == [p EXCEPT !.years = years]
<1>1. /\ q.scalar = p.scalar /\ q.skills = p.skills /\ q.work = p.work /\ q.projects = p.projects
      /\ DOMAIN q = DOMAIN p /\ q.years = years
  BY DEF Profiles
<1>2. Technologies(q) = Technologies(p)
  BY <1>1 DEF Technologies
<1>3. Consolidated(q) = [q EXCEPT !.skills = q.skills \cup Technologies(q)]
  BY DEF Consolidated, Technologies
<1>4. {"scalar", "skills", "work", "projects", "years"} \subseteq DOMAIN q
  BY <1>1 DEF Profiles
<1> HIDE DEF q
<1>5. /\ Consolidated(q).scalar = q.scalar /\ Consolidated(q).work = q.work
      /\ Consolidated(q).projects = q.projects
      /\ Consolidated(q).skills = q.skills \cup Technologies(q)
      /\ Consolidated(q).years = q.years
  BY <1>3, <1>4
<1> QED BY <1>1, <1>2, <1>5 DEF SameFacts, q

LEMMA FoundedInvariant == Spec => []Founded
<1>1. Init => Founded
  BY NoProfileTyped DEF Init, Founded, Read
<1>2. Founded /\ [Next]_dvars => Founded'
  <2> SUFFICES ASSUME Founded, [Next]_dvars PROVE Founded'
    OBVIOUS
  <2>1. CASE EvaluateJob \/ AskHr \/ (\E text \in Text : JudgeAnswer(text)) \/ FindDocument
    <3>1. UNCHANGED <<input, rvars>> /\ stage' \in {"applied", "asked", "ended"}
      BY <2>1 DEF EvaluateJob, AskHr, JudgeAnswer, FindDocument
    <3> QED BY <3>1 DEF Founded, rvars, Read
  <2>2. CASE OpenResume
    <3>1. input \in DOMAIN Replies /\ UNCHANGED <<input, profile>>
      BY <2>2 DEF OpenResume, Founded
    <3>2. recovery' \in Profiles
      BY <2>2, <3>1, BaseTyped DEF OpenResume, Founded
    <3> QED BY <3>1, <3>2 DEF Founded, Read
  <2>3. CASE ReadResume
    <3>1. PICK reply \in Replies[input] : ReadReply(reply)
      BY <2>3 DEF ReadResume
    <3>2. input \in DOMAIN Replies
      BY <2>3 DEF ReadResume, Founded
    <3>3. UNCHANGED input
      BY <3>1 DEF ReadReply, ReplyFails, ReplyMalformed, ReplyRefused, ReplyInvalid, ReplyKept, Waiting
    <3>4. ASSUME reply.kind = "profile"
          PROVE  /\ Proposed(reply) \in Profiles
                 /\ Technologies(Proposed(reply)) \subseteq Proposed(reply).skills
      <4>1. reply.profile \in Profiles
        BY <3>1, <3>2, <3>4, DecisionsAssumption DEF DecisionsAssumption
      <4>2. Educated(input, reply.profile) \in Profiles /\ Recovered(recovery, reasons, reply.profile) \in Profiles
        BY <3>2, <4>1, EducatedTyped, RecoveredTyped DEF Founded
      <4> QED BY <4>2, ConsolidatedTyped DEF Proposed
    <3>5. CASE ReplyFails(reply) \/ ReplyMalformed(reply) \/ ReplyRefused(reply)
      <4>1. UNCHANGED <<recovery, profile>>
        BY <3>5 DEF ReplyFails, ReplyMalformed, ReplyRefused, Repeat
      <4> QED BY <3>2, <3>3, <4>1 DEF Founded, Read
    <3>6. CASE ReplyInvalid(reply)
      <4>1. UNCHANGED profile /\ recovery' \in Profiles
        BY <3>4, <3>6 DEF ReplyInvalid, Repeat, Founded
      <4> QED BY <3>2, <3>3, <4>1 DEF Founded, Read
    <3>7. CASE ReplyKept(reply)
      <4> DEFINE p == Proposed(reply)
                 kept == Consolidated([p EXCEPT !.years = YearsOfExperience(p.work, Today)])
      <4>1. /\ reply.kind = "profile" /\ InvalidFacts(input, p) = {}
            /\ UNCHANGED recovery /\ (profile' = kept \/ profile' = profile)
        BY <3>7 DEF ReplyKept
      <4>2. p \in Profiles /\ Technologies(p) \subseteq p.skills
        BY <3>4, <4>1
      <4> HIDE DEF p
      <4>3. SameFacts(kept, p) /\ kept.years = YearsOfExperience(p.work, Today)
        BY <4>2, YearsChangeNoFact
      <4> HIDE DEF kept
      <4>4. CASE profile' = kept
        BY <3>2, <3>3, <4>1, <4>2, <4>3, <4>4 DEF Founded, Read
      <4>5. CASE profile' = profile
        BY <3>2, <3>3, <4>1, <4>5 DEF Founded, Read
      <4> QED BY <4>1, <4>4, <4>5
    <3> QED BY <3>1, <3>5, <3>6, <3>7 DEF ReadReply
  <2>4. CASE UNCHANGED dvars
    BY <2>4 DEF dvars, rvars, Founded, Read
  <2> QED BY <2>1, <2>2, <2>3, <2>4 DEF Next
<1> QED BY <1>1, <1>2, PTL DEF Spec

(* What it means that _invalid_explicit_source_facts finds nothing.            *)
LEMMA NoComplaint ==
  ASSUME NEW source, NEW p, InvalidFacts(source, p) = {}
  PROVE  /\ "work" \in source.headings => TellsOfWork(p)
         /\ "projects" \in source.headings => p.projects # {}
         /\ "skills" \in source.headings => p.skills # {}
         /\ \A f \in Scalars \cap source.headings : Stated(p.scalar[f])
         /\ \A f \in Scalars : p.scalar[f] = Null \/ Supports(source, p.scalar[f])
         /\ \A i \in DOMAIN p.work : \A v \in {p.work[i].company, p.work[i].title} \ {Null} :
              Supports(source, v)
         /\ \A i \in DOMAIN p.work : Stated(p.work[i].company) =>
              ~(Times(source, p.work[i].company) < Cardinality(Jobs(p, p.work[i].company)))
         /\ \A project \in p.projects : Supports(source, project.name)
         /\ \A s \in p.skills : Supports(source, s)
<1>1. \A r \in Reasons : ~Complains(r, source, p)
  BY DEF InvalidFacts
<1>2. ~Complains("work_experience", source, p) /\ ~Complains("project_experience", source, p)
      /\ ~Complains("skills", source, p) /\ ~Complains("scalar", source, p)
  BY <1>1 DEF Reasons, NeedsRecovery, NeedsWork, NeedsProjects, NeedsSkills
<1>3. ~Complains("unsupported_scalar", source, p) /\ ~Complains("unsupported_work", source, p)
      /\ ~Complains("unsupported_repeated_company", source, p)
      /\ ~Complains("unsupported_project_name", source, p) /\ ~Complains("unsupported_skill", source, p)
  BY <1>1 DEF Reasons, NeedsRecovery, NeedsWork, NeedsProjects, NeedsSkills
<1>4. /\ "work" \in source.headings => TellsOfWork(p)
      /\ "projects" \in source.headings => p.projects # {}
      /\ "skills" \in source.headings => p.skills # {}
      /\ \A f \in Scalars \cap source.headings : Stated(p.scalar[f])
  BY <1>2 DEF Complains
<1>5. \A f \in Scalars : p.scalar[f] = Null \/ Supports(source, p.scalar[f])
  BY <1>3 DEF Complains
<1>6. \A i \in DOMAIN p.work : \A v \in {p.work[i].company, p.work[i].title} \ {Null} :
        Supports(source, v)
  BY <1>3 DEF Complains
<1>7. \A i \in DOMAIN p.work : Stated(p.work[i].company) =>
        ~(Times(source, p.work[i].company) < Cardinality(Jobs(p, p.work[i].company)))
  BY <1>3 DEF Complains
<1>8. /\ \A project \in p.projects : Supports(source, project.name)
      /\ \A s \in p.skills : Supports(source, s)
  BY <1>3 DEF Complains
<1> QED BY <1>4, <1>5, <1>6, <1>7, <1>8

(* No company has more entries than the text has mentions of it.               *)
LEMMA CompaniesOccur ==
  ASSUME NEW source \in DOMAIN Replies, NEW p \in Profiles, InvalidFacts(source, p) = {},
         NEW i \in DOMAIN p.work, p.work[i].company # Null
  PROVE  Cardinality(Jobs(p, p.work[i].company)) <= Times(source, p.work[i].company)
<1> DEFINE company == p.work[i].company
<1>1. Supports(source, company)
  BY NoComplaint
<1>2. Stated(company)
  BY <1>1 DEF Supports, Stated
<1>3. ~(Times(source, company) < Cardinality(Jobs(p, company)))
  BY <1>2, NoComplaint
<1>4. Times(source, company) \in Nat
  BY DecisionsAssumption DEF DecisionsAssumption, Times
<1>5. Cardinality(Jobs(p, company)) \in Nat
  <2>1. DOMAIN p.work = 1..Len(p.work) /\ Len(p.work) \in Nat
    BY DEF Profiles
  <2>2. IsFiniteSet(1..Len(p.work))
    BY <2>1, FS_Interval
  <2>3. Jobs(p, company) \in SUBSET (1..Len(p.work))
    BY <2>1 DEF Jobs
  <2> QED BY <2>2, <2>3, FS_Subset, FS_CardinalityType
<1> HIDE DEF company
<1>6. Cardinality(Jobs(p, company)) <= Times(source, company)
  BY <1>3, <1>4, <1>5
<1> QED BY <1>6 DEF company

(* What the resume shows is there, and is what matching asks of a profile.     *)
LEMMA ShownIsEnough ==
  ASSUME NEW source, NEW p \in Profiles, InvalidFacts(source, p) = {},
         Stated(p.scalar["full_name"]), "education" \in source.headings,
         {"phone", "email"} \cap source.headings # {}, {"work", "projects"} \cap source.headings # {}
  PROVE  MatchingReady(p)
<1>1. \A f \in Scalars \cap source.headings : Stated(p.scalar[f])
  BY NoComplaint
<1>2. Stated(p.scalar["education"]) /\ \E f \in {"phone", "email"} : Stated(p.scalar[f])
  BY <1>1 DEF Scalars
<1>3. TellsOfWork(p) \/ \E project \in p.projects : Stated(project.name)
  <2>1. CASE "work" \in source.headings
    BY <2>1, NoComplaint
  <2>2. CASE "projects" \in source.headings
    <3>1. PICK project \in p.projects : TRUE
      BY <2>2, NoComplaint
    <3>2. Supports(source, project.name) /\ project.name \in STRING
      BY NoComplaint DEF Profiles
    <3>3. Stated(project.name)
      BY <3>2, ProfileAssumption DEF Supports, Stated, ProfileAssumption
    <3> QED BY <3>3
  <2> QED BY <2>1, <2>2
<1> QED BY <1>2, <1>3 DEF MatchingReady

(* Whatever the language model answers to one request or two, a profile that    *)
(* is kept says nothing the resume does not say and lacks nothing it shows.     *)
THEOREM ProfilesAreFaithful == Spec => []ProfileIsFaithful
<1>1. Founded => ProfileIsFaithful
  <2> SUFFICES ASSUME Founded, Read PROVE ProfileIsFaithful
    BY DEF ProfileIsFaithful
  <2> DEFINE jobs == {profile.work[i] : i \in DOMAIN profile.work}
             claims == {profile.scalar[f] : f \in Scalars} \cup profile.skills
                         \cup {j.company : j \in jobs} \cup {j.title : j \in jobs}
                         \cup {project.name : project \in profile.projects}
                         \cup UNION {project.technologies \ {Blank} : project \in profile.projects}
  <2>1. PICK p \in Profiles : /\ SameFacts(profile, p) /\ Technologies(p) \subseteq p.skills
                              /\ InvalidFacts(input, p) = {}
    BY DEF Founded
  <2>2. /\ profile.scalar = p.scalar /\ profile.skills = p.skills
        /\ profile.work = p.work /\ profile.projects = p.projects
    BY <2>1 DEF SameFacts
  <2>3. input \in DOMAIN Replies
    BY DEF Founded
  <2>4. \A value \in claims \ {Null} : Supports(input, value)
    <3>1. \A f \in Scalars : p.scalar[f] = Null \/ Supports(input, p.scalar[f])
      BY <2>1, NoComplaint
    <3>2. \A j \in jobs : \A v \in {j.company, j.title} \ {Null} : Supports(input, v)
      BY <2>1, <2>2, NoComplaint
    <3>3. /\ \A project \in p.projects : Supports(input, project.name)
          /\ \A s \in p.skills : Supports(input, s)
      BY <2>1, NoComplaint
    <3>4. UNION {project.technologies \ {Blank} : project \in profile.projects} \subseteq p.skills
      <4>1. ASSUME NEW project \in profile.projects, NEW x \in project.technologies \ {Blank}
            PROVE  x \in p.skills
        <5>1. x \in Technologies(p)
          BY <2>2 DEF Technologies
        <5> QED BY <5>1, <2>1
      <4> QED BY <4>1
    <3> HIDE DEF jobs
    <3> QED BY <2>2, <3>1, <3>2, <3>3, <3>4
  <2>5. \A j \in jobs : j.company # Null =>
          Cardinality(Jobs(profile, j.company)) <= Times(input, j.company)
    <3>1. \A i \in DOMAIN p.work : p.work[i].company # Null =>
            Cardinality(Jobs(p, p.work[i].company)) <= Times(input, p.work[i].company)
      BY <2>1, <2>3, CompaniesOccur
    <3>2. \A c : Jobs(profile, c) = Jobs(p, c)
      BY <2>2 DEF Jobs
    <3> QED BY <2>2, <3>1, <3>2
  <2>6. "skills" \in input.headings => profile.skills # {}
    BY <2>1, <2>2, NoComplaint
  <2>7. /\ Stated(profile.scalar["full_name"]) /\ "education" \in input.headings
        /\ {"phone", "email"} \cap input.headings # {}
        /\ {"work", "projects"} \cap input.headings # {}
        => MatchingReady(profile)
    <3>1. MatchingReady(profile) <=> MatchingReady(p)
      BY <2>2 DEF MatchingReady, TellsOfWork
    <3> QED BY <2>1, <2>2, <3>1, ShownIsEnough
  <2> QED BY <2>4, <2>5, <2>6, <2>7 DEF ProfileIsFaithful
<1> QED BY <1>1, FoundedInvariant, PTL

(* The experience of a profile that is kept is the time in which there was any  *)
(* work, whatever the entries are: derive_years_of_experience and its merge.    *)
THEOREM ExperienceIsCovered == Spec => []ExperienceIsCoveredTime
<1>1. Founded => ExperienceIsCoveredTime
  <2> SUFFICES ASSUME Founded, Read
               PROVE  LET months == Cardinality(Worked(profile.work, Today))
                      IN profile.years = IF months = 0 THEN UnknownYears ELSE Duration(months)
    BY DEF ExperienceIsCoveredTime, Worked, Dated, EndOf
  <2>1. PICK p \in Profiles : /\ SameFacts(profile, p)
                              /\ profile.years = YearsOfExperience(p.work, Today)
    BY DEF Founded
  <2>2. Today \in Nat
    BY DecisionsAssumption DEF DecisionsAssumption
  <2>3. LET months == Cardinality(Worked(p.work, Today))
        IN YearsOfExperience(p.work, Today) = IF months = 0 THEN UnknownYears ELSE Duration(months)
    BY <2>2, YearsAreWorked
  <2> QED BY <2>1, <2>3 DEF SameFacts
<1> QED BY <1>1, FoundedInvariant, PTL
=============================================================================
