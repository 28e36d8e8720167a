----------------------------- MODULE ResumeProfile -----------------------------
(***************************************************************************)
(* What is read of a resume: the schema a profile has to meet, the facts   *)
(* it has to show because the resume's text shows them, the second request *)
(* for what was wrong, and the experience derived from the dates.          *)
(* A value is a name or a text up to the normalisation the code compares   *)
(* with; a month is the number of months since year 0.                     *)
(***************************************************************************)
EXTENDS Integers, Sequences, FiniteSetsExt

CONSTANTS
  Null,     \* a field left out
  Present   \* the end of a current role

ASSUME ProfileAssumption == Null # Present /\ {Null, Present} \cap (Int \cup STRING) = {}

\* White space; the name of a field of the schema in place of a value.
Blank == "blank"
Reserved == "reserved"

Scalars == {"full_name", "phone", "email", "education"}
Stated(value) == value \notin {Null, Blank}

\* work: [type, company, title, text, start, end], text telling whether there is a
\* summary or a highlight; projects: [name, technologies]; other: are there titles or
\* expectations?
Profiles == [scalar : [Scalars -> STRING \cup {Null}], skills : SUBSET STRING,
             work : Seq([type : {"work", "internship"}, company : STRING \cup {Null},
                         title : STRING \cup {Null}, text : BOOLEAN,
                         start : Nat \cup {Null, Present}, end : Nat \cup {Null, Present}]),
             projects : SUBSET [name : STRING, technologies : SUBSET STRING],
             other : BOOLEAN, years : [n : Nat, unit : {"unknown", "months", "years"}]]

UnknownYears == [n |-> 0, unit |-> "unknown"]
NoProfile == [scalar |-> [f \in Scalars |-> Null], skills |-> {}, work |-> <<>>,
              projects |-> {}, other |-> FALSE, years |-> UnknownYears]

Tells(item) == item.company # Null \/ item.title # Null \/ item.text
TellsOfWork(profile) == \E i \in DOMAIN profile.work : Tells(profile.work[i])

-----------------------------------------------------------------------------
(* The schema *)

\* mutant: the technologies of the projects stay where they are.
Unconsolidated(profile) == profile
\* The technologies of the projects are skills.
Consolidated(profile) ==
  [profile EXCEPT !.skills = @ \cup ((UNION {p.technologies : p \in profile.projects}) \ {Blank})]

\* A profile is accepted if it holds a fact, and no field's name for education.
Accepted(profile) ==
  /\ profile.scalar["education"] # Reserved
  /\ \/ \E f \in Scalars : Stated(profile.scalar[f])
     \/ profile.other
     \/ profile.skills # {}
     \/ TellsOfWork(profile)
     \/ profile.projects # {}
     \/ profile.years # UnknownYears

-----------------------------------------------------------------------------
(* The resume's text: headings, the sections (and the kinds of contact) it    *)
(* shows; times, how often a value occurs in the text that values are held    *)
(* against; pieces, the values of which only the words occur; canonical, is   *)
(* that text the PDF's own?  shown, the scalars that are found without help.  *)

Times(source, value) == IF value \in DOMAIN source.times THEN source.times[value] ELSE 0

Supports(source, value) == value # Blank /\ value \in DOMAIN source.times \cup source.pieces

Base(source) == [NoProfile EXCEPT !.scalar = source.shown]

\* The reply, or what its education should have been.
Educated(source, profile) ==
  IF profile.scalar["education"] = Reserved /\ source.shown["education"] # Null
  THEN [profile EXCEPT !.scalar["education"] = source.shown["education"]]
  ELSE profile

Jobs(profile, company) == {i \in DOMAIN profile.work : profile.work[i].company = company}

\* What is missing or unfounded in a profile: the scalars by one reason, as well as
\* the companies and titles.
Complains(reason, source, profile) ==
  LET shows(section) == section \in source.headings
      names(i) == {profile.work[i].company, profile.work[i].title} \ {Null}
  IN CASE reason = "work_experience" -> shows("work") /\ ~TellsOfWork(profile)
       [] reason = "project_experience" -> shows("projects") /\ profile.projects = {}
       [] reason = "skills" -> shows("skills") /\ profile.skills = {}
       [] reason = "scalar" ->
            \E f \in Scalars \cap source.headings : ~Stated(profile.scalar[f])
       [] reason = "unsupported_scalar" ->
            \E f \in Scalars : /\ profile.scalar[f] # Null
                               /\ ~Supports(source, profile.scalar[f])
       [] reason = "unsupported_work" ->
            \E i \in DOMAIN profile.work : \E v \in names(i) : ~Supports(source, v)
       [] reason = "unsupported_repeated_company" ->
            \E i \in DOMAIN profile.work :
              LET company == profile.work[i].company
              IN /\ Stated(company)
                 /\ Times(source, company) < Cardinality(Jobs(profile, company))
       [] reason = "unsupported_project_name" ->
            \E p \in profile.projects : ~Supports(source, p.name)
       [] reason = "unsupported_skill" -> \E s \in profile.skills : ~Supports(source, s)

NeedsWork == {"work_experience", "unsupported_work", "unsupported_repeated_company"}
NeedsProjects == {"project_experience", "unsupported_project_name"}
NeedsSkills == {"skills", "unsupported_skill"}
NeedsRecovery == NeedsWork \cup NeedsProjects \cup NeedsSkills
Reasons == NeedsRecovery \cup {"scalar", "unsupported_scalar"}

InvalidFacts(source, profile) == {r \in Reasons : Complains(r, source, profile)}

\* The second reply replaces what the reasons are about.
Recovered(profile, reasons, reply) ==
  [profile EXCEPT !.skills = IF reasons \cap NeedsSkills # {} THEN reply.skills ELSE @,
                  !.work = IF reasons \cap NeedsWork # {} THEN reply.work ELSE @,
                  !.projects = IF reasons \cap NeedsProjects # {} THEN reply.projects ELSE @]

-----------------------------------------------------------------------------
(* Experience *)

\* Months from start to end of the work, not of the internships, that has both.
Intervals(work, today) ==
  LET end(item) == IF item.end = Present THEN today ELSE item.end
      counts(item) == /\ item.type = "work"
                      /\ item.start \notin {Null, Present} /\ item.end # Null
                      /\ item.start <= end(item)
  IN {<<work[i].start, end(work[i])>> : i \in {k \in DOMAIN work : counts(work[k])}}

Latest(intervals) ==
  CHOOSE x \in intervals :
    \A y \in intervals : y[1] < x[1] \/ (y[1] = x[1] /\ y[2] <= x[2])

\* mutant: the later interval decides where the merged one ends.
JoinedToLater(interval, merged) ==
  IF merged = <<>> \/ interval[1] > merged[Len(merged)][2] + 1 THEN Append(merged, interval)
  ELSE [merged EXCEPT ![Len(merged)][2] = interval[2]]
\* Overlapping and adjacent intervals become one.
Joined(interval, merged) ==
  IF merged = <<>> \/ interval[1] > merged[Len(merged)][2] + 1 THEN Append(merged, interval)
  ELSE [merged EXCEPT ![Len(merged)][2] = IF interval[2] > @ THEN interval[2] ELSE @]

\* From the earliest interval to the latest.
Merged(intervals) ==
  MapThenFoldSet(Joined, <<>>, LAMBDA interval : interval, Latest, intervals)

\* Whole months below a year, then years rounded to the nearest.
Duration(months) ==
  IF months < 12 THEN [n |-> months, unit |-> "months"]
  ELSE [n |-> (months + 6) \div 12, unit |-> "years"]

YearsOfExperience(work, today) ==
  LET intervals == Intervals(work, today)
      merged == Merged(intervals)
      total == MapThenSumSet(LAMBDA i : merged[i][2] - merged[i][1] + 1, DOMAIN merged)
  IN IF intervals = {} THEN UnknownYears ELSE Duration(total)

-----------------------------------------------------------------------------
\* May the profile be matched?
MatchingReady(profile) ==
  /\ \A f \in {"full_name", "education"} : Stated(profile.scalar[f])
  /\ \E f \in {"phone", "email"} : Stated(profile.scalar[f])
  /\ TellsOfWork(profile) \/ \E p \in profile.projects : Stated(p.name)
=============================================================================
