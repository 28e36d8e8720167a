----------------------------- MODULE MCDecisions -----------------------------
(* Instances of Decisions for TLC.                                          *)
EXTENDS Decisions

Clause(topic, verb, located, prefer) ==
  [topic |-> topic, verb |-> verb, located |-> located, prefer |-> prefer, pay |-> FALSE,
   atLeast |-> "none", amount |-> Unknown, unit |-> "none"]

Wage(atLeast, amount, unit, prefer) ==
  [Clause("salary", "want", FALSE, prefer) EXCEPT !.pay = TRUE, !.atLeast = atLeast,
     !.amount = amount, !.unit = unit]

\* "at least 3 years", which names no pay, and "at least 20k" in a word only the
\* matching knows.
Years == [Wage("shared", 3, "none", {}) EXCEPT !.topic = "years", !.pay = FALSE]
Lowest == [Wage("round", 20, "k", {}) EXCEPT !.pay = FALSE]

Clauses ==
  {Clause("hangzhou", v, l, s) : v \in {"exclude", "reject", "want"},
                                 l \in BOOLEAN, s \in {{}, {"near"}, {"last"}}}
  \cup {Clause(t, v, FALSE, {}) : t \in {"outsourcing", "overtime"}, v \in {"exclude", "want"}}
  \cup {Wage("shared", 20, "k", {}), Wage("shared", 20, "k", {"near"}), Wage("shared", 2, "wan", {}),
        Wage("shared", 20000, "none", {}), Wage("none", Unknown, "none", {}), Years, Lowest}
  \cup {Clause("nothing", "want", FALSE, {}), Clause("outsourcing", "exclude", TRUE, {})}

\* One clause, or two of which the second may take part in every rule.
Second == {Clause("hangzhou", "exclude", FALSE, {}), Clause("outsourcing", "exclude", FALSE, {}),
           Clause("beijing", "want", FALSE, {"first"}), Clause("overtime", "want", FALSE, {}),
           Wage("shared", 15, "none", {}), Wage("shared", 2, "wan", {"near"})}
Goals == {<<>>} \cup {<<a>> : a \in Clauses} \cup {<<a, b>> : a \in Clauses, b \in Second}

Pays == {[min |-> Unknown, max |-> Unknown], [min |-> 15, max |-> 30],
         [min |-> Unknown, max |-> 19999], [min |-> 20000, max |-> 30000],
         [min |-> 8000, max |-> Unknown], [min |-> 1000, max |-> Unknown]}

FilterJob ==
  {[place |-> l, min |-> p.min, max |-> p.max, title |-> t, words |-> {},
    months |-> Unknown, skills |-> {1}, outsourced |-> o,
    mentions |-> ({l} \ {Unknown}) \cup m] :
      l \in {"hangzhou", "beijing", Unknown}, p \in Pays,
      t \in {{"ai", "development"}, {"development"}}, o \in BOOLEAN, m \in {{}, {"overtime", "outsourcing"}}}

GoodCandidate == [similar |-> TRUE, words |-> {"ai", "development"}, months |-> Unknown,
                  skills |-> {1}]

FilterPair ==
  {[job |-> j, candidate |-> GoodCandidate, clauses |-> g] : j \in FilterJob, g \in Goals}

ScoreJob ==
  {[place |-> Unknown, min |-> Unknown, max |-> Unknown, title |-> t,
    words |-> w, months |-> n, skills |-> s, outsourced |-> FALSE, mentions |-> {}] :
      t \in {{"agent", "development"}, {"ai", "development"}, {"ai", "development", "senior"}},
      w \in {{}, {"junior"}}, n \in {Unknown, 24, 25, 60, 61},
      s \in SUBSET {1, 2}}

Candidate ==
  {[similar |-> x, words |-> w, months |-> n, skills |-> s] :
      x \in BOOLEAN, n \in {Unknown, 24, 61}, s \in SUBSET {1, 2},
      w \in {{"other"}, {"agent", "development"}, {"ai"}, {"development"}, {"ai", "senior"},
             {"development", "junior"}}}
  \cup {[similar |-> FALSE, words |-> {}, months |-> n, skills |-> s] :
      n \in {Unknown, 61}, s \in SUBSET {1, 2}}

ScorePair ==
  {[job |-> j, candidate |-> c, clauses |-> <<>>] : j \in ScoreJob, c \in Candidate}

\* Jobs that name up to all of the skills there are.
SkillNumber == 1..27
NumberJob(n) ==
  [place |-> Unknown, min |-> Unknown, max |-> Unknown,
   title |-> {"ai", "development"}, words |-> {}, months |-> Unknown, skills |-> 1..n,
   outsourced |-> FALSE, mentions |-> {}]
NumberPair ==
  {[job |-> NumberJob(n),
    candidate |-> [similar |-> FALSE, words |-> w, months |-> m, skills |-> 1..k],
    clauses |-> <<>>] : n \in SkillNumber, k \in SkillNumber \cup {0},
      w \in {{"ai"}, {"development"}, {"other"}}, m \in {Unknown, 61}}

AllPairs == {FilterPair, ScorePair,
             {p \in NumberPair : p.candidate.skills \subseteq p.job.skills}}

Texts == UNION {[1..n -> {"yes", "not", "word"}] : n \in 1..2} \cup {<<"not", "yes", "yes">>, <<"yes", "not", "yes">>}

\* Up to two documents, told apart by their numbers.
DocumentName == {{"certificate"}, {"academic_status"}, {"academic_proof"}, {"proof"}, {"other"}, {}}
DocumentSets ==
  {{[id |-> i, words |-> name[i]] : i \in 1..n} : n \in 0..2, name \in [1..2 -> DocumentName]}
Requests ==
  {[requests |-> q, words |-> w, documents |-> d] : q \in BOOLEAN,
     w \in {{}, {"proof"}, {"academic_status"}, {"academic_proof"}, {"certificate", "proof"}, {"other"}},
     d \in DocumentSets}

\* Resumes: "once" and "twice" occur in the text so often, of "words" only the words
\* do, "absent" does not.
Resume(headings, canonical, shown) ==
  [headings |-> headings, canonical |-> canonical, shown |-> shown, empty |-> FALSE,
   times |-> [v \in {"once", "twice"} |-> IF v = "once" THEN 1 ELSE 2],
   pieces |-> {"words"}]
Contact(name, phone, email, education) ==
  [full_name |-> name, phone |-> phone, email |-> email, education |-> education]

Headings ==
  {{}, {"skills"}, {"email"}, {"work", "projects", "skills"}, {"work", "email", "education"},
   {"projects", "phone", "education"}}
Contacts == {Contact(Null, Null, Null, Null), Contact("once", Null, "twice", "words"),
             Contact(Null, "once", Null, Null)}
Resumes == {Resume(h, c, s) : h \in Headings, c \in BOOLEAN, s \in Contacts}
           \cup {[Resume({}, TRUE, Contact(Null, Null, Null, Null)) EXCEPT !.empty = TRUE]}

Item(type, company, title, text, start, end) ==
  [type |-> type, company |-> company, title |-> title, text |-> text, start |-> start, end |-> end]
Job(company) == Item("work", company, Null, FALSE, Null, Null)

Works == {<<>>, <<Item("work", Null, Null, FALSE, 0, Present)>>,
          <<Item("work", Null, "absent", TRUE, 0, Present)>>, <<Job(Blank)>>, <<Job("words")>>}
         \cup {<<Job(c), Job(c)>> : c \in {"once", "twice"}}
ProjectSets == {{}, {[name |-> "absent", technologies |-> {}]}}
               \cup {{[name |-> "once", technologies |-> t]} : t \in {{"twice", Blank}, {"absent"}}}
Plain == [NoProfile EXCEPT !.scalar = Contact("once", "once", "twice", "words")]

Made ==
  {[Plain EXCEPT !.work = w, !.projects = q, !.skills = s] :
     w \in Works, q \in ProjectSets, s \in {{}, {"once"}, {"absent"}}}
  \cup {[Plain EXCEPT !.scalar = Contact(n, Null, e, d), !.work = <<Job("twice")>>] :
     n \in {Null, "once"}, e \in {Null, "once", Blank}, d \in {Null, "words", "absent", Reserved}}
  \cup {[NoProfile EXCEPT !.other = o, !.years = y] :
     o \in BOOLEAN, y \in {UnknownYears, [n |-> 3, unit |-> "years"]}}

\* A resume of which only the dates matter: a month counted from the first, in the 14th.
Dated == Resume({}, FALSE, Contact(Null, Null, Null, Null))
Dates == {Item(t, Null, Null, TRUE, f, e) :
            t \in {"work"}, f \in {0, 2, 3, 9}, e \in {1, 2, 5, 12, Present}}
         \cup {Item("internship", Null, Null, TRUE, 0, 13), Item("work", Null, Null, TRUE, Present, 13),
               Item("work", Null, Null, TRUE, Null, 13), Item("work", Null, Null, TRUE, 8, 31),
               Item("work", Null, Null, TRUE, 0, 29)}
Careers == UNION {[1..n -> Dates] : n \in 0..3}

Answers ==
  [source \in Resumes |->
     {[kind |-> k] : k \in {"late", "unavailable", "malformed"}}
     \cup {[kind |-> "profile", profile |-> p] :
            p \in IF source = Dated THEN {[Plain EXCEPT !.scalar = Dated.shown, !.work = w] : w \in Careers}
                  ELSE Made}]
=============================================================================
