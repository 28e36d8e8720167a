------------------------ MODULE Conversation_proofs ------------------------
(* Theorems about Conversation, for every number of messages and handlers.  *)
(* The inductive invariant says what a handler may rely on: the turn it      *)
(* works on is open and its own, and what it has answered stays answered.    *)
EXTENDS Conversation, FiniteSetTheorems, WellFoundedInduction, SequenceTheorems, TLAPS

Working == {"answering", "delivering", "failing", "judging", "judged"}
Busy(r) == req[r].pc \in Working
Lost == {c \in Client : turn[c].status = "processing" /\ ~Attended(c)}

(* Turns: HR's messages and the question have the states of their kind; once  *)
(* the conversation is gone nothing of it is left.                            *)
Turns ==
  /\ \A c \in Client : /\ turn[c].status # "waiting"
                       /\ turn[c].status \in {"absent", "processing"} => turn[c].outcome = "none"
  /\ turn[Query].status \in {"absent", "waiting", "completed"}
  /\ turn[Query].status = "absent" => turn[Query].outcome = "none"
  /\ ~exists => /\ messages = <<>> /\ \A t \in Turn : turn[t] = NoTurn
                /\ \A c \in Client : attachment[c] = "none"

(* A handler works on an open turn of HR's; one that judges has found a        *)
(* question; what it has shown is the turn's own result, or the turn has none   *)
(* and gets none any more.                                                     *)
Handles(r) ==
  /\ Busy(r) => req[r].client \in Client
  /\ req[r].pc = "polling" => req[r].client \in Client
  /\ exists =>
       /\ Busy(r) => turn[req[r].client].status = "processing"
       /\ req[r].pc = "polling" => turn[req[r].client].status # "absent"
       /\ Judging(r) => turn[Query].status # "absent"
       /\ LET t == req[r].reply.client IN
            req[r].reply.message # 0 =>
              \/ turn[t].result = req[r].reply.message
              \/ t \in Client /\ turn[t].result = 0 /\ turn[t].status \in {"completed", "failed"}

Unique == \A q, r \in Request, c \in Client : Works(q, c) /\ Works(r, c) => q = r

IInv ==
  /\ TypeOK /\ Turns /\ (\A r \in Request : Handles(r)) /\ Unique
  /\ Cardinality(Lost) <= faults
  /\ OneReplyEach /\ JudgedByAnAnswer

-----------------------------------------------------------------------------
(* Sets                                                                      *)

(* A set of numbers that is not empty has a least one.                         *)
LEMMA LeastNumber ==
  ASSUME NEW S \in SUBSET Nat, S # {}
  PROVE  Min(S) \in S
<1> DEFINE R == {ss \in Nat \X Nat : ss[1] < ss[2]}
<1>1. IsWellFoundedOn(R, Nat)
  BY NatLessThanWellFounded DEF OpToRel
<1> HIDE DEF R
<1>2. \E x \in S : \A y \in S : ~ (<<y, x>> \in R)
  BY <1>1, WFMin
<1>3. \A x, y \in S : y < x => <<y, x>> \in R
  BY DEF R
<1> PICK x \in S : \A y \in S : ~ (<<y, x>> \in R)
  BY <1>2
<1>4. \A y \in S : x <= y
  <2> TAKE y \in S
  <2>1. x \in Nat /\ y \in Nat /\ ~(y < x)
    BY <1>3
  <2> QED BY <2>1
<1> QED BY <1>4 DEF Min

LEMMA LostIsFinite == IsFiniteSet(Lost) /\ Cardinality(Lost) \in Nat
<1>1. Lost \in SUBSET Client /\ IsFiniteSet(Client)
  BY ConversationAssumption DEF Lost, ConversationAssumption
<1> QED BY <1>1, FS_Subset, FS_CardinalityType

(* At most one more turn is lost with one more fault.                          *)
LEMMA LostCount ==
  ASSUME Cardinality(Lost) <= faults, faults \in Nat, faults' \in Nat,
         \/ Lost' \subseteq Lost /\ faults' >= faults
         \/ (\E c : Lost' \subseteq Lost \cup {c}) /\ faults' = faults + 1
  PROVE  Cardinality(Lost)' <= faults'
<1>1. CASE Lost' \subseteq Lost /\ faults' >= faults
  <2>1. /\ Cardinality(Lost') <= Cardinality(Lost)
        /\ Cardinality(Lost') \in Nat /\ Cardinality(Lost) \in Nat
    BY <1>1, LostIsFinite, FS_Subset, FS_CardinalityType
  <2> QED BY <1>1, <2>1
<1>2. ASSUME NEW c, Lost' \subseteq Lost \cup {c}, faults' = faults + 1
      PROVE  Cardinality(Lost)' <= faults'
  <2>1. /\ IsFiniteSet(Lost \cup {c}) /\ Cardinality(Lost) \in Nat
        /\ Cardinality(Lost \cup {c}) <= Cardinality(Lost) + 1
        /\ Cardinality(Lost \cup {c}) \in Nat
    BY LostIsFinite, FS_AddElement
  <2>2. Cardinality(Lost') <= Cardinality(Lost \cup {c}) /\ Cardinality(Lost') \in Nat
    BY <1>2, <2>1, FS_Subset, FS_CardinalityType
  <2> QED BY <1>2, <2>1, <2>2
<1> QED BY <1>1, <1>2

-----------------------------------------------------------------------------
(* What is read and written                                                  *)

(* What is shown of a turn is its own result, if it has one.                   *)
LEMMA ShownResult ==
  ASSUME TypeOK, NEW t \in Turn
  PROVE  /\ ResultMessage(t) \in Nat
         /\ turn[t].result # 0 => ResultMessage(t) = turn[t].result
         /\ t = Query /\ turn[t].result = 0 => ResultMessage(t) = 0
<1>1. turn[t].result \in Nat
  BY DEF TypeOK, TurnRow
<1>2. RepliesAfter(Source(t)) \in SUBSET Nat
  BY DEF RepliesAfter, TypeOK
<1>3. CASE turn[t].result # 0
  BY <1>1, <1>3 DEF ResultMessage
<1>4. CASE turn[t].result = 0 /\ (t = Query \/ RepliesAfter(Source(t)) = {})
  BY <1>4 DEF ResultMessage
<1>5. CASE turn[t].result = 0 /\ ~(t = Query \/ RepliesAfter(Source(t)) = {})
  <2>1. ResultMessage(t) = Min(RepliesAfter(Source(t)))
    BY <1>5 DEF ResultMessage
  <2>2. Min(RepliesAfter(Source(t))) \in RepliesAfter(Source(t))
    BY <1>2, <1>5, LeastNumber
  <2> QED BY <1>2, <1>5, <2>1, <2>2
<1> QED BY <1>3, <1>4, <1>5

(* A handler that does nothing any more.                                       *)
LEMMA Idles ==
  ASSUME NEW t \in Turn, NEW n \in Nat
  PROVE  /\ Idle(t, n) \in Handling
         /\ Idle(t, n).pc = "idle" /\ Idle(t, n).client = t
         /\ Idle(t, n).reply.client = t /\ Idle(t, n).reply.message = n
BY DEF Idle, Handling, Unread, Verdict, Status, Outcome

(* A handler rests while others change turns: those that are answered stay so,  *)
(* a question stays a question, and its own turn stays open.                    *)
Undisturbed(q) ==
  exists' =>
    /\ exists
    /\ \A t \in Turn : /\ turn[t].status # "absent" => turn'[t].status # "absent"
                       /\ turn[t].result # 0 => turn'[t].result = turn[t].result
    /\ \A c \in Client : turn[c].status \in {"completed", "failed"} => turn'[c] = turn[c]
    /\ Busy(q) /\ turn[req[q].client].status = "processing" =>
         turn'[req[q].client].status = "processing"

LEMMA Rests ==
  ASSUME TypeOK, NEW q \in Request, Handles(q), req'[q] = req[q], Undisturbed(q)
  PROVE  Handles(q)'
<1>1. /\ req[q].client \in Turn /\ req[q].reply.client \in Turn
      /\ Client \subseteq Turn /\ Query \in Turn
  BY DEF TypeOK, Handling, Turn
<1>2. Busy(q)' = Busy(q) /\ Judging(q)' = Judging(q)
  BY DEF Busy, Judging
<1>3. CASE ~exists'
  BY <1>2, <1>3 DEF Handles
<1>4. CASE exists'
  <2>1. /\ exists
        /\ \A t \in Turn : /\ turn[t].status # "absent" => turn'[t].status # "absent"
                           /\ turn[t].result # 0 => turn'[t].result = turn[t].result
        /\ \A c \in Client : turn[c].status \in {"completed", "failed"} => turn'[c] = turn[c]
        /\ Busy(q) /\ turn[req[q].client].status = "processing" =>
             turn'[req[q].client].status = "processing"
    BY <1>4 DEF Undisturbed
  <2> DEFINE t == req[q].reply.client
             n == req[q].reply.message
  <2>2. n # 0 => \/ turn'[t].result = n
                 \/ t \in Client /\ turn'[t].result = 0
                      /\ turn'[t].status \in {"completed", "failed"}
    BY <1>1, <2>1 DEF Handles
  <2> QED BY <1>1, <1>2, <2>1, <2>2 DEF Handles
<1> QED BY <1>3, <1>4

(* One handler changes and no turn does: a handler that does not start to work   *)
(* keeps the invariant, if its turn is settled or a fault has hit it.            *)
LEMMA HandlerStepKeeps ==
  ASSUME IInv, NEW r \in Request, NEW x \in Handling,
         req' = [req EXCEPT ![r] = x], UNCHANGED <<exists, gap, turn, messages, attachment>>,
         faults' \in 0..MaxFaults,
         x.pc \in Working => Busy(r) /\ x.client = req[r].client,
         \/ faults' = faults + 1
         \/ UNCHANGED faults /\ (x.pc \in Working \/ ~Busy(r) \/ ~exists),
         Handles(r)'
  PROVE  IInv'
<1>1. /\ TypeOK /\ Turns /\ Unique /\ OneReplyEach /\ JudgedByAnAnswer
      /\ Cardinality(Lost) <= faults /\ \A q \in Request : Handles(q)
  BY DEF IInv
<1>2. /\ req'[r] = x /\ req' \in [Request -> Handling]
      /\ \A q \in Request \ {r} : req'[q] = req[q]
  BY <1>1 DEF TypeOK
<1>3. TypeOK'
  BY <1>1, <1>2 DEF TypeOK
<1>4. Turns' /\ OneReplyEach' /\ JudgedByAnAnswer'
  BY <1>1, ZenonT(40) DEF Turns, OneReplyEach, JudgedByAnAnswer
<1>5. \A q \in Request : Handles(q)'
  <2> SUFFICES ASSUME NEW q \in Request \ {r}
               PROVE  Handles(q)'
    OBVIOUS
  <2>1. Undisturbed(q)
    BY DEF Undisturbed
  <2> QED BY <1>1, <1>2, <2>1, Rests
<1>6. \A q \in Request, c \in Client : Works(q, c)' => Works(q, c)
  BY <1>2 DEF Works, Busy, Working
<1>7. Unique'
  BY <1>1, <1>6 DEF Unique
<1>8. faults \in Nat /\ faults' \in Nat
  BY <1>1, ConversationAssumption DEF TypeOK, ConversationAssumption
<1>9. CASE faults' = faults + 1
  <2>1. \A c \in Client \ {req[r].client} : Works(r, c)' <=> Works(r, c)
    BY <1>2, <1>6 DEF Works, Working, Busy
  <2>2. \A c \in Client \ {req[r].client} : Attended(c)' <=> Attended(c)
    BY <1>2, <2>1 DEF Attended, Works
  <2>3. Lost' \subseteq Lost \cup {req[r].client}
    BY <2>2 DEF Lost
  <2>4. Cardinality(Lost)' <= faults'
    BY <1>1, <1>8, <1>9, <2>3, LostCount
  <2> QED BY <1>3, <1>4, <1>5, <1>7, <2>4 DEF IInv
<1>10. CASE UNCHANGED faults /\ (x.pc \in Working \/ ~Busy(r) \/ ~exists)
  <2>1. Lost' \subseteq Lost
    <3>1. CASE ~exists
      BY <1>1, <3>1 DEF Lost, Turns, NoTurn, Turn
    <3>2. CASE x.pc \in Working \/ ~Busy(r)
      <4>1. \A c \in Client : Works(r, c)' <=> Works(r, c)
        BY <1>2, <1>6, <3>2 DEF Works, Working, Busy
      <4>2. \A c \in Client : Attended(c)' <=> Attended(c)
        BY <1>2, <4>1 DEF Attended, Works
      <4> QED BY <4>2 DEF Lost
    <3> QED BY <1>10, <3>1, <3>2
  <2>2. Cardinality(Lost)' <= faults'
    BY <1>1, <1>8, <1>10, <2>1, LostCount
  <2> QED BY <1>3, <1>4, <1>5, <1>7, <2>2 DEF IInv
<1> QED BY <1>9, <1>10

(* A handler settles its turn, with one message or none, and may write the        *)
(* question when it judges.                                                       *)
LEMMA SettleKeeps ==
  ASSUME IInv, exists, NEW r \in Request, Busy(r), NEW c \in Client, c = req[r].client,
         NEW row \in TurnRow, NEW ask \in TurnRow, row.status \in {"completed", "failed"},
         turn' = [turn EXCEPT ![c] = row, ![Query] = ask],
         req' = [req EXCEPT ![r] = Idle(c, row.result)],
         UNCHANGED <<exists, gap, faults>>,
         \/ /\ row.result = 0 /\ messages' = messages
            /\ row.status = "failed" \/ row.outcome = "pending"
         \/ /\ row.result = Len(messages) + 1
            /\ messages' = Append(messages, [sender |-> "agent", turn |-> c])
            /\ row.status = "completed" /\ row.outcome # "pending",
         attachment' \in [Client -> {"none", "downloadable", "expired"}],
         \A d \in Client \ {c} : attachment'[d] = attachment[d],
         attachment'[c] # "none" <=> row.outcome = "attachment_sent",
         \/ ask = turn[Query]
         \/ /\ Judging(r) /\ ask.result = turn[Query].result
            /\ ask.status \in {turn[Query].status, "waiting", "completed"}
            /\ ask.status = "completed" =>
                 turn[Query].status = "completed" \/ row.outcome \in {"stop", "continue"}
            /\ ask.outcome \in {"stop", "continue"} =>
                 ask.outcome = turn[Query].outcome \/ ask.outcome = row.outcome
  PROVE  IInv'
<1>1. /\ TypeOK /\ Turns /\ Unique /\ OneReplyEach /\ JudgedByAnAnswer
      /\ Cardinality(Lost) <= faults /\ \A q \in Request : Handles(q)
  BY DEF IInv
<1>2. /\ c \in Turn /\ Query \in Turn /\ c # Query /\ Client \subseteq Turn
      /\ Query \notin Client
  BY ConversationAssumption DEF Turn, ConversationAssumption
<1>3. /\ turn' \in [Turn -> TurnRow] /\ turn'[c] = row /\ turn'[Query] = ask
      /\ \A t \in Turn : t # c /\ t # Query => turn'[t] = turn[t]
  BY <1>1, <1>2 DEF TypeOK
<1>4. /\ turn[c].status = "processing" /\ turn[c].outcome = "none" /\ turn[c].result = 0
  BY <1>1 DEF Handles, Turns, OneReplyEach
<1>5. ask.result = turn[Query].result /\ (ask.status = "absent" <=> turn[Query].status = "absent")
  BY <1>1 DEF Handles
<1>6. /\ messages' \in Seq(Message) /\ DOMAIN messages \subseteq DOMAIN messages'
      /\ DOMAIN messages = 1..Len(messages) /\ Len(messages) \in Nat
      /\ \A i \in DOMAIN messages : messages'[i] = messages[i]
      /\ row.result # 0 => /\ row.result \in DOMAIN messages'
                          /\ messages'[row.result] = [sender |-> "agent", turn |-> c]
      /\ \A i \in DOMAIN messages' : i \in DOMAIN messages \/ i = row.result
  <2>1. messages \in Seq(Message) /\ [sender |-> "agent", turn |-> c] \in Message
    BY <1>1, <1>2 DEF TypeOK, Message
  <2>2. DOMAIN messages = 1..Len(messages) /\ Len(messages) \in Nat
    BY <2>1
  <2>3. CASE row.result = 0 /\ messages' = messages
    BY <2>1, <2>2, <2>3
  <2>4. CASE /\ row.result = Len(messages) + 1
             /\ messages' = Append(messages, [sender |-> "agent", turn |-> c])
    <3>1. /\ messages' \in Seq(Message) /\ Len(messages') = Len(messages) + 1
          /\ \A i \in 1..Len(messages) : messages'[i] = messages[i]
          /\ messages'[Len(messages) + 1] = [sender |-> "agent", turn |-> c]
      BY <2>1, <2>4, AppendProperties
    <3>2. DOMAIN messages' = 1..(Len(messages) + 1)
      BY <3>1
    <3>3. \A n \in Nat : /\ n + 1 \in 1..(n + 1) /\ 1..n \subseteq 1..(n + 1)
                         /\ \A i \in 1..(n + 1) : i \in 1..n \/ i = n + 1
      OBVIOUS
    <3>4. /\ row.result \in DOMAIN messages' /\ DOMAIN messages \subseteq DOMAIN messages'
          /\ \A i \in DOMAIN messages' : i \in DOMAIN messages \/ i = row.result
      <4> PICK n \in Nat : n = Len(messages)
        BY <2>2
      <4> QED BY <2>2, <2>4, <3>2, <3>3, Zenon
    <3>5. \A i \in DOMAIN messages : messages'[i] = messages[i]
      BY <2>2, <3>1
    <3>6. messages'[row.result] = [sender |-> "agent", turn |-> c]
      BY <2>4, <3>1
    <3> QED BY <2>2, <3>1, <3>4, <3>5, <3>6
  <2> QED BY <2>2, <2>3, <2>4
<1>7. \A t \in Turn : turn[t].result # 0 =>
        turn[t].result \in DOMAIN messages /\ turn'[t].result = turn[t].result
  BY <1>1, <1>3, <1>4, <1>5 DEF TypeOK
<1>8. row.result \in Nat
  BY DEF TurnRow
<1>9. /\ req' \in [Request -> Handling] /\ req'[r] = Idle(c, row.result)
      /\ \A q \in Request \ {r} : req'[q] = req[q]
  BY <1>1, <1>2, <1>8, Idles DEF TypeOK
<1>10. TypeOK'
  <2>1. ASSUME NEW t \in Turn, turn'[t].result # 0
        PROVE  /\ turn'[t].result \in DOMAIN messages'
               /\ messages'[turn'[t].result] = [sender |-> "agent", turn |-> t]
    <3>1. CASE t = c
      BY <1>3, <1>6, <2>1, <3>1
    <3>2. CASE t # c
      <4>1. turn'[t].result = turn[t].result
        BY <1>3, <1>5, <3>2
      <4> QED BY <1>1, <1>6, <2>1, <4>1 DEF TypeOK
    <3> QED BY <3>1, <3>2
  <2> QED BY <1>1, <1>3, <1>6, <1>9, <2>1 DEF TypeOK
<1>11. OneReplyEach'
  <2>1. ASSUME NEW i \in DOMAIN messages', messages'[i].sender = "agent"
        PROVE  turn'[messages'[i].turn].result = i
    <3>1. CASE i \in DOMAIN messages
      <4>1. messages'[i] = messages[i] /\ messages[i].turn \in Turn
        <5>1. messages[i] \in Message
          BY <1>1, <3>1 DEF TypeOK
        <5> QED BY <1>6, <3>1, <5>1 DEF Message
      <4>2. turn[messages[i].turn].result = i /\ i # 0
        BY <1>1, <1>6, <2>1, <3>1, <4>1 DEF OneReplyEach
      <4> QED BY <1>7, <4>1, <4>2
    <3>2. CASE i = row.result /\ i \notin DOMAIN messages
      BY <1>2, <1>3, <1>6, <2>1, <3>2
    <3> QED BY <1>6, <3>1, <3>2
  <2>2. ASSUME NEW d \in Client
        PROVE  /\ turn'[d].result # 0 <=>
                    turn'[d].status = "completed" /\ turn'[d].outcome # "pending"
               /\ attachment'[d] # "none" <=> turn'[d].outcome = "attachment_sent"
    <3>1. CASE d = c
      <4>1. row.result # 0 <=> row.status = "completed" /\ row.outcome # "pending"
        BY <1>6
      <4> QED BY <1>3, <3>1, <4>1
    <3>2. CASE d # c
      BY <1>1, <1>2, <1>3, <3>2 DEF OneReplyEach
    <3> QED BY <3>1, <3>2
  <2>3. turn'[Query].result # 0 <=> turn'[Query].status # "absent"
    BY <1>1, <1>3, <1>5 DEF OneReplyEach
  <2> QED BY <2>1, <2>2, <2>3 DEF OneReplyEach
<1>12. Turns'
  <2>1. ask.status \in {"absent", "waiting", "completed"} /\ (ask.status = "absent" => ask.outcome = "none")
    <3>1. CASE ask = turn[Query]
      BY <1>1, <3>1 DEF Turns
    <3>2. CASE Judging(r) /\ ask.status \in {turn[Query].status, "waiting", "completed"}
      BY <1>1, <3>2 DEF Turns, Handles
    <3> QED BY <3>1, <3>2
  <2> QED BY <1>1, <1>2, <1>3, <2>1 DEF Turns
<1>13. JudgedByAnAnswer'
  <2>1. \A d \in Client : turn[d].outcome \in {"stop", "continue"} =>
          turn'[d].outcome = turn[d].outcome
    BY <1>2, <1>3, <1>4
  <2> DEFINE verdicts == {turn[d].outcome : d \in Client} \cap {"stop", "continue"}
             later == {turn'[d].outcome : d \in Client} \cap {"stop", "continue"}
  <2>2. verdicts \subseteq later
    <3> SUFFICES ASSUME NEW d \in Client, turn[d].outcome \in {"stop", "continue"}
                 PROVE  turn[d].outcome \in later
      OBVIOUS
    <3> QED BY <2>1
  <2>3. row.outcome \in {"stop", "continue"} => row.outcome \in later
    <3>1. turn'[c].outcome = row.outcome
      BY <1>3
    <3>2. turn'[c].outcome \in {turn'[d].outcome : d \in Client}
      OBVIOUS
    <3> QED BY <3>1, <3>2
  <2>4. /\ turn[Query].status = "completed" => verdicts # {}
        /\ turn[Query].outcome \in {"stop", "continue"} => turn[Query].outcome \in verdicts
    BY <1>1 DEF JudgedByAnAnswer
  <2> HIDE DEF verdicts, later
  <2>5. /\ turn'[Query].status = "completed" => later # {}
        /\ turn'[Query].outcome \in {"stop", "continue"} => turn'[Query].outcome \in later
    BY <1>3, <2>2, <2>3, <2>4
  <2> QED BY <2>5 DEF JudgedByAnAnswer, later
<1>14. \A q \in Request \ {r} : Busy(q) => req[q].client # c
  BY <1>1 DEF Unique, Works, Busy, Working
<1>15. \A q \in Request : Handles(q)'
  <2>1. Handles(r)'
    <3>1. req'[r].pc = "idle" /\ req'[r].reply.client = c /\ req'[r].reply.message = row.result
      BY <1>2, <1>8, <1>9, Idles
    <3> QED BY <1>3, <3>1 DEF Handles, Busy, Working, Judging
  <2>2. ASSUME NEW q \in Request \ {r}
        PROVE  Handles(q)'
    <3>1. Undisturbed(q)
      <4>1. \A t \in Turn : turn[t].status # "absent" => turn'[t].status # "absent"
        BY <1>3, <1>5
      <4>2. \A d \in Client : turn[d].status \in {"completed", "failed"} => turn'[d] = turn[d]
        BY <1>2, <1>3, <1>4
      <4>3. Busy(q) => turn'[req[q].client] = turn[req[q].client]
        BY <1>1, <1>2, <1>3, <1>14 DEF Handles
      <4> QED BY <1>7, <4>1, <4>2, <4>3 DEF Undisturbed
    <3> QED BY <1>1, <1>9, <3>1, Rests
  <2> QED BY <2>1, <2>2
<1>16. \A q \in Request, d \in Client : Works(q, d)' <=> Works(q, d) /\ q # r
  <2>1. req'[r].pc = "idle"
    BY <1>2, <1>8, <1>9, Idles
  <2> QED BY <1>9, <2>1 DEF Works
<1>17. Unique'
  BY <1>1, <1>16 DEF Unique
<1>18. Cardinality(Lost)' <= faults'
  <2>1. \A d \in Client \ {c} : Works(r, d) => FALSE
    BY DEF Works
  <2>2. \A d \in Client \ {c} : Attended(d)' <=> Attended(d)
    BY <1>16, <2>1 DEF Attended
  <2>3. Lost' \subseteq Lost
    BY <1>2, <1>3, <2>2 DEF Lost
  <2>4. faults \in Nat
    BY <1>1, ConversationAssumption DEF TypeOK, ConversationAssumption
  <2> QED BY <1>1, <2>3, <2>4, LostCount
<1> QED BY <1>10, <1>11, <1>12, <1>13, <1>15, <1>17, <1>18 DEF IInv

-----------------------------------------------------------------------------
(* The steps that settle a turn                                              *)

(* The turn a handler works on is open.                                        *)
LEMMA OwnTurn ==
  ASSUME IInv, exists, NEW r \in Request, Busy(r), NEW c, c = req[r].client
  PROVE  /\ c \in Client /\ c \in Turn /\ Query \in Turn /\ c # Query
         /\ turn[c] \in TurnRow /\ turn[Query] \in TurnRow /\ turn \in [Turn -> TurnRow]
         /\ turn[c].status = "processing" /\ turn[c].outcome = "none" /\ turn[c].result = 0
         /\ attachment[c] = "none" /\ attachment \in [Client -> {"none", "downloadable", "expired"}]
         /\ Len(messages) + 1 \in Nat /\ Len(messages) + 1 # 0
         /\ req[r] \in Handling
<1>1. TypeOK /\ Turns /\ OneReplyEach /\ Handles(r)
  BY DEF IInv
<1>2. c \in Client /\ c # Query /\ c \in Turn /\ Query \in Turn
  BY <1>1, ConversationAssumption DEF Handles, Turn, ConversationAssumption
<1>3. turn[c].status = "processing" /\ turn[c].outcome = "none" /\ turn[c].result = 0
  BY <1>1, <1>2 DEF Handles, Turns, OneReplyEach
<1>4. attachment[c] = "none"
  BY <1>1, <1>2, <1>3 DEF OneReplyEach
<1>5. Len(messages) \in Nat
  BY <1>1 DEF TypeOK
<1> QED BY <1>1, <1>2, <1>3, <1>4, <1>5 DEF TypeOK

(* A reply to HR's message leaves the question as it is.                       *)
LEMMA ReplyKeeps ==
  ASSUME IInv, exists, NEW r \in Request, Busy(r), NEW c, c = req[r].client,
         NEW scene \in {"document_delivery", "resume_answer"},
         NEW outcome \in {"message_sent", "attachment_sent", "document_not_found"},
         AgentMessage(c, scene, outcome, "completed"), Done(r, Len(messages) + 1),
         UNCHANGED <<exists, gap, faults>>,
         attachment' = IF outcome = "attachment_sent"
                       THEN [attachment EXCEPT ![c] = "downloadable"] ELSE attachment
  PROVE  IInv'
<1> DEFINE row == [status |-> "completed", scene |-> scene, outcome |-> outcome,
                   result |-> Len(messages) + 1]
<1>1. /\ c \in Client /\ c \in Turn /\ Query \in Turn /\ c # Query
      /\ turn[Query] \in TurnRow /\ turn \in [Turn -> TurnRow]
      /\ attachment[c] = "none" /\ attachment \in [Client -> {"none", "downloadable", "expired"}]
      /\ Len(messages) + 1 \in Nat /\ Len(messages) + 1 # 0
  BY OwnTurn
<1>2. /\ row \in TurnRow /\ row.status = "completed" /\ row.result = Len(messages) + 1
      /\ row.outcome = outcome
  BY <1>1 DEF TurnRow, Status, Outcome
<1>3. turn' = [turn EXCEPT ![c] = row] /\ messages' = Append(messages, [sender |-> "agent", turn |-> c])
  BY DEF AgentMessage
<1> HIDE DEF row
<1>4. turn' = [turn EXCEPT ![c] = row, ![Query] = turn[Query]]
  BY <1>1, <1>3
<1>5. req' = [req EXCEPT ![r] = Idle(c, row.result)]
  BY <1>2 DEF Done
<1>6. /\ attachment' \in [Client -> {"none", "downloadable", "expired"}]
      /\ \A d \in Client \ {c} : attachment'[d] = attachment[d]
      /\ attachment'[c] # "none" <=> row.outcome = "attachment_sent"
  BY <1>1, <1>2
<1>7. row.outcome # "pending"
  BY <1>2
<1>8. \/ /\ row.result = 0 /\ messages' = messages
         /\ row.status = "failed" \/ row.outcome = "pending"
      \/ /\ row.result = Len(messages) + 1
         /\ messages' = Append(messages, [sender |-> "agent", turn |-> c])
         /\ row.status = "completed" /\ row.outcome # "pending"
  BY <1>2, <1>3, <1>7
<1>9. row.status \in {"completed", "failed"}
  BY <1>2
<1> QED BY <1>1, <1>2, <1>4, <1>5, <1>6, <1>8, <1>9, SettleKeeps

LEMMA AnswerKeeps == ASSUME IInv, NEW r \in Request, Answer(r) PROVE IInv'
<1>1. exists /\ Busy(r)
  BY DEF Answer, Busy, Working
<1>2. attachment' = attachment
  BY DEF Answer
<1> QED BY <1>1, <1>2, ReplyKeeps DEF Answer

LEMMA DeliverKeeps == ASSUME IInv, NEW r \in Request, Deliver(r) PROVE IInv'
<1>1. exists /\ Busy(r)
  BY DEF Deliver, Busy, Working
<1>2. PICK outcome \in {"attachment_sent", "document_not_found"} :
        /\ AgentMessage(req[r].client, "document_delivery", outcome, "completed")
        /\ attachment' = IF outcome = "attachment_sent"
                         THEN [attachment EXCEPT ![req[r].client] = "downloadable"] ELSE attachment
  BY DEF Deliver
<1>3. Done(r, Len(messages) + 1) /\ UNCHANGED <<exists, gap, faults>>
  BY DEF Deliver
<1> QED BY <1>1, <1>2, <1>3, ReplyKeeps

LEMMA FailTurnKeeps == ASSUME IInv, NEW r \in Request, FailTurn(r) PROVE IInv'
<1> DEFINE c == req[r].client
           row == [turn[c] EXCEPT !.status = "failed", !.outcome = "attachment_failed"]
<1>1. exists /\ Busy(r)
  BY DEF FailTurn, Busy, Working
<1>2. /\ c \in Client /\ c \in Turn /\ Query \in Turn /\ c # Query
      /\ turn[c] \in TurnRow /\ turn[Query] \in TurnRow /\ turn \in [Turn -> TurnRow]
      /\ turn[c].result = 0
      /\ attachment[c] = "none" /\ attachment \in [Client -> {"none", "downloadable", "expired"}]
  BY <1>1, OwnTurn
<1>3. /\ row \in TurnRow /\ row.status = "failed" /\ row.result = 0
      /\ row.outcome = "attachment_failed"
  BY <1>2 DEF TurnRow, Status, Outcome
<1>4. turn' = [turn EXCEPT ![c] = row] /\ Done(r, 0) /\ UNCHANGED <<exists, gap, messages, attachment, faults>>
  BY DEF FailTurn
<1> HIDE DEF row
<1>5. turn' = [turn EXCEPT ![c] = row, ![Query] = turn[Query]]
  BY <1>2, <1>4
<1>6. req' = [req EXCEPT ![r] = Idle(c, row.result)]
  BY <1>3, <1>4 DEF Done
<1> HIDE DEF c
<1>7. c = req[r].client
  BY DEF c
<1>8. /\ attachment' \in [Client -> {"none", "downloadable", "expired"}]
      /\ \A d \in Client \ {c} : attachment'[d] = attachment[d]
      /\ attachment'[c] # "none" <=> row.outcome = "attachment_sent"
  BY <1>2, <1>3, <1>4
<1>9. \/ /\ row.result = 0 /\ messages' = messages
         /\ row.status = "failed" \/ row.outcome = "pending"
      \/ /\ row.result = Len(messages) + 1
         /\ messages' = Append(messages, [sender |-> "agent", turn |-> c])
         /\ row.status = "completed" /\ row.outcome # "pending"
  BY <1>3, <1>4
<1>10. row.status \in {"completed", "failed"} /\ UNCHANGED <<exists, gap, faults>>
  BY <1>3, <1>4
<1> QED BY <1>1, <1>2, <1>3, <1>5, <1>6, <1>7, <1>8, <1>9, <1>10, SettleKeeps

(* What a judgement writes of the question.                                    *)
LEMMA FlushedRow ==
  ASSUME NEW t \in TurnRow, NEW seen, NEW status \in Status, NEW outcome \in Outcome
  PROVE  /\ Flushed(t, seen, status, outcome) \in TurnRow
         /\ Flushed(t, seen, status, outcome).result = t.result
         /\ Flushed(t, seen, status, outcome).status \in {t.status, status}
         /\ Flushed(t, seen, status, outcome).outcome \in {t.outcome, outcome}
BY DEF Flushed, TurnRow

LEMMA JudgeUnclearKeeps == ASSUME IInv, NEW r \in Request, JudgeUnclear(r) PROVE IInv'
<1> DEFINE c == req[r].client
           row == [turn[c] EXCEPT !.status = "completed", !.outcome = "pending"]
           ask == Flushed(turn[Query], req[r].seen, "waiting", "pending")
<1>1. exists /\ Busy(r) /\ Judging(r)
  BY DEF JudgeUnclear, Busy, Working, Judging
<1>2. /\ c \in Client /\ c \in Turn /\ Query \in Turn /\ c # Query
      /\ turn[c] \in TurnRow /\ turn[Query] \in TurnRow /\ turn \in [Turn -> TurnRow]
      /\ turn[c].result = 0
      /\ attachment[c] = "none" /\ attachment \in [Client -> {"none", "downloadable", "expired"}]
  BY <1>1, OwnTurn
<1>3. /\ row \in TurnRow /\ row.status = "completed" /\ row.result = 0 /\ row.outcome = "pending"
  BY <1>2 DEF TurnRow, Status, Outcome, Verdict
<1>4. /\ turn' = [turn EXCEPT ![c] = row, ![Query] = ask]
      /\ Done(r, 0) /\ UNCHANGED <<exists, gap, messages, attachment, faults>>
  BY <1>2 DEF JudgeUnclear
<1>5. /\ ask \in TurnRow /\ ask.result = turn[Query].result
      /\ ask.status \in {turn[Query].status, "waiting"}
      /\ ask.outcome \in {turn[Query].outcome, "pending"}
  BY <1>2, FlushedRow DEF Status, Outcome, Verdict
<1> HIDE DEF row, ask
<1>6. req' = [req EXCEPT ![r] = Idle(c, row.result)]
  BY <1>3, <1>4 DEF Done
<1> HIDE DEF c
<1>7. c = req[r].client
  BY DEF c
<1> QED BY <1>1, <1>2, <1>3, <1>4, <1>5, <1>6, <1>7, SettleKeeps, ZenonT(40)

LEMMA JudgeClearKeeps == ASSUME IInv, NEW r \in Request, JudgeClear(r) PROVE IInv'
<1> DEFINE c == req[r].client
           verdict == req[r].verdict
           row == [status |-> "completed", scene |-> "goal_judgement", outcome |-> verdict,
                   result |-> Len(messages) + 1]
           ask == Flushed(turn[Query], req[r].seen, "completed", verdict)
<1>1. exists /\ Busy(r) /\ Judging(r)
  BY DEF JudgeClear, Busy, Working, Judging
<1>2. /\ c \in Client /\ c \in Turn /\ Query \in Turn /\ c # Query
      /\ turn[c] \in TurnRow /\ turn[Query] \in TurnRow /\ turn \in [Turn -> TurnRow]
      /\ attachment[c] = "none" /\ attachment \in [Client -> {"none", "downloadable", "expired"}]
      /\ Len(messages) + 1 \in Nat /\ Len(messages) + 1 # 0 /\ req[r] \in Handling
  BY <1>1, OwnTurn
<1>3. verdict \in {"stop", "continue"}
  BY <1>2 DEF JudgeClear, Handling, Verdict
<1>4. /\ row \in TurnRow /\ row.status = "completed" /\ row.result = Len(messages) + 1
      /\ row.outcome = verdict
  BY <1>2, <1>3 DEF TurnRow, Status, Outcome, Verdict
<1>5. /\ turn' = [turn EXCEPT ![c] = row, ![Query] = ask]
      /\ messages' = Append(messages, [sender |-> "agent", turn |-> c])
      /\ Done(r, Len(messages) + 1) /\ UNCHANGED <<exists, gap, attachment, faults>>
  BY <1>2 DEF JudgeClear
<1>6. /\ ask \in TurnRow /\ ask.result = turn[Query].result
      /\ ask.status \in {turn[Query].status, "completed"}
      /\ ask.outcome \in {turn[Query].outcome, verdict}
  BY <1>2, <1>3, FlushedRow DEF Status, Outcome, Verdict
<1> HIDE DEF row, ask
<1>7. req' = [req EXCEPT ![r] = Idle(c, row.result)]
  BY <1>4, <1>5 DEF Done
<1> HIDE DEF c
<1>8. c = req[r].client
  BY DEF c
<1> QED BY <1>1, <1>2, <1>3, <1>4, <1>5, <1>6, <1>7, <1>8, SettleKeeps

-----------------------------------------------------------------------------
(* The steps of a handler that change no turn                                *)

(* A handler stops working, with nothing to show or with what ResultMessage    *)
(* finds for a turn that is not open.                                          *)
LEMMA StopKeeps ==
  ASSUME IInv, NEW r \in Request, NEW t \in Turn, NEW n \in Nat,
         req' = [req EXCEPT ![r] = Idle(t, n)],
         UNCHANGED <<exists, gap, turn, messages, attachment>>, faults' \in 0..MaxFaults,
         faults' = faults + 1 \/ (UNCHANGED faults /\ (~Busy(r) \/ ~exists)),
         n = 0 \/ ~exists \/ (/\ n = ResultMessage(t)
                              /\ turn[t].status \notin {"absent", "processing"})
  PROVE  IInv'
<1>1. TypeOK /\ Turns
  BY DEF IInv
<1>2. /\ Idle(t, n) \in Handling /\ Idle(t, n).pc = "idle"
      /\ Idle(t, n).reply.client = t /\ Idle(t, n).reply.message = n
  BY Idles
<1>3. req'[r] = Idle(t, n)
  BY <1>1 DEF TypeOK
<1>4. exists /\ n # 0 => \/ turn[t].result = n
                         \/ t \in Client /\ turn[t].result = 0
                              /\ turn[t].status \in {"completed", "failed"}
  <2> SUFFICES ASSUME exists, n # 0, turn[t].result # n
               PROVE  t \in Client /\ turn[t].result = 0 /\ turn[t].status \in {"completed", "failed"}
    OBVIOUS
  <2>1. n = ResultMessage(t) /\ turn[t].status \notin {"absent", "processing"}
    OBVIOUS
  <2>2. turn[t].result = 0 /\ t # Query
    BY <1>1, <2>1, ShownResult
  <2>3. t \in Client /\ turn[t].status \in Status
    BY <1>1, <2>2 DEF Turn, TypeOK, TurnRow
  <2> QED BY <1>1, <2>1, <2>2, <2>3 DEF Turns, Status
<1>5. Handles(r)'
  BY <1>2, <1>3, <1>4 DEF Handles, Busy, Working, Judging
<1> QED BY <1>2, <1>5, HandlerStepKeeps DEF Working

LEMMA ResendKeeps ==
  ASSUME IInv, NEW r \in Request, NEW c \in Client, Resend(r, c)
  PROVE  IInv'
<1>1. TypeOK /\ c \in Turn /\ ResultMessage(c) \in Nat /\ ~Busy(r) /\ faults \in 0..MaxFaults
  <2>1. TypeOK /\ c \in Turn
    BY DEF IInv, Turn
  <2> QED BY <2>1, ShownResult DEF Resend, Busy, Working, TypeOK
<1>2. CASE turn[c].status = "processing"
  <2> DEFINE x == [Idle(c, 0) EXCEPT !.pc = "polling"]
  <2>1. x \in Handling /\ x.pc = "polling" /\ x.client = c /\ x.reply.message = 0
    BY <1>1 DEF Idle, Handling, Unread, Verdict, Status, Outcome
  <2>2. req' = [req EXCEPT ![r] = x] /\ UNCHANGED <<exists, gap, turn, messages, attachment, faults>>
    BY <1>2 DEF Resend
  <2> HIDE DEF x
  <2>3. req'[r] = x
    BY <1>1, <2>2 DEF TypeOK
  <2>4. Handles(r)'
    BY <1>2, <2>1, <2>2, <2>3 DEF Handles, Busy, Working, Judging
  <2> QED BY <1>1, <2>1, <2>2, <2>4, HandlerStepKeeps DEF Working
<1>3. CASE turn[c].status # "processing"
  <2>1. /\ req' = [req EXCEPT ![r] = Idle(c, ResultMessage(c))]
        /\ UNCHANGED <<exists, gap, turn, messages, attachment, faults>>
        /\ turn[c].status \notin {"absent", "processing"}
    BY <1>3 DEF Resend
  <2> QED BY <1>1, <2>1, StopKeeps
<1> QED BY <1>2, <1>3

(* A handler that is not idle has a turn of HR's.                              *)
LEMMA OwnClient ==
  ASSUME IInv, NEW r \in Request
  PROVE  /\ req[r].client \in Turn /\ faults \in 0..MaxFaults /\ faults \in Nat
         /\ req[r].pc = "polling" /\ exists =>
              req[r].client \in Client /\ turn[req[r].client].status # "absent"
BY ConversationAssumption DEF IInv, TypeOK, Handling, Handles, ConversationAssumption

LEMMA PollKeeps ==
  ASSUME IInv, NEW r \in Request, PollEnds(r) \/ PollGivesUp(r)
  PROVE  IInv'
<1> DEFINE c == req[r].client
<1>1. /\ c \in Turn /\ faults \in 0..MaxFaults /\ TypeOK
      /\ req[r].pc = "polling" /\ exists => turn[c].status # "absent"
  BY OwnClient DEF IInv
<1>2. ResultMessage(c) \in Nat
  BY <1>1, ShownResult
<1>3. req[r].pc = "polling" /\ ~Busy(r) /\ UNCHANGED <<exists, gap, turn, messages, attachment, faults>>
  BY DEF PollEnds, PollGivesUp, Busy, Working
<1>4. CASE PollEnds(r) /\ exists
  <2>1. req' = [req EXCEPT ![r] = Idle(c, ResultMessage(c))] /\ turn[c].status # "processing"
    BY <1>4 DEF PollEnds, Done
  <2> QED BY <1>1, <1>2, <1>3, <1>4, <2>1, StopKeeps
<1>5. CASE PollGivesUp(r) \/ ~exists
  <2>1. req' = [req EXCEPT ![r] = Idle(c, 0)]
    BY <1>5 DEF PollEnds, PollGivesUp, Done
  <2> QED BY <1>1, <1>3, <2>1, StopKeeps
<1> QED BY <1>4, <1>5

LEMMA CrashKeeps == ASSUME IInv, NEW r \in Request, Crash(r) PROVE IInv'
<1>1. req[r].client \in Turn /\ faults \in 0..MaxFaults /\ MaxFaults \in Nat /\ 0 \in Nat
  BY OwnClient, ConversationAssumption DEF ConversationAssumption
<1>2. /\ req' = [req EXCEPT ![r] = Idle(req[r].client, 0)]
      /\ UNCHANGED <<exists, gap, turn, messages, attachment>>
  BY DEF Crash, Done
<1>3. faults' \in 0..MaxFaults
  BY <1>1 DEF Crash
<1>4. faults' = faults + 1 \/ (UNCHANGED faults /\ (~Busy(r) \/ ~exists))
  BY DEF Crash
<1> PICK t \in Turn, n \in Nat : t = req[r].client /\ n = 0
  BY <1>1
<1> QED BY <1>2, <1>3, <1>4, StopKeeps

LEMMA NotFoundKeeps == ASSUME IInv, NEW r \in Request, NotFound(r) PROVE IInv'
<1>1. faults \in 0..MaxFaults /\ Query \in Turn
  BY OwnClient DEF Turn
<1>2. /\ req' = [req EXCEPT ![r] = Idle(Query, 0)] /\ ~exists
      /\ UNCHANGED <<exists, gap, turn, messages, attachment, faults>>
  BY DEF NotFound
<1>3. 0 \in Nat
  OBVIOUS
<1> QED BY <1>1, <1>2, <1>3, StopKeeps

LEMMA DeliveryRaisesKeeps == ASSUME IInv, NEW r \in Request, DeliveryRaises(r) PROVE IInv'
<1> DEFINE x == [req[r] EXCEPT !.pc = "failing"]
<1>1. exists /\ Busy(r) /\ TypeOK /\ Handles(r)
  BY DEF DeliveryRaises, Busy, Working, IInv
<1>2. /\ x \in Handling /\ x.pc = "failing" /\ x.client = req[r].client /\ x.reply = req[r].reply
  <2>1. req[r] \in Handling
    BY <1>1 DEF TypeOK
  <2> QED BY <2>1 DEF Handling
<1>3. /\ req' = [req EXCEPT ![r] = x] /\ faults' = faults + 1
      /\ faults' \in 0..MaxFaults /\ UNCHANGED <<exists, gap, turn, messages, attachment>>
  BY <1>1, ConversationAssumption DEF DeliveryRaises, TypeOK, ConversationAssumption
<1> HIDE DEF x
<1>4. req'[r] = x
  BY <1>1, <1>3 DEF TypeOK
<1>5. Handles(r)'
  BY <1>1, <1>2, <1>3, <1>4 DEF Handles, Busy, Working, Judging
<1> QED BY <1>1, <1>2, <1>3, <1>5, HandlerStepKeeps

LEMMA JudgeReadKeeps == ASSUME IInv, NEW r \in Request, JudgeRead(r) PROVE IInv'
<1> DEFINE x == [req[r] EXCEPT !.pc = "judged",
                   !.seen = [status |-> turn[Query].status, outcome |-> turn[Query].outcome]]
<1>1. exists /\ Busy(r) /\ Judging(r) /\ TypeOK /\ Handles(r) /\ turn[Query] \in TurnRow
  BY DEF JudgeRead, Busy, Working, Judging, IInv, TypeOK, Turn
<1>2. /\ x \in Handling /\ x.pc = "judged" /\ x.client = req[r].client /\ x.reply = req[r].reply
  <2>1. req[r] \in Handling
    BY <1>1 DEF TypeOK
  <2>2. turn[Query].status \in Status /\ turn[Query].outcome \in Outcome
    BY <1>1 DEF TurnRow
  <2> QED BY <2>1, <2>2 DEF Handling
<1>3. /\ req' = [req EXCEPT ![r] = x] /\ faults \in 0..MaxFaults
      /\ UNCHANGED <<exists, gap, turn, messages, attachment, faults>>
  BY <1>1 DEF JudgeRead, TypeOK
<1> HIDE DEF x
<1>4. req'[r] = x
  BY <1>1, <1>3 DEF TypeOK
<1>5. Handles(r)'
  BY <1>1, <1>2, <1>3, <1>4 DEF Handles, Busy, Working, Judging
<1> QED BY <1>1, <1>2, <1>3, <1>5, HandlerStepKeeps DEF Working

-----------------------------------------------------------------------------
(* The steps that begin a turn or end the conversation                       *)

(* A message that no turn has as its result yet.                               *)
LEMMA Appended ==
  ASSUME TypeOK, NEW m \in Message
  PROVE  LET later == Append(messages, m) IN
         /\ later \in Seq(Message) /\ Len(messages) + 1 \in DOMAIN later
         /\ later[Len(messages) + 1] = m
         /\ \A i \in DOMAIN messages : i \in DOMAIN later /\ later[i] = messages[i]
         /\ \A i \in DOMAIN later : i \in DOMAIN messages \/ i = Len(messages) + 1
         /\ Len(messages) + 1 \in Nat /\ Len(messages) + 1 # 0
<1> DEFINE later == Append(messages, m)
<1>1. messages \in Seq(Message)
  BY DEF TypeOK
<1>2. /\ later \in Seq(Message) /\ Len(later) = Len(messages) + 1
      /\ \A i \in 1..Len(messages) : later[i] = messages[i]
      /\ later[Len(messages) + 1] = m
  BY <1>1, AppendProperties
<1>3. PICK n \in Nat : n = Len(messages)
  BY <1>1
<1>4. DOMAIN messages = 1..n /\ DOMAIN later = 1..(n + 1)
  BY <1>1, <1>2, <1>3
<1>5. /\ n + 1 \in 1..(n + 1) /\ 1..n \subseteq 1..(n + 1) /\ n + 1 \in Nat /\ n + 1 # 0
      /\ \A i \in 1..(n + 1) : i \in 1..n \/ i = n + 1
  OBVIOUS
<1> HIDE DEF later
<1>6. /\ later \in Seq(Message) /\ Len(messages) + 1 \in DOMAIN later
      /\ later[Len(messages) + 1] = m
      /\ \A i \in DOMAIN messages : i \in DOMAIN later /\ later[i] = messages[i]
      /\ \A i \in DOMAIN later : i \in DOMAIN messages \/ i = Len(messages) + 1
      /\ Len(messages) + 1 \in Nat /\ Len(messages) + 1 # 0
  BY <1>2, <1>3, <1>4, <1>5, Zenon
<1> QED BY <1>6 DEF later

(* Messages are kept: what is the result of a turn remains it.                 *)
LEMMA KeepsResults ==
  ASSUME TypeOK, messages' \in Seq(Message),
         \A i \in DOMAIN messages : i \in DOMAIN messages' /\ messages'[i] = messages[i],
         NEW t \in Turn, turn'[t].result = turn[t].result, turn'[t].result # 0
  PROVE  /\ turn'[t].result \in DOMAIN messages'
         /\ messages'[turn'[t].result] = [sender |-> "agent", turn |-> t]
BY DEF TypeOK

LEMMA ReceiveKeeps ==
  ASSUME IInv, NEW r \in Request, NEW c \in Client, NEW content \in Content,
         Receive(r, c, content)
  PROVE  IInv'
<1> DEFINE row == [status |-> "processing", scene |-> Scene(content), outcome |-> "none",
                   result |-> 0]
           x == [Idle(c, 0) EXCEPT !.pc = Handler(Scene(content)), !.verdict = Judged(content)]
           m == [sender |-> "hr", turn |-> c]
<1>1. /\ TypeOK /\ Turns /\ Unique /\ OneReplyEach /\ JudgedByAnAnswer
      /\ Cardinality(Lost) <= faults /\ \A q \in Request : Handles(q)
  BY DEF IInv
<1>2. /\ c \in Turn /\ Query \in Turn /\ c # Query /\ Query \notin Client
      /\ Client \subseteq Turn
  BY ConversationAssumption DEF Turn, ConversationAssumption
<1>3. /\ exists /\ req[r].pc = "idle" /\ turn[c].status = "absent"
      /\ UNCHANGED <<exists, gap, attachment, faults>>
      /\ turn' = [turn EXCEPT ![c] = row] /\ req' = [req EXCEPT ![r] = x]
      /\ messages' = Append(messages, m)
  BY DEF Receive, IsNew
<1>4. /\ turn[c].outcome = "none" /\ turn[c].result = 0
  BY <1>1, <1>3 DEF Turns, OneReplyEach
<1>5. /\ row \in TurnRow /\ row.status = "processing" /\ row.outcome = "none" /\ row.result = 0
  BY DEF TurnRow, Status, Outcome, Scene
<1>6. /\ x \in Handling /\ x.pc \in Working /\ x.client = c /\ x.reply.message = 0
      /\ x.pc = "judging" => turn[Query].status = "waiting"
      /\ x.pc # "judged"
  <2>1. /\ Handler(Scene(content)) \in {"answering", "delivering", "judging"}
        /\ Handler(Scene(content)) = "judging" => turn[Query].status = "waiting"
    BY DEF Handler, Scene, PendingQuery
  <2>2. Judged(content) \in Verdict
    BY DEF Judged, Verdict
  <2>3. Idle(c, 0) \in Handling /\ Idle(c, 0).client = c /\ Idle(c, 0).reply.message = 0
    BY <1>2, Idles
  <2> HIDE DEF Idle
  <2> QED BY <2>1, <2>2, <2>3 DEF Handling, Working
<1>7. m \in Message /\ m.sender = "hr"
  BY <1>2 DEF Message
<1> HIDE DEF row, x, m
<1>8. /\ turn' \in [Turn -> TurnRow] /\ turn'[c] = row
      /\ \A t \in Turn \ {c} : turn'[t] = turn[t]
  BY <1>1, <1>2, <1>3, <1>5 DEF TypeOK
<1>9. /\ req' \in [Request -> Handling] /\ req'[r] = x
      /\ \A q \in Request \ {r} : req'[q] = req[q]
  BY <1>1, <1>3, <1>6 DEF TypeOK
<1>10. /\ messages' \in Seq(Message)
       /\ \A i \in DOMAIN messages : i \in DOMAIN messages' /\ messages'[i] = messages[i]
       /\ \A i \in DOMAIN messages' : i \in DOMAIN messages \/ messages'[i].sender = "hr"
  BY <1>1, <1>3, <1>7, Appended
<1>11. \A t \in Turn : turn'[t].result = turn[t].result
  BY <1>4, <1>5, <1>8
<1>12. TypeOK'
  <2>1. \A t \in Turn : turn'[t].result # 0 =>
          /\ turn'[t].result \in DOMAIN messages'
          /\ messages'[turn'[t].result] = [sender |-> "agent", turn |-> t]
    BY <1>1, <1>10, <1>11, KeepsResults
  <2> QED BY <1>1, <1>3, <1>8, <1>9, <1>10, <2>1 DEF TypeOK
<1>13. OneReplyEach'
  <2>1. ASSUME NEW i \in DOMAIN messages', messages'[i].sender = "agent"
        PROVE  turn'[messages'[i].turn].result = i
    <3>1. i \in DOMAIN messages /\ messages'[i] = messages[i] /\ messages[i].turn \in Turn
      <4>1. i \in DOMAIN messages /\ messages'[i] = messages[i]
        BY <1>10, <2>1
      <4>2. messages[i] \in Message
        BY <1>1, <4>1 DEF TypeOK
      <4> QED BY <4>1, <4>2 DEF Message
    <3> QED BY <1>1, <1>11, <2>1, <3>1 DEF OneReplyEach
  <2>2. ASSUME NEW d \in Client
        PROVE  /\ turn'[d].result # 0 <=>
                    turn'[d].status = "completed" /\ turn'[d].outcome # "pending"
               /\ attachment'[d] # "none" <=> turn'[d].outcome = "attachment_sent"
    <3>1. CASE d = c
      BY <1>1, <1>3, <1>4, <1>5, <1>8, <3>1 DEF OneReplyEach
    <3>2. CASE d # c
      BY <1>1, <1>2, <1>3, <1>8, <3>2 DEF OneReplyEach
    <3> QED BY <3>1, <3>2
  <2>3. turn'[Query].result # 0 <=> turn'[Query].status # "absent"
    BY <1>1, <1>2, <1>8 DEF OneReplyEach
  <2> QED BY <2>1, <2>2, <2>3 DEF OneReplyEach
<1>14. Turns'
  BY <1>1, <1>2, <1>3, <1>5, <1>8 DEF Turns
<1>15. JudgedByAnAnswer'
  <2>1. \A d \in Client : turn'[d].outcome = turn[d].outcome
    BY <1>2, <1>4, <1>5, <1>8
  <2>2. {turn'[d].outcome : d \in Client} = {turn[d].outcome : d \in Client}
    BY <2>1
  <2>3. turn'[Query] = turn[Query]
    BY <1>2, <1>8
  <2> QED BY <1>1, <2>2, <2>3 DEF JudgedByAnAnswer
<1>16. \A q \in Request : Busy(q) => req[q].client # c
  BY <1>1, <1>3 DEF Handles
<1>17. \A q \in Request : Handles(q)'
  <2>1. Handles(r)'
    BY <1>2, <1>5, <1>6, <1>8, <1>9 DEF Handles, Busy, Judging, Working
  <2>2. ASSUME NEW q \in Request \ {r}
        PROVE  Handles(q)'
    <3>1. Undisturbed(q)
      <4>1. \A t \in Turn : turn[t].status # "absent" => turn'[t].status # "absent"
        BY <1>3, <1>8
      <4>2. \A d \in Client : turn[d].status \in {"completed", "failed"} => turn'[d] = turn[d]
        BY <1>2, <1>3, <1>8
      <4>3. Busy(q) => turn'[req[q].client] = turn[req[q].client]
        BY <1>1, <1>2, <1>8, <1>16 DEF Handles
      <4> QED BY <1>3, <1>11, <4>1, <4>2, <4>3 DEF Undisturbed
    <3> QED BY <1>1, <1>9, <3>1, Rests
  <2> QED BY <2>1, <2>2
<1>18. \A q \in Request, d \in Client : Works(q, d)' <=> Works(q, d) \/ (q = r /\ d = c)
  <2>1. \A d \in Client : ~Works(r, d)
    BY <1>3 DEF Works
  <2>2. \A d \in Client : Works(r, d)' <=> d = c
    BY <1>6, <1>9 DEF Works, Working
  <2>3. \A q \in Request \ {r}, d \in Client : Works(q, d)' <=> Works(q, d)
    BY <1>9 DEF Works
  <2> QED BY <2>1, <2>2, <2>3
<1>19. Unique'
  <2>1. \A q \in Request : ~Works(q, c)
    BY <1>16 DEF Works, Busy, Working
  <2> QED BY <1>1, <1>18, <2>1 DEF Unique
<1>20. Cardinality(Lost)' <= faults'
  <2>1. Attended(c)' /\ \A d \in Client \ {c} : Attended(d)' <=> Attended(d)
    BY <1>18 DEF Attended
  <2>2. Lost' \subseteq Lost
    BY <1>2, <1>8, <2>1 DEF Lost
  <2>3. faults \in Nat
    BY <1>1, ConversationAssumption DEF TypeOK, ConversationAssumption
  <2> QED BY <1>1, <1>3, <2>2, <2>3, LostCount
<1> QED BY <1>12, <1>13, <1>14, <1>15, <1>17, <1>19, <1>20 DEF IInv

(* The question, asked.                                                        *)
LEMMA AskKeeps ==
  ASSUME IInv, NEW r \in Request, req[r].pc = "idle", exists, turn[Query].status = "absent",
         AgentMessage(Query, "goal_query", "query_sent", "waiting"),
         req' = [req EXCEPT ![r] = Idle(Query, Len(messages) + 1)],
         UNCHANGED <<exists, gap, attachment, faults>>
  PROVE  IInv'
<1> DEFINE n == Len(messages) + 1
           row == [status |-> "waiting", scene |-> "goal_query", outcome |-> "query_sent",
                   result |-> n]
           m == [sender |-> "agent", turn |-> Query]
<1>1. /\ TypeOK /\ Turns /\ Unique /\ OneReplyEach /\ JudgedByAnAnswer
      /\ Cardinality(Lost) <= faults /\ \A q \in Request : Handles(q)
  BY DEF IInv
<1>2. Query \in Turn /\ Query \notin Client /\ Client \subseteq Turn
  BY ConversationAssumption DEF Turn, ConversationAssumption
<1>3. turn' = [turn EXCEPT ![Query] = row] /\ messages' = Append(messages, m)
  BY DEF AgentMessage
<1>4. m \in Message /\ m.sender = "agent" /\ m.turn = Query
  BY <1>2 DEF Message
<1>5. turn[Query].result = 0
  BY <1>1 DEF OneReplyEach
<1>6. n \in Nat /\ n # 0
  BY <1>1 DEF TypeOK
<1>7. /\ row \in TurnRow /\ row.status = "waiting" /\ row.outcome = "query_sent" /\ row.result = n
  BY <1>6 DEF TurnRow, Status, Outcome
<1>8. /\ messages' \in Seq(Message) /\ n \in DOMAIN messages' /\ messages'[n] = m
      /\ \A i \in DOMAIN messages : i \in DOMAIN messages' /\ messages'[i] = messages[i]
      /\ \A i \in DOMAIN messages' : i \in DOMAIN messages \/ i = n
  BY <1>1, <1>3, <1>4, Appended
<1>9. /\ req' = [req EXCEPT ![r] = Idle(Query, n)] /\ UNCHANGED <<exists, gap, attachment, faults>>
  OBVIOUS
<1>10. m = [sender |-> "agent", turn |-> Query]
  OBVIOUS
<1> HIDE DEF n, row, m
<1>11. /\ turn' \in [Turn -> TurnRow] /\ turn'[Query] = row
       /\ \A t \in Turn \ {Query} : turn'[t] = turn[t]
       /\ \A c \in Client : turn'[c] = turn[c]
  BY <1>1, <1>2, <1>3, <1>7 DEF TypeOK
<1>12. /\ Idle(Query, n) \in Handling /\ Idle(Query, n).pc = "idle"
       /\ Idle(Query, n).reply.client = Query /\ Idle(Query, n).reply.message = n
  BY <1>2, <1>6, Idles
<1>13. /\ req' \in [Request -> Handling] /\ req'[r] = Idle(Query, n)
       /\ \A q \in Request \ {r} : req'[q] = req[q]
  BY <1>1, <1>9, <1>12 DEF TypeOK
<1>14. TypeOK'
  <2>1. ASSUME NEW t \in Turn, turn'[t].result # 0
        PROVE  /\ turn'[t].result \in DOMAIN messages'
               /\ messages'[turn'[t].result] = [sender |-> "agent", turn |-> t]
    <3>1. CASE t = Query
      BY <1>7, <1>8, <1>10, <1>11, <3>1
    <3>2. CASE t # Query
      <4>1. turn'[t].result = turn[t].result
        BY <1>11, <3>2
      <4> QED BY <1>1, <1>8, <2>1, <4>1, KeepsResults
    <3> QED BY <3>1, <3>2
  <2> QED BY <1>1, <1>8, <1>9, <1>11, <1>13, <2>1 DEF TypeOK
<1>15. OneReplyEach'
  <2>1. ASSUME NEW i \in DOMAIN messages', messages'[i].sender = "agent"
        PROVE  turn'[messages'[i].turn].result = i
    <3>1. CASE i \in DOMAIN messages
      <4>1. messages'[i] = messages[i] /\ messages[i] \in Message
        BY <1>1, <1>8, <3>1 DEF TypeOK
      <4>2. messages[i].turn \in Turn /\ turn[messages[i].turn].result = i /\ i # 0
        BY <1>1, <2>1, <3>1, <4>1 DEF OneReplyEach, Message, TypeOK
      <4>3. messages[i].turn # Query
        BY <1>5, <4>2
      <4> QED BY <1>11, <4>1, <4>2, <4>3
    <3>2. CASE i = n
      BY <1>4, <1>7, <1>8, <1>11, <3>2
    <3> QED BY <1>8, <3>1, <3>2
  <2>2. ASSUME NEW d \in Client
        PROVE  /\ turn'[d].result # 0 <=>
                    turn'[d].status = "completed" /\ turn'[d].outcome # "pending"
               /\ attachment'[d] # "none" <=> turn'[d].outcome = "attachment_sent"
    BY <1>1, <1>9, <1>11 DEF OneReplyEach
  <2>3. turn'[Query].result # 0 <=> turn'[Query].status # "absent"
    BY <1>6, <1>7, <1>11
  <2> QED BY <2>1, <2>2, <2>3 DEF OneReplyEach
<1>16. Turns'
  BY <1>1, <1>2, <1>7, <1>9, <1>11 DEF Turns
<1>17. JudgedByAnAnswer'
  BY <1>7, <1>11 DEF JudgedByAnAnswer
<1>18. \A q \in Request : Handles(q)'
  <2>1. Handles(r)'
    BY <1>7, <1>11, <1>12, <1>13 DEF Handles, Busy, Judging, Working
  <2>2. ASSUME NEW q \in Request \ {r}
        PROVE  Handles(q)'
    <3>1. Undisturbed(q)
      <4>1. \A t \in Turn : /\ turn[t].status # "absent" => turn'[t].status # "absent"
                            /\ turn[t].result # 0 => turn'[t].result = turn[t].result
        BY <1>5, <1>7, <1>11
      <4>2. Busy(q) => turn'[req[q].client] = turn[req[q].client]
        BY <1>1, <1>11 DEF Handles
      <4> QED BY <1>9, <1>11, <4>1, <4>2 DEF Undisturbed
    <3> QED BY <1>1, <1>13, <3>1, Rests
  <2> QED BY <2>1, <2>2
<1>19. \A q \in Request, d \in Client : Works(q, d)' <=> Works(q, d)
  BY <1>12, <1>13 DEF Works
<1>20. Unique'
  BY <1>1, <1>19 DEF Unique
<1>21. Cardinality(Lost)' <= faults'
  <2>1. \A d \in Client : Attended(d)' <=> Attended(d)
    BY <1>19 DEF Attended
  <2>2. Lost' \subseteq Lost
    BY <1>11, <2>1 DEF Lost
  <2>3. faults \in Nat
    BY <1>1, ConversationAssumption DEF TypeOK, ConversationAssumption
  <2> QED BY <1>1, <1>9, <2>2, <2>3, LostCount
<1> QED BY <1>14, <1>15, <1>16, <1>17, <1>18, <1>20, <1>21 DEF IInv

LEMMA StartQueryKeeps == ASSUME IInv, NEW r \in Request, StartQuery(r) PROVE IInv'
<1>1. /\ TypeOK /\ Turns /\ Query \in Turn /\ faults \in 0..MaxFaults /\ ~Busy(r) /\ 0 \in Nat
      /\ exists /\ req[r].pc = "idle" /\ UNCHANGED <<exists, gap, attachment, faults>>
  BY DEF IInv, StartQuery, TypeOK, Turn, Busy, Working
<1>2. ResultMessage(Query) \in Nat
  BY <1>1, ShownResult
<1>3. CASE ~gap
  <2>1. req' = [req EXCEPT ![r] = Idle(Query, 0)] /\ UNCHANGED <<turn, messages>>
    BY <1>3 DEF StartQuery
  <2> QED BY <1>1, <2>1, StopKeeps
<1>4. CASE gap /\ turn[Query].status # "absent"
  <2>1. req' = [req EXCEPT ![r] = Idle(Query, ResultMessage(Query))] /\ UNCHANGED <<turn, messages>>
    BY <1>4 DEF StartQuery
  <2>2. turn[Query].status \notin {"absent", "processing"}
    BY <1>1, <1>4 DEF Turns
  <2> QED BY <1>1, <1>2, <2>1, <2>2, StopKeeps
<1>5. CASE gap /\ turn[Query].status = "absent"
  <2>1. /\ AgentMessage(Query, "goal_query", "query_sent", "waiting")
        /\ req' = [req EXCEPT ![r] = Idle(Query, Len(messages) + 1)]
    BY <1>5 DEF StartQuery
  <2> QED BY <1>1, <1>5, <2>1, AskKeeps
<1> QED BY <1>3, <1>4, <1>5

(* The steps of no handler.                                                    *)
LEMMA OtherStepsKeep ==
  ASSUME IInv, \/ GoalAchieved \/ DebugReset \/ UNCHANGED vars
               \/ \E c \in Client : DownloadExpired(c)
  PROVE  IInv'
<1>1. /\ TypeOK /\ Turns /\ Unique /\ OneReplyEach /\ JudgedByAnAnswer
      /\ Cardinality(Lost) <= faults /\ \A q \in Request : Handles(q)
  BY DEF IInv
<1>2. UNCHANGED <<req, faults>>
  BY DEF GoalAchieved, DebugReset, vars, DownloadExpired
<1>3. \A c \in Client : Attended(c)' = Attended(c)
  BY <1>2 DEF Attended, Works
<1>4. Unique'
  BY <1>1, <1>2 DEF Unique, Works
<1>5. faults \in Nat
  BY <1>1, ConversationAssumption DEF TypeOK, ConversationAssumption
<1>6. CASE GoalAchieved \/ UNCHANGED vars
  <2>1. UNCHANGED <<exists, turn, messages, attachment>> /\ gap' \in BOOLEAN
    BY <1>1, <1>6 DEF GoalAchieved, vars, TypeOK
  <2>2. TypeOK' /\ Turns' /\ OneReplyEach' /\ JudgedByAnAnswer'
    <3>1. TypeOK'
      BY <1>1, <1>2, <2>1 DEF TypeOK
    <3>2. Turns'
      BY <1>1, <1>2, <2>1 DEF Turns
    <3>3. OneReplyEach' /\ JudgedByAnAnswer'
      BY <1>1, <1>2, <2>1 DEF OneReplyEach, JudgedByAnAnswer
    <3> QED BY <3>1, <3>2, <3>3
  <2>3. \A q \in Request : Handles(q)'
    BY <1>1, <1>2, <2>1 DEF Handles, Busy, Judging
  <2>4. Lost' = Lost
    BY <1>3, <2>1 DEF Lost
  <2> QED BY <1>1, <1>2, <1>4, <2>2, <2>3, <2>4 DEF IInv
<1>7. ASSUME NEW c \in Client, DownloadExpired(c)
      PROVE  IInv'
  <2>1. /\ UNCHANGED <<exists, gap, turn, messages>> /\ attachment[c] = "downloadable"
        /\ attachment' = [attachment EXCEPT ![c] = "expired"]
    BY <1>7 DEF DownloadExpired
  <2>2. /\ attachment' \in [Client -> {"none", "downloadable", "expired"}]
        /\ \A d \in Client : attachment'[d] = "none" <=> attachment[d] = "none"
    BY <1>1, <2>1 DEF TypeOK
  <2>3. exists
    BY <1>1, <2>1 DEF Turns
  <2>4. TypeOK' /\ Turns'
    BY <1>1, <1>2, <2>1, <2>2, <2>3 DEF TypeOK, Turns
  <2>5. OneReplyEach' /\ JudgedByAnAnswer'
    BY <1>1, <2>1, <2>2 DEF OneReplyEach, JudgedByAnAnswer
  <2>6. \A q \in Request : Handles(q)'
    BY <1>1, <1>2, <2>1 DEF Handles, Busy, Judging
  <2>7. Lost' = Lost
    BY <1>3, <2>1 DEF Lost
  <2> QED BY <1>1, <1>2, <1>4, <2>4, <2>5, <2>6, <2>7 DEF IInv
<1>8. CASE DebugReset
  <2>1. /\ exists' = FALSE /\ messages' = <<>> /\ UNCHANGED <<gap, req, faults>>
        /\ turn' = [t \in Turn |-> NoTurn] /\ attachment' = [c \in Client |-> "none"]
    BY <1>8 DEF DebugReset
  <2>2. /\ NoTurn \in TurnRow /\ NoTurn.status = "absent" /\ NoTurn.outcome = "none"
        /\ NoTurn.result = 0
    BY DEF NoTurn, TurnRow, Status, Outcome
  <2>3. \A t \in Turn : turn'[t] = NoTurn
    BY <2>1
  <2>4. Query \in Turn /\ Client \subseteq Turn
    BY DEF Turn
  <2>5. TypeOK'
    <3>1. turn' \in [Turn -> TurnRow] /\ messages' \in Seq(Message) /\ exists' \in BOOLEAN
      <4>1. turn' \in [Turn -> TurnRow]
        BY <2>1, <2>2
      <4>2. <<>> \in Seq(Message)
        OBVIOUS
      <4> QED BY <2>1, <4>1, <4>2
    <3>2. attachment' \in [Client -> {"none", "downloadable", "expired"}]
      BY <2>1
    <3>3. \A t \in Turn : turn'[t].result = 0
      BY <2>2, <2>3
    <3> QED BY <1>1, <2>1, <3>1, <3>2, <3>3 DEF TypeOK
  <2>6. Turns' /\ OneReplyEach' /\ JudgedByAnAnswer'
    BY <2>1, <2>2, <2>3, <2>4 DEF Turns, OneReplyEach, JudgedByAnAnswer
  <2>7. \A q \in Request : Handles(q)'
    BY <1>1, <2>1 DEF Handles, Busy
  <2>8. Lost' \subseteq Lost
    BY <2>2, <2>3, <2>4 DEF Lost
  <2>9. Cardinality(Lost)' <= faults'
    BY <1>1, <1>2, <1>5, <2>8, LostCount
  <2> QED BY <1>4, <2>5, <2>6, <2>7, <2>9 DEF IInv
<1> QED BY <1>6, <1>7, <1>8

-----------------------------------------------------------------------------
(* The invariant                                                             *)

LEMMA InitHolds == Init => IInv
<1> SUFFICES ASSUME Init PROVE IInv
  OBVIOUS
<1>1. /\ exists = TRUE /\ gap \in BOOLEAN /\ turn = [t \in Turn |-> NoTurn] /\ messages = <<>>
      /\ attachment = [c \in Client |-> "none"] /\ req = [r \in Request |-> Idle(Query, 0)]
      /\ faults = 0
  BY DEF Init
<1>2. /\ NoTurn \in TurnRow /\ NoTurn.status = "absent" /\ NoTurn.outcome = "none"
      /\ NoTurn.result = 0
  BY DEF NoTurn, TurnRow, Status, Outcome
<1>3. Query \in Turn /\ Client \subseteq Turn /\ MaxFaults \in Nat
  BY ConversationAssumption DEF Turn, ConversationAssumption
<1>4. \A t \in Turn : turn[t] = NoTurn
  BY <1>1
<1>5. /\ Idle(Query, 0) \in Handling /\ Idle(Query, 0).pc = "idle"
      /\ Idle(Query, 0).reply.message = 0
  BY <1>3, Idles
<1>6. TypeOK
  <2>1. turn \in [Turn -> TurnRow] /\ exists \in BOOLEAN /\ faults \in 0..MaxFaults
    BY <1>1, <1>2, <1>3
  <2>2. <<>> \in Seq(Message)
    OBVIOUS
  <2>3. attachment \in [Client -> {"none", "downloadable", "expired"}] /\ req \in [Request -> Handling]
    BY <1>1, <1>5
  <2>4. \A t \in Turn : turn[t].result = 0
    BY <1>2, <1>4
  <2> QED BY <1>1, <2>1, <2>2, <2>3, <2>4 DEF TypeOK
<1>7. Turns /\ OneReplyEach /\ JudgedByAnAnswer
  BY <1>1, <1>2, <1>3, <1>4 DEF Turns, OneReplyEach, JudgedByAnAnswer
<1>8. \A r \in Request : req[r].pc = "idle" /\ req[r].reply.message = 0
  BY <1>1, <1>5
<1>9. (\A r \in Request : Handles(r)) /\ Unique
  BY <1>8 DEF Handles, Busy, Working, Judging, Unique, Works
<1>10. Lost = {}
  BY <1>2, <1>3, <1>4 DEF Lost
<1>11. Cardinality(Lost) <= faults
  BY <1>1, <1>10, FS_EmptySet
<1> QED BY <1>6, <1>7, <1>9, <1>11 DEF IInv

LEMMA StepKeeps == IInv /\ [Next]_vars => IInv'
<1> SUFFICES ASSUME IInv, [Next]_vars PROVE IInv'
  OBVIOUS
<1>1. ASSUME NEW r \in Request, RequestStep(r) PROVE IInv'
  <2>1. ASSUME NEW c \in Client, Resend(r, c) PROVE IInv'
    BY <2>1, ResendKeeps
  <2>2. ASSUME NEW c \in Client, NEW content \in Content, Receive(r, c, content) PROVE IInv'
    BY <2>2, ReceiveKeeps
  <2>3. CASE StartQuery(r)
    BY <2>3, StartQueryKeeps
  <2>4. CASE HandlerStep(r)
    BY <2>4, AnswerKeeps, DeliverKeeps, FailTurnKeeps, JudgeReadKeeps, JudgeUnclearKeeps,
       JudgeClearKeeps, PollKeeps, NotFoundKeeps DEF HandlerStep
  <2>5. CASE DeliveryRaises(r) \/ Crash(r)
    BY <2>5, DeliveryRaisesKeeps, CrashKeeps
  <2> QED BY <1>1, <2>1, <2>2, <2>3, <2>4, <2>5 DEF RequestStep
<1>2. CASE \/ GoalAchieved \/ DebugReset \/ UNCHANGED vars
           \/ \E c \in Client : DownloadExpired(c)
  BY <1>2, OtherStepsKeep
<1> QED BY <1>1, <1>2 DEF Next

LEMMA Invariant == Spec => []IInv
<1>1. Init => IInv
  BY InitHolds
<1>2. IInv /\ [Next]_vars => IInv'
  BY StepKeeps
<1> QED BY <1>1, <1>2, PTL DEF Spec

-----------------------------------------------------------------------------
(* The theorems                                                              *)

(* Every turn, message and handler keeps its type, and a result is a message  *)
(* of the agent for that very turn: agent_turns.result_message_id.            *)
THEOREM ConversationTypeCorrect == Spec => []TypeOK
<1>1. IInv => TypeOK
  BY DEF IInv
<1> QED BY <1>1, Invariant, PTL

(* The agent says one thing per turn, however many handlers serve HR's         *)
(* messages at once and wherever they fail: _record_message and its commit.    *)
THEOREM ConversationOneReplyEach == Spec => []OneReplyEach
<1>1. IInv => OneReplyEach
  BY DEF IInv
<1> QED BY <1>1, Invariant, PTL

(* What a handler shows for a message is the reply of that message's turn as    *)
(* soon as there is one: receive_message and its forty looks.                  *)
THEOREM ConversationReplyIsOwn == Spec => []ReplyIsOwn
<1>1. IInv => ReplyIsOwn
  <2> SUFFICES ASSUME IInv, NEW r \in Request, req[r].reply.message # 0,
                      turn[req[r].reply.client].result # 0
               PROVE  req[r].reply.message = turn[req[r].reply.client].result
    BY DEF ReplyIsOwn
  <2> DEFINE t == req[r].reply.client
  <2>1. TypeOK /\ Turns /\ Handles(r) /\ t \in Turn
    BY DEF IInv, TypeOK, Handling
  <2>2. exists
    BY <2>1 DEF Turns, NoTurn
  <2> QED BY <2>1, <2>2 DEF Handles
<1> QED BY <1>1, Invariant, PTL

(* A judged question has been judged by an answer of HR: the two writes of      *)
(* complete_goal_judgement, in whatever order two of them come.                *)
THEOREM ConversationJudgedByAnAnswer == Spec => []JudgedByAnAnswer
<1>1. IInv => JudgedByAnAnswer
  BY DEF IInv
<1> QED BY <1>1, Invariant, PTL

(* No turn has two handlers, and one that stays open without a handler has      *)
(* cost a fault: receive_message creates a turn once and hands it to one.      *)
THEOREM ConversationOpenIsAttended == Spec => []OpenIsAttended
<1>1. IInv => OpenIsAttended
  BY DEF IInv, OpenIsAttended, Unique, Lost
<1> QED BY <1>1, Invariant, PTL

(* A question that is judged and that no handler is still judging is left       *)
(* alone: only a message that came while it was waiting may change it.          *)
THEOREM ConversationJudgedStaysAlone == Spec => JudgedStaysAlone
<1> DEFINE Alone == turn[Query].status = "completed" /\ ~\E r \in Request : Judging(r)
<1>1. ASSUME IInv, Alone, exists', Next
      PROVE  turn'[Query] = turn[Query] /\ ~\E r \in Request : Judging(r)'
  <2>1. TypeOK /\ Query \in Turn /\ Query \notin Client /\ \A r \in Request : Handles(r)
    <3>1. TypeOK /\ \A r \in Request : Handles(r)
      BY <1>1 DEF IInv
    <3>2. Query \in Turn /\ Query \notin Client
      BY ConversationAssumption DEF Turn, ConversationAssumption
    <3> QED BY <3>1, <3>2
  <2>2. \A t \in Turn \ {Query} : \A row : [turn EXCEPT ![t] = row][Query] = turn[Query]
    BY <2>1 DEF TypeOK
  <2>3. \A x : \A r, q \in Request :
          [req EXCEPT ![r] = x][q] = IF q = r THEN x ELSE req[q]
    BY <2>1 DEF TypeOK
  <2>4. \A t, n : Idle(t, n).pc = "idle"
    BY DEF Idle
  <2>5. ASSUME NEW r \in Request, NEW t, NEW n, req' = [req EXCEPT ![r] = Idle(t, n)]
        PROVE  ~\E q \in Request : Judging(q)'
    BY <1>1, <2>3, <2>4, <2>5 DEF Judging
  <2>6. ASSUME NEW r \in Request, Busy(r), exists
        PROVE  req[r].client \in Turn \ {Query}
    BY <2>1, <2>6 DEF Handles, Turn
  <2>7. ASSUME NEW r \in Request, RequestStep(r)
        PROVE  turn'[Query] = turn[Query] /\ ~\E q \in Request : Judging(q)'
    <3>1. CASE Answer(r) \/ Deliver(r) \/ FailTurn(r)
      <4>1. Busy(r) /\ exists /\ \E n : req' = [req EXCEPT ![r] = Idle(req[r].client, n)]
        BY <3>1 DEF Answer, Deliver, FailTurn, Busy, Working, Done
      <4>2. ~\E q \in Request : Judging(q)'
        BY <2>5, <4>1
      <4>3. PICK row : turn' = [turn EXCEPT ![req[r].client] = row]
        BY <3>1 DEF Answer, Deliver, FailTurn, AgentMessage
      <4>4. turn'[Query] = turn[Query]
        BY <2>2, <2>6, <4>1, <4>3
      <4> QED BY <4>2, <4>4
    <3>2. CASE JudgeRead(r) \/ JudgeUnclear(r) \/ JudgeClear(r)
      BY <1>1, <3>2 DEF JudgeRead, JudgeUnclear, JudgeClear, Judging
    <3>3. CASE PollEnds(r) \/ PollGivesUp(r) \/ NotFound(r) \/ Crash(r)
      <4>1. turn' = turn /\ \E t, n : req' = [req EXCEPT ![r] = Idle(t, n)]
        BY <3>3 DEF PollEnds, PollGivesUp, NotFound, Crash, Done
      <4> QED BY <2>5, <4>1
    <3>4. CASE DeliveryRaises(r)
      <4>1. turn' = turn /\ req' = [req EXCEPT ![r].pc = "failing"]
        BY <3>4 DEF DeliveryRaises
      <4>2. \A q \in Request : req'[q].pc = req[q].pc \/ req'[q].pc = "failing"
        BY <2>1, <4>1 DEF TypeOK, Handling
      <4> QED BY <1>1, <4>1, <4>2 DEF Judging
    <3>5. CASE StartQuery(r)
      <4>1. turn' = turn /\ \E t, n : req' = [req EXCEPT ![r] = Idle(t, n)]
        BY <1>1, <3>5 DEF StartQuery
      <4> QED BY <2>5, <4>1
    <3>6. ASSUME NEW c \in Client, Resend(r, c)
          PROVE  turn'[Query] = turn[Query] /\ ~\E q \in Request : Judging(q)'
      <4>1. /\ [Idle(c, 0) EXCEPT !.pc = "polling"].pc = "polling"
            /\ \A n : Idle(c, n).pc = "idle"
        BY DEF Idle
      <4>2. /\ turn' = turn
            /\ \/ req' = [req EXCEPT ![r] = [Idle(c, 0) EXCEPT !.pc = "polling"]]
               \/ req' = [req EXCEPT ![r] = Idle(c, ResultMessage(c))]
        BY <3>6 DEF Resend
      <4>3. turn' = turn /\ \E x : req' = [req EXCEPT ![r] = x] /\ x.pc \in {"idle", "polling"}
        BY <4>1, <4>2
      <4> QED BY <1>1, <2>3, <4>3 DEF Judging
    <3>7. ASSUME NEW c \in Client, NEW content \in Content, Receive(r, c, content)
          PROVE  turn'[Query] = turn[Query] /\ ~\E q \in Request : Judging(q)'
      <4>1. \E row : turn' = [turn EXCEPT ![c] = row]
        BY <3>7 DEF Receive
      <4>2. Handler(Scene(content)) \in {"delivering", "answering"}
        BY <1>1 DEF Handler, Scene, PendingQuery
      <4>3. \E x : req' = [req EXCEPT ![r] = x] /\ x.pc \in {"delivering", "answering"}
        <5> DEFINE x == [Idle(c, 0) EXCEPT !.pc = Handler(Scene(content)),
                                           !.verdict = Judged(content)]
        <5>1. x.pc = Handler(Scene(content))
          BY DEF Idle
        <5>2. req' = [req EXCEPT ![r] = x]
          BY <3>7 DEF Receive
        <5> HIDE DEF x
        <5> QED BY <4>2, <5>1, <5>2
      <4>4. c \in Turn \ {Query}
        BY <2>1 DEF Turn
      <4> QED BY <1>1, <2>2, <2>3, <4>1, <4>3, <4>4 DEF Judging
    <3> QED BY <2>7, <3>1, <3>2, <3>3, <3>4, <3>5, <3>6, <3>7 DEF RequestStep, HandlerStep
  <2>8. CASE GoalAchieved \/ DebugReset \/ \E c \in Client : DownloadExpired(c)
    BY <1>1, <2>8 DEF GoalAchieved, DebugReset, DownloadExpired, Judging
  <2> QED BY <1>1, <2>7, <2>8 DEF Next
<1>2. ASSUME IInv, [Next]_vars
      PROVE  [(/\ turn[Query].status = "completed" /\ exists'
               /\ ~\E r \in Request : Judging(r))
              => turn'[Query] = turn[Query] /\ ~\E r \in Request : Judging(r)']_vars
  BY <1>1, <1>2
<1> QED BY <1>2, Invariant, PTL DEF Spec, JudgedStaysAlone

=============================================================================
