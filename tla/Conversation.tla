----------------------------- MODULE Conversation -----------------------------
(***************************************************************************)
(* One conversation of HR with the candidate's agent: HR's messages, the   *)
(* agent turn each of them starts, the one question the agent asks about   *)
(* an unconfirmed condition of the goal, the judgement of HR's answer, and *)
(* the delivery of documents.                                              *)
(*                                                                         *)
(* A request is two transactions with the model or the answer parser       *)
(* between them.  The first holds the conversation's row lock from its     *)
(* first read to its commit (get_for_hr ... FOR UPDATE), so it is one      *)
(* action; so is a second transaction that touches no turn but its own.  A *)
(* judgement also writes the turn of the question, which it reads without  *)
(* a lock: its read and its write are two actions.                         *)
(***************************************************************************)
EXTENDS Integers, Sequences, FiniteSetsExt

CONSTANTS
  Client,      \* client_message_id of HR's messages
  Request,     \* handlers of HR's requests
  Query,       \* the turn of the agent's question (source_message_id IS NULL)
  MaxFaults    \* handlers that die and deliveries that raise

ASSUME ConversationAssumption ==
  Query \notin Client /\ IsFiniteSet(Client) /\ MaxFaults \in Nat

VARIABLES
  exists,      \* is the conversation there? (a debug reset removes it)
  gap,         \* has the active goal a condition the job does not confirm?
  turn,        \* agent_turns, by the message or question they belong to
  messages,    \* messages in the order of created_at: sender and turn
  attachment,  \* message_attachments.status of the agent message of a turn
  req,         \* the handlers
  faults

vars == <<exists, gap, turn, messages, attachment, req, faults>>

Turn == Client \cup {Query}
Verdict == {"stop", "continue", "pending"}
Content == {"stop", "continue", "question", "request"}
NoTurn == [status |-> "absent", scene |-> "none", outcome |-> "none", result |-> 0]
Status == {"absent", "processing", "waiting", "completed", "failed"}
Outcome == Verdict \cup {"none", "query_sent", "message_sent", "attachment_sent",
                        "document_not_found", "attachment_failed"}
TurnRow == [status : Status, outcome : Outcome, result : Nat,
            scene : {"none", "goal_query", "goal_judgement", "document_delivery",
                     "resume_answer"}]
Message == [sender : {"hr", "agent"}, turn : Turn]
Unread == [status |-> "absent", outcome |-> "none"]
Handling == [pc : {"idle", "answering", "delivering", "failing", "judging", "judged",
                   "polling"},
             client : Turn, verdict : Verdict, seen : [status : Status, outcome : Outcome],
             reply : [client : Turn, message : Nat]]
Idle(client, message) ==
  [pc |-> "idle", client |-> client, verdict |-> "pending", seen |-> Unread,
   reply |-> [client |-> client, message |-> message]]

TypeOK ==
  /\ exists \in BOOLEAN /\ gap \in BOOLEAN
  /\ turn \in [Turn -> TurnRow] /\ messages \in Seq(Message)
  /\ \A t \in Turn : turn[t].result # 0 =>
       /\ turn[t].result \in DOMAIN messages
       /\ messages[turn[t].result] = [sender |-> "agent", turn |-> t]
  /\ attachment \in [Client -> {"none", "downloadable", "expired"}]
  /\ req \in [Request -> Handling]
  /\ faults \in 0..MaxFaults

Init ==
  /\ exists = TRUE
  /\ gap \in BOOLEAN
  /\ turn = [t \in Turn |-> NoTurn]
  /\ messages = <<>>
  /\ attachment = [c \in Client |-> "none"]
  /\ req = [r \in Request |-> Idle(Query, 0)]
  /\ faults = 0

-----------------------------------------------------------------------------
(* Reading and writing turns *)

Source(c) == CHOOSE i \in DOMAIN messages : messages[i] = [sender |-> "hr", turn |-> c]
RepliesAfter(i) == {k \in DOMAIN messages : k > i /\ messages[k].sender = "agent"}

\* mutant: the turn's own result is not looked at.
ResultMessageBySource(t) ==
  IF t = Query \/ RepliesAfter(Source(t)) = {} THEN 0 ELSE Min(RepliesAfter(Source(t)))
\* The result of a turn; without one, the first agent message after its source.
ResultMessage(t) ==
  CASE turn[t].result # 0 -> turn[t].result
    [] turn[t].result = 0 /\ (t = Query \/ RepliesAfter(Source(t)) = {}) -> 0
    [] OTHER -> Min(RepliesAfter(Source(t)))

\* mutant: the position is taken before the message is there.
AgentMessageEarly(t, scene, outcome, status) ==
  /\ messages' = Append(messages, [sender |-> "agent", turn |-> t])
  /\ turn' = [turn EXCEPT ![t] = [status |-> status, scene |-> scene, outcome |-> outcome,
                                  result |-> Len(messages)]]
\* mutant: the reply is not linked to its turn.
AgentMessageUnlinked(t, scene, outcome, status) ==
  /\ messages' = Append(messages, [sender |-> "agent", turn |-> t])
  /\ turn' = [turn EXCEPT ![t] = [@ EXCEPT !.status = status, !.scene = scene,
                                           !.outcome = outcome]]
\* The message, and the turn with its status and its result.
AgentMessage(t, scene, outcome, status) ==
  /\ messages' = Append(messages, [sender |-> "agent", turn |-> t])
  /\ turn' = [turn EXCEPT ![t] = [status |-> status, scene |-> scene, outcome |-> outcome,
                                  result |-> Len(messages) + 1]]

\* The ORM writes the columns that differ from what was read, and no others.
Flushed(t, seen, status, outcome) ==
  [t EXCEPT !.status = IF status = seen.status THEN @ ELSE status,
            !.outcome = IF outcome = seen.outcome THEN @ ELSE outcome]

Done(r, message) == req' = [req EXCEPT ![r] = Idle(req[r].client, message)]

-----------------------------------------------------------------------------
(* HR sends a message *)

\* mutant: any question, answered or not, takes the message.
PendingQueryAny == turn[Query].status # "absent"
PendingQuery == turn[Query].status = "waiting"

Scene(content) ==
  IF PendingQuery THEN "goal_judgement"
  ELSE IF content = "request" THEN "document_delivery" ELSE "resume_answer"

Handler(scene) ==
  CASE scene = "goal_judgement"    -> "judging"
    [] scene = "document_delivery" -> "delivering"
    [] scene = "resume_answer"     -> "answering"

\* A yes or no that decides the condition; everything else leaves it pending.
Judged(content) == IF gap /\ content \in {"stop", "continue"} THEN content ELSE "pending"

\* mutant: the client's id is not looked up.
IsNewAlways(c) == TRUE
IsNew(c) == turn[c].status = "absent"

\* The first delivery of a message: message and turn are stored.
Receive(r, c, content) ==
  /\ req[r].pc = "idle" /\ exists
  /\ IsNew(c)
  /\ messages' = Append(messages, [sender |-> "hr", turn |-> c])
  /\ turn' = [turn EXCEPT ![c] =
       [status |-> "processing", scene |-> Scene(content), outcome |-> "none", result |-> 0]]
  /\ req' = [req EXCEPT ![r] = [Idle(c, 0) EXCEPT !.pc = Handler(Scene(content)),
                                                  !.verdict = Judged(content)]]
  /\ UNCHANGED <<exists, gap, attachment, faults>>

\* A message sent again gets the result of its turn, or waits for it.
Resend(r, c) ==
  /\ req[r].pc = "idle" /\ exists
  /\ turn[c].status # "absent"
  /\ req' = [req EXCEPT ![r] =
       IF turn[c].status = "processing" THEN [Idle(c, 0) EXCEPT !.pc = "polling"]
       ELSE Idle(c, ResultMessage(c))]
  /\ UNCHANGED <<exists, gap, turn, messages, attachment, faults>>

PollEnds(r) ==
  /\ req[r].pc = "polling" /\ turn[req[r].client].status # "processing"
  /\ Done(r, IF exists THEN ResultMessage(req[r].client) ELSE 0)
  /\ UNCHANGED <<exists, gap, turn, messages, attachment, faults>>

\* Forty looks, 50 ms apart, and the answer is "not found".
PollGivesUp(r) ==
  /\ req[r].pc = "polling"
  /\ Done(r, 0)
  /\ UNCHANGED <<exists, gap, turn, messages, attachment, faults>>

-----------------------------------------------------------------------------
(* The agent's turn *)

\* mutant: one turn at a time; the others wait.
AnswerInTurn(r) ==
  /\ req[r].pc = "answering" /\ exists
  /\ \A c \in Client \ {req[r].client} : turn[c].status # "processing"
  /\ AgentMessage(req[r].client, "resume_answer", "message_sent", "completed")
  /\ Done(r, Len(messages) + 1)
  /\ UNCHANGED <<exists, gap, attachment, faults>>

\* What the model says, or a fixed text when it fails: one message either way.
Answer(r) ==
  /\ req[r].pc = "answering" /\ exists
  /\ AgentMessage(req[r].client, "resume_answer", "message_sent", "completed")
  /\ Done(r, Len(messages) + 1)
  /\ UNCHANGED <<exists, gap, attachment, faults>>

\* The message and, if exactly one document fits, its attachment.
Deliver(r) ==
  LET c == req[r].client IN
  /\ req[r].pc = "delivering" /\ exists
  /\ \E outcome \in {"attachment_sent", "document_not_found"} :
       /\ AgentMessage(c, "document_delivery", outcome, "completed")
       /\ attachment' = IF outcome = "attachment_sent"
                        THEN [attachment EXCEPT ![c] = "downloadable"] ELSE attachment
  /\ Done(r, Len(messages) + 1)
  /\ UNCHANGED <<exists, gap, faults>>

\* The delivery raises: PostgreSQL rolls it back, a second transaction follows.
DeliveryRaises(r) ==
  /\ req[r].pc = "delivering" /\ exists
  /\ faults < MaxFaults
  /\ faults' = faults + 1
  /\ req' = [req EXCEPT ![r].pc = "failing"]
  /\ UNCHANGED <<exists, gap, turn, messages, attachment>>

FailTurn(r) ==
  /\ req[r].pc = "failing" /\ exists
  /\ turn' = [turn EXCEPT ![req[r].client] =
       [@ EXCEPT !.status = "failed", !.outcome = "attachment_failed"]]
  /\ Done(r, 0)
  /\ UNCHANGED <<exists, gap, messages, attachment, faults>>

JudgeRead(r) ==
  /\ req[r].pc = "judging" /\ exists
  /\ req' = [req EXCEPT ![r].pc = "judged",
       ![r].seen = [status |-> turn[Query].status, outcome |-> turn[Query].outcome]]
  /\ UNCHANGED <<exists, gap, turn, messages, attachment, faults>>

\* mutant: an unclear answer completes the question.
JudgeUnclearCompletes(r) ==
  /\ req[r].pc = "judged" /\ exists
  /\ req[r].verdict = "pending"
  /\ turn' = [turn EXCEPT
       ![req[r].client] = [@ EXCEPT !.status = "completed", !.outcome = "pending"],
       ![Query] = Flushed(@, req[r].seen, "completed", "pending")]
  /\ Done(r, 0)
  /\ UNCHANGED <<exists, gap, messages, attachment, faults>>

\* No clear answer: no message, and the question waits, whatever has become of it.
JudgeUnclear(r) ==
  /\ req[r].pc = "judged" /\ exists
  /\ req[r].verdict = "pending"
  /\ turn' = [turn EXCEPT
       ![req[r].client] = [@ EXCEPT !.status = "completed", !.outcome = "pending"],
       ![Query] = Flushed(@, req[r].seen, "waiting", "pending")]
  /\ Done(r, 0)
  /\ UNCHANGED <<exists, gap, messages, attachment, faults>>

\* A clear answer: a message, and the question is completed.
JudgeClear(r) ==
  LET c == req[r].client IN
  /\ req[r].pc = "judged" /\ exists
  /\ req[r].verdict # "pending"
  /\ messages' = Append(messages, [sender |-> "agent", turn |-> c])
  /\ turn' = [turn EXCEPT
       ![c] = [status |-> "completed", scene |-> "goal_judgement",
               outcome |-> req[r].verdict, result |-> Len(messages) + 1],
       ![Query] = Flushed(@, req[r].seen, "completed", req[r].verdict)]
  /\ Done(r, Len(messages) + 1)
  /\ UNCHANGED <<exists, gap, attachment, faults>>

-----------------------------------------------------------------------------
(* The agent asks *)

\* Nothing to ask, the question as it was asked, or the question now.
StartQuery(r) ==
  /\ req[r].pc = "idle" /\ exists
  /\ \/ ~gap /\ req' = [req EXCEPT ![r] = Idle(Query, 0)] /\ UNCHANGED <<turn, messages>>
     \/ /\ gap /\ turn[Query].status # "absent"
        /\ req' = [req EXCEPT ![r] = Idle(Query, ResultMessage(Query))]
        /\ UNCHANGED <<turn, messages>>
     \/ /\ gap /\ turn[Query].status = "absent"
        /\ AgentMessage(Query, "goal_query", "query_sent", "waiting")
        /\ req' = [req EXCEPT ![r] = Idle(Query, Len(messages) + 1)]
  /\ UNCHANGED <<exists, gap, attachment, faults>>

-----------------------------------------------------------------------------
(* Around the conversation *)

\* The goal is achieved: find_goal_condition_gap returns nothing from now on.
GoalAchieved ==
  /\ gap
  /\ gap' = FALSE
  /\ UNCHANGED <<exists, turn, messages, attachment, req, faults>>

\* A download seven days after the delivery, or later.
DownloadExpired(c) ==
  /\ attachment[c] = "downloadable"
  /\ attachment' = [attachment EXCEPT ![c] = "expired"]
  /\ UNCHANGED <<exists, gap, turn, messages, req, faults>>

\* The rows of the conversation go with their run.
DebugReset ==
  /\ exists
  /\ exists' = FALSE
  /\ turn' = [t \in Turn |-> NoTurn]
  /\ messages' = <<>>
  /\ attachment' = [c \in Client |-> "none"]
  /\ UNCHANGED <<gap, req, faults>>

\* A handler finds its turn gone, a new request the conversation.
NotFound(r) ==
  /\ ~exists
  /\ req' = [req EXCEPT ![r] = Idle(Query, 0)]
  /\ UNCHANGED <<exists, gap, turn, messages, attachment, faults>>

\* The process dies, or a transaction of it fails: nothing more is written.
Crash(r) ==
  /\ req[r].pc # "idle"
  /\ faults < MaxFaults
  /\ faults' = faults + 1
  /\ Done(r, 0)
  /\ UNCHANGED <<exists, gap, turn, messages, attachment>>

-----------------------------------------------------------------------------
HandlerStep(r) ==
  \/ Answer(r) \/ Deliver(r) \/ FailTurn(r)
  \/ JudgeRead(r) \/ JudgeUnclear(r) \/ JudgeClear(r)
  \/ PollEnds(r) \/ PollGivesUp(r) \/ NotFound(r)

RequestStep(r) ==
  \/ \E c \in Client : Resend(r, c) \/ \E content \in Content : Receive(r, c, content)
  \/ StartQuery(r)
  \/ HandlerStep(r)
  \/ DeliveryRaises(r) \/ Crash(r)

Next ==
  \/ \E r \in Request : RequestStep(r)
  \/ GoalAchieved \/ DebugReset
  \/ \E c \in Client : DownloadExpired(c)

Spec == Init /\ [][Next]_vars

\* A handler that has begun goes on; nobody has to send, ask or download.
FairSpec == Spec /\ \A r \in Request : WF_vars(HandlerStep(r))

-----------------------------------------------------------------------------
(* Properties *)

\* The agent says one thing per turn: every agent message is the result of its
\* turn; a turn that is open, failed or undecided has none; and there is an
\* attachment exactly with a delivery that says so.  No retry, race or failed
\* transaction leaves a second or half a reply.
OneReplyEach ==
  /\ \A i \in DOMAIN messages :
       messages[i].sender = "agent" => turn[messages[i].turn].result = i
  /\ \A c \in Client :
       /\ turn[c].result # 0 <=>
            turn[c].status = "completed" /\ turn[c].outcome # "pending"
       /\ attachment[c] # "none" <=> turn[c].outcome = "attachment_sent"
  /\ turn[Query].result # 0 <=> turn[Query].status # "absent"

\* A message is stored once and answered with its own reply as soon as there is
\* one, however often it is sent.
ReplyIsOwn ==
  \A r \in Request :
    LET own == turn[req[r].reply.client].result
    IN req[r].reply.message # 0 /\ own # 0 => req[r].reply.message = own

\* A question is judged by an answer of HR: a completed question has a turn that
\* stopped or continued, and the outcome it bears is that of a turn.
JudgedByAnAnswer ==
  LET verdicts == {turn[c].outcome : c \in Client} \cap {"stop", "continue"} IN
  /\ turn[Query].status = "completed" => verdicts # {}
  /\ turn[Query].outcome \in {"stop", "continue"} => turn[Query].outcome \in verdicts

Works(r, c) ==
  /\ req[r].client = c
  /\ req[r].pc \in {"answering", "delivering", "failing", "judging", "judged"}
Attended(c) == \E r \in Request : Works(r, c)

\* A turn is open as long as one handler works on it, and never two; one that
\* nobody works on any more has lost its handler to a fault, each fault one.
OpenIsAttended ==
  /\ Cardinality({c \in Client : turn[c].status = "processing" /\ ~Attended(c)}) <= faults
  /\ \A q, r \in Request, c \in Client : Works(q, c) /\ Works(r, c) => q = r

Judging(r) == req[r].pc \in {"judging", "judged"}

\* A judged question is not asked again, and changes only by the hand of a
\* handler whose message came while it was waiting.
JudgedStaysAlone ==
  [][(/\ turn[Query].status = "completed" /\ exists'
      /\ ~\E r \in Request : Judging(r))
     => turn'[Query] = turn[Query] /\ ~\E r \in Request : Judging(r)']_vars

\* A handler that lives settles its turn, whatever the others do meanwhile.
TurnSettles ==
  \A c \in Client :
    (turn[c].status = "processing" /\ Attended(c))
      ~> (turn[c].status # "processing" \/ ~Attended(c))

-----------------------------------------------------------------------------
(* What the documents say of a conversation and the code does not keep *)

\* "not_created -> awaiting_answer -> judged", "pending -> judged": a question
\* that has been judged stays as it was judged.
JudgedIsFinal ==
  [][turn[Query].status = "completed" /\ exists' => turn'[Query] = turn[Query]]_vars
=============================================================================
