------------------------ MODULE WorkspaceStore_proofs ------------------------
(* Theorems about WorkspaceStore, for every value of the constants.          *)
EXTENDS WorkspaceStore, SequenceTheorems, TLAPS

(* How far a command has come: what it made is at the server from the moment *)
(* it was sent, and what it lists afterwards is that or newer.                *)
Sent(o, srv) ==
  \A k \in DOMAIN Commands[o.name].read : o.made <= srv[o.user][Commands[o.name].read[k]]

Listed(o) ==
  \A k \in DOMAIN Commands[o.name].read :
    LET told == o.got[Commands[o.name].read[k]]
    IN told.owner = o.user /\ told.version >= o.made

Progress(o, srv) ==
  \/ o.todo = Requests(Commands[o.name])
  \/ o.todo = <<"reply">> \o Commands[o.name].read /\ Sent(o, srv)
  \/ o.todo = Commands[o.name].read /\ Sent(o, srv)
  \/ o.todo = <<>> /\ Listed(o)

(* An operation in flight asks for slices only, on behalf of an account, but *)
(* for a command, which first asks for its change.                            *)
Sound(o, srv) ==
  \/ o.kind = "idle" /\ o.todo = <<>>
  \/ /\ o.kind \in {"refresh", "tick"}
     /\ o.todo \in Seq(Slice)
     /\ o.todo # <<>> => o.user \in User
  \/ o.kind = "command" /\ o.name = "readRun" /\ o.user \in User /\ o.todo \in Seq(Slice)
  \/ o.kind = "command" /\ o.name \in DOMAIN Commands /\ o.user \in User /\ Progress(o, srv)

Table(t, srv) == t \in [Slots -> OpType] /\ \A i \in Slots : Sound(t[i], srv)

Live(t) == \E i \in Slots : t[i].kind = "tick" /\ t[i].live

(* The timer runs, and a tick is listened to, only where there is a pending  *)
(* parse to ask for: it has an account to ask with.                          *)
PollHasReason(t, timer, st, a) == timer = "armed" \/ Live(t) => ShouldPoll(st, a)

StoreInv ==
  /\ TypeOK
  /\ Table(ops, server)
  /\ PollHasReason(ops, poll, store, auth)
-----------------------------------------------------------------------------
(* Values                                                                    *)

LEMMA Slices ==
  Slice = {"resume", "supportingDocuments", "jobGoal", "agentRun", "applications",
           "hrJobs", "hrApplications", "conversations"}
<1>1. \A s : s \in Slice <=> \/ \E i \in 1..5 : s = ReadsOf["candidate"][i]
                             \/ \E i \in 1..3 : s = ReadsOf["hr"][i]
  BY DEF Slice
<1>2. ReadsOf["candidate"] = <<"resume", "supportingDocuments", "jobGoal", "agentRun", "applications">>
      /\ ReadsOf["hr"] = <<"hrJobs", "hrApplications", "conversations">>
  BY DEF ReadsOf
<1>3. 1..5 = {1, 2, 3, 4, 5} /\ 1..3 = {1, 2, 3}
  OBVIOUS
<1>4. \A s : (\E i \in 1..5 : s = ReadsOf["candidate"][i]) <=>
             s \in {"resume", "supportingDocuments", "jobGoal", "agentRun", "applications"}
  BY <1>2, <1>3
<1>5. \A s : (\E i \in 1..3 : s = ReadsOf["hr"][i]) <=>
             s \in {"hrJobs", "hrApplications", "conversations"}
  BY <1>2, <1>3
<1> QED BY <1>1, <1>4, <1>5

LEMMA Reads ==
  /\ DOMAIN ReadsOf = {"candidate", "hr"}
  /\ \A r \in {"candidate", "hr"} : ReadsOf[r] \in Seq(Slice)
<1>1. <<"resume", "supportingDocuments", "jobGoal", "agentRun", "applications">> \in Seq(Slice)
      /\ <<"hrJobs", "hrApplications", "conversations">> \in Seq(Slice)
  BY Slices
<1> QED BY <1>1 DEF ReadsOf

LEMMA Requested ==
  /\ "send" \notin Slice /\ "reply" \notin Slice
  /\ "resume" \in Slice /\ "hrJobs" \in Slice /\ "agentRun" \in Slice
  /\ Seq(Slice) \subseteq Seq(Request)
<1>1. ASSUME NEW q \in Seq(Slice) PROVE q \in Seq(Request)
  BY DEF Request
<1> QED BY <1>1, Slices

(* What a command lists afterwards is one slice or none.                     *)
CommandOk(c) == c.read = <<>> \/ \E s \in Slice : c.read = <<s>>

LEMMA CommandShape ==
  ASSUME NEW p, NEW f, NEW changes, NEW parse, NEW answer, NEW copied, NEW after
  PROVE  /\ CommandOk(Command(p, f, changes, parse, answer, <<>>, copied, after))
         /\ \A s \in Slice : CommandOk(Command(p, f, changes, parse, answer, <<s>>, copied, after))
BY DEF CommandOk, Command

LEMMA CommandsOk ==
  /\ \A n \in DOMAIN Commands : CommandOk(Commands[n])
  /\ "readRun" \notin DOMAIN Commands /\ "" \notin DOMAIN Commands
<1>1. DOMAIN Commands = {"uploadResume", "deleteResume", "uploadDocuments", "deleteDocument",
        "saveGoal", "startAgent", "uploadJobs", "retryJobParse", "deleteJob",
        "updateApplicationStatus", "sendMessage", "startConversationQuery"}
  BY DEF Commands
<1>2. /\ CommandOk(Commands["uploadResume"]) /\ CommandOk(Commands["deleteResume"])
      /\ CommandOk(Commands["uploadDocuments"]) /\ CommandOk(Commands["deleteDocument"])
  BY CommandShape, Requested, Slices DEF Commands
<1>3. /\ CommandOk(Commands["saveGoal"]) /\ CommandOk(Commands["startAgent"])
      /\ CommandOk(Commands["uploadJobs"]) /\ CommandOk(Commands["retryJobParse"])
  BY CommandShape, Requested, Slices DEF Commands
<1>4. /\ CommandOk(Commands["deleteJob"]) /\ CommandOk(Commands["updateApplicationStatus"])
      /\ CommandOk(Commands["sendMessage"]) /\ CommandOk(Commands["startConversationQuery"])
  BY CommandShape, Requested, Slices DEF Commands
<1> QED BY <1>1, <1>2, <1>3, <1>4

LEMMA EmptyTyped ==
  /\ Nothing \in Value /\ Empty \in [Slice -> Value] /\ Idle \in OpType
  /\ <<>> \in Seq(Request) /\ <<>> \in Seq(Slice)
<1>1. Nothing \in Value /\ Empty \in [Slice -> Value]
  BY DEF Nothing, Empty, Value
<1>2. <<>> \in Seq(Request) /\ <<>> \in Seq(Slice)
  OBVIOUS
<1>3. "" \in DOMAIN Commands \cup {"", "readRun"} /\ "none" \in Flags
  BY DEF Flags
<1> HIDE DEF Commands
<1> QED BY <1>1, <1>2, <1>3 DEF Idle, OpType

LEMMA IdleSound == \A srv : Sound(Idle, srv)
BY DEF Idle, Sound

LEMMA RefreshSound ==
  ASSUME NEW u \in User \cup {None}, NEW v \in Nat, NEW f \in Flags
  PROVE  /\ RefreshOp(u, v, f) \in OpType
         /\ \A srv : Sound(RefreshOp(u, v, f), srv)
         /\ RefreshOp(u, v, f).kind = "refresh" /\ RefreshOp(u, v, f) # Idle
<1> DEFINE q == IF u = None THEN <<>> ELSE ReadsOf[RoleOf[u]]
<1>1. q \in Seq(Slice) /\ q \in Seq(Request) /\ (q # <<>> => u \in User)
  BY Reads, Requested, EmptyTyped, StoreAssumption DEF StoreAssumption
<1>2. RefreshOp(u, v, f) = [Idle EXCEPT !.kind = "refresh", !.user = u, !.visit = v,
                              !.flag = f, !.todo = q]
  BY DEF RefreshOp
<1> HIDE DEF q
<1>3. /\ RefreshOp(u, v, f).kind = "refresh" /\ RefreshOp(u, v, f).todo = q
      /\ RefreshOp(u, v, f).user = u /\ RefreshOp(u, v, f) \in OpType
  BY <1>1, <1>2, EmptyTyped, ZenonT(40) DEF Idle, OpType
<1>4. RefreshOp(u, v, f) # Idle
  <2>1. Idle.kind = "idle"
    BY DEF Idle
  <2> QED BY <1>3, <2>1
<1> QED BY <1>1, <1>3, <1>4 DEF Sound

-----------------------------------------------------------------------------
(* The table of operations                                                   *)

LEMMA Put ==
  ASSUME NEW t, NEW srv, Table(t, srv), NEW i \in Slots, NEW o \in OpType, Sound(o, srv)
  PROVE  Table([t EXCEPT ![i] = o], srv)
BY DEF Table

LEMMA CancelledTable ==
  ASSUME NEW t, NEW srv, Table(t, srv)
  PROVE  Table(Cancelled(t), srv) /\ ~Live(Cancelled(t))
<1>1. ASSUME NEW i \in Slots
      PROVE  /\ Cancelled(t)[i] \in OpType /\ Sound(Cancelled(t)[i], srv)
             /\ ~(Cancelled(t)[i].kind = "tick" /\ Cancelled(t)[i].live)
  <2>1. t[i] \in OpType /\ Sound(t[i], srv)
    BY DEF Table
  <2>2. CASE t[i].kind = "tick"
    <3> DEFINE o == [t[i] EXCEPT !.live = FALSE]
    <3>1. Cancelled(t)[i] = o
      BY <2>2 DEF Cancelled
    <3>2. /\ o \in OpType /\ o.live = FALSE /\ o.kind = t[i].kind /\ o.todo = t[i].todo
          /\ o.user = t[i].user
      BY <2>1 DEF OpType
    <3>3. Sound(o, srv)
      BY <2>1, <2>2, <3>2 DEF Sound
    <3> QED BY <3>1, <3>2, <3>3
  <2>3. CASE t[i].kind # "tick"
    BY <2>1, <2>3 DEF Cancelled
  <2> QED BY <2>2, <2>3
<1>2. DOMAIN Cancelled(t) = Slots /\ Cancelled(t) = [i \in Slots |-> Cancelled(t)[i]]
  BY DEF Cancelled
<1> QED BY <1>1, <1>2 DEF Table, Live

LEMMA RerenderTable ==
  ASSUME NEW t, NEW timer, NEW srv, Table(t, srv), Rerender(t, timer)
  PROVE  Table(ops', srv)
BY CancelledTable DEF Rerender

(* A render that sets no timer anew leaves what the poll depends on as it was. *)
LEMMA RerenderPoll ==
  ASSUME NEW t, NEW timer, NEW srv, Table(t, srv), Rerender(t, timer),
         PollHasReason(t, timer, store, auth)
  PROVE  PollHasReason(ops', poll', store', auth')
<1>1. CASE Dependencies(store', auth') = Dependencies(store, auth)
  <2>1. ops' = t /\ poll' = timer
    BY <1>1 DEF Rerender
  <2>2. ShouldPoll(store', auth') = ShouldPoll(store, auth)
    BY <1>1 DEF Dependencies
  <2> QED BY <2>1, <2>2 DEF PollHasReason
<1>2. CASE Dependencies(store', auth') # Dependencies(store, auth)
  <2>1. ops' = Cancelled(t) /\ poll' = FreshPoll(store', auth')
    BY <1>2 DEF Rerender
  <2>2. ~Live(Cancelled(t))
    BY CancelledTable
  <2> QED BY <2>1, <2>2 DEF PollHasReason, FreshPoll
<1> QED BY <1>1, <1>2
-----------------------------------------------------------------------------
(* Requests in flight                                                        *)

LEMMA Concatenations ==
  ASSUME NEW a, NEW b, NEW c
  PROVE  /\ <<a>> \o <<>> = <<a>> /\ <<a, b>> \o <<>> = <<a, b>>
         /\ <<a>> \o <<c>> = <<a, c>> /\ <<a, b>> \o <<c>> = <<a, b, c>>
<1> DEFINE S == {a, b, c}
<1>1. /\ <<>> \in Seq(S) /\ <<a>> \in Seq(S) /\ <<c>> \in Seq(S) /\ <<a, b>> \in Seq(S)
      /\ <<a, c>> \in Seq(S) /\ <<a, b, c>> \in Seq(S)
  OBVIOUS
<1> HIDE DEF S
<1>2. <<a>> \o <<>> = <<a>> /\ <<a, b>> \o <<>> = <<a, b>>
  BY <1>1, ConcatEmptySeq
<1>3. <<a>> \o <<c>> = <<a, c>>
  <2> DEFINE x == <<a>>  y == <<c>>  z == <<a, c>>
  <2>1. /\ x \in Seq(S) /\ y \in Seq(S) /\ z \in Seq(S)
        /\ Len(x) = 1 /\ Len(y) = 1 /\ Len(z) = 2
        /\ x[1] = a /\ y[1] = c /\ z[1] = a /\ z[2] = c
    BY <1>1
  <2> HIDE DEF x, y, z
  <2>2. /\ x \o y \in Seq(S) /\ Len(x \o y) = 2
        /\ \A i \in 1..2 : (x \o y)[i] = IF i <= 1 THEN x[i] ELSE y[i - 1]
    BY <2>1, ConcatProperties
  <2>3. \A i \in 1..2 : (x \o y)[i] = z[i]
    BY <2>1, <2>2
  <2>4. x \o y = z
    BY <2>1, <2>2, <2>3, SeqEqual
  <2> QED BY <2>4 DEF x, y, z
<1>4. <<a, b>> \o <<c>> = <<a, b, c>>
  <2> DEFINE x == <<a, b>>  y == <<c>>  z == <<a, b, c>>
  <2>1. /\ x \in Seq(S) /\ y \in Seq(S) /\ z \in Seq(S)
        /\ Len(x) = 2 /\ Len(y) = 1 /\ Len(z) = 3
        /\ x[1] = a /\ x[2] = b /\ y[1] = c /\ z[1] = a /\ z[2] = b /\ z[3] = c
    BY <1>1
  <2> HIDE DEF x, y, z
  <2>2. /\ x \o y \in Seq(S) /\ Len(x \o y) = 3
        /\ \A i \in 1..3 : (x \o y)[i] = IF i <= 2 THEN x[i] ELSE y[i - 2]
    <3>1. /\ x \o y \in Seq(S) /\ Len(x \o y) = Len(x) + Len(y)
          /\ \A i \in 1..Len(x) + Len(y) : (x \o y)[i] = IF i <= Len(x) THEN x[i] ELSE y[i - Len(x)]
      BY <2>1, ConcatProperties, Zenon
    <3> QED BY <2>1, <3>1
  <2>3. \A i \in 1..3 : (x \o y)[i] = z[i]
    BY <2>1, <2>2
  <2>4. x \o y = z
    BY <2>1, <2>2, <2>3, SeqEqual
  <2> QED BY <2>4 DEF x, y, z
<1> QED BY <1>2, <1>3, <1>4

LEMMA Queue ==
  ASSUME NEW c, CommandOk(c)
  PROVE  /\ Requests(c) \in Seq(Request) /\ Requests(c) # <<>>
         /\ Head(Requests(c)) = "send" /\ Tail(Requests(c)) = <<"reply">> \o c.read
         /\ <<"reply">> \o c.read \in Seq(Request) /\ <<"reply">> \o c.read # <<>>
         /\ Head(<<"reply">> \o c.read) = "reply" /\ Tail(<<"reply">> \o c.read) = c.read
         /\ c.read \in Seq(Slice)
         /\ c.read # <<>> => /\ Head(c.read) \in Slice /\ Tail(c.read) = <<>>
                             /\ DOMAIN c.read = {1} /\ c.read[1] = Head(c.read)
<1>1. CASE c.read = <<>>
  <2>1. Requests(c) = <<"send", "reply">> /\ <<"reply">> \o c.read = <<"reply">>
    BY <1>1 DEF Requests
  <2> QED BY <1>1, <2>1 DEF Request
<1>2. ASSUME NEW s \in Slice, c.read = <<s>>
      PROVE  /\ Requests(c) \in Seq(Request) /\ Requests(c) # <<>>
             /\ Head(Requests(c)) = "send" /\ Tail(Requests(c)) = <<"reply">> \o c.read
             /\ <<"reply">> \o c.read \in Seq(Request) /\ <<"reply">> \o c.read # <<>>
             /\ Head(<<"reply">> \o c.read) = "reply" /\ Tail(<<"reply">> \o c.read) = c.read
             /\ c.read \in Seq(Slice)
             /\ c.read # <<>> => /\ Head(c.read) \in Slice /\ Tail(c.read) = <<>>
                                 /\ DOMAIN c.read = {1} /\ c.read[1] = Head(c.read)
  <2>1. Requests(c) = <<"send", "reply", s>> /\ <<"reply">> \o c.read = <<"reply", s>>
    <3>1. <<"send", "reply">> \o <<s>> = <<"send", "reply", s>> /\ <<"reply">> \o <<s>> = <<"reply", s>>
      BY Concatenations, ZenonT(40)
    <3> QED BY <1>2, <3>1, Zenon DEF Requests
  <2>2. <<"send", "reply", s>> \in Seq(Request) /\ <<"reply", s>> \in Seq(Request) /\ <<s>> \in Seq(Slice)
    BY DEF Request
  <2>3. /\ Head(<<"send", "reply", s>>) = "send" /\ Tail(<<"send", "reply", s>>) = <<"reply", s>>
        /\ <<"send", "reply", s>> # <<>>
    OBVIOUS
  <2>4. Head(<<"reply", s>>) = "reply" /\ Tail(<<"reply", s>>) = <<s>> /\ <<"reply", s>> # <<>>
    OBVIOUS
  <2>5. Head(<<s>>) = s /\ Tail(<<s>>) = <<>> /\ DOMAIN <<s>> = {1} /\ <<s>>[1] = s
    OBVIOUS
  <2> QED BY <1>2, <2>1, <2>2, <2>3, <2>4, <2>5, Zenon
<1> QED BY <1>1, <1>2 DEF CommandOk

(* Which operation it is that has a request of this kind before it.          *)
Asking(o) == o.kind = "command" /\ o.name \in DOMAIN Commands /\ o.user \in User

Reading(o) ==
  /\ \/ o.kind \in {"refresh", "tick"}
     \/ o.kind = "command" /\ o.name = "readRun"
  /\ o.todo \in Seq(Slice)

LEMMA Asked ==
  ASSUME NEW o, NEW srv, Sound(o, srv), o.todo # <<>>
  PROVE  /\ o.user \in User
         /\ Head(o.todo) = "send" => Asking(o) /\ o.todo = Requests(Commands[o.name])
         /\ Head(o.todo) = "reply" =>
              Asking(o) /\ o.todo = <<"reply">> \o Commands[o.name].read /\ Sent(o, srv)
         /\ Head(o.todo) \in Slice =>
              \/ Reading(o)
              \/ Asking(o) /\ o.todo = Commands[o.name].read /\ Sent(o, srv)
<1>1. CASE Reading(o)
  <2>1. o.user \in User
    BY <1>1, CommandsOk DEF Sound, Reading
  <2>2. Head(o.todo) \in Slice
    BY <1>1 DEF Reading
  <2> QED BY <1>1, <2>1, <2>2, Requested
<1>2. CASE Asking(o) /\ Progress(o, srv)
  <2>1. CommandOk(Commands[o.name])
    BY <1>2, CommandsOk DEF Asking
  <2>2. CASE o.todo = Requests(Commands[o.name])
    BY <1>2, <2>1, <2>2, Queue, Requested DEF Asking
  <2>3. CASE o.todo = <<"reply">> \o Commands[o.name].read /\ Sent(o, srv)
    BY <1>2, <2>1, <2>3, Queue, Requested DEF Asking
  <2>4. CASE o.todo = Commands[o.name].read /\ Sent(o, srv)
    BY <1>2, <2>1, <2>4, Queue, Requested DEF Asking
  <2> QED BY <1>2, <2>2, <2>3, <2>4 DEF Progress
<1> QED BY <1>1, <1>2 DEF Sound, Reading, Asking

(* What the server has only becomes newer, so what was told of it remains so. *)
ServerType == [User -> [Slice -> Nat]]

LEMMA Growth ==
  ASSUME NEW t, NEW old \in ServerType, NEW new \in ServerType, Table(t, old),
         \A u \in User : \A s \in Slice : old[u][s] <= new[u][s]
  PROVE  Table(t, new)
<1> SUFFICES ASSUME NEW i \in Slots PROVE Sound(t[i], new)
  BY DEF Table
<1> DEFINE o == t[i]
<1>1. Sound(o, old) /\ o \in OpType
  BY DEF Table
<1>2. CASE Asking(o) /\ Progress(o, old)
  <2>1. CommandOk(Commands[o.name])
    BY <1>2, CommandsOk DEF Asking
  <2>2. ASSUME Sent(o, old) PROVE Sent(o, new)
    <3> SUFFICES ASSUME NEW k \in DOMAIN Commands[o.name].read
                 PROVE  o.made <= new[o.user][Commands[o.name].read[k]]
      BY DEF Sent
    <3> DEFINE s == Commands[o.name].read[k]
    <3>1. s \in Slice
      BY <2>1, Queue
    <3>2. o.made <= old[o.user][s] /\ old[o.user][s] <= new[o.user][s]
      BY <2>2, <3>1, <1>2 DEF Sent, Asking
    <3>3. old[o.user][s] \in Nat /\ new[o.user][s] \in Nat /\ o.made \in Nat
      BY <1>1, <1>2, <3>1 DEF ServerType, Asking, OpType
    <3> HIDE DEF s, o
    <3>4. o.made <= new[o.user][s]
      BY <3>2, <3>3
    <3> QED BY <3>4 DEF s
  <2>3. Progress(o, new)
    BY <1>2, <2>2 DEF Progress
  <2> QED BY <1>2, <2>3 DEF Sound, Asking
<1>3. CASE ~(Asking(o) /\ Progress(o, old))
  BY <1>1, <1>3 DEF Sound, Asking
<1> QED BY <1>2, <1>3

LEMMA WrittenTyped ==
  ASSUME NEW o \in OpType, NEW base \in [Slice -> Value]
  PROVE  Written(o, base) \in [Slice -> Value]
<1>1. o.got \in [Slice -> Value]
  BY DEF OpType
<1> QED BY <1>1 DEF Written
-----------------------------------------------------------------------------
(* The steps                                                                 *)

LEMMA Homes ==
  \A u \in User : RoleOf[u] \in {"candidate", "hr"} /\ "home" \in PagesOf[RoleOf[u]]
BY StoreAssumption DEF StoreAssumption, PagesOf

(* An operation put in the place of another is no tick that is listened to:   *)
(* what the poll depends on is as it was.                                     *)
LEMMA Rendered ==
  ASSUME StoreInv, server' = server, NEW i \in Slots, NEW o \in OpType, Sound(o, server),
         ~(o.kind = "tick" /\ o.live), NEW timer,
         timer \in PollState,
         timer = "armed" => ShouldPoll(store, auth),
         Rerender([ops EXCEPT ![i] = o], timer)
  PROVE  /\ Table(ops', server') /\ PollHasReason(ops', poll', store', auth')
         /\ poll' \in PollState
<1> DEFINE t == [ops EXCEPT ![i] = o]
<1>1. Table(t, server)
  BY Put DEF StoreInv
<1>2. Live(t) => Live(ops)
  BY DEF Live, StoreInv, Table
<1>3. PollHasReason(t, timer, store, auth)
  BY <1>2 DEF StoreInv, PollHasReason
<1> HIDE DEF t
<1>4. Rerender(t, timer)
  BY DEF t
<1>5. Table(ops', server') /\ PollHasReason(ops', poll', store', auth')
  BY <1>1, <1>3, <1>4, RerenderTable, RerenderPoll
<1>6. poll' \in PollState
  BY <1>4 DEF PollState, Rerender, FreshPoll
<1> QED BY <1>5, <1>6

LEMMA MountStep ==
  ASSUME StoreInv, NEW u \in User, NEW p \in PagesOf[RoleOf[u]], Mount(p, u), auth' = u,
         busy' \subseteq busy
  PROVE  StoreInv'
<1>1. visit' \in 0..MaxVisits /\ visit + 1 \in Nat
  BY StoreAssumption DEF Mount, StoreInv, TypeOK, StoreAssumption
<1>2. PICK i \in Slots : ops' = [Cancelled(ops) EXCEPT ![i] = RefreshOp(u, visit + 1, "none")]
  BY DEF Mount
<1>3. "none" \in Flags /\ server' = server /\ store' = store
  BY DEF Flags, Mount
<1> DEFINE o == RefreshOp(u, visit + 1, "none")
<1>4. o \in OpType /\ Sound(o, server) /\ o.kind = "refresh"
  BY <1>1, <1>3, RefreshSound
<1> HIDE DEF o
<1>5. Table(Cancelled(ops), server) /\ ~Live(Cancelled(ops))
  BY CancelledTable DEF StoreInv
<1>6. Table(ops', server')
  BY <1>2, <1>3, <1>4, <1>5, Put DEF o
<1>7. ~Live(ops')
  BY <1>2, <1>4, <1>5 DEF o, Live, Table
<1>8. PollHasReason(ops', poll', store', auth')
  BY <1>3, <1>7 DEF Mount, FreshPoll, PollHasReason
<1>9. /\ page' = p /\ auth' # None /\ loading' \in BOOLEAN /\ initialized' \in BOOLEAN
      /\ poll' \in {"off", "armed"} /\ commands' = commands /\ faults' = faults
  BY StoreAssumption DEF Mount, FreshPoll, StoreAssumption
<1>10. TypeOK'
  BY <1>1, <1>3, <1>6, <1>9 DEF PollState, TypeOK, Table, StoreInv
<1> QED BY <1>6, <1>8, <1>10 DEF StoreInv

LEMMA SignInStep ==
  ASSUME StoreInv, NEW u \in User, SignIn(u)
  PROVE  StoreInv'
BY Homes, MountStep DEF SignIn

LEMMA NavigateStep ==
  ASSUME StoreInv, NEW p, Navigate(p)
  PROVE  StoreInv'
<1>1. auth \in User /\ p \in PagesOf[RoleOf[auth]] /\ Mount(p, auth) /\ auth' = auth
      /\ busy' \subseteq busy
  BY DEF Navigate, StoreInv, TypeOK
<1> QED BY <1>1, MountStep

LEMMA SignOutStep ==
  ASSUME StoreInv, SignOut
  PROVE  StoreInv'
<1>1. Table(ops', server') /\ ~Live(ops')
  BY CancelledTable DEF SignOut, StoreInv
<1>2. PollHasReason(ops', poll', store', auth')
  BY <1>1 DEF SignOut, PollHasReason
<1>3. TypeOK'
  BY <1>1, EmptyTyped DEF SignOut, PollState, StoreInv, TypeOK, Table
<1> QED BY <1>1, <1>2, <1>3 DEF StoreInv

LEMMA ParseEndsStep ==
  ASSUME StoreInv, NEW u \in User, NEW s \in Parsed, ParseEnds(u, s)
  PROVE  StoreInv'
<1>1. s \in Slice /\ server \in ServerType
  BY Requested DEF Parsed, StoreInv, TypeOK, ServerType
<1>2. server' = [server EXCEPT ![u][s] = server[u][s] + 1]
  BY <1>1 DEF ParseEnds
<1>3. server' \in ServerType /\ \A v \in User : \A x \in Slice : server[v][x] <= server'[v][x]
  BY <1>1, <1>2 DEF ServerType
<1>4. Table(ops', server')
  BY <1>1, <1>3, Growth DEF ParseEnds, StoreInv
<1>5. TypeOK'
  BY <1>3 DEF ParseEnds, StoreInv, TypeOK, ServerType
<1> QED BY <1>4, <1>5 DEF StoreInv, ParseEnds, PollHasReason, Live

(* A request moves one operation on, which stays of its kind.                 *)
LEMMA Moved ==
  ASSUME StoreInv, NEW i \in Slots, NEW o \in OpType, NEW srv \in ServerType,
         server' = srv, \A u \in User : \A s \in Slice : server[u][s] <= srv[u][s],
         Sound(o, srv), o.kind = ops[i].kind, o.live = ops[i].live,
         ops' = [ops EXCEPT ![i] = o],
         UNCHANGED <<auth, page, visit, store, initialized, loading, busy, poll, commands>>,
         faults' \in 0..MaxFaults
  PROVE  StoreInv'
<1>1. Table(ops, srv)
  BY Growth DEF StoreInv, TypeOK, ServerType
<1>2. Table(ops', server')
  BY <1>1, Put
<1>3. Live(ops') => Live(ops)
  BY DEF Live, StoreInv, Table
<1>4. PollHasReason(ops', poll', store', auth')
  BY <1>3 DEF StoreInv, PollHasReason
<1>5. TypeOK'
  BY <1>2 DEF StoreInv, TypeOK, Table, ServerType
<1> QED BY <1>2, <1>4, <1>5 DEF StoreInv

LEMMA SendStep ==
  ASSUME StoreInv, NEW i \in Slots, Send(i)
  PROVE  StoreInv'
<1> DEFINE o == ops[i]
           c == Commands[o.name]
           new == [s \in Slice |-> IF s \in c.changes THEN After(c, server[o.user][s])
                                   ELSE server[o.user][s]]
           srv == [server EXCEPT ![o.user] = new]
           told == [s \in Slice |-> IF s \in c.answer
                      THEN [owner |-> o.user, version |-> new[s]] ELSE o.got[s]]
           made == IF c.read = <<>> THEN 0 ELSE new[c.read[1]]
           q == [o EXCEPT !.todo = Tail(o.todo), !.got = told, !.made = made]
<1>1. o \in OpType /\ Sound(o, server) /\ server \in ServerType
  BY DEF StoreInv, Table, TypeOK, ServerType
<1>2. Asking(o) /\ o.todo = Requests(c)
  BY <1>1, Asked DEF Send
<1>3. CommandOk(c)
  BY <1>2, CommandsOk DEF Asking
<1>4. o.user \in User /\ server[o.user] \in [Slice -> Nat]
  BY <1>1, <1>2 DEF Asking, ServerType
<1>5. new \in [Slice -> Nat] /\ \A s \in Slice : server[o.user][s] <= new[s]
  <2> SUFFICES ASSUME NEW s \in Slice PROVE new[s] \in Nat /\ server[o.user][s] <= new[s]
    OBVIOUS
  <2>1. server[o.user][s] \in Nat
    BY <1>4
  <2>2. After(c, server[o.user][s]) \in Nat /\ server[o.user][s] <= After(c, server[o.user][s])
    BY <2>1 DEF After
  <2> QED BY <2>1, <2>2
<1>6. made \in Nat /\ told \in [Slice -> Value]
  <2>1. o.got \in [Slice -> Value] /\ \A s \in Slice : [owner |-> o.user, version |-> new[s]] \in Value
    BY <1>1, <1>4, <1>5 DEF OpType, Value
  <2>2. c.read # <<>> => c.read[1] \in Slice
    BY <1>3, Queue
  <2> HIDE DEF new, o, c
  <2> QED BY <1>5, <2>1, <2>2
<1>7. ops' = [ops EXCEPT ![i] = q] /\ server' = srv
  <2>1. server' = srv
    BY DEF Send
  <2>2. ops' = [ops EXCEPT ![i].todo = Tail(@),
          ![i].got = [s \in Slice |-> IF s \in c.answer
                        THEN [owner |-> o.user, version |-> new[s]] ELSE @[s]],
          ![i].made = made]
    BY DEF Send
  <2> DEFINE q1 == [o EXCEPT !.todo = Tail(o.todo)]
             q2 == [q1 EXCEPT !.got = [s \in Slice |-> IF s \in c.answer
                        THEN [owner |-> o.user, version |-> new[s]] ELSE q1.got[s]]]
  <2>3. ops' = [ops EXCEPT ![i] = [q2 EXCEPT !.made = made]]
    <3> HIDE DEF new, made, c
    <3> QED BY <2>2, <1>1 DEF StoreInv, Table
  <2>4. q1.got = o.got
    BY <1>1 DEF OpType
  <2>5. q2 = [q1 EXCEPT !.got = told]
    BY <2>4
  <2>6. q = [q2 EXCEPT !.made = made]
    <3> HIDE DEF q2, told, made, o, new, c
    <3> QED BY <2>5
  <2> HIDE DEF q, q2, srv, made, told, new, o, c
  <2> QED BY <2>1, <2>3, <2>6
<1> HIDE DEF told, made, new
<1>8. srv \in ServerType /\ srv[o.user] = new /\ \A u \in User : \A s \in Slice : server[u][s] <= srv[u][s]
  <2> HIDE DEF o
  <2>1. srv \in ServerType /\ srv[o.user] = new /\ \A u \in User \ {o.user} : srv[u] = server[u]
    BY <1>1, <1>4, <1>5 DEF ServerType
  <2>2. ASSUME NEW u \in User, NEW s \in Slice PROVE server[u][s] <= srv[u][s]
    <3>1. server[u][s] \in Nat
      BY <1>1 DEF ServerType
    <3> HIDE DEF srv
    <3> QED BY <2>1, <1>5, <3>1
  <2> QED BY <2>1, <2>2
<1> HIDE DEF srv
<1>9. /\ q \in OpType /\ q.kind = o.kind /\ q.live = o.live /\ q.name = o.name /\ q.user = o.user
      /\ q.todo = Tail(o.todo) /\ q.made = made
  <2>1. Tail(o.todo) \in Seq(Request)
    BY <1>2, <1>3, Queue
  <2> HIDE DEF c
  <2> QED BY <1>1, <1>6, <2>1 DEF OpType
<1> HIDE DEF q
<1>10. Sent(q, srv)
  <2> SUFFICES ASSUME NEW k \in DOMAIN c.read PROVE made <= srv[o.user][c.read[k]]
    BY <1>9 DEF Sent
  <2>1. c.read # <<>> /\ k = 1 /\ c.read[k] \in Slice
    BY <1>3, Queue DEF CommandOk
  <2>2. made = new[c.read[k]] /\ made \in Nat
    BY <2>1, <1>6 DEF made
  <2> QED BY <2>2, <1>8
<1>11. q.todo = <<"reply">> \o c.read
  BY <1>2, <1>3, <1>9, Queue
<1>12. Sound(q, srv)
  BY <1>2, <1>9, <1>10, <1>11 DEF Sound, Asking, Progress
<1>13. UNCHANGED <<auth, page, visit, store, initialized, loading, busy, poll, commands, faults>>
  BY DEF Send
<1>14. faults' \in 0..MaxFaults
  BY <1>13 DEF StoreInv, TypeOK
<1> HIDE DEF o, c
<1> QED BY <1>7, <1>8, <1>9, <1>12, <1>13, <1>14, Moved DEF o

LEMMA ReplyStep ==
  ASSUME StoreInv, NEW i \in Slots, Reply(i)
  PROVE  StoreInv'
<1> DEFINE o == ops[i]
           c == Commands[o.name]
           base == IF c.copied = "reply" THEN store ELSE o.copy
           q == [o EXCEPT !.todo = Tail(o.todo), !.copy = base]
<1>1. o \in OpType /\ Sound(o, server) /\ server \in ServerType /\ store \in [Slice -> Value]
  BY DEF StoreInv, Table, TypeOK, ServerType
<1>2. Asking(o) /\ o.todo = <<"reply">> \o c.read /\ Sent(o, server)
  BY <1>1, Asked DEF Reply
<1>3. CommandOk(c)
  BY <1>2, CommandsOk DEF Asking
<1>4. Tail(o.todo) = c.read /\ Tail(o.todo) \in Seq(Request)
  BY <1>2, <1>3, Queue, Requested, ZenonT(40)
<1>5. base \in [Slice -> Value]
  BY <1>1 DEF OpType
<1>6. ops' = [ops EXCEPT ![i] = q] /\ server' = server
  BY <1>1 DEF Reply, StoreInv, Table
<1> HIDE DEF base, c
<1>7. /\ q \in OpType /\ q.kind = o.kind /\ q.live = o.live /\ q.name = o.name /\ q.user = o.user
      /\ q.todo = Tail(o.todo) /\ q.made = o.made
  BY <1>1, <1>4, <1>5 DEF OpType
<1> HIDE DEF q
<1>8. Sound(q, server)
  BY <1>2, <1>4, <1>7 DEF Sound, Asking, Progress, Sent, c
<1>9. UNCHANGED <<auth, page, visit, store, initialized, loading, busy, poll, commands, faults>>
  BY DEF Reply
<1>10. faults' \in 0..MaxFaults
  BY <1>9 DEF StoreInv, TypeOK
<1>11. \A u \in User : \A s \in Slice : server[u][s] <= server[u][s]
  BY <1>1 DEF ServerType
<1> HIDE DEF o
<1> QED BY <1>1, <1>6, <1>7, <1>8, <1>9, <1>10, <1>11, Moved DEF o

LEMMA ReadStep ==
  ASSUME StoreInv, NEW i \in Slots, Read(i)
  PROVE  StoreInv'
<1> DEFINE o == ops[i]
           s == Head(o.todo)
           told == [owner |-> o.user, version |-> server[o.user][s]]
           q == [o EXCEPT !.todo = Tail(o.todo), !.got = [o.got EXCEPT ![s] = told]]
<1>1. o \in OpType /\ Sound(o, server) /\ server \in ServerType
  BY DEF StoreInv, Table, TypeOK, ServerType
<1>2. /\ o.user \in User /\ s \in Slice
      /\ \/ Reading(o)
         \/ Asking(o) /\ o.todo = Commands[o.name].read /\ Sent(o, server)
  BY <1>1, Asked DEF Read
<1>3. server[o.user][s] \in Nat /\ told \in Value /\ o.got \in [Slice -> Value]
  BY <1>1, <1>2 DEF ServerType, Value, OpType
<1>4. Tail(o.todo) \in Seq(Request)
  <2>1. o.todo \in Seq(Request) /\ o.todo # <<>>
    BY <1>1 DEF OpType, Read
  <2> QED BY <2>1, HeadTailProperties
<1>5. ops' = [ops EXCEPT ![i] = q] /\ server' = server
  BY <1>1 DEF Read, StoreInv, Table
<1> HIDE DEF told, s
<1>6. [o.got EXCEPT ![s] = told] \in [Slice -> Value] /\ [o.got EXCEPT ![s] = told][s] = told
  BY <1>2, <1>3
<1>7. /\ q \in OpType /\ q.kind = o.kind /\ q.live = o.live /\ q.name = o.name /\ q.user = o.user
      /\ q.todo = Tail(o.todo) /\ q.made = o.made /\ q.got[s] = told
  BY <1>1, <1>4, <1>6 DEF OpType
<1> HIDE DEF q
<1>8. Sound(q, server)
  <2>1. CASE Reading(o)
    <3>1. q.todo \in Seq(Slice) /\ q.user \in User
      BY <1>2, <1>7, <2>1 DEF Reading, Read
    <3> QED BY <1>7, <2>1, <3>1 DEF Reading, Sound
  <2>2. CASE Asking(o) /\ o.todo = Commands[o.name].read /\ Sent(o, server)
    <3> DEFINE r == Commands[o.name].read
    <3>1. CommandOk(Commands[o.name])
      BY <2>2, CommandsOk DEF Asking
    <3>2. /\ r # <<>> /\ Tail(r) = <<>> /\ DOMAIN r = {1} /\ r[1] = s
      BY <2>2, <3>1, Queue DEF Read, s
    <3>3. Listed(q)
      <4>1. \A k \in DOMAIN r : r[k] = s /\ o.made <= server[o.user][r[k]]
        BY <2>2, <3>2 DEF Sent
      <4>2. told.owner = o.user /\ told.version = server[o.user][s] /\ o.made \in Nat
        BY <1>1 DEF told, OpType
      <4>3. told.owner = q.user /\ \A k \in DOMAIN r : told.version >= q.made
        BY <4>1, <4>2, <1>3, <1>7
      <4> QED BY <4>1, <4>3, <1>7 DEF Listed
    <3>4. q.todo = <<>>
      BY <2>2, <3>2, <1>7
    <3> QED BY <2>2, <3>3, <3>4, <1>7 DEF Sound, Asking, Progress
  <2> QED BY <1>2, <2>1, <2>2
<1>9. UNCHANGED <<auth, page, visit, store, initialized, loading, busy, poll, commands, faults>>
  BY DEF Read
<1>10. faults' \in 0..MaxFaults
  BY <1>9 DEF StoreInv, TypeOK
<1>11. \A u \in User : \A x \in Slice : server[u][x] <= server[u][x]
  BY <1>1 DEF ServerType
<1> HIDE DEF o
<1> QED BY <1>1, <1>5, <1>7, <1>8, <1>9, <1>10, <1>11, Moved DEF o

LEMMA ConversationsUnreadStep ==
  ASSUME StoreInv, NEW i \in Slots, ConversationsUnread(i)
  PROVE  StoreInv'
<1> DEFINE q == [ops[i] EXCEPT !.todo = <<>>]
<1>1. ops[i] \in OpType /\ server \in ServerType /\ ops[i].kind = "refresh"
  BY DEF StoreInv, Table, TypeOK, ServerType, ConversationsUnread
<1>2. ops' = [ops EXCEPT ![i] = q] /\ server' = server
  BY <1>1 DEF ConversationsUnread, StoreInv, Table
<1>3. q \in OpType /\ q.kind = ops[i].kind /\ q.live = ops[i].live /\ q.todo = <<>>
  BY <1>1, EmptyTyped DEF OpType
<1> HIDE DEF q
<1>4. Sound(q, server)
  BY <1>1, <1>3, EmptyTyped DEF Sound
<1>5. UNCHANGED <<auth, page, visit, store, initialized, loading, busy, poll, commands>>
      /\ faults' \in 0..MaxFaults
  BY StoreAssumption DEF ConversationsUnread, StoreInv, TypeOK, StoreAssumption
<1>6. \A u \in User : \A x \in Slice : server[u][x] <= server[u][x]
  BY <1>1 DEF ServerType
<1> QED BY <1>1, <1>2, <1>3, <1>4, <1>5, <1>6, Moved

LEMMA IdleIsNoTick == Idle.kind = "idle" /\ Idle \in OpType /\ \A srv : Sound(Idle, srv)
BY EmptyTyped, IdleSound DEF Idle

(* The rest of the types, once the table and the store have theirs.           *)
LEMMA RestTyped ==
  ASSUME StoreInv, Table(ops', server'), PollHasReason(ops', poll', store', auth'),
         server' = server, store' \in [Slice -> Value],
         poll' \in PollState,
         initialized' \in BOOLEAN, loading' \in BOOLEAN,
         busy' \subseteq Flags \ {"none", "loading"},
         UNCHANGED visit, commands' \in 0..MaxCommands, faults' \in 0..MaxFaults,
         \/ UNCHANGED <<auth, page>>
         \/ auth' = None /\ page' = "login"
  PROVE  StoreInv'
BY DEF StoreInv, TypeOK, Table

LEMMA RefreshEndsStep ==
  ASSUME StoreInv, NEW i \in Slots, RefreshEnds(i)
  PROVE  StoreInv'
<1>1. ops[i] \in OpType
  BY DEF StoreInv, TypeOK
<1>2. store' \in [Slice -> Value]
  BY <1>1, WrittenTyped, EmptyTyped DEF RefreshEnds
<1>3. poll \in PollState
      /\ (poll = "armed" => ShouldPoll(store, auth))
  BY DEF StoreInv, TypeOK, PollHasReason
<1>4. Rerender([ops EXCEPT ![i] = Idle], poll) /\ server' = server
  BY DEF RefreshEnds
<1>5. /\ Table(ops', server') /\ PollHasReason(ops', poll', store', auth')
      /\ poll' \in PollState
  BY <1>3, <1>4, IdleIsNoTick, Rendered
<1>6. /\ initialized' \in BOOLEAN /\ loading' \in BOOLEAN
      /\ busy' \subseteq Flags \ {"none", "loading"}
      /\ UNCHANGED <<auth, page, visit>>
      /\ commands' \in 0..MaxCommands /\ faults' \in 0..MaxFaults
  BY DEF RefreshEnds, Release, StoreInv, TypeOK
<1> QED BY <1>2, <1>4, <1>5, <1>6, RestTyped

LEMMA CommandStartsStep ==
  ASSUME StoreInv, NEW n \in DOMAIN Commands, CommandStarts(n)
  PROVE  StoreInv'
<1> DEFINE c == Commands[n]
           base == IF c.copied = "start" THEN store ELSE Empty
           q == Requests(c)
           o == [Idle EXCEPT !.kind = "command", !.name = n, !.user = auth, !.visit = visit,
                   !.flag = c.flag, !.todo = q, !.copy = base]
<1>1. CommandOk(c) /\ c.flag \in Flags
  BY CommandsOk DEF Flags
<1>2. q \in Seq(Request)
  BY <1>1, Queue
<1>3. base \in [Slice -> Value] /\ auth \in User /\ visit \in Nat
  BY EmptyTyped, StoreAssumption DEF StoreInv, TypeOK, CommandStarts, StoreAssumption
<1>4. PICK i \in Slots : ops' = [ops EXCEPT ![i] = o]
  BY DEF CommandStarts
<1>5. c.flag = Commands[n].flag /\ q = Requests(Commands[n])
  OBVIOUS
<1> HIDE DEF c, base, q
<1>6. /\ o \in OpType /\ o.kind = "command" /\ o.name = n /\ o.user = auth /\ o.todo = q
  <2> HIDE DEF Commands
  <2> QED BY <1>1, <1>2, <1>3, EmptyTyped DEF Idle, OpType
<1> HIDE DEF o
<1>7. Sound(o, server)
  BY <1>3, <1>5, <1>6 DEF Sound, Progress
<1>8. Table(ops', server') /\ server' = server
  BY <1>4, <1>6, <1>7, Put DEF CommandStarts, StoreInv
<1>9. Live(ops') => Live(ops)
  BY <1>4, <1>6 DEF Live, StoreInv, Table
<1>10. UNCHANGED <<server, auth, page, visit, store, initialized, poll, faults>>
  BY DEF CommandStarts
<1>11. PollHasReason(ops', poll', store', auth')
  BY <1>9, <1>10 DEF StoreInv, PollHasReason
<1>12. commands' \in 0..MaxCommands /\ loading' \in BOOLEAN
  BY StoreAssumption DEF CommandStarts, StoreInv, TypeOK, StoreAssumption
<1>13. busy' \subseteq Flags \ {"none", "loading"}
  BY <1>1, <1>5 DEF CommandStarts, StoreInv, TypeOK
<1>14. /\ store' \in [Slice -> Value] /\ initialized' \in BOOLEAN /\ faults' \in 0..MaxFaults
       /\ poll' \in PollState
  BY <1>10 DEF StoreInv, TypeOK
<1> QED BY <1>8, <1>10, <1>11, <1>12, <1>13, <1>14, RestTyped

(* What follows a command is idle, a status to read, or a refresh.            *)
LEMMA FollowingOk ==
  ASSUME StoreInv, NEW i \in Slots, ops[i].kind = "command"
  PROVE  /\ Following(ops[i]) \in OpType /\ Sound(Following(ops[i]), server)
         /\ Following(ops[i]).kind # "tick"
<1> DEFINE o == ops[i]
           f == [Idle EXCEPT !.kind = "command", !.name = "readRun", !.user = o.user,
                             !.flag = o.flag, !.visit = o.visit, !.todo = <<"agentRun">>]
<1>1. o \in OpType /\ Sound(o, server) /\ auth \in User \cup {None}
  BY DEF StoreInv, Table, TypeOK
<1>2. o.user \in User /\ o.flag \in Flags /\ o.visit \in Nat
  BY <1>1 DEF Sound, OpType
<1>3. <<"agentRun">> \in Seq(Slice) /\ <<"agentRun">> \in Seq(Request)
  BY Requested DEF Request
<1>4. "readRun" \in DOMAIN Commands \cup {"", "readRun"}
  OBVIOUS
<1>5. f \in OpType /\ f.kind = "command" /\ f.name = "readRun" /\ f.user = o.user
      /\ f.todo = <<"agentRun">>
  <2> HIDE DEF o, Commands
  <2> QED BY <1>2, <1>3, <1>4, EmptyTyped DEF Idle, OpType
<1>6. Sound(f, server)
  <2> HIDE DEF f
  <2> QED BY <1>2, <1>3, <1>5 DEF Sound
<1>7. RefreshOp(auth, o.visit, o.flag) \in OpType /\ Sound(RefreshOp(auth, o.visit, o.flag), server)
      /\ RefreshOp(auth, o.visit, o.flag).kind = "refresh"
  BY <1>1, <1>2, RefreshSound
<1>8. \/ Following(o) = Idle
      \/ Following(o) = f
      \/ Following(o) = RefreshOp(auth, o.visit, o.flag)
  BY DEF Following
<1> HIDE DEF o, f
<1>9. Following(o) \in OpType /\ Sound(Following(o), server) /\ Following(o).kind # "tick"
  BY <1>5, <1>6, <1>7, <1>8, IdleIsNoTick
<1> QED BY <1>9 DEF o

LEMMA CommandEndsStep ==
  ASSUME StoreInv, NEW i \in Slots, CommandEnds(i)
  PROVE  StoreInv'
<1> DEFINE o == ops[i]
           f == Following(o)
<1>1. o \in OpType /\ o.kind = "command" /\ o.copy \in [Slice -> Value] /\ store \in [Slice -> Value]
  BY DEF StoreInv, TypeOK, OpType, CommandEnds
<1>2. Base(o) \in [Slice -> Value]
  BY <1>1 DEF Base
<1>3. store' \in [Slice -> Value]
  BY <1>1, <1>2, WrittenTyped DEF CommandEnds
<1>4. poll \in PollState
      /\ (poll = "armed" => ShouldPoll(store, auth))
  BY DEF StoreInv, TypeOK, PollHasReason
<1>5. Rerender([ops EXCEPT ![i] = f], poll) /\ server' = server
  BY DEF CommandEnds
<1>6. f \in OpType /\ Sound(f, server) /\ f.kind # "tick"
  BY <1>1, FollowingOk
<1>7. /\ initialized' \in BOOLEAN /\ loading' \in BOOLEAN
      /\ busy' \subseteq Flags \ {"none", "loading"}
      /\ UNCHANGED <<auth, page, visit>>
      /\ commands' \in 0..MaxCommands /\ faults' \in 0..MaxFaults
  BY DEF CommandEnds, Release, StoreInv, TypeOK
<1> HIDE DEF f, o
<1>8. /\ Table(ops', server') /\ PollHasReason(ops', poll', store', auth')
      /\ poll' \in PollState
  BY <1>4, <1>5, <1>6, Rendered
<1> QED BY <1>3, <1>5, <1>7, <1>8, RestTyped

LEMMA TickStartsStep ==
  ASSUME StoreInv, TickStarts
  PROVE  StoreInv'
<1> DEFINE q == IF PendingResume(store, auth) THEN <<"resume">> ELSE <<"hrJobs">>
           o == [Idle EXCEPT !.kind = "tick", !.user = auth, !.visit = visit, !.live = TRUE,
                             !.todo = q]
<1>1. ShouldPoll(store, auth)
  BY DEF TickStarts, StoreInv, PollHasReason
<1>2. auth \in User /\ visit \in Nat
  BY <1>1, StoreAssumption DEF ShouldPoll, StoreInv, TypeOK, StoreAssumption
<1>3. q \in Seq(Slice) /\ q \in Seq(Request)
  <2>1. <<"resume">> \in Seq(Slice) /\ <<"hrJobs">> \in Seq(Slice)
    BY Requested
  <2>2. q \in Seq(Slice)
    BY <2>1
  <2> QED BY <2>2, Requested
<1>4. PICK i \in Slots : ops' = [ops EXCEPT ![i] = o]
  BY DEF TickStarts
<1> HIDE DEF q
<1>5. o \in OpType /\ o.kind = "tick" /\ o.user = auth /\ o.todo = q
  BY <1>2, <1>3, EmptyTyped DEF Idle, OpType
<1> HIDE DEF o
<1>6. Sound(o, server)
  BY <1>2, <1>3, <1>5 DEF Sound
<1>7. Table(ops', server') /\ server' = server
  BY <1>4, <1>5, <1>6, Put DEF TickStarts, StoreInv
<1>8. PollHasReason(ops', poll', store', auth')
  BY <1>1 DEF TickStarts, PollHasReason
<1>9. /\ store' \in [Slice -> Value] /\ poll' = "asking"
      /\ initialized' \in BOOLEAN /\ loading' \in BOOLEAN
      /\ busy' \subseteq Flags \ {"none", "loading"}
      /\ UNCHANGED <<auth, page, visit>>
      /\ commands' \in 0..MaxCommands /\ faults' \in 0..MaxFaults
  BY DEF TickStarts, StoreInv, TypeOK, PollState
<1> QED BY <1>7, <1>8, <1>9, RestTyped DEF PollState

LEMMA TickFinished ==
  ASSUME StoreInv, server' = server, NEW i \in Slots, ops[i].kind = "tick",
         NEW how \in {"finished", "failed"}, TickFinishes(i, how)
  PROVE  /\ Table(ops', server') /\ PollHasReason(ops', poll', store', auth')
         /\ poll' \in PollState /\ loading' \in BOOLEAN
<1>1. PICK o \in {Idle, RefreshOp(auth, ops[i].visit, "none")}, timer \in {"dropped", how, poll} :
        Rerender([ops EXCEPT ![i] = o], timer)
  BY DEF TickFinishes
<1>2. ops[i].visit \in Nat /\ auth \in User \cup {None} /\ "none" \in Flags
  BY DEF StoreInv, TypeOK, OpType, Flags
<1>3. o \in OpType /\ Sound(o, server) /\ o.kind # "tick"
  BY <1>2, IdleIsNoTick, RefreshSound
<1>4. timer \in PollState
      /\ (timer = "armed" => ShouldPoll(store, auth))
  BY DEF StoreInv, TypeOK, PollHasReason, PollState
<1>5. loading' \in BOOLEAN
  BY DEF TickFinishes, StoreInv, TypeOK
<1> QED BY <1>1, <1>3, <1>4, <1>5, Rendered

LEMMA TickContinued ==
  ASSUME StoreInv, server' = server, NEW i \in Slots, ops[i].kind = "tick", TickContinues(i)
  PROVE  /\ Table(ops', server') /\ PollHasReason(ops', poll', store', auth')
         /\ poll' \in PollState /\ loading' \in BOOLEAN
<1>1. PICK timer \in IF ops[i].live THEN {"armed", "timedOut"} ELSE {poll} :
        Rerender([ops EXCEPT ![i] = Idle], timer)
  BY DEF TickContinues
<1>2. ops[i].live => ShouldPoll(store, auth)
  BY DEF StoreInv, PollHasReason, Live
<1>3. timer \in PollState
      /\ (timer = "armed" => ShouldPoll(store, auth))
  BY <1>2 DEF StoreInv, TypeOK, PollHasReason, PollState
<1>4. loading' \in BOOLEAN
  BY DEF TickContinues, StoreInv, TypeOK
<1> QED BY <1>1, <1>3, <1>4, IdleIsNoTick, Rendered

LEMMA TickEndsStep ==
  ASSUME StoreInv, NEW i \in Slots, TickEnds(i)
  PROVE  StoreInv'
<1>1. ops[i] \in OpType /\ ops[i].got \in [Slice -> Value] /\ store \in [Slice -> Value]
  BY DEF StoreInv, TypeOK, OpType
<1>2. store' \in [Slice -> Value]
  BY <1>1, Requested DEF TickEnds, Shown
<1>3. ops[i].kind = "tick" /\ server' = server
  BY DEF TickEnds
<1>4. TickContinues(i) \/ TickFinishes(i, "finished")
  BY DEF TickEnds
<1>5. /\ Table(ops', server') /\ PollHasReason(ops', poll', store', auth')
      /\ poll' \in PollState /\ loading' \in BOOLEAN
  BY <1>3, <1>4, TickContinued, TickFinished
<1>6. /\ initialized' \in BOOLEAN
      /\ busy' \subseteq Flags \ {"none", "loading"}
      /\ UNCHANGED <<auth, page, visit>>
      /\ commands' \in 0..MaxCommands /\ faults' \in 0..MaxFaults
  BY DEF TickEnds, StoreInv, TypeOK
<1> QED BY <1>2, <1>3, <1>5, <1>6, RestTyped

LEMMA TickFailsStep ==
  ASSUME StoreInv, server' = server, NEW i \in Slots, NEW status, TickFails(i, status),
         UNCHANGED <<visit, commands>>, faults' \in 0..MaxFaults
  PROVE  StoreInv'
<1>1. ops[i].kind = "tick" /\ UNCHANGED <<auth, page, store, initialized, busy>>
  BY DEF TickFails
<1>2. CASE status = 401
  <2>1. ops' = [ops EXCEPT ![i] = Idle] /\ poll' \in {"failed", poll} /\ loading' = loading
    BY <1>2 DEF TickFails
  <2>2. Table(ops', server')
    BY <2>1, IdleIsNoTick, Put DEF StoreInv
  <2>3. Live(ops') => Live(ops)
    BY <2>1, IdleIsNoTick DEF Live, StoreInv, Table
  <2>4. PollHasReason(ops', poll', store', auth')
    BY <1>1, <2>1, <2>3 DEF StoreInv, PollHasReason
  <2>5. poll' \in PollState /\ loading' \in BOOLEAN
    BY <2>1 DEF StoreInv, TypeOK, PollState
  <2> QED BY <1>1, <2>2, <2>4, <2>5, RestTyped DEF StoreInv, TypeOK
<1>3. CASE status # 401
  <2>1. TickFinishes(i, "failed") \/ TickContinues(i)
    BY <1>3 DEF TickFails
  <2>2. /\ Table(ops', server') /\ PollHasReason(ops', poll', store', auth')
        /\ poll' \in PollState /\ loading' \in BOOLEAN
    BY <1>1, <2>1, TickContinued, TickFinished
  <2> QED BY <1>1, <2>2, RestTyped DEF StoreInv, TypeOK
<1> QED BY <1>2, <1>3

LEMMA RequestFailsStep ==
  ASSUME StoreInv, server' = server, NEW i \in Slots, NEW status, RequestFails(i, status),
         UNCHANGED <<visit, commands>>, faults' \in 0..MaxFaults
  PROVE  StoreInv'
<1>1. PICK timer \in {"failed", poll} : Rerender([ops EXCEPT ![i] = Idle], timer)
  BY DEF RequestFails
<1>2. timer \in PollState /\ (timer = "armed" => ShouldPoll(store, auth))
  BY DEF StoreInv, TypeOK, PollHasReason, PollState
<1>3. /\ Table(ops', server') /\ PollHasReason(ops', poll', store', auth')
      /\ poll' \in PollState
  BY <1>1, <1>2, IdleIsNoTick, Rendered
<1>4. /\ store' \in [Slice -> Value] /\ initialized' \in BOOLEAN /\ loading' \in BOOLEAN
      /\ busy' \subseteq Flags \ {"none", "loading"} /\ commands' \in 0..MaxCommands
  BY DEF RequestFails, Release, StoreInv, TypeOK
<1>5. \/ UNCHANGED <<auth, page>>
      \/ auth' = None /\ page' = "login"
  BY DEF RequestFails
<1> QED BY <1>3, <1>4, <1>5, RestTyped

LEMMA FailsStep ==
  ASSUME StoreInv, NEW i \in Slots, Fails(i)
  PROVE  StoreInv'
<1>1. server' = server /\ UNCHANGED <<visit, commands>>
  BY DEF Fails
<1>2. faults' \in 0..MaxFaults
  BY StoreAssumption DEF Fails, StoreInv, TypeOK, StoreAssumption
<1>3. PICK status : TickFails(i, status) \/ RequestFails(i, status)
  BY DEF Fails
<1> QED BY <1>1, <1>2, <1>3, TickFailsStep, RequestFailsStep

-----------------------------------------------------------------------------
(* The theorems                                                              *)

LEMMA StoreInvariant == Spec => []StoreInv
<1>1. Init => StoreInv
  <2> SUFFICES ASSUME Init PROVE StoreInv
    OBVIOUS
  <2>1. ops \in [Slots -> OpType] /\ \A i \in Slots : ops[i] = Idle
    BY IdleIsNoTick DEF Init
  <2>2. Table(ops, server) /\ ~Live(ops)
    BY <2>1, IdleIsNoTick DEF Table, Live
  <2>3. PollHasReason(ops, poll, store, auth)
    BY <2>2 DEF PollHasReason, Init
  <2>4. TypeOK
    <3>1. server \in [User -> [Slice -> Nat]] /\ store \in [Slice -> Value]
      BY EmptyTyped DEF Init
    <3>2. visit \in 0..MaxVisits /\ commands \in 0..MaxCommands /\ faults \in 0..MaxFaults
      BY StoreAssumption DEF Init, StoreAssumption
    <3> QED BY <2>1, <3>1, <3>2 DEF TypeOK, Init, PollState
  <2> QED BY <2>2, <2>3, <2>4 DEF StoreInv
<1>2. StoreInv /\ [Next]_vars => StoreInv'
  <2> SUFFICES ASSUME StoreInv, [Next]_vars PROVE StoreInv'
    OBVIOUS
  <2>1. ASSUME NEW u \in User, SignIn(u) PROVE StoreInv'
    BY <2>1, SignInStep
  <2>2. ASSUME NEW u \in User, NEW s \in Parsed, ParseEnds(u, s) PROVE StoreInv'
    BY <2>2, ParseEndsStep
  <2>3. ASSUME NEW p, Navigate(p) PROVE StoreInv'
    BY <2>3, NavigateStep
  <2>4. CASE SignOut
    BY <2>4, SignOutStep
  <2>5. ASSUME NEW n \in DOMAIN Commands, CommandStarts(n) PROVE StoreInv'
    BY <2>5, CommandStartsStep
  <2>6. CASE TickStarts
    BY <2>6, TickStartsStep
  <2>7. ASSUME NEW i \in Slots, Proceeds(i) PROVE StoreInv'
    <3>1. CASE Send(i)
      BY <3>1, SendStep
    <3>2. CASE Reply(i)
      BY <3>2, ReplyStep
    <3>3. CASE Read(i)
      BY <3>3, ReadStep
    <3>4. CASE RefreshEnds(i)
      BY <3>4, RefreshEndsStep
    <3>5. CASE CommandEnds(i)
      BY <3>5, CommandEndsStep
    <3>6. CASE TickEnds(i)
      BY <3>6, TickEndsStep
    <3> QED BY <2>7, <3>1, <3>2, <3>3, <3>4, <3>5, <3>6 DEF Proceeds
  <2>8. ASSUME NEW i \in Slots, ConversationsUnread(i) PROVE StoreInv'
    BY <2>8, ConversationsUnreadStep
  <2>9. ASSUME NEW i \in Slots, Fails(i) PROVE StoreInv'
    BY <2>9, FailsStep
  <2>10. CASE UNCHANGED vars
    BY <2>10 DEF vars, StoreInv, TypeOK, Table, PollHasReason, Live
  <2> QED BY <2>1, <2>2, <2>3, <2>4, <2>5, <2>6, <2>7, <2>8, <2>9, <2>10 DEF Next
<1> QED BY <1>1, <1>2, PTL DEF Spec

(* The store, the identity and what is in flight keep their types.            *)
THEOREM StoreTyped == Spec => []TypeOK
<1>1. StoreInv => TypeOK
  BY DEF StoreInv
<1> QED BY <1>1, StoreInvariant, PTL

(* Whoever signs in and whatever runs beside it, a command that ends shows     *)
(* what it made of the slice it lists, or something newer.                    *)
THEOREM CommandsAreShown == Spec => CommandShown
<1> DEFINE Ended == \A i \in Slots :
             CommandEnds(i) /\ ops[i].name \in DOMAIN Commands =>
               \A k \in DOMAIN Commands[ops[i].name].read :
                 LET s == Commands[ops[i].name].read[k]
                 IN store'[s].owner = ops[i].user /\ store'[s].version >= ops[i].made
<1>1. ASSUME StoreInv, NEW i \in Slots, CommandEnds(i), ops[i].name \in DOMAIN Commands,
             NEW k \in DOMAIN Commands[ops[i].name].read
      PROVE  LET s == Commands[ops[i].name].read[k]
             IN store'[s].owner = ops[i].user /\ store'[s].version >= ops[i].made
  <2> DEFINE o == ops[i]
             c == Commands[o.name]
             s == c.read[k]
  <2>1. o.kind = "command" /\ o.todo = <<>> /\ store' = Written(o, Base(o))
    BY <1>1 DEF CommandEnds
  <2>2. CommandOk(c) /\ Sound(o, server)
    BY <1>1, CommandsOk DEF StoreInv, Table
  <2>3. s \in Slice /\ c.read # <<>>
    BY <1>1, <2>2, Queue
  <2>4. o.user \in User /\ Progress(o, server)
    BY <1>1, <2>1, <2>2, CommandsOk DEF Sound
  <2>5. Listed(o)
    BY <2>1, <2>2, <2>3, <2>4, Queue DEF Progress
  <2>6. o.got[s].owner = o.user /\ o.got[s].version >= o.made
    BY <1>1, <2>5 DEF Listed
  <2>7. o.got[s] # Nothing
    <3>1. None \notin User
      BY StoreAssumption DEF StoreAssumption
    <3>2. Nothing.owner = None
      BY DEF Nothing
    <3> QED BY <2>4, <2>6, <3>1, <3>2
  <2>8. store'[s] = o.got[s]
    BY <2>1, <2>3, <2>7 DEF Written
  <2> QED BY <2>6, <2>8
<1>2. StoreInv => Ended
  BY <1>1
<1>3. StoreInv /\ [Next]_vars => [Ended]_vars
  BY <1>2
<1>4. Spec => [][Ended]_vars
  BY <1>3, StoreInvariant, PTL DEF Spec
<1> QED BY <1>4 DEF CommandShown
=============================================================================
