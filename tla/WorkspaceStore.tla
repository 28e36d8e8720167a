---------------------------- MODULE WorkspaceStore ----------------------------
(* The browser's workspace store (stores/workspace-store.ts), the hook every *)
(* page mounts (features/workspace/useWorkspaceRefresh.ts) and the identity   *)
(* in stores/auth-store.ts, against the backend's answers.                    *)
(*                                                                            *)
(* JavaScript runs one piece of code at a time, but every `await` is a point *)
(* where another one runs: a refresh, a command and a poll of the parsing    *)
(* state are operations in flight side by side, each with the access token   *)
(* and the snapshot of the store it took when it took them.  A slice of the   *)
(* workspace is its version at the server; an odd version of `resume` or      *)
(* `hrJobs` says that a parse is queued or running.                           *)
EXTENDS Integers, Sequences, FiniteSets

CONSTANTS
  User,         \* accounts
  RoleOf,       \* the role an account signs in with: "candidate" or "hr"
  None,         \* nobody signed in
  MaxOps,       \* bound: operations in flight at once
  MaxCommands,  \* bound: commands
  MaxVisits,    \* bound: pages mounted, the one after a sign-in included
  MaxFaults,    \* bound: requests that fail without the server refusing them
  MaxFailures   \* failures in a row that end a poll (MAX_CONSECUTIVE_FAILURES)

ASSUME StoreAssumption ==
  /\ RoleOf \in [User -> {"candidate", "hr"}]
  /\ None \notin User
  /\ {MaxOps, MaxCommands, MaxVisits, MaxFaults, MaxFailures} \subseteq Nat

VARIABLES
  server,       \* server[u][s]: version of slice s of account u
  auth,         \* the account signed in (auth-store), or None
  page,         \* the page mounted
  visit,        \* which mount this is
  store,        \* store[s]: whose slice s the store holds, and its version
  initialized, loading,          \* flags of the store
  busy,         \* the other flags that disable a button
  ops,          \* ops[i]: an operation in flight, or Idle
  poll,         \* the timer of the polling effect, or how it ended
  commands, faults               \* bounded counters

vars == <<server, auth, page, visit, store, initialized, loading, busy,
          ops, poll, commands, faults>>

Slots == 1..MaxOps

(* Reads of a refresh, in its order.                                         *)
ReadsOf == [candidate |-> <<"resume", "supportingDocuments", "jobGoal",
                            "agentRun", "applications">>,
            hr |-> <<"hrJobs", "hrApplications", "conversations">>]

Slice == {ReadsOf["candidate"][i] : i \in 1..5} \cup {ReadsOf["hr"][i] : i \in 1..3}
Parsed == {"resume", "hrJobs"}
Nothing == [owner |-> None, version |-> 0]
Empty == [s \in Slice |-> Nothing]

PagesOf == [candidate |-> {"home", "documents", "jobGoal"},
            hr |-> {"home", "jobs", "conversations", "applications"}]

(* One record per command of the store: where its button is, the flag that    *)
(* disables the button, what it changes at the server (`parse` queues one),   *)
(* what its answer and the list it reads afterwards tell, when it copies the  *)
(* rest of the store, and what the page does after it.                        *)
Command(p, flag, changes, parse, answer, read, copied, after) ==
  [page |-> p, flag |-> flag, changes |-> changes, parse |-> parse,
   answer |-> answer, read |-> read, copied |-> copied, after |-> after]

Commands == [
  uploadResume |-> Command("documents", "resumeLoading", {"resume"}, TRUE,
                           {}, <<"resume">>, "reply", "nothing"),
  deleteResume |-> Command("documents", "resumeLoading", {"resume"}, FALSE,
                           {}, <<"resume">>, "end", "nothing"),
  uploadDocuments |-> Command("documents", "documentsLoading", {"supportingDocuments"},
                              FALSE, {}, <<"supportingDocuments">>, "reply", "nothing"),
  deleteDocument |-> Command("documents", "none", {"supportingDocuments"}, FALSE,
                             {}, <<"supportingDocuments">>, "start", "nothing"),
  saveGoal |-> Command("jobGoal", "savingGoal", {"jobGoal", "agentRun"}, FALSE,
                       {"jobGoal"}, <<>>, "start", "readRun"),
  startAgent |-> Command("jobGoal", "startingAgent", {"agentRun", "applications"},
                         FALSE, {"agentRun"}, <<"applications">>, "end", "nothing"),
  uploadJobs |-> Command("jobs", "uploading", {"hrJobs"}, TRUE,
                         {}, <<>>, "end", "refresh"),
  retryJobParse |-> Command("jobs", "retrying", {"hrJobs"}, TRUE,
                            {}, <<"hrJobs">>, "reply", "refreshView"),
  deleteJob |-> Command("jobs", "none", {"hrJobs"}, FALSE,
                        {}, <<"hrJobs">>, "reply", "nothing"),
  updateApplicationStatus |-> Command("applications", "loading", {"hrApplications"},
                                      FALSE, {"hrApplications"}, <<>>, "start", "nothing"),
  sendMessage |-> Command("conversations", "loading", {"conversations"}, FALSE,
                          {"conversations"}, <<>>, "end", "nothing"),
  startConversationQuery |-> Command("conversations", "loading", {"conversations"},
                                     FALSE, {}, <<"conversations">>, "end", "nothing")]

(* Commands that go through runAction, which signs out on a 401; commands     *)
(* that leave `loading` alone; flags kept by the page, not by the store.       *)
RunAction == DOMAIN Commands \ {"uploadDocuments", "startAgent", "uploadJobs",
                                "startConversationQuery"}
Quiet == {"uploadJobs", "startConversationQuery", "readRun"}
PageFlags == {"uploading", "retrying"}

Idle == [kind |-> "idle", name |-> "", user |-> None, visit |-> 0, live |-> FALSE,
         flag |-> "none", todo |-> <<>>, copy |-> Empty, got |-> Empty, made |-> 0]

Free == {i \in Slots : ops[i] = Idle}
Slot(i) == i \in Free /\ \A j \in Free : i <= j

(* Refresh by account u on mount v: the hook's own has no flag; one a page      *)
(* calls itself, beside the hook's refreshInFlight, has the page's.  With       *)
(* nobody signed in it asks nothing.                                            *)
RefreshOp(u, v, flag) ==
  [Idle EXCEPT !.kind = "refresh", !.user = u, !.visit = v, !.flag = flag,
     !.todo = IF u = None THEN <<>> ELSE ReadsOf[RoleOf[u]]]

(* What an operation writes: what it was told, over its copy of the rest.      *)
Written(o, base) == [s \in Slice |-> IF o.got[s] = Nothing THEN base[s] ELSE o.got[s]]

(* The polling effect: what it depends on, and the state it leaves.            *)
Pending(s, st) == st[s].version % 2 = 1
PendingResume(st, a) ==
  a # None /\ RoleOf[a] = "candidate" /\ Pending("resume", st)
ShouldPollResume(st, a) == PendingResume(st, a)  \* mutant: forgets the HR's jobs
ShouldPoll(st, a) == a # None /\ (PendingResume(st, a) \/ Pending("hrJobs", st))
Dependencies(st, a) ==
  <<ShouldPoll(st, a), PendingResume(st, a), Pending("hrJobs", st),
    st["resume"].owner, (st["resume"].version + 1) \div 2>>
Cancelled(table) ==
  [i \in Slots |-> IF table[i].kind = "tick" THEN [table[i] EXCEPT !.live = FALSE]
                   ELSE table[i]]
FreshPoll(st, a) == IF ShouldPoll(st, a) THEN "armed" ELSE "off"

(* React runs the effect again when what it depends on changed: the timer is   *)
(* set anew and a tick in flight belongs to a cancelled effect.                *)
Rerender(table, timer) ==
  IF Dependencies(store', auth') = Dependencies(store, auth)
    THEN ops' = table /\ poll' = timer
    ELSE ops' = Cancelled(table) /\ poll' = FreshPoll(store', auth')

Release(o) ==
  IF o.flag \in PageFlags /\ o.visit # visit THEN busy ELSE busy \ {o.flag}

-----------------------------------------------------------------------------
(* Identity and pages.                                                        *)

Init ==
  /\ server = [u \in User |-> [s \in Slice |-> 0]]
  /\ auth = None /\ page = "login" /\ visit = 0
  /\ store = Empty
  /\ initialized = FALSE /\ loading = FALSE
  /\ busy = {}
  /\ ops = [i \in Slots |-> Idle]
  /\ poll = "off"
  /\ commands = 0 /\ faults = 0

(* A page mounts: its hook has a refreshInFlight of its own and refreshes.     *)
Mount(p, u) ==
  /\ visit < MaxVisits
  /\ page' = p
  /\ visit' = visit + 1
  /\ loading' = TRUE /\ initialized' = FALSE
  /\ \E i \in Slots : Slot(i) /\
       ops' = [Cancelled(ops) EXCEPT ![i] = RefreshOp(u, visit + 1, "none")]
  /\ poll' = FreshPoll(store, u)
  /\ UNCHANGED <<server, store, commands, faults>>

SignIn(u) ==
  /\ auth = None
  /\ auth' = u
  /\ Mount("home", u)
  /\ UNCHANGED busy

NavigateAnywhere(p) ==  \* mutant: a route without its guard for the role
  /\ auth # None
  /\ p # page
  /\ Mount(p, auth)
  /\ busy' = busy \ PageFlags
  /\ UNCHANGED auth

Navigate(p) ==
  /\ auth # None
  /\ p \in PagesOf[RoleOf[auth]] \ {page}
  /\ Mount(p, auth)
  /\ busy' = busy \ PageFlags
  /\ UNCHANGED auth

(* The sign-out button clears the store, then the identity.                    *)
SignOut ==
  /\ auth # None
  /\ auth' = None /\ page' = "login"
  /\ store' = Empty
  /\ initialized' = FALSE /\ loading' = FALSE
  /\ busy' = {}
  /\ ops' = Cancelled(ops) /\ poll' = "off"
  /\ UNCHANGED <<server, visit, commands, faults>>

-----------------------------------------------------------------------------
(* Requests of an operation in flight, in order.                              *)

(* The server parses what was queued.                                         *)
ParseEnds(u, s) ==
  /\ server[u][s] % 2 = 1
  /\ server' = [server EXCEPT ![u][s] = @ + 1]
  /\ UNCHANGED <<auth, page, visit, store, initialized, loading, busy,
                 ops, poll, commands, faults>>

(* A request the server refuses: a resume whose parse is not over is not       *)
(* deleted, and the jobs are an HR's to list.                                  *)
Refused(o) ==
  /\ o.todo # <<>>
  /\ \/ o.name = "deleteResume" /\ Head(o.todo) = "send" /\ server[o.user]["resume"] % 2 = 1
     \/ o.kind = "tick" /\ Head(o.todo) = "hrJobs" /\ RoleOf[o.user] = "candidate"

(* The version a command makes of a slice.                                     *)
After(c, v) == IF c.parse THEN v + 1 + (v % 2) ELSE v + 2

Send(i) ==
  LET o == ops[i]
      c == Commands[o.name]
      new == [s \in Slice |-> IF s \in c.changes THEN After(c, server[o.user][s])
                              ELSE server[o.user][s]]
  IN /\ o.todo # <<>> /\ Head(o.todo) = "send"
     /\ ~Refused(o)
     /\ server' = [server EXCEPT ![o.user] = new]
     /\ ops' = [ops EXCEPT ![i].todo = Tail(@),
          ![i].got = [s \in Slice |-> IF s \in c.answer
                        THEN [owner |-> o.user, version |-> new[s]] ELSE @[s]],
          ![i].made = IF c.read = <<>> THEN 0 ELSE new[c.read[1]]]
     /\ UNCHANGED <<auth, page, visit, store, initialized, loading,
                    busy, poll, commands, faults>>

(* The answer arrives: most commands copy the store now, before they list.      *)
Reply(i) ==
  /\ ops[i].todo # <<>> /\ Head(ops[i].todo) = "reply"
  /\ ops' = [ops EXCEPT ![i].todo = Tail(@),
       ![i].copy = IF Commands[ops[i].name].copied = "reply" THEN store ELSE @]
  /\ UNCHANGED <<server, auth, page, visit, store, initialized, loading,
                 busy, poll, commands, faults>>

Read(i) ==
  LET o == ops[i]
      s == Head(o.todo)
  IN /\ o.todo # <<>> /\ s \in Slice
     /\ ~Refused(o)
     /\ ops' = [ops EXCEPT ![i].todo = Tail(@),
          ![i].got[s] = [owner |-> o.user, version |-> server[o.user][s]]]
     /\ UNCHANGED <<server, auth, page, visit, store, initialized, loading,
                    busy, poll, commands, faults>>

(* A refresh that cannot list the conversations shows none.                    *)
ConversationsUnread(i) ==
  /\ faults < MaxFaults
  /\ ops[i].kind = "refresh" /\ ops[i].todo = <<"conversations">>
  /\ ops' = [ops EXCEPT ![i].todo = <<>>]
  /\ faults' = faults + 1
  /\ UNCHANGED <<server, auth, page, visit, store, initialized, loading,
                 busy, poll, commands>>

-----------------------------------------------------------------------------
(* Refresh.                                                                   *)

RefreshEnds(i) ==
  LET o == ops[i]
  IN /\ o.kind = "refresh" /\ o.todo = <<>>
     /\ store' = Written(o, Empty) /\ UNCHANGED auth
     /\ initialized' = TRUE /\ loading' = FALSE
     /\ busy' = Release(o)
     /\ Rerender([ops EXCEPT ![i] = Idle], poll)
     /\ UNCHANGED <<server, page, visit, commands, faults>>

-----------------------------------------------------------------------------
(* Commands.                                                                  *)

Enabled(n) ==
  LET c == Commands[n]
  IN /\ page = c.page
     /\ initialized \/ page = "jobs"
     /\ c.flag \notin busy
     /\ c.flag = "loading" => ~loading
     /\ n = "startAgent" => "savingGoal" \notin busy
     /\ n = "deleteResume" => store["resume"].owner = auth /\ ~Pending("resume", store)

(* The requests of a command: it lists once the server has answered.           *)
RequestsListFirst(c) == c.read \o <<"send", "reply">>  \* mutant: lists before it asks
Requests(c) == <<"send", "reply">> \o c.read

CommandStarts(n) ==
  LET c == Commands[n]
  IN /\ auth # None
     /\ commands < MaxCommands
     /\ Enabled(n)
     /\ \E i \in Slots : Slot(i) /\
          ops' = [ops EXCEPT ![i] = [Idle EXCEPT !.kind = "command", !.name = n,
            !.user = auth, !.visit = visit, !.flag = c.flag,
            !.todo = Requests(c),
            !.copy = IF c.copied = "start" THEN store ELSE Empty]]
     /\ commands' = commands + 1
     /\ busy' = busy \cup ({c.flag} \ {"none", "loading"})
     /\ loading' = (loading \/ n \notin Quiet)
     /\ UNCHANGED <<server, auth, page, visit, store, initialized, poll, faults>>

(* What follows a command in the same slot: saveGoal reads the run's status;    *)
(* the jobs page calls refresh itself, with the identity of that moment.         *)
Following(o) ==
  CASE o.name \notin DOMAIN Commands -> Idle
    [] Commands[o.name].after = "nothing" -> Idle
    [] Commands[o.name].after = "readRun" ->
         [Idle EXCEPT !.kind = "command", !.name = "readRun", !.user = o.user,
                      !.flag = o.flag, !.visit = o.visit, !.todo = <<"agentRun">>]
    [] OTHER -> RefreshOp(auth, o.visit, o.flag)

Base(o) == IF o.name = "readRun" \/ Commands[o.name].copied = "end" THEN store ELSE o.copy

CommandEnds(i) ==
  LET o == ops[i]
      next == Following(o)
  IN /\ o.kind = "command" /\ o.todo = <<>>
     /\ store' = Written(o, Base(o)) /\ UNCHANGED auth
     /\ IF next.kind = "refresh"
          THEN /\ initialized' = (o.name = "retryJobParse")
               /\ loading' = TRUE
          ELSE /\ initialized' = (initialized \/ o.name # "readRun")
               /\ loading' = (loading /\ o.name \in Quiet)
     /\ busy' = IF next = Idle THEN Release(o) ELSE busy
     /\ Rerender([ops EXCEPT ![i] = next], poll)
     /\ UNCHANGED <<server, page, visit, commands, faults>>

-----------------------------------------------------------------------------
(* The polling effect.                                                        *)

TickStarts ==
  /\ poll = "armed"
  /\ poll' = "asking"
  /\ \E i \in Slots : Slot(i) /\
       ops' = [ops EXCEPT ![i] = [Idle EXCEPT !.kind = "tick", !.user = auth,
         !.visit = visit, !.live = TRUE,
         !.todo = IF PendingResume(store, auth) THEN <<"resume">> ELSE <<"hrJobs">>]]
  /\ UNCHANGED <<server, auth, page, visit, store, initialized, loading,
                 busy, commands, faults>>

(* finishWithFullRefresh: the timer is not set again, and the refresh that      *)
(* keeps the view is dropped when one of the same mount is in flight.           *)
TickFinishes(i, how) ==
  LET o == ops[i]
      dropped == \E j \in Slots : /\ ops[j].kind = "refresh" /\ ops[j].flag = "none"
                                 /\ ops[j].visit = o.visit
  IN /\ Rerender([ops EXCEPT ![i] = IF dropped THEN Idle
                                    ELSE RefreshOp(auth, o.visit, "none")],
                 CASE ~o.live -> poll
                   [] o.live /\ dropped /\ how = "finished" -> "dropped"
                   [] OTHER -> how)
     /\ loading' = (loading \/ ~dropped)

(* The next tick is set, or 210 seconds have been waited and the poll gives up,  *)
(* with a notice that no page but the candidate's documents shows.               *)
TickContinues(i) ==
  /\ \E timer \in IF ops[i].live THEN {"armed", "timedOut"} ELSE {poll} :
       Rerender([ops EXCEPT ![i] = Idle], timer)
  /\ UNCHANGED loading

(* An HR's tick writes the jobs it listed; a candidate's writes nothing.         *)
Shown(o) == [store EXCEPT !["hrJobs"] = IF o.got["hrJobs"] = Nothing THEN @ ELSE o.got["hrJobs"]]

TickEnds(i) ==
  LET o == ops[i]
  IN /\ o.kind = "tick" /\ o.todo = <<>>
     /\ store' = Shown(o) /\ UNCHANGED auth
     /\ IF \E s \in Parsed : Pending(s, o.got) THEN TickContinues(i)
        ELSE TickFinishes(i, "finished")
     /\ UNCHANGED <<server, page, visit, initialized, busy, commands, faults>>

-----------------------------------------------------------------------------
(* A request fails: lost, refused, or no longer authorised.                     *)

(* A tick stops on a 401; on a 404, and on the last failure in a row, it        *)
(* refreshes; else it goes on.  So many in a row are so many lost requests at   *)
(* least, but for those the server refuses.                                     *)
LastFailure(o) == Refused(o) \/ faults + 1 >= MaxFailures

TickFails(i, status) ==
  /\ ops[i].kind = "tick"
  /\ UNCHANGED <<auth, page, store, initialized, busy>>
  /\ \/ /\ status = 401
        /\ ops' = [ops EXCEPT ![i] = Idle]
        /\ poll' = IF ops[i].live THEN "failed" ELSE poll
        /\ UNCHANGED loading
     \/ status = 404 /\ TickFinishes(i, "failed")
     \/ status \notin {401, 404} /\ LastFailure(ops[i]) /\ TickFinishes(i, "failed")
     \/ status \notin {401, 404} /\ TickContinues(i)

(* The error is kept, the store's slices are not touched.  On a 401, refresh    *)
(* and runAction sign out whoever is signed in now, without clearing the store; *)
(* the route then leads to the sign-in page.                                    *)
RequestFails(i, status) ==
  LET o == ops[i]
      signsOut == status = 401 /\ (o.kind = "refresh" \/ o.name \in RunAction)
  IN /\ o.kind \in {"refresh", "command"}
     /\ auth' = IF signsOut THEN None ELSE auth
     /\ page' = IF signsOut THEN "login" ELSE page
     /\ loading' = (loading /\ o.name \in Quiet)
     /\ busy' = IF signsOut THEN Release(o) \ PageFlags ELSE Release(o)
     /\ UNCHANGED <<store, initialized>>
     /\ Rerender([ops EXCEPT ![i] = Idle],
                 IF poll = "finished" /\ o.kind = "refresh" /\ o.flag = "none" /\ o.visit = visit
                   THEN "failed" ELSE poll)

Fails(i) ==
  /\ ops[i].todo # <<>>
  /\ \/ Refused(ops[i]) /\ UNCHANGED faults
     \/ faults < MaxFaults /\ faults' = faults + 1
  /\ \E status \in IF Refused(ops[i]) THEN {409} ELSE {401, 404, 500} :
       TickFails(i, status) \/ RequestFails(i, status)
  /\ UNCHANGED <<server, visit, commands>>

-----------------------------------------------------------------------------

Proceeds(i) ==
  \/ Send(i) \/ Reply(i) \/ Read(i)
  \/ RefreshEnds(i) \/ CommandEnds(i) \/ TickEnds(i)

Next ==
  \/ \E u \in User : SignIn(u) \/ \E s \in Parsed : ParseEnds(u, s)
  \/ \E p \in UNION {PagesOf[r] : r \in DOMAIN PagesOf} : Navigate(p)
  \/ SignOut
  \/ \E n \in DOMAIN Commands : CommandStarts(n)
  \/ TickStarts
  \/ \E i \in Slots : Proceeds(i) \/ ConversationsUnread(i) \/ Fails(i)

Spec == Init /\ [][Next]_vars

(* The backend answers, the browser's timers fire, the workers parse.  Whoever  *)
(* sits at the browser need do nothing.                                         *)
Fairness ==
  /\ \A i \in Slots : WF_vars(Proceeds(i) \/ (Refused(ops[i]) /\ Fails(i)))
  /\ WF_vars(TickStarts)
  /\ WF_vars(\E u \in User, s \in Parsed : ParseEnds(u, s))

FairSpec == Spec /\ Fairness

-----------------------------------------------------------------------------
(* Properties.                                                                *)

Flags == {Commands[n].flag : n \in DOMAIN Commands} \cup {"none"}
Request == Slice \cup {"send", "reply"}
PollState == {"off", "armed", "asking", "finished", "dropped", "failed", "timedOut"}
Value == [owner : User \cup {None}, version : Nat]

OpType == [kind : {"idle", "refresh", "command", "tick"},
           name : DOMAIN Commands \cup {"", "readRun"},
           user : User \cup {None}, visit : Nat, live : BOOLEAN,
           flag : Flags, todo : Seq(Request), copy : [Slice -> Value],
           got : [Slice -> Value], made : Nat]

(* The store, the identity and the operations in flight have their types, and   *)
(* whoever is signed in has a page of the role.                                 *)
TypeOK ==
  /\ server \in [User -> [Slice -> Nat]]
  /\ store \in [Slice -> Value]
  /\ ops \in [Slots -> OpType]
  /\ auth \in User \cup {None}
  /\ busy \subseteq Flags \ {"none", "loading"}
  /\ {initialized, loading} \subseteq BOOLEAN
  /\ poll \in PollState
  /\ visit \in 0..MaxVisits /\ commands \in 0..MaxCommands /\ faults \in 0..MaxFaults
  /\ IF auth = None THEN page = "login" ELSE page \in PagesOf[RoleOf[auth]]

(* When a command ends, the store shows what the command made of the slice it   *)
(* lists, or something newer, whatever ran beside it and whoever signed in      *)
(* since: runAction and uploadDocuments list after the server has answered.     *)
CommandShown ==
  [][\A i \in Slots :
       CommandEnds(i) /\ ops[i].name \in DOMAIN Commands =>
         \A k \in DOMAIN Commands[ops[i].name].read :
           LET s == Commands[ops[i].name].read[k]
           IN store'[s].owner = ops[i].user /\ store'[s].version >= ops[i].made]_vars

(* A parse shown as pending is not shown so for ever unless the poll gives up:   *)
(* it ends at the server, and the poll shows it, whatever tick answers late for  *)
(* a cancelled effect, whatever is uploaded or mounted beside it, and though     *)
(* fewer requests than MaxFailures are lost.  It gives up after 210 seconds,     *)
(* and an HR is not told; after a 401, a 404, so many failures, or a failure of  *)
(* its last refresh; and a candidate's, which writes nothing of what it read,    *)
(* when that refresh is dropped for one in flight (useWorkspaceRefresh.ts:30).   *)
ShownPending(u) ==
  /\ auth = u /\ initialized
  /\ \E s \in Parsed : Pending(s, store) /\ store[s].owner = u

GivenUp(u) ==
  \/ poll \in {"timedOut", "failed"}
  \/ poll = "dropped" /\ RoleOf[u] = "candidate"

ShownSettles ==
  \A u \in User : ShownPending(u) ~> ~ShownPending(u) \/ GivenUp(u)

(* What a signed-in account is shown is its own                                 *)
(* (local-data-spec.md:341).                                                    *)
OneIdentity ==
  auth # None /\ initialized => \A s \in Slice : store[s].owner \in {auth, None}

=============================================================================
