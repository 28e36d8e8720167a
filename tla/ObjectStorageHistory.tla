------------------------ MODULE ObjectStorageHistory ------------------------
(***************************************************************************)
(* ObjectStorage with two history variables, which no action of the code   *)
(* reads: the contents that one of two known races has hit, and the        *)
(* attachments that were inserted for a row no longer ready.  The          *)
(* properties say that nothing else ever takes a file away that is needed. *)
(***************************************************************************)
EXTENDS ObjectStorage

VARIABLES
  raced,  \* contents claimed while in use, or put back while claimed
  late    \* deliveries attached to a row that was not ready

hvars == <<vars, raced, late>>

HInit == Init /\ raced = {} /\ late = {}

(* The cleanup's snapshot was older than a reference: the row is claimed    *)
(* although it is in use, and still is once it is claimed.                  *)
ClaimedInUse(c) ==
  object[c].status = "ready" /\ object'[c].status = "deleting" /\ Referenced(c)'

(* The cleanup puts a row back to ready that a reset has claimed as well.   *)
RestoredUnderClaim(c) ==
  /\ object[c].status = "deleting" /\ object'[c].status = "ready"
  /\ object'[c].key = object[c].key
  /\ \E r \in Resets : \E cl \in remover[r].todo \cup remover[r].at : cl.content = c

(* The same, and the reset has already unlinked its file.                   *)
RestoredWithoutFile(c) ==
  /\ object[c].status = "deleting" /\ object'[c].status = "ready"
  /\ object'[c].key = object[c].key
  /\ object[c].key \notin files

AttachedLate(d) ==
  /\ delivery[d].stage = "read" /\ delivery'[d].stage = "live"
  /\ \A c \in Contents : object[c].id = delivery[d].object => object[c].status # "ready"

HNext ==
  /\ Next
  /\ raced' = raced \cup {c \in Contents :
       ClaimedInUse(c) \/ RestoredUnderClaim(c) \/ RestoredWithoutFile(c)}
  /\ late' = late \cup {d \in Deliveries : AttachedLate(d)}

HSpec == HInit /\ [][HNext]_hvars

HasFile(c) == object[c].status = "ready" /\ object[c].key \in files

(* A resume, document or job that is not deleted has its file: uploads that *)
(* reuse or revive a row, the deletion of keys nobody needs, the cleanup    *)
(* and the debug reset interleave, calls fail and processes die, and only   *)
(* the two races of acquiring and claiming can take the file away.          *)
ResourceKeepsFile ==
  \A u \in Uploads :
    (reference[u] = "active" /\ upload[u].content \notin raced) => HasFile(upload[u].content)

(* An attachment can be downloaded for seven days, also after its document  *)
(* was deleted, unless it was attached late or its content raced.           *)
AttachmentKeepsFile ==
  \A d \in Deliveries \ late, c \in Contents \ raced :
    (delivery[d].stage = "live" /\ delivery[d].object = object[c].id) => HasFile(c)

(* As long as nothing fails, no file is forgotten: each is the file of a    *)
(* row, or a request or a claim that is under way will unlink it.  Only the *)
(* file of a resume that is refused for its name is: upload_resume stores   *)
(* it before it looks at the name, and nothing sweeps the storage root.     *)
NoFileForgotten ==
  faults = 0 => \A k \in files :
    \/ \E c \in Contents : object[c].key = k
    \/ upload[k].stage \in {"stored", "checked"}
    \/ upload[k].stage = "refused" /\ Kind(upload[k].place) = "resume"
    \/ \E u \in Uploads : upload[u].stage = "leaving" /\ upload[u].drop = k
    \/ \E r \in Removers : \E cl \in remover[r].todo : cl.key = k

(* The docstring of CleanupClaim: "An unreferenced object exclusively       *)
(* claimed for physical deletion."                                          *)
ClaimedIsUnreferenced ==
  \A r \in Removers : \A cl \in remover[r].todo :
    (Held(cl) /\ object[cl.content].key = cl.key) => References(cl.content, "active") = {}
=============================================================================
