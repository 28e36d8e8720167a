--------------------------- MODULE ObjectStorage ---------------------------
(***************************************************************************)
(* Stored files of the CareerPass backend: the table stored_file_objects   *)
(* (one row per content hash), the files under the storage root, and what  *)
(* refers to a row: resumes, candidate documents, jobs and the attachments *)
(* of messages.  Rows change in transactions, files outside of them.       *)
(*                                                                         *)
(* An upload is named by the storage key it draws, a uuid4, and the row it *)
(* inserts (of a resume, document or job, and of stored_file_objects) is   *)
(* named after it.  A transaction that locks the row of its content keeps  *)
(* the lock until it commits, so it is one action.  Two reads are not      *)
(* covered by that lock and are actions of their own: the duplicate check  *)
(* of documents and jobs, and the SELECT of the hourly cleanup, whose      *)
(* snapshot may be older than the lock it then takes.                      *)
(***************************************************************************)
EXTENDS Naturals, FiniteSets

CONSTANTS
  Contents,    \* contents, one per SHA-256
  Uploads,     \* upload requests, and the storage keys they draw
  NoUpload,    \* no key, no row
  Candidates,  \* candidates
  HrUsers,     \* HR profiles
  Deliveries,  \* document deliveries of the candidate's agent
  Cleanup,     \* the hourly cleanup, one per API process
  Resets,      \* debug reset requests that may run at the same time
  BatchSize,   \* batch_size of run_once
  MaxFaults    \* bound: crashes and failed calls in one behaviour

ASSUME StorageAssumption ==
  /\ NoUpload \notin Uploads
  /\ Cleanup \notin Resets
  /\ BatchSize \in Nat \ {0}
  /\ MaxFaults \in Nat

VARIABLES
  object,     \* Contents -> its row: status, id, storage key
  files,      \* keys of the files under the storage root
  upload,     \* Uploads -> where the request is and what it still deletes
  reference,  \* Uploads -> the resume, document or job row it inserted
  delivery,   \* Deliveries -> the attachment it sends
  remover,    \* Cleanup and Resets -> their claims
  scan,       \* rows the cleanup's SELECT has found and not locked yet
  old,        \* contents whose row was updated more than an hour ago
  older,      \* pairs of contents in the order of updated_at
  faults      \* faults so far

vars == <<object, files, upload, reference, delivery, remover, scan, old,
          older, faults>>

(* Where a reference is listed: one candidate's resumes or documents, or    *)
(* one HR user's jobs.                                                      *)
Places == (Candidates \X {"resume", "document"}) \cup (HrUsers \X {"job"})
Owner(p) == p[1]
Kind(p) == p[2]

NoObject == [status |-> "none", id |-> NoUpload, key |-> NoUpload]
Object == {NoObject} \cup [status : {"ready", "deleting"}, id : Uploads, key : Uploads]

NoPlace == <<NoUpload, "none">>
NoContent == NoUpload

UploadRow == [stage : {"idle", "stored", "checked", "refused", "leaving", "done"},
              place : Places \cup {NoPlace}, content : Contents \cup {NoContent},
              drop : Uploads \cup {NoUpload}]
DeliveryRow == [stage : {"idle", "read", "live", "over"}, object : Uploads \cup {NoUpload},
                owners : SUBSET (Candidates \cup HrUsers)]
Claims == [content : Contents, id : Uploads, key : Uploads,
           before : {"ready", "deleting"}]
Removers == Resets \cup {Cleanup}

TypeOK ==
  /\ object \in [Contents -> Object]
  /\ files \in SUBSET Uploads
  /\ upload \in [Uploads -> UploadRow]
  /\ reference \in [Uploads -> {"none", "active", "deleted"}]
  /\ delivery \in [Deliveries -> DeliveryRow]
  /\ remover \in [Removers -> [todo : SUBSET Claims, at : SUBSET Claims]]
  /\ scan \in SUBSET Contents
  /\ old \in SUBSET Contents
  /\ older \in SUBSET (Contents \X Contents)
  /\ faults \in 0..MaxFaults

NoDelivery == [stage |-> "idle", object |-> NoUpload, owners |-> {}]
Over == [NoDelivery EXCEPT !.stage = "over"]

Init ==
  /\ object = [c \in Contents |-> NoObject]
  /\ files = {}
  /\ upload = [u \in Uploads |-> [stage |-> "idle", place |-> NoPlace,
                                  content |-> NoContent, drop |-> NoUpload]]
  /\ reference = [u \in Uploads |-> "none"]
  /\ delivery = [d \in Deliveries |-> NoDelivery]
  /\ remover = [r \in Removers |-> [todo |-> {}, at |-> {}]]
  /\ scan = {}
  /\ old = {}
  /\ older = {}
  /\ faults = 0

Fault == faults < MaxFaults /\ faults' = faults + 1

----------------------------------------------------------------------------
(* What refers to a row.  A soft-deleted resume, document or job keeps its  *)
(* foreign key, which is RESTRICT; an attachment's is SET NULL.             *)

References(c, s) == {u \in Uploads : reference[u] = s /\ upload[u].content = c}
LiveAttachments(c) ==
  {d \in Deliveries : delivery[d].stage = "live" /\ delivery[d].object = object[c].id}
\* mutant: attachments do not hold a file.
ReferencedByResource(c) == References(c, "active") # {}
Referenced(c) == References(c, "active") # {} \/ LiveAttachments(c) # {}

Duplicates(p, c) == {u \in References(c, "active") : upload[u].place = p}

(* The trigger on stored_file_objects sets updated_at whenever a row really *)
(* changes; the rows of one transaction share the time.                     *)
Rows == {c \in Contents : object[c] # NoObject}
Restamp(touched, removed) ==
  LET gone == touched \cup removed IN
  /\ old' = old \ gone
  /\ scan' = scan \ gone
  /\ older' = {p \in older : p[1] \notin gone /\ p[2] \notin gone}
              \cup ((Rows \ gone) \X touched)

HourPasses(c) ==
  /\ c \in Rows \ old
  /\ \A a \in Contents : <<a, c>> \in older => a \in old
  /\ old' = old \cup {c}
  /\ UNCHANGED <<object, files, upload, reference, delivery, remover, scan, older, faults>>

----------------------------------------------------------------------------
(* Uploads.                                                                 *)

Put(u) ==
  /\ upload[u].stage = "idle"
  /\ files' = files \cup {u}
  /\ \E p \in Places, c \in Contents :
       upload' = [upload EXCEPT ![u] = [stage |-> "stored", place |-> p,
                                        content |-> c, drop |-> NoUpload]]
  /\ UNCHANGED <<object, reference, delivery, remover, scan, old, older, faults>>

Leaving(u, key) == upload' = [upload EXCEPT ![u].stage = "leaving", ![u].drop = key]

(* Documents and jobs look for a duplicate before they lock the row.        *)
CheckDuplicate(u) ==
  /\ upload[u].stage = "stored"
  /\ Kind(upload[u].place) # "resume"
  /\ IF Duplicates(upload[u].place, upload[u].content) # {}
     THEN Leaving(u, u)
     ELSE upload' = [upload EXCEPT ![u].stage = "checked"]
  /\ UNCHANGED <<object, files, reference, delivery, remover, scan, old, older, faults>>

\* mutant: a row is reused whatever its status.
AcquiredAsItIs(u, o) ==
  IF o = NoObject THEN [status |-> "ready", id |-> u, key |-> u] ELSE o
\* mutant: the inserted row has the default status of its column.
AcquiredByDefault(u, o) ==
  IF o = NoObject THEN [status |-> "writing", id |-> u, key |-> u] ELSE o

(* acquire_for_reference: insert, reuse or revive.  used_new_upload is      *)
(* false exactly when the row was ready.                                    *)
Acquired(u, o) ==
  CASE o.status = "none"     -> [status |-> "ready", id |-> u, key |-> u]
    [] o.status = "ready"    -> o
    [] o.status = "deleting" -> [o EXCEPT !.status = "ready", !.key = u]

Acquire(u) ==
  LET c == upload[u].content IN
  /\ object' = [object EXCEPT ![c] = Acquired(u, @)]
  /\ Restamp(IF object[c].status = "ready" THEN {} ELSE {c}, {})

\* mutant: an upload that reuses a row leaves its own file behind.
UnneededOld(u) ==
  IF object[upload[u].content].status = "ready" THEN NoUpload
  ELSE object[upload[u].content].key

(* The key nobody needs once the row is acquired: the new one, or the one   *)
(* the revived row had.                                                     *)
Unneeded(u) ==
  LET o == object[upload[u].content] IN IF o.status = "ready" THEN u ELSE o.key

Insert(u) ==
  /\ Acquire(u)
  /\ reference' = [reference EXCEPT ![u] = "active"]
  /\ Leaving(u, Unneeded(u))
  /\ UNCHANGED <<files, delivery, remover, faults>>

SaveResume(u) ==
  /\ upload[u].stage = "stored"
  /\ Kind(upload[u].place) = "resume"
  /\ Duplicates(upload[u].place, upload[u].content) = {}
  /\ Insert(u)

(* A resume with this content exists: the row is acquired all the same, and *)
(* the upload's own key is deleted whatever that did.                       *)
ReuseResume(u) ==
  /\ upload[u].stage = "stored"
  /\ Kind(upload[u].place) = "resume"
  /\ Duplicates(upload[u].place, upload[u].content) # {}
  /\ Acquire(u)
  /\ Leaving(u, u)
  /\ UNCHANGED <<files, reference, delivery, remover, faults>>

(* uq_job_active_hr_file refuses a second active job with this content.     *)
SaveOther(u) ==
  /\ upload[u].stage = "checked"
  /\ Kind(upload[u].place) = "job" => Duplicates(upload[u].place, upload[u].content) = {}
  /\ Insert(u)

(* upload_resume settles the name to show after put and before its try: a   *)
(* blank or over-long one ends the request there, and the file stays.       *)
RefuseName(u) ==
  /\ upload[u].stage = "stored"
  /\ Kind(upload[u].place) = "resume"
  /\ upload' = [upload EXCEPT ![u].stage = "refused"]
  /\ UNCHANGED <<object, files, reference, delivery, remover, scan, old, older, faults>>

(* The transaction is rolled back: an idempotency key used for another      *)
(* content, a unique index, a deadlock, a lost connection.  The name of a   *)
(* document is settled inside the try, so refusing it rolls back as well.   *)
Rollback(u) ==
  /\ upload[u].stage \in {"stored", "checked"}
  /\ Leaving(u, u)
  /\ UNCHANGED <<object, files, reference, delivery, remover, scan, old, older, faults>>

Leave(u) ==
  /\ upload[u].stage = "leaving"
  /\ files' = files \ {upload[u].drop}
  /\ upload' = [upload EXCEPT ![u].stage = "done", ![u].drop = NoUpload]
  /\ UNCHANGED <<object, reference, delivery, remover, scan, old, older, faults>>

(* The process dies after the file is written, or the last deletion of the  *)
(* request fails with an OSError.                                           *)
UploadFails(u) ==
  /\ upload[u].stage \in {"stored", "checked", "leaving"}
  /\ upload' = [upload EXCEPT ![u].stage = "done", ![u].drop = NoUpload]
  /\ Fault
  /\ UNCHANGED <<object, files, reference, delivery, remover, scan, old, older>>

SoftDelete(u) ==
  /\ reference[u] = "active"
  /\ reference' = [reference EXCEPT ![u] = "deleted"]
  /\ UNCHANGED <<object, files, upload, delivery, remover, scan, old, older, faults>>

----------------------------------------------------------------------------
(* Deliveries: the document and its ready row are read without a lock, the  *)
(* attachment is inserted later in the same transaction.                    *)

ReadDocument(d) ==
  /\ delivery[d].stage = "idle"
  /\ \E u \in Uploads, h \in HrUsers :
       /\ reference[u] = "active"
       /\ Kind(upload[u].place) = "document"
       /\ object[upload[u].content].status = "ready"
       /\ delivery' = [delivery EXCEPT ![d] =
            [stage |-> "read", object |-> object[upload[u].content].id,
             owners |-> {Owner(upload[u].place), h}]]
  /\ UNCHANGED <<object, files, upload, reference, remover, scan, old, older, faults>>

(* The foreign key asks only that the row still exists.                     *)
Attach(d) ==
  /\ delivery[d].stage = "read"
  /\ \E c \in Contents : object[c].id = delivery[d].object
  /\ delivery' = [delivery EXCEPT ![d].stage = "live"]
  /\ UNCHANGED <<object, files, upload, reference, remover, scan, old, older, faults>>

(* The delivery fails, or the seven days of its attachment are over.        *)
DeliveryEnds(d) ==
  /\ delivery[d].stage \in {"read", "live"}
  /\ delivery' = [delivery EXCEPT ![d] = Over]
  /\ UNCHANGED <<object, files, upload, reference, remover, scan, old, older, faults>>

----------------------------------------------------------------------------
(* Removal: claim rows in one transaction, then unlink each file and        *)
(* finalize each row.                                                       *)

Idle(r) == remover[r].todo = {} /\ remover[r].at = {}

Claim(c) == [content |-> c, id |-> object[c].id, key |-> object[c].key,
             before |-> object[c].status]

ClaimRows(r, claimed) ==
  /\ object' = [c \in Contents |->
       IF c \in claimed THEN [object[c] EXCEPT !.status = "deleting"] ELSE object[c]]
  /\ remover' = [remover EXCEPT ![r] = [todo |-> {Claim(c) : c \in claimed}, at |-> {}]]

Changed(claimed) == {c \in claimed : object[c].status = "ready"}

Expired == {c \in Rows \cap old : ~Referenced(c)}

(* The snapshot of the SELECT ... FOR UPDATE SKIP LOCKED.                   *)
Scan ==
  /\ Idle(Cleanup)
  /\ scan = {}
  /\ scan' = Expired
  /\ UNCHANGED <<object, files, upload, reference, delivery, remover, old, older, faults>>

(* Rows that some other transaction may have locked at the moment.          *)
MaybeLocked ==
  {upload[u].content : u \in {v \in Uploads : upload[v].stage \in {"stored", "checked"}}}
  \cup {c \in Contents : \E d \in Deliveries :
          delivery[d].stage = "read" /\ delivery[d].object = object[c].id}
  \cup {c \in Contents : \E r \in Resets : \E cl \in remover[r].at : cl.content = c}

(* The oldest rows of a set, as many as a batch may hold.                   *)
Batches(S) ==
  {B \in SUBSET S :
     /\ Cardinality(B) <= BatchSize
     /\ B # S => Cardinality(B) = BatchSize
     /\ \A a \in B, b \in S \ B : <<b, a>> \notin older}

(* Its locks and the update.  A row that was only locked and released in    *)
(* between is not read again; one that was updated is no longer old, and    *)
(* Restamp has taken it out of scan.                                        *)
ClaimExpired ==
  /\ scan # {}
  /\ \E skipped \in SUBSET (scan \cap MaybeLocked) : \E B \in Batches(scan \ skipped) :
       /\ ClaimRows(Cleanup, B)
       /\ old' = old \ Changed(B)
       /\ older' = {p \in older : p[1] \notin Changed(B) /\ p[2] \notin Changed(B)}
                   \cup ((Rows \ Changed(B)) \X Changed(B))
  /\ scan' = {}
  /\ UNCHANGED <<files, upload, reference, delivery, faults>>

(* The debug reset of one account deletes its resumes, documents or jobs    *)
(* for good, with the attachments sent for it, and claims the rows that     *)
(* nothing refers to any more.                                              *)
Reset(r, a) ==
  LET mine == {u \in Uploads : reference[u] # "none" /\ Owner(upload[u].place) = a}
      sent == {d \in Deliveries : delivery[d].stage \in {"read", "live"} /\ a \in delivery[d].owners}
      claimed == {c \in {upload[u].content : u \in mine} :
                    /\ \A u \in Uploads \ mine : upload[u].content = c => reference[u] = "none"
                    /\ LiveAttachments(c) \subseteq sent}
  IN
  /\ Idle(r)
  /\ mine # {}
  /\ reference' = [u \in Uploads |-> IF u \in mine THEN "none" ELSE reference[u]]
  /\ delivery' = [d \in Deliveries |-> IF d \in sent THEN Over ELSE delivery[d]]
  /\ ClaimRows(r, claimed)
  /\ Restamp(Changed(claimed), {})
  /\ UNCHANGED <<files, upload, faults>>

Unlink(r, cl) ==
  /\ cl \in remover[r].todo
  /\ remover[r].at = {}
  /\ files' = files \ {cl.key}
  /\ remover' = [remover EXCEPT ![r] = [todo |-> @.todo \ {cl}, at |-> {cl}]]
  /\ UNCHANGED <<object, upload, reference, delivery, scan, old, older, faults>>

Held(cl) == object[cl.content].id = cl.id /\ object[cl.content].status = "deleting"

(* The unlink raises an OSError.  The cleanup puts the status it claimed    *)
(* back, a reset leaves the row to the cleanup.                             *)
UnlinkFails(r, cl) ==
  /\ cl \in remover[r].todo
  /\ remover[r].at = {}
  /\ Fault
  /\ remover' = [remover EXCEPT ![r] = [todo |-> @.todo \ {cl}, at |-> {}]]
  /\ IF r = Cleanup /\ Held(cl) /\ cl.before = "ready"
     THEN /\ object' = [object EXCEPT ![cl.content].status = "ready"]
          /\ Restamp({cl.content}, {})
     ELSE UNCHANGED <<object, scan, old, older>>
  /\ UNCHANGED <<files, upload, reference, delivery>>

(* finalize_deletion.  With a soft-deleted row still referring to it the    *)
(* DELETE raises an IntegrityError, which is caught; the row stays.         *)
Removable(cl) ==
  /\ Held(cl)
  /\ ~Referenced(cl.content)
  /\ References(cl.content, "deleted") = {}

Finalize(r, cl) ==
  /\ cl \in remover[r].at
  /\ remover' = [remover EXCEPT ![r].at = {}]
  /\ IF Removable(cl)
     THEN /\ object' = [object EXCEPT ![cl.content] = NoObject]
          /\ Restamp({}, {cl.content})
     ELSE UNCHANGED <<object, scan, old, older>>
  /\ UNCHANGED <<files, upload, reference, delivery, faults>>

(* A finalize fails, or the process dies with its claims.                   *)
RemoverFails(r) ==
  /\ ~Idle(r)
  /\ Fault
  /\ \E todo \in {{}, remover[r].todo} :
       remover' = [remover EXCEPT ![r] = [todo |-> todo, at |-> {}]]
  /\ UNCHANGED <<object, files, upload, reference, delivery, scan, old, older>>

----------------------------------------------------------------------------
UploadStep(u) ==
  \/ Put(u) \/ CheckDuplicate(u) \/ SaveResume(u) \/ ReuseResume(u) \/ SaveOther(u)
  \/ RefuseName(u) \/ Rollback(u) \/ Leave(u) \/ UploadFails(u) \/ SoftDelete(u)

DeliveryStep(d) == ReadDocument(d) \/ Attach(d) \/ DeliveryEnds(d)

RemoverStep(r) ==
  \/ RemoverFails(r)
  \/ \E cl \in remover[r].todo : Unlink(r, cl) \/ UnlinkFails(r, cl)
  \/ \E cl \in remover[r].at : Finalize(r, cl)

Next ==
  \/ \E u \in Uploads : UploadStep(u)
  \/ \E d \in Deliveries : DeliveryStep(d)
  \/ \E r \in Resets, a \in Candidates \cup HrUsers : Reset(r, a)
  \/ \E r \in Removers : RemoverStep(r)
  \/ \E c \in Contents : HourPasses(c)
  \/ Scan
  \/ ClaimExpired

Spec == Init /\ [][Next]_vars
=============================================================================
