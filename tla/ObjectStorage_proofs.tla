------------------------ MODULE ObjectStorage_proofs ------------------------
(* Theorems about ObjectStorage and its history, for every value of the    *)
(* constants.                                                              *)
EXTENDS ObjectStorageHistory, TLAPS

Present(c) == object[c].status \in {"ready", "deleting"}

(* An upload that is over or about to be: its storage key is never drawn   *)
(* again.                                                                  *)
Spent(k) == k \in Uploads /\ upload[k].stage \in {"leaving", "done"}
SpentFor(k, c) == Spent(k) /\ upload[k].content = c

(* Strengthening of the types: what is referred to, or found by the        *)
(* cleanup, has a row, and an upload that has begun has a content.         *)
RowsExist ==
  /\ \A u \in Uploads : upload[u].stage # "idle" => upload[u].content \in Contents
  /\ \A u \in Uploads : reference[u] # "none" => Spent(u) /\ Present(upload[u].content)
  /\ \A c \in scan : Present(c)

TypeInv == TypeOK /\ RowsExist
-----------------------------------------------------------------------------
(* Types                                                                   *)

LEMMA Values ==
  /\ NoObject.status = "none" /\ NoObject.key = NoUpload /\ NoObject.id = NoUpload
  /\ NoObject \in Object
  /\ \A o \in Object : o = NoObject \/ /\ o.status \in {"ready", "deleting"}
                                       /\ o.key \in Uploads /\ o.id \in Uploads
                                       /\ o \in [status : {"ready", "deleting"}, id : Uploads, key : Uploads]
BY DEF NoObject, Object

LEMMA LeavingWrites ==
  ASSUME TypeOK, NEW u \in Uploads, NEW key \in Uploads \cup {NoUpload}, Leaving(u, key)
  PROVE  /\ upload' \in [Uploads -> UploadRow]
         /\ upload'[u].stage = "leaving" /\ upload'[u].drop = key
         /\ upload'[u].content = upload[u].content /\ upload'[u].place = upload[u].place
         /\ \A v \in Uploads \ {u} : upload'[v] = upload[v]
<1>1. upload[u] \in UploadRow
  BY DEF TypeOK
<1>2. /\ [upload[u] EXCEPT !.stage = "leaving"] \in UploadRow
      /\ [upload[u] EXCEPT !.stage = "leaving"].stage = "leaving"
      /\ [upload[u] EXCEPT !.stage = "leaving"].content = upload[u].content
      /\ [upload[u] EXCEPT !.stage = "leaving"].place = upload[u].place
  BY <1>1 DEF UploadRow
<1> DEFINE r1 == [upload[u] EXCEPT !.stage = "leaving"]
           r2 == [r1 EXCEPT !.drop = key]
<1>3. r2 \in UploadRow /\ r2.stage = "leaving" /\ r2.drop = key
      /\ r2.content = upload[u].content /\ r2.place = upload[u].place
  BY <1>2 DEF UploadRow
<1>4. upload' = [upload EXCEPT ![u] = r2]
  BY DEF Leaving, TypeOK
<1> HIDE DEF r1, r2
<1> QED BY <1>3, <1>4 DEF TypeOK

LEMMA DoneWrites ==
  ASSUME TypeOK, NEW u \in Uploads,
         upload' = [upload EXCEPT ![u].stage = "done", ![u].drop = NoUpload]
  PROVE  /\ upload' \in [Uploads -> UploadRow]
         /\ upload'[u].stage = "done" /\ upload'[u].drop = NoUpload
         /\ upload'[u].content = upload[u].content
         /\ \A v \in Uploads \ {u} : upload'[v] = upload[v]
<1>1. upload \in [Uploads -> UploadRow] /\ upload[u] \in UploadRow
  BY DEF TypeOK
<1> DEFINE r1 == [upload[u] EXCEPT !.stage = "done"]
           r2 == [r1 EXCEPT !.drop = NoUpload]
<1>2. r1 \in UploadRow /\ r1.stage = "done" /\ r1.content = upload[u].content
  BY <1>1 DEF UploadRow
<1>3. r2 \in UploadRow /\ r2.stage = "done" /\ r2.drop = NoUpload
      /\ r2.content = upload[u].content
  BY <1>2 DEF UploadRow
<1>4. upload' = [upload EXCEPT ![u] = r2]
  BY <1>1
<1> HIDE DEF r1, r2
<1> QED BY <1>1, <1>3, <1>4

(* Restamp forgets the rows it touches from old and scan.                  *)
LEMMA RestampWrites ==
  ASSUME TypeOK, NEW touched \in SUBSET Contents, NEW removed, Restamp(touched, removed)
  PROVE  /\ old' \in SUBSET Contents
         /\ scan' \in SUBSET Contents /\ scan' \subseteq scan
         /\ scan' \cap (touched \cup removed) = {}
         /\ older' \in SUBSET (Contents \X Contents)
BY DEF TypeOK, Restamp, Rows

(* Acquiring a row makes it ready; its key is the old one or the upload's. *)
LEMMA AcquireWrites ==
  ASSUME TypeOK, NEW u \in Uploads, upload[u].content \in Contents, Acquire(u)
  PROVE  LET c == upload[u].content IN
         /\ object' \in [Contents -> Object]
         /\ object'[c].status = "ready"
         /\ object[c].status = "ready" => object'[c] = object[c]
         /\ object[c].status # "ready" => object'[c].key = u
         /\ object'[c].id \in {u, object[c].id}
         /\ ~Present(c) => object'[c].id = u
         /\ \A d \in Contents \ {c} : object'[d] = object[d]
         /\ old' \in SUBSET Contents
         /\ scan' \in SUBSET Contents /\ scan' \subseteq scan
         /\ older' \in SUBSET (Contents \X Contents)
<1> DEFINE c == upload[u].content
           o == Acquired(u, object[c])
<1>1. object[c] \in Object
  BY DEF TypeOK
<1>2. object' = [object EXCEPT ![c] = o]
  BY DEF Acquire
<1>3. /\ o \in Object /\ o.status = "ready"
      /\ object[c].status = "ready" => o = object[c]
      /\ object[c].status # "ready" => o.key = u
      /\ o.id \in {u, object[c].id}
      /\ ~Present(c) => o.id = u
  <2>1. CASE object[c] = NoObject
    BY <2>1 DEF Acquired, Object, NoObject, Present
  <2>2. CASE object[c] # NoObject
    <3>1. object[c] \in [status : {"ready", "deleting"}, id : Uploads, key : Uploads]
      BY <1>1, <2>2, Values
    <3>2. CASE object[c].status = "ready"
      BY <1>1, <3>1, <3>2 DEF Acquired, Present
    <3>3. CASE object[c].status = "deleting"
      <4>1. o = [[object[c] EXCEPT !.status = "ready"] EXCEPT !.key = u]
        BY <3>3 DEF Acquired
      <4>2. [object[c] EXCEPT !.status = "ready"] \in [status : {"ready", "deleting"}, id : Uploads, key : Uploads]
        BY <3>1
      <4>3. o \in [status : {"ready", "deleting"}, id : Uploads, key : Uploads]
            /\ o.status = "ready" /\ o.key = u /\ o.id = object[c].id
        BY <3>1, <4>1, <4>2
      <4> QED BY <3>3, <4>3 DEF Object, Present
    <3> QED BY <3>1, <3>2, <3>3
  <2> QED BY <2>1, <2>2
<1>4. /\ old' \in SUBSET Contents
      /\ scan' \in SUBSET Contents /\ scan' \subseteq scan
      /\ older' \in SUBSET (Contents \X Contents)
  <2>1. PICK touched \in SUBSET Contents : Restamp(touched, {})
    BY DEF Acquire
  <2> QED BY <2>1, RestampWrites
<1> HIDE DEF o
<1> QED BY <1>2, <1>3, <1>4 DEF TypeOK

(* What a remover claims are claims, and a claimed row keeps id and key.    *)
LEMMA ClaimWrites ==
  ASSUME TypeOK, NEW r \in Removers, NEW claimed \in SUBSET Contents,
         \A c \in claimed : Present(c), ClaimRows(r, claimed)
  PROVE  /\ object' \in [Contents -> Object]
         /\ \A c \in Contents \ claimed : object'[c] = object[c]
         /\ \A c \in claimed : /\ object'[c].status = "deleting"
                               /\ object'[c].key = object[c].key
                               /\ object'[c].id = object[c].id
         /\ remover' \in [Removers -> [todo : SUBSET Claims, at : SUBSET Claims]]
         /\ \A s \in Removers \ {r} : remover'[s] = remover[s]
         /\ \A cl \in remover'[r].todo : \E c \in claimed : cl = Claim(c)
<1>1. ASSUME NEW c \in claimed
      PROVE  /\ object[c] \in [status : {"ready", "deleting"}, id : Uploads, key : Uploads]
             /\ Claim(c) \in Claims
  <2>1. object[c] \in Object /\ object[c] # NoObject
    BY Values DEF TypeOK, Present
  <2>2. object[c] \in [status : {"ready", "deleting"}, id : Uploads, key : Uploads]
    BY <2>1, Values
  <2> QED BY <2>2 DEF Claim, Claims
<1>2. ASSUME NEW c \in claimed
      PROVE  LET o == [object[c] EXCEPT !.status = "deleting"] IN
             o \in Object /\ o.status = "deleting" /\ o.key = object[c].key /\ o.id = object[c].id
  BY <1>1 DEF Object
<1>3. \A c \in Contents :
        object'[c] = IF c \in claimed THEN [object[c] EXCEPT !.status = "deleting"] ELSE object[c]
  BY DEF ClaimRows
<1>4. object' \in [Contents -> Object]
  BY <1>2 DEF ClaimRows, TypeOK
<1>5. /\ \A c \in Contents \ claimed : object'[c] = object[c]
      /\ \A c \in claimed : /\ object'[c].status = "deleting"
                            /\ object'[c].key = object[c].key
                            /\ object'[c].id = object[c].id
  BY <1>2, <1>3
<1> DEFINE new == {Claim(c) : c \in claimed}
<1>6. new \in SUBSET Claims /\ \A cl \in new : \E c \in claimed : cl = Claim(c)
  BY <1>1
<1> HIDE DEF new
<1>7. remover' = [remover EXCEPT ![r] = [todo |-> new, at |-> {}]]
  BY DEF ClaimRows, new
<1>8. /\ remover' \in [Removers -> [todo : SUBSET Claims, at : SUBSET Claims]]
      /\ \A s \in Removers \ {r} : remover'[s] = remover[s]
      /\ remover'[r].todo = new
  BY <1>6, <1>7 DEF TypeOK
<1> QED BY <1>4, <1>5, <1>6, <1>8

(* The other steps of a remover only drop claims.                           *)
LEMMA RemoverWrites ==
  ASSUME TypeOK, NEW r \in Removers, NEW todo \in SUBSET remover[r].todo,
         NEW at \in SUBSET Claims,
         remover' = [remover EXCEPT ![r] = [todo |-> todo, at |-> at]]
  PROVE  /\ remover' \in [Removers -> [todo : SUBSET Claims, at : SUBSET Claims]]
         /\ \A s \in Removers : remover'[s].todo \subseteq remover[s].todo
         /\ \A s \in Removers \ {r} : remover'[s] = remover[s]
BY DEF TypeOK

LEMMA DropAt ==
  ASSUME NEW m \in [todo : SUBSET Claims, at : SUBSET Claims]
  PROVE  [m EXCEPT !.at = {}] = [todo |-> m.todo, at |-> {}]
<1>1. PICK todo, at : m = [todo |-> todo, at |-> at]
  OBVIOUS
<1> QED BY <1>1

(* A file that could not be unlinked: the cleanup may put its row back.     *)
LEMMA RestoreWrites ==
  ASSUME TypeOK, NEW c \in Contents, Present(c),
         object' = [object EXCEPT ![c].status = "ready"]
  PROVE  /\ object' \in [Contents -> Object]
         /\ object'[c].status = "ready"
         /\ object'[c].key = object[c].key /\ object'[c].id = object[c].id
         /\ \A d \in Contents \ {c} : object'[d] = object[d]
<1>1. object[c] \in Object /\ object[c] # NoObject
  BY Values DEF TypeOK, Present
<1>2. object[c] \in [status : {"ready", "deleting"}, id : Uploads, key : Uploads]
  BY <1>1, Values
<1>3. LET o == [object[c] EXCEPT !.status = "ready"] IN
      o \in Object /\ o.status = "ready" /\ o.key = object[c].key /\ o.id = object[c].id
  BY <1>2 DEF Object
<1> QED BY <1>3 DEF TypeOK

(* A reset takes what is its account's; a row it claims has references, so *)
(* it is there, and no reference is left.                                   *)
LEMMA ResetWrites ==
  ASSUME TypeInv, NEW r \in Resets, NEW a, Reset(r, a)
  PROVE  \E mine \in SUBSET Uploads, sent \in SUBSET Deliveries, claimed \in SUBSET Contents :
           /\ reference' = [u \in Uploads |-> IF u \in mine THEN "none" ELSE reference[u]]
           /\ delivery' = [d \in Deliveries |-> IF d \in sent THEN Over ELSE delivery[d]]
           /\ ClaimRows(r, claimed) /\ Restamp(Changed(claimed), {})
           /\ \A c \in claimed : /\ Present(c)
                                 /\ References(c, "active") \subseteq mine
                                 /\ LiveAttachments(c) \subseteq sent
           /\ UNCHANGED <<files, upload, faults>>
<1> DEFINE mine == {u \in Uploads : reference[u] # "none" /\ Owner(upload[u].place) = a}
           sent == {d \in Deliveries : delivery[d].stage \in {"read", "live"} /\ a \in delivery[d].owners}
           claimed == {c \in {upload[u].content : u \in mine} :
                         /\ \A u \in Uploads \ mine : upload[u].content = c => reference[u] = "none"
                         /\ LiveAttachments(c) \subseteq sent}
<1>1. /\ reference' = [u \in Uploads |-> IF u \in mine THEN "none" ELSE reference[u]]
      /\ delivery' = [d \in Deliveries |-> IF d \in sent THEN Over ELSE delivery[d]]
      /\ ClaimRows(r, claimed) /\ Restamp(Changed(claimed), {})
      /\ UNCHANGED <<files, upload, faults>>
  BY DEF Reset
<1>2. ASSUME NEW c \in claimed
      PROVE  /\ c \in Contents /\ Present(c)
             /\ References(c, "active") \subseteq mine
             /\ LiveAttachments(c) \subseteq sent
  <2>1. PICK u \in mine : c = upload[u].content
    OBVIOUS
  <2>2. Present(c) /\ c \in Contents
    BY <2>1 DEF TypeInv, RowsExist, Spent
  <2>3. References(c, "active") \subseteq mine
    BY DEF References
  <2> QED BY <2>2, <2>3
<1>3. mine \in SUBSET Uploads /\ sent \in SUBSET Deliveries /\ claimed \in SUBSET Contents
  BY <1>2
<1> HIDE DEF mine, sent, claimed
<1> QED BY <1>1, <1>2, <1>3

(* Uploads go forward and keep their content once they have one.            *)
LEMMA UploadSteps ==
  ASSUME TypeInv, [Next]_vars
  PROVE  /\ upload' \in [Uploads -> UploadRow]
         /\ \A k \in Uploads :
              /\ upload'[k].stage # "idle" => upload'[k].content \in Contents
              /\ upload[k].stage # "idle" =>
                   upload'[k].stage # "idle" /\ upload'[k].content = upload[k].content
              /\ Spent(k) => Spent(k)'
<1> DEFINE Forward == /\ upload' \in [Uploads -> UploadRow]
                      /\ \A k \in Uploads :
                           /\ upload'[k].stage # "idle" => upload'[k].content \in Contents
                           /\ upload[k].stage # "idle" =>
                                upload'[k].stage # "idle" /\ upload'[k].content = upload[k].content
                           /\ Spent(k) => Spent(k)'
<1> USE DEF TypeInv, RowsExist
<1>1. CASE UNCHANGED upload
  BY <1>1 DEF TypeOK, Spent
<1>2. ASSUME NEW u \in Uploads, UploadStep(u)
      PROVE  Forward
  <2>1. CASE Put(u)
    <3>1. PICK p \in Places, c \in Contents :
            upload' = [upload EXCEPT ![u] = [stage |-> "stored", place |-> p,
                                             content |-> c, drop |-> NoUpload]]
      BY <2>1 DEF Put
    <3>2. [stage |-> "stored", place |-> p, content |-> c, drop |-> NoUpload] \in UploadRow
      BY DEF UploadRow
    <3> QED BY <2>1, <3>1, <3>2 DEF Put, TypeOK, Spent
  <2>2. ASSUME NEW key \in Uploads \cup {NoUpload}, Leaving(u, key), upload[u].stage # "idle"
        PROVE  Forward
    BY <2>2, LeavingWrites DEF Spent
  <2>3. CASE CheckDuplicate(u)
    <3>1. CASE Leaving(u, u)
      BY <2>2, <2>3, <3>1 DEF CheckDuplicate
    <3>2. CASE ~Leaving(u, u)
      <4>1. upload' = [upload EXCEPT ![u].stage = "checked"] /\ upload[u].stage = "stored"
        BY <2>3, <3>2 DEF CheckDuplicate
      <4>2. [upload[u] EXCEPT !.stage = "checked"] \in UploadRow
        BY DEF TypeOK, UploadRow
      <4> QED BY <4>1, <4>2 DEF TypeOK, Spent
    <3> QED BY <3>1, <3>2
  <2>4. CASE SaveResume(u) \/ SaveOther(u)
    <3>1. Unneeded(u) \in Uploads \cup {NoUpload}
      <4>1. upload[u].content \in Contents
        BY <2>4 DEF SaveResume, SaveOther
      <4>2. object[upload[u].content] \in Object
        BY <4>1 DEF TypeOK
      <4> QED BY <4>2, Values DEF Unneeded
    <3> QED BY <2>2, <2>4, <3>1 DEF SaveResume, SaveOther, Insert
  <2>5. CASE ReuseResume(u) \/ Rollback(u)
    BY <2>2, <2>5 DEF ReuseResume, Rollback
  <2>6. CASE Leave(u) \/ UploadFails(u)
    <3>1. /\ upload' = [upload EXCEPT ![u].stage = "done", ![u].drop = NoUpload]
          /\ upload[u].stage # "idle"
      BY <2>6 DEF Leave, UploadFails
    <3> QED BY <3>1, DoneWrites, ZenonT(40) DEF Spent
  <2>7. CASE SoftDelete(u)
    BY <1>1, <2>7 DEF SoftDelete
  <2>8. CASE RefuseName(u)
    <3>1. upload' = [upload EXCEPT ![u].stage = "refused"] /\ upload[u].stage = "stored"
      BY <2>8 DEF RefuseName
    <3>2. [upload[u] EXCEPT !.stage = "refused"] \in UploadRow
      BY DEF TypeOK, UploadRow
    <3> QED BY <3>1, <3>2 DEF TypeOK, Spent
  <2> QED BY <1>2, <2>1, <2>3, <2>4, <2>5, <2>6, <2>7, <2>8 DEF UploadStep
<1>3. ASSUME NEW d \in Deliveries, DeliveryStep(d)
      PROVE  Forward
  BY <1>1, <1>3 DEF DeliveryStep, ReadDocument, Attach, DeliveryEnds
<1>4. ASSUME NEW r \in Resets, NEW a, Reset(r, a)
      PROVE  Forward
  BY <1>1, <1>4 DEF Reset
<1>5. ASSUME NEW r \in Removers, RemoverStep(r)
      PROVE  Forward
  BY <1>1, <1>5 DEF RemoverStep, RemoverFails, Unlink, UnlinkFails, Finalize
<1>6. CASE (\E c \in Contents : HourPasses(c)) \/ Scan \/ ClaimExpired \/ UNCHANGED vars
  BY <1>1, <1>6 DEF HourPasses, Scan, ClaimExpired, vars
<1> QED BY <1>2, <1>3, <1>4, <1>5, <1>6 DEF Next

(* An upload that acquires a row for its content.                           *)
Acquires(u) == SaveResume(u) \/ SaveOther(u) \/ ReuseResume(u)

LEMMA AcquireStep ==
  ASSUME TypeInv, NEW u \in Uploads, Acquires(u)
  PROVE  /\ upload[u].stage \in {"stored", "checked"} /\ upload[u].content \in Contents
         /\ Acquire(u)
         /\ \E key \in {u, Unneeded(u)} : Leaving(u, key)
         /\ ReuseResume(u) => Leaving(u, u) /\ References(upload[u].content, "active") # {}
         /\ ~ReuseResume(u) => Leaving(u, Unneeded(u))
         /\ reference' \in {reference, [reference EXCEPT ![u] = "active"]}
         /\ UNCHANGED <<files, delivery, remover, faults>>
BY DEF Acquires, SaveResume, SaveOther, ReuseResume, Insert, TypeInv, RowsExist, Duplicates, Acquire

(* Every action keeps the state well typed.                                 *)
LEMMA TypeStep == TypeInv /\ [Next]_vars => TypeInv'
<1> SUFFICES ASSUME TypeInv, [Next]_vars
             PROVE  TypeInv'
  OBVIOUS
<1>0. /\ TypeOK /\ RowsExist /\ upload' \in [Uploads -> UploadRow]
      /\ \A k \in Uploads : upload'[k].stage # "idle" => upload'[k].content \in Contents
      /\ \A k \in Uploads : Spent(k) => Spent(k)' /\ upload'[k].content = upload[k].content
  BY UploadSteps DEF TypeInv, Spent
(* Steps that leave rows, references and removers alone.                    *)
<1>a. ASSUME UNCHANGED <<object, reference, remover>>, files' \subseteq files \cup Uploads,
             delivery' \in [Deliveries -> DeliveryRow],
             scan' \in SUBSET Contents, \A c \in scan' : Present(c),
             old' \in SUBSET Contents, UNCHANGED older,
             faults' = faults \/ Fault
      PROVE  TypeInv'
  BY <1>0, <1>a, StorageAssumption DEF TypeInv, TypeOK, RowsExist, Present, Fault, StorageAssumption
(* Steps that leave references alone and keep every row that is referred to. *)
<1>b. ASSUME object' \in [Contents -> Object],
             \A c \in Contents : Present(c)' \/ (Present(c) => \A u \in Uploads :
                upload[u].content = c => reference'[u] = "none"),
             reference' \in [Uploads -> {"none", "active", "deleted"}],
             \A u \in Uploads : reference'[u] # "none" =>
               reference[u] # "none" \/ (Spent(u)' /\ Present(upload[u].content)'),
             remover' \in [Removers -> [todo : SUBSET Claims, at : SUBSET Claims]],
             files' \subseteq files, delivery' \in [Deliveries -> DeliveryRow],
             scan' \in SUBSET Contents, \A c \in scan' : Present(c)',
             old' \in SUBSET Contents, older' \in SUBSET (Contents \X Contents),
             faults' = faults \/ Fault
      PROVE  TypeInv'
  <2>1. TypeOK'
    BY <1>0, <1>b, StorageAssumption DEF TypeOK, Fault, StorageAssumption
  <2>2. ASSUME NEW u \in Uploads, reference'[u] # "none"
        PROVE  Spent(u)' /\ Present(upload[u].content)'
    <3>1. CASE reference[u] # "none"
      BY <1>0, <1>b, <2>2, <3>1 DEF RowsExist, Spent
    <3>2. CASE reference[u] = "none"
      BY <1>b, <2>2, <3>2
    <3> QED BY <3>1, <3>2
  <2> QED BY <1>0, <1>b, <2>1, <2>2 DEF TypeInv, RowsExist
<1>c. NoDelivery \in DeliveryRow /\ Over \in DeliveryRow
  BY DEF NoDelivery, Over, DeliveryRow
<1>1. ASSUME NEW u \in Uploads, UploadStep(u)
      PROVE  TypeInv'
  <2>1. CASE \/ Put(u) \/ CheckDuplicate(u) \/ RefuseName(u) \/ Rollback(u)
             \/ Leave(u) \/ UploadFails(u)
    BY <1>0, <1>a, <2>1 DEF Put, CheckDuplicate, RefuseName, Rollback, Leave, UploadFails, TypeOK, RowsExist
  <2>2. CASE SaveResume(u) \/ ReuseResume(u) \/ SaveOther(u)
    <3> DEFINE c == upload[u].content
    <3>1. Acquires(u)
      BY <2>2 DEF Acquires
    <3>2. /\ c \in Contents /\ Acquire(u) /\ upload[u].stage \in {"stored", "checked"}
          /\ \E key \in {u, Unneeded(u)} : Leaving(u, key)
          /\ reference' \in {reference, [reference EXCEPT ![u] = "active"]}
          /\ UNCHANGED <<files, delivery, remover, faults>>
      BY <3>1, AcquireStep
    <3>3. /\ object' \in [Contents -> Object]
          /\ object'[c].status = "ready"
          /\ \A d \in Contents \ {c} : object'[d] = object[d]
          /\ old' \in SUBSET Contents
          /\ scan' \in SUBSET Contents /\ scan' \subseteq scan
          /\ older' \in SUBSET (Contents \X Contents)
      BY <1>0, <3>2, AcquireWrites
    <3>4. \A d \in Contents : Present(d) \/ d = c => Present(d)'
      BY <3>3 DEF Present
    <3>5. Spent(u)' /\ upload'[u].content = c
      <4>1. \E key \in Uploads \cup {NoUpload} : Leaving(u, key)
        <5>1. object[c] \in Object
          BY <1>0, <3>2 DEF TypeOK
        <5>2. Unneeded(u) \in Uploads \cup {NoUpload}
          BY <5>1, Values DEF Unneeded
        <5> QED BY <3>2, <5>2
      <4> QED BY <1>0, <4>1, LeavingWrites DEF Spent
    <3>6. /\ \A v \in Uploads : reference'[v] # "none" =>
               reference[v] # "none" \/ (Spent(v)' /\ Present(upload[v].content)')
          /\ reference' \in [Uploads -> {"none", "active", "deleted"}]
      BY <1>0, <3>2, <3>4, <3>5 DEF TypeOK
    <3>7. \A d \in scan' : Present(d)'
      BY <1>0, <3>3, <3>4 DEF RowsExist
    <3>8. delivery' \in [Deliveries -> DeliveryRow]
          /\ remover' \in [Removers -> [todo : SUBSET Claims, at : SUBSET Claims]]
      BY <1>0, <3>2 DEF TypeOK
    <3> QED BY <1>b, <3>2, <3>3, <3>4, <3>6, <3>7, <3>8
  <2>3. CASE SoftDelete(u)
    <3>1. /\ reference' = [reference EXCEPT ![u] = "deleted"] /\ reference[u] # "none"
          /\ UNCHANGED <<object, files, upload, delivery, remover, scan, old, older, faults>>
      BY <2>3 DEF SoftDelete
    <3> QED BY <1>0, <3>1 DEF TypeInv, TypeOK, RowsExist, Present, Spent
  <2> QED BY <1>1, <2>1, <2>2, <2>3 DEF UploadStep
<1>2. ASSUME NEW d \in Deliveries, DeliveryStep(d)
      PROVE  TypeInv'
  <2>1. delivery' \in [Deliveries -> DeliveryRow]
    <3>1. CASE ReadDocument(d)
      <4>1. PICK u \in Uploads : \E h \in HrUsers :
              /\ reference[u] = "active" /\ Kind(upload[u].place) = "document"
              /\ object[upload[u].content].status = "ready"
              /\ delivery' = [delivery EXCEPT ![d] =
                   [stage |-> "read", object |-> object[upload[u].content].id,
                    owners |-> {Owner(upload[u].place), h}]]
        BY <3>1 DEF ReadDocument
      <4>2. PICK h \in HrUsers : delivery' = [delivery EXCEPT ![d] =
                   [stage |-> "read", object |-> object[upload[u].content].id,
                    owners |-> {Owner(upload[u].place), h}]]
        BY <4>1
      <4>3. object[upload[u].content].id \in Uploads
        <5>1. object[upload[u].content] \in Object
          BY <1>0, <4>1 DEF TypeOK, RowsExist, Spent
        <5> QED BY <4>1, <5>1, Values DEF Object
      <4>4. Owner(upload[u].place) \in Candidates \cup HrUsers
        <5>1. upload[u].place \in Places \cup {NoPlace}
          BY <1>0 DEF TypeOK, UploadRow
        <5>2. upload[u].place # NoPlace
          BY <4>1 DEF NoPlace, Kind
        <5> QED BY <5>1, <5>2 DEF Places, Owner
      <4> QED BY <1>0, <4>2, <4>3, <4>4 DEF TypeOK, DeliveryRow
    <3>2. CASE Attach(d)
      <4>1. [delivery[d] EXCEPT !.stage = "live"] \in DeliveryRow
        BY <1>0 DEF TypeOK, DeliveryRow
      <4> QED BY <1>0, <3>2, <4>1 DEF Attach, TypeOK
    <3>3. CASE DeliveryEnds(d)
      BY <1>0, <1>c, <3>3 DEF DeliveryEnds, TypeOK
    <3> QED BY <1>2, <3>1, <3>2, <3>3 DEF DeliveryStep
  <2>2. UNCHANGED <<object, reference, remover, files, scan, old, older, faults>>
    BY <1>2 DEF DeliveryStep, ReadDocument, Attach, DeliveryEnds
  <2> QED BY <1>0, <1>a, <2>1, <2>2 DEF TypeOK, RowsExist
<1>3. ASSUME NEW r \in Resets, NEW a, Reset(r, a)
      PROVE  TypeInv'
  <2>1. PICK mine \in SUBSET Uploads, sent \in SUBSET Deliveries, claimed \in SUBSET Contents :
          /\ reference' = [u \in Uploads |-> IF u \in mine THEN "none" ELSE reference[u]]
          /\ delivery' = [d \in Deliveries |-> IF d \in sent THEN Over ELSE delivery[d]]
          /\ ClaimRows(r, claimed) /\ Restamp(Changed(claimed), {})
          /\ \A c \in claimed : Present(c)
          /\ UNCHANGED <<files, upload, faults>>
    BY <1>3, ResetWrites, ZenonT(40)
  <2>2. r \in Removers
    BY DEF Removers
  <2>3. /\ object' \in [Contents -> Object]
        /\ \A c \in Contents \ claimed : object'[c] = object[c]
        /\ \A c \in claimed : object'[c].status = "deleting"
        /\ remover' \in [Removers -> [todo : SUBSET Claims, at : SUBSET Claims]]
    BY <1>0, <2>1, <2>2, ClaimWrites
  <2>4. /\ old' \in SUBSET Contents
        /\ scan' \in SUBSET Contents /\ scan' \subseteq scan
        /\ older' \in SUBSET (Contents \X Contents)
    <3>1. Changed(claimed) \in SUBSET Contents
      BY DEF Changed
    <3> QED BY <1>0, <2>1, <3>1, RestampWrites
  <2>5. \A c \in Contents : Present(c) => Present(c)'
    BY <2>3 DEF Present
  <2>6. \A c \in scan' : Present(c)'
    BY <1>0, <2>4, <2>5 DEF RowsExist
  <2>7. /\ reference' \in [Uploads -> {"none", "active", "deleted"}]
        /\ \A u \in Uploads : reference'[u] # "none" => reference[u] # "none"
        /\ delivery' \in [Deliveries -> DeliveryRow]
    BY <1>0, <1>c, <2>1 DEF TypeOK
  <2>8. \A c \in Contents : Present(c)' \/ (Present(c) => \A u \in Uploads :
                upload[u].content = c => reference'[u] = "none")
    BY <2>5
  <2> QED BY <1>b, <2>1, <2>3, <2>4, <2>6, <2>7, <2>8
<1>4. ASSUME NEW r \in Removers, RemoverStep(r)
      PROVE  TypeInv'
  <2> USE <1>0
  <2>1. /\ remover' \in [Removers -> [todo : SUBSET Claims, at : SUBSET Claims]]
        /\ UNCHANGED <<upload, reference, delivery>> /\ files' \subseteq files
        /\ faults' = faults \/ Fault
    <3>0. remover[r].todo \in SUBSET Claims /\ remover[r].at \in SUBSET Claims
      BY DEF TypeOK
    <3>1. ASSUME NEW cl \in remover[r].todo, Unlink(r, cl)
          PROVE  \E todo \in SUBSET remover[r].todo, at \in SUBSET Claims :
                   remover' = [remover EXCEPT ![r] = [todo |-> todo, at |-> at]]
      <4>1. remover' = [remover EXCEPT ![r] = [todo |-> remover[r].todo \ {cl}, at |-> {cl}]]
        BY <3>1 DEF Unlink, TypeOK
      <4> QED BY <3>0, <4>1
    <3>2. ASSUME NEW cl \in remover[r].todo, UnlinkFails(r, cl)
          PROVE  \E todo \in SUBSET remover[r].todo, at \in SUBSET Claims :
                   remover' = [remover EXCEPT ![r] = [todo |-> todo, at |-> at]]
      <4>1. remover' = [remover EXCEPT ![r] = [todo |-> remover[r].todo \ {cl}, at |-> {}]]
        BY <3>2 DEF UnlinkFails, TypeOK
      <4> QED BY <3>0, <4>1
    <3>3. ASSUME NEW cl \in remover[r].at, Finalize(r, cl)
          PROVE  \E todo \in SUBSET remover[r].todo, at \in SUBSET Claims :
                   remover' = [remover EXCEPT ![r] = [todo |-> todo, at |-> at]]
      <4>1. remover[r] \in [todo : SUBSET Claims, at : SUBSET Claims]
        BY DEF TypeOK
      <4>2. [remover[r] EXCEPT !.at = {}] = [todo |-> remover[r].todo, at |-> {}]
        BY <4>1, DropAt
      <4>3. remover' = [remover EXCEPT ![r] = [todo |-> remover[r].todo, at |-> {}]]
        BY <3>3, <4>2 DEF Finalize, TypeOK
      <4> QED BY <3>0, <4>3
    <3>4. CASE RemoverFails(r)
      <4>1. PICK todo \in {{}, remover[r].todo} :
              remover' = [remover EXCEPT ![r] = [todo |-> todo, at |-> {}]]
        BY <3>4 DEF RemoverFails
      <4>2. todo \in SUBSET remover[r].todo /\ {} \in SUBSET Claims
        BY <4>1
      <4>3. remover' \in [Removers -> [todo : SUBSET Claims, at : SUBSET Claims]]
        BY <4>1, <4>2, RemoverWrites
      <4> QED BY <3>4, <4>3 DEF RemoverFails
    <3>5. CASE \E cl \in remover[r].todo : Unlink(r, cl)
      BY <3>1, <3>5, RemoverWrites DEF Unlink
    <3>6. CASE \E cl \in remover[r].todo : UnlinkFails(r, cl)
      BY <3>2, <3>6, RemoverWrites DEF UnlinkFails
    <3>7. CASE \E cl \in remover[r].at : Finalize(r, cl)
      BY <3>3, <3>7, RemoverWrites DEF Finalize
    <3> QED BY <1>4, <3>4, <3>5, <3>6, <3>7 DEF RemoverStep
  <2>2. CASE UNCHANGED <<object, scan, old, older>>
    BY <1>b, <2>1, <2>2 DEF TypeOK, RowsExist, Present
  <2>3. ASSUME NEW cl \in remover[r].todo, UnlinkFails(r, cl), ~UNCHANGED <<object, scan, old, older>>
        PROVE  TypeInv'
    <3>1. cl \in Claims
      BY DEF TypeOK
    <3>2. /\ Held(cl) /\ cl.content \in Contents
          /\ object' = [object EXCEPT ![cl.content].status = "ready"]
          /\ Restamp({cl.content}, {})
      BY <2>3, <3>1 DEF UnlinkFails, Claims
    <3>3. /\ object' \in [Contents -> Object]
          /\ \A c \in Contents : Present(c) => Present(c)'
      BY <3>2, RestoreWrites DEF Held, Present
    <3>4. /\ old' \in SUBSET Contents /\ scan' \in SUBSET Contents /\ scan' \subseteq scan
          /\ older' \in SUBSET (Contents \X Contents)
      BY <3>2, RestampWrites
    <3>5. \A c \in scan' : Present(c)'
      BY <3>3, <3>4 DEF RowsExist
    <3> QED BY <1>b, <2>1, <3>3, <3>4, <3>5 DEF TypeOK
  <2>4. ASSUME NEW cl \in remover[r].at, Finalize(r, cl), ~UNCHANGED <<object, scan, old, older>>
        PROVE  TypeInv'
    <3>1. cl \in Claims
      BY DEF TypeOK
    <3>2. /\ Removable(cl) /\ cl.content \in Contents
          /\ object' = [object EXCEPT ![cl.content] = NoObject]
          /\ Restamp({}, {cl.content})
      BY <2>4, <3>1 DEF Finalize, Claims
    <3>3. /\ object' \in [Contents -> Object]
          /\ \A c \in Contents \ {cl.content} : Present(c) => Present(c)'
      BY <3>2, Values DEF TypeOK, Present
    <3>4. /\ old' \in SUBSET Contents /\ scan' \in SUBSET Contents /\ scan' \subseteq scan
          /\ cl.content \notin scan'
          /\ older' \in SUBSET (Contents \X Contents)
      BY <3>2 DEF Restamp, Rows, TypeOK
    <3>5. \A c \in scan' : Present(c)'
      BY <3>3, <3>4 DEF RowsExist
    <3>6. \A u \in Uploads : upload[u].content = cl.content => reference[u] = "none"
      BY <3>2 DEF Removable, Referenced, References, TypeOK
    <3> QED BY <1>b, <2>1, <3>3, <3>4, <3>5, <3>6 DEF TypeOK
  <2>5. CASE RemoverFails(r) \/ \E cl \in remover[r].todo : Unlink(r, cl)
    BY <2>2, <2>5 DEF RemoverFails, Unlink
  <2> QED BY <1>4, <2>2, <2>3, <2>4, <2>5 DEF RemoverStep
<1>5. ASSUME NEW c \in Contents, HourPasses(c)
      PROVE  TypeInv'
  BY <1>0, <1>a, <1>5 DEF HourPasses, TypeOK, RowsExist
<1>6. ASSUME Scan
      PROVE  TypeInv'
  <2>1. scan' \in SUBSET Contents /\ \A c \in scan' : Present(c)
    <3>1. ASSUME NEW c \in Expired
          PROVE  c \in Contents /\ Present(c)
      <4>1. c \in Contents /\ object[c] # NoObject /\ object[c] \in Object
        BY <1>0 DEF Expired, Rows, TypeOK
      <4> QED BY <4>1, Values DEF Present
    <3> QED BY <1>6, <3>1 DEF Scan
  <2> QED BY <1>0, <1>a, <1>6, <2>1 DEF Scan, TypeOK
<1>7. ASSUME ClaimExpired
      PROVE  TypeInv'
  <2>1. PICK B \in SUBSET scan :
          /\ ClaimRows(Cleanup, B)
          /\ old' = old \ Changed(B)
          /\ older' = {p \in older : p[1] \notin Changed(B) /\ p[2] \notin Changed(B)}
                   \cup ((Rows \ Changed(B)) \X Changed(B))
    BY <1>7 DEF ClaimExpired, Batches
  <2>2. Cleanup \in Removers /\ B \in SUBSET Contents /\ \A c \in B : Present(c)
    BY <1>0 DEF Removers, TypeOK, RowsExist
  <2>3. /\ object' \in [Contents -> Object]
        /\ \A c \in Contents \ B : object'[c] = object[c]
        /\ \A c \in B : object'[c].status = "deleting"
        /\ remover' \in [Removers -> [todo : SUBSET Claims, at : SUBSET Claims]]
    BY <1>0, <2>1, <2>2, ClaimWrites
  <2>4. /\ old' \in SUBSET Contents /\ scan' = {}
        /\ older' \in SUBSET (Contents \X Contents)
        /\ UNCHANGED <<files, upload, reference, delivery, faults>>
    BY <1>0, <1>7, <2>1, <2>2 DEF TypeOK, Changed, Rows, ClaimExpired
  <2>5. \A c \in Contents : Present(c) => Present(c)'
    BY <2>3 DEF Present
  <2> QED BY <1>0, <1>b, <2>3, <2>4, <2>5 DEF TypeOK
<1>8. CASE UNCHANGED vars
  BY <1>0, <1>a, <1>8 DEF vars, TypeOK, RowsExist
<1> QED BY <1>1, <1>2, <1>3, <1>4, <1>5, <1>6, <1>7, <1>8 DEF Next

HTypeOK == TypeInv /\ raced \in SUBSET Contents /\ late \in SUBSET Deliveries

LEMMA HTypeStep == HTypeOK /\ [HNext]_hvars => HTypeOK'
<1>1. ASSUME HTypeOK, [HNext]_hvars
      PROVE  [Next]_vars /\ raced \subseteq raced' /\ raced' \in SUBSET Contents
             /\ late \subseteq late' /\ late' \in SUBSET Deliveries
  BY <1>1 DEF HTypeOK, HNext, hvars, vars
<1> QED BY <1>1, TypeStep DEF HTypeOK

LEMMA TypeInit == Init => TypeInv
<1>1. NoObject \in Object /\ NoDelivery \in DeliveryRow
  BY DEF NoObject, Object, NoDelivery, DeliveryRow
<1>2. [stage |-> "idle", place |-> NoPlace, content |-> NoContent, drop |-> NoUpload] \in UploadRow
  BY DEF UploadRow
<1> QED BY <1>1, <1>2, StorageAssumption DEF Init, TypeInv, TypeOK, RowsExist, StorageAssumption

(* Rows, files, requests, references, deliveries and claims stay well       *)
(* typed; in particular an acquired row is ready or on its way out.         *)
THEOREM TypeCorrect == Spec => []TypeOK
<1>1. TypeInv => TypeOK
  BY DEF TypeInv
<1> QED BY <1>1, TypeInit, TypeStep, PTL DEF Spec
-----------------------------------------------------------------------------
(* Files                                                                   *)

(* Strengthening.  Keys are used by at most one row, which is the row of   *)
(* the content they were drawn for ...                                     *)
KeysSpent ==
  /\ \A c \in Contents : Present(c) => SpentFor(object[c].key, c) /\ SpentFor(object[c].id, c)
  /\ \A r \in Removers : \A cl \in remover[r].todo : SpentFor(cl.key, cl.content)
  /\ \A u \in Uploads :
       (upload[u].stage = "leaving" /\ upload[u].drop # NoUpload) => Spent(upload[u].drop)
  /\ \A d \in Deliveries : delivery[d].stage \in {"read", "live"} => Spent(delivery[d].object)

(* ... the file of an upload that is not saved yet is there ...            *)
FreshFiles == \A u \in Uploads : upload[u].stage \in {"stored", "checked"} => u \in files

(* ... no request is about to delete the key of a row, and no claim that   *)
(* of a ready one, whose file is there ...                                 *)
KeysKept ==
  \A c \in Contents \ raced :
    /\ Present(c) => \A u \in Uploads :
         upload[u].stage = "leaving" => upload[u].drop # object[c].key
    /\ object[c].status = "ready" =>
         /\ object[c].key \in files
         /\ \A r \in Removers : \A cl \in remover[r].todo : cl.key # object[c].key

(* ... and what is referred to is ready.                                   *)
UsedIsReady ==
  \A c \in Contents \ raced :
    /\ \A u \in Uploads :
         (reference[u] = "active" /\ upload[u].content = c) => object[c].status = "ready"
    /\ \A d \in Deliveries \ late :
         (delivery[d].stage = "live" /\ delivery[d].object = object[c].id)
           => object[c].status = "ready"

(* A remover claims a row once.                                            *)
OneClaimEach ==
  \A r \in Removers : \A cl, other \in remover[r].todo :
    cl.content = other.content => cl = other

StorageInv == KeysSpent /\ OneClaimEach /\ FreshFiles /\ KeysKept /\ UsedIsReady

(* What a step may do to the row of a content.                             *)
Fresh(u) == upload[u].stage \in {"stored", "checked"}
SameKey(c) == object'[c].key = object[c].key /\ object'[c].id = object[c].id

AcquiredBy(u, c) ==
  /\ Fresh(u) /\ Spent(u)' /\ upload[u].content = c
  /\ object[c].status # "ready" /\ object'[c].status = "ready"
  /\ object'[c].key = u
  /\ object'[c].id = u \/ (Present(c) /\ object'[c].id = object[c].id)
  /\ upload'[u].drop = u => References(c, "active") # {}
  /\ UNCHANGED <<files, remover>>

ClaimedRow(c) ==
  /\ object[c].status = "ready" /\ object'[c].status = "deleting" /\ SameKey(c)
  /\ c \notin raced' =>
       /\ \A u \in Uploads : ~(reference'[u] = "active" /\ upload'[u].content = c)
       /\ \A d \in Deliveries : ~(delivery'[d].stage = "live" /\ delivery'[d].object = object'[c].id)

RestoredRow(c) ==
  /\ object[c].status = "deleting" /\ object'[c].status = "ready" /\ SameKey(c)
  /\ c \notin raced' =>
       /\ object[c].key \in files'
       /\ \A r \in Removers : \A cl \in remover'[r].todo : cl.content # c

RemovedRow(c) == object[c].status = "deleting" /\ object'[c] = NoObject

RowMoves ==
  \A c \in Contents :
    \/ object'[c] = object[c]
    \/ \E u \in Uploads : AcquiredBy(u, c)
    \/ ClaimedRow(c) \/ RestoredRow(c) \/ RemovedRow(c)

(* ... to the claims, to what requests are about to delete, to files ...    *)
ClaimMoves ==
  \A r \in Removers :
    \/ remover'[r].todo \subseteq remover[r].todo
    \/ \A cl \in remover'[r].todo : \E c \in Contents :
         Present(c) /\ cl = Claim(c) /\ object'[c].status = "deleting"

DropMoves ==
  \A u \in Uploads : upload'[u].stage = "leaving" =>
    \/ upload[u].stage = "leaving" /\ upload'[u].drop = upload[u].drop
    \/ upload'[u].drop = NoUpload
    \/ upload'[u].drop = u /\ Fresh(u)
    \/ \E c \in Contents : AcquiredBy(u, c) /\ upload'[u].drop = object[c].key

FileMoves ==
  /\ \A k \in files \ files' :
       \/ \E u \in Uploads : upload[u].stage = "leaving" /\ upload[u].drop = k
       \/ \E r \in Removers : \E cl \in remover[r].todo : cl.key = k
  /\ \A u \in Uploads : Fresh(u)' => Fresh(u) \/ u \in files'

(* ... and to what refers to a row.                                         *)
UseMoves ==
  /\ \A u \in Uploads : reference'[u] = "active" =>
       \/ reference[u] = "active"
       \/ upload[u].content \in Contents /\ object'[upload[u].content].status = "ready"
          /\ upload'[u].content = upload[u].content
  /\ \A d \in Deliveries : delivery'[d].stage \in {"read", "live"} =>
       \/ delivery[d].stage = delivery'[d].stage /\ delivery[d].object = delivery'[d].object
       \/ \E c \in Contents :
            /\ Present(c) /\ delivery'[d].object = object[c].id /\ object' = object
            /\ (delivery'[d].stage = "live" /\ d \notin late') => object[c].status = "ready"

Moves == RowMoves /\ ClaimMoves /\ DropMoves /\ FileMoves /\ UseMoves

(* Such steps keep the invariant.                                           *)
LEMMA KeysSpentStep ==
  ASSUME TypeInv, [Next]_vars, KeysSpent, Moves
  PROVE  KeysSpent'
<1>0. \A k \in Uploads : Spent(k) => Spent(k)' /\ upload'[k].content = upload[k].content
  BY UploadSteps DEF Spent
<1>a. \A k, c : SpentFor(k, c) => SpentFor(k, c)'
  BY <1>0 DEF SpentFor, Spent
<1>1. ASSUME NEW c \in Contents, Present(c)'
      PROVE  SpentFor(object[c].key, c)' /\ SpentFor(object[c].id, c)'
  <2>1. CASE Present(c) /\ SameKey(c)
    BY <1>a, <2>1 DEF KeysSpent, SameKey, SpentFor, Spent
  <2>2. ASSUME NEW u \in Uploads, AcquiredBy(u, c)
        PROVE  SpentFor(object[c].key, c)' /\ SpentFor(object[c].id, c)'
    <3>1. SpentFor(u, c)'
      BY <2>2, UploadSteps DEF AcquiredBy, SpentFor, Spent, Fresh
    <3>2. Present(c) => SpentFor(object[c].id, c)
      BY DEF KeysSpent
    <3> QED BY <1>a, <2>2, <3>1, <3>2 DEF AcquiredBy, SpentFor, Spent
  <2>3. CASE object'[c] = object[c]
    BY <1>1, <2>1, <2>3 DEF SameKey, Present
  <2>4. CASE ClaimedRow(c) \/ RestoredRow(c)
    BY <2>1, <2>4 DEF ClaimedRow, RestoredRow, Present
  <2>5. ~RemovedRow(c)
    BY <1>1, Values DEF RemovedRow, Present
  <2> QED BY <2>2, <2>3, <2>4, <2>5 DEF Moves, RowMoves
<1>2. ASSUME NEW r \in Removers, NEW cl \in remover'[r].todo
      PROVE  SpentFor(cl.key, cl.content)'
  <2>1. CASE cl \in remover[r].todo
    BY <1>a, <2>1 DEF KeysSpent
  <2>2. ASSUME NEW c \in Contents, Present(c), cl = Claim(c)
        PROVE  SpentFor(cl.key, cl.content)'
    BY <1>a, <2>2 DEF KeysSpent, Claim
  <2> QED BY <2>1, <2>2 DEF Moves, ClaimMoves
<1>3. ASSUME NEW u \in Uploads, upload'[u].stage = "leaving", upload'[u].drop # NoUpload
      PROVE  Spent(upload[u].drop)'
  <2>1. CASE upload[u].stage = "leaving" /\ upload'[u].drop = upload[u].drop
    BY <1>0, <1>3, <2>1 DEF KeysSpent, Spent
  <2>2. CASE upload'[u].drop = u
    BY <1>3, <2>2 DEF Spent
  <2>3. ASSUME NEW c \in Contents, AcquiredBy(u, c), upload'[u].drop = object[c].key
        PROVE  Spent(upload[u].drop)'
    <3>1. Present(c)
      BY <1>3, <2>3, Values DEF TypeInv, TypeOK, Present
    <3> QED BY <1>0, <2>3, <3>1 DEF KeysSpent, SpentFor, Spent
  <2> QED BY <1>3, <2>1, <2>2, <2>3 DEF Moves, DropMoves
<1>4. ASSUME NEW d \in Deliveries, delivery'[d].stage \in {"read", "live"}
      PROVE  Spent(delivery[d].object)'
  <2>1. CASE delivery[d].stage = delivery'[d].stage /\ delivery[d].object = delivery'[d].object
    BY <1>0, <1>4, <2>1 DEF KeysSpent, Spent
  <2>2. ASSUME NEW c \in Contents, Present(c), delivery'[d].object = object[c].id
        PROVE  Spent(delivery[d].object)'
    BY <1>0, <2>2 DEF KeysSpent, SpentFor, Spent
  <2> QED BY <1>4, <2>1, <2>2 DEF Moves, UseMoves
<1> QED BY <1>1, <1>2, <1>3, <1>4 DEF KeysSpent

LEMMA OneClaimStep ==
  ASSUME OneClaimEach, Moves
  PROVE  OneClaimEach'
<1>1. ASSUME NEW r \in Removers, NEW cl \in remover'[r].todo, NEW other \in remover'[r].todo,
             cl.content = other.content
      PROVE  cl = other
  <2>1. CASE remover'[r].todo \subseteq remover[r].todo
    BY <1>1, <2>1 DEF OneClaimEach
  <2>2. CASE \A k \in remover'[r].todo : \E c \in Contents : k = Claim(c)
    <3>1. PICK c \in Contents : cl = Claim(c)
      BY <2>2
    <3>2. PICK d \in Contents : other = Claim(d)
      BY <2>2
    <3>3. c = d
      BY <1>1, <3>1, <3>2 DEF Claim
    <3> QED BY <3>1, <3>2, <3>3
  <2> QED BY <2>1, <2>2 DEF Moves, ClaimMoves
<1> QED BY <1>1 DEF OneClaimEach

LEMMA FreshFilesStep ==
  ASSUME TypeInv, [Next]_vars, KeysSpent, FreshFiles, Moves
  PROVE  FreshFiles'
<1>1. ASSUME NEW u \in Uploads, Fresh(u), u \notin files'
      PROVE  FALSE
  <2>1. u \in files /\ ~Spent(u)
    BY <1>1 DEF FreshFiles, Fresh, Spent
  <2>2. ASSUME NEW v \in Uploads, upload[v].stage = "leaving", upload[v].drop = u
        PROVE  FALSE
    BY <2>1, <2>2, StorageAssumption DEF KeysSpent, StorageAssumption
  <2>3. ASSUME NEW r \in Removers, NEW cl \in remover[r].todo, cl.key = u
        PROVE  FALSE
    BY <2>1, <2>3 DEF KeysSpent, SpentFor
  <2> QED BY <1>1, <2>1, <2>2, <2>3 DEF Moves, FileMoves
<1> QED BY <1>1 DEF FreshFiles, Moves, FileMoves, Fresh

(* Two rows have different keys, and a claim is of the row with its key.    *)
LEMMA KeysDiffer ==
  ASSUME KeysSpent
  PROVE  /\ \A c, d \in Contents :
              (Present(c) /\ Present(d) /\ object[c].key = object[d].key) => c = d
         /\ \A c, d \in Contents :
              (Present(c) /\ Present(d) /\ object[c].id = object[d].id) => c = d
         /\ \A c \in Contents, r \in Removers : \A cl \in remover[r].todo :
              (Present(c) /\ cl.key = object[c].key) => cl.content = c
BY DEF KeysSpent, SpentFor

LEMMA KeysKeptStep ==
  ASSUME HTypeOK, [Next]_vars, raced \subseteq raced', StorageInv, Moves
  PROVE  KeysKept'
<1>0. TypeOK /\ KeysSpent /\ FreshFiles /\ KeysKept /\ UsedIsReady
  BY DEF HTypeOK, TypeInv, StorageInv
<1>1. ASSUME NEW c \in Contents, c \notin raced', Present(c)',
             NEW u \in Uploads, upload'[u].stage = "leaving", upload'[u].drop = object'[c].key
      PROVE  FALSE
  <2>1. CASE Present(c) /\ SameKey(c) /\ ~\E v \in Uploads : AcquiredBy(v, c)
    <3>1. SpentFor(object[c].key, c) /\ upload'[u].drop = object[c].key
      BY <1>0, <1>1, <2>1 DEF KeysSpent, SameKey
    <3>2. ~(upload[u].stage = "leaving" /\ upload'[u].drop = upload[u].drop)
      BY <1>0, <1>1, <2>1, <3>1 DEF KeysKept
    <3>3. upload'[u].drop # NoUpload /\ ~(upload'[u].drop = u /\ Fresh(u))
      BY <3>1, StorageAssumption DEF StorageAssumption, SpentFor, Spent, Fresh
    <3>4. PICK d \in Contents : AcquiredBy(u, d) /\ upload'[u].drop = object[d].key
      BY <1>1, <3>2, <3>3 DEF Moves, DropMoves
    <3>5. Present(d)
      BY <1>0, <3>3, <3>4, Values DEF TypeOK, Present
    <3>6. c = d
      BY <1>0, <2>1, <3>1, <3>4, <3>5, KeysDiffer
    <3> QED BY <2>1, <3>4, <3>6
  <2>2. ASSUME NEW v \in Uploads, AcquiredBy(v, c)
        PROVE  FALSE
    <3>1. upload'[u].drop = v /\ ~Spent(v) /\ v \in Uploads /\ Fresh(v)
      BY <1>1, <2>2 DEF AcquiredBy, Fresh, Spent
    <3>2. ~(upload[u].stage = "leaving" /\ upload'[u].drop = upload[u].drop)
      BY <1>0, <3>1, StorageAssumption DEF KeysSpent, StorageAssumption
    <3>3. upload'[u].drop # NoUpload
      BY <3>1, StorageAssumption DEF StorageAssumption
    <3>4. ~(upload'[u].drop = u /\ Fresh(u))
      <4>1. CASE u = v
        <5>1. upload'[v].drop # v
          <6>1. SUFFICES ASSUME References(c, "active") # {}
                         PROVE  FALSE
            BY <2>2 DEF AcquiredBy
          <6>2. PICK w \in Uploads : reference[w] = "active" /\ upload[w].content = c
            BY <6>1 DEF References
          <6>3. object[c].status = "ready"
            BY <1>0, <1>1, <6>2 DEF UsedIsReady
          <6> QED BY <2>2, <6>3 DEF AcquiredBy
        <5> QED BY <4>1, <5>1
      <4>2. CASE u # v
        BY <3>1, <4>2
      <4> QED BY <4>1, <4>2
    <3>5. PICK d \in Contents : AcquiredBy(u, d) /\ upload'[u].drop = object[d].key
      BY <1>1, <3>2, <3>3, <3>4 DEF Moves, DropMoves
    <3>6. Present(d)
      BY <1>0, <3>3, <3>5, Values DEF TypeOK, Present
    <3> QED BY <1>0, <3>1, <3>5, <3>6 DEF KeysSpent, SpentFor
  <2>3. CASE object'[c] = object[c] \/ ClaimedRow(c) \/ RestoredRow(c)
    BY <1>1, <2>1, <2>2, <2>3 DEF SameKey, Present, ClaimedRow, RestoredRow
  <2>4. ~RemovedRow(c)
    BY <1>1, Values DEF RemovedRow, Present
  <2> QED BY <2>2, <2>3, <2>4 DEF Moves, RowMoves
<1>2. ASSUME NEW c \in Contents, c \notin raced', object'[c].status = "ready"
      PROVE  /\ object'[c].key \in files'
             /\ \A r \in Removers : \A cl \in remover'[r].todo : cl.key # object'[c].key
  <2>1. CASE object'[c] = object[c]
    <3>1. /\ Present(c) /\ object[c].status = "ready" /\ object[c].key \in files
          /\ \A v \in Uploads : upload[v].stage = "leaving" => upload[v].drop # object[c].key
          /\ \A r \in Removers : \A cl \in remover[r].todo : cl.key # object[c].key
      BY <1>0, <1>2, <2>1 DEF KeysKept, Present
    <3>2. object[c].key \in files'
      BY <3>1 DEF Moves, FileMoves
    <3>3. ASSUME NEW r \in Removers, NEW cl \in remover'[r].todo, cl.key = object[c].key
          PROVE  FALSE
      <4>1. PICK d \in Contents : Present(d) /\ cl = Claim(d) /\ object'[d].status = "deleting"
        BY <3>1, <3>3 DEF Moves, ClaimMoves
      <4>2. object[d].key = object[c].key
        BY <3>3, <4>1 DEF Claim
      <4>3. d = c
        BY <1>0, <3>1, <4>1, <4>2, KeysDiffer
      <4> QED BY <1>2, <4>1, <4>3
    <3> QED BY <2>1, <3>2, <3>3
  <2>2. ASSUME NEW u \in Uploads, AcquiredBy(u, c)
        PROVE  /\ object'[c].key \in files'
               /\ \A r \in Removers : \A cl \in remover'[r].todo : cl.key # object'[c].key
    <3>1. /\ object'[c].key = u /\ ~Spent(u) /\ u \in files
          /\ UNCHANGED <<files, remover>>
      BY <1>0, <2>2 DEF AcquiredBy, FreshFiles, Fresh, Spent
    <3> QED BY <1>0, <3>1 DEF KeysSpent, SpentFor
  <2>3. CASE RestoredRow(c)
    <3>1. /\ Present(c) /\ object'[c].key = object[c].key /\ object[c].key \in files'
          /\ \A r \in Removers : \A cl \in remover'[r].todo : cl.content # c
      BY <1>2, <2>3 DEF RestoredRow, SameKey, Present
    <3>2. ASSUME NEW r \in Removers, NEW cl \in remover'[r].todo, cl.key = object[c].key
          PROVE  FALSE
      <4>1. CASE cl \in remover[r].todo
        BY <1>0, <3>1, <3>2, <4>1, KeysDiffer
      <4>2. ASSUME NEW d \in Contents, Present(d), cl = Claim(d), object'[d].status = "deleting"
            PROVE  FALSE
        <5>1. object[d].key = object[c].key
          BY <3>2, <4>2 DEF Claim
        <5>2. d = c
          BY <1>0, <3>1, <4>2, <5>1, KeysDiffer
        <5> QED BY <1>2, <4>2, <5>2
      <4> QED BY <4>1, <4>2 DEF Moves, ClaimMoves
    <3> QED BY <3>1, <3>2
  <2>4. ~ClaimedRow(c) /\ ~RemovedRow(c)
    BY <1>2, Values DEF ClaimedRow, RemovedRow
  <2> QED BY <2>1, <2>2, <2>3, <2>4 DEF Moves, RowMoves
<1> QED BY <1>1, <1>2 DEF KeysKept

LEMMA UsedIsReadyStep ==
  ASSUME HTypeOK, [Next]_vars, raced \subseteq raced', late \subseteq late',
         StorageInv, Moves, KeysSpent'
  PROVE  UsedIsReady'
<1>0. TypeOK /\ RowsExist /\ KeysSpent /\ UsedIsReady
  BY DEF HTypeOK, TypeInv, StorageInv
<1>1. ASSUME NEW c \in Contents, c \notin raced', object[c].status = "ready",
             object'[c].status # "ready"
      PROVE  /\ \A u \in Uploads : ~(reference'[u] = "active" /\ upload'[u].content = c)
             /\ \A d \in Deliveries : ~(delivery'[d].stage = "live" /\ delivery'[d].object = object'[c].id)
  <2>1. ClaimedRow(c)
    BY <1>1 DEF Moves, RowMoves, AcquiredBy, RestoredRow, RemovedRow
  <2> QED BY <1>1, <2>1 DEF ClaimedRow
<1>2. ASSUME NEW c \in Contents, c \notin raced', NEW u \in Uploads,
             reference'[u] = "active", upload'[u].content = c
      PROVE  object'[c].status = "ready"
  <2>1. CASE reference[u] = "active"
    <3>1. upload[u].content = c
      <4>1. Spent(u)
        BY <1>0, <2>1 DEF RowsExist
      <4> QED BY <1>2, <4>1, UploadSteps DEF Spent, HTypeOK
    <3>2. object[c].status = "ready"
      BY <1>0, <1>2, <2>1, <3>1 DEF UsedIsReady
    <3> QED BY <1>1, <1>2, <3>2
  <2>2. CASE reference[u] # "active"
    BY <1>2, <2>2 DEF Moves, UseMoves
  <2> QED BY <2>1, <2>2
<1>3. ASSUME NEW c \in Contents, c \notin raced', NEW d \in Deliveries, d \notin late',
             delivery'[d].stage = "live", delivery'[d].object = object'[c].id
      PROVE  object'[c].status = "ready"
  <2>0. object'[c].id \in Uploads
    BY <1>3 DEF KeysSpent, Spent
  <2>1. CASE delivery[d].stage = "live" /\ delivery[d].object = delivery'[d].object
    <3>1. Spent(delivery[d].object)
      BY <1>0, <2>1 DEF KeysSpent
    <3>2. CASE object'[c].id = object[c].id
      <4>1. object[c].status = "ready"
        BY <1>0, <1>3, <2>1, <3>2 DEF UsedIsReady
      <4> QED BY <1>1, <1>3, <4>1
    <3>3. CASE object'[c].id # object[c].id
      <4>1. ~RemovedRow(c)
        BY <2>0, Values, StorageAssumption DEF RemovedRow, StorageAssumption
      <4> QED BY <3>3, <4>1 DEF Moves, RowMoves, AcquiredBy, ClaimedRow, RestoredRow, SameKey
    <3> QED BY <3>2, <3>3
  <2>2. ASSUME NEW e \in Contents, Present(e), delivery'[d].object = object[e].id,
               object' = object, object[e].status = "ready"
        PROVE  object'[c].status = "ready"
    <3>1. Present(c)
      BY <1>0, <2>0, <2>2, Values, StorageAssumption DEF TypeOK, Present, StorageAssumption
    <3>2. object[c].id = object[e].id
      BY <1>3, <2>2
    <3>3. c = e
      BY <1>0, <2>2, <3>1, <3>2, KeysDiffer
    <3> QED BY <2>2, <3>3
  <2> QED BY <1>3, <2>1, <2>2 DEF Moves, UseMoves
<1> QED BY <1>2, <1>3 DEF UsedIsReady

(* Every action is such a step.                                             *)
LEMMA MovesStep ==
  ASSUME HTypeOK, StorageInv, HNext
  PROVE  Moves
<1>0. /\ TypeInv /\ TypeOK /\ RowsExist /\ KeysSpent /\ OneClaimEach /\ Next
      /\ \A c \in Contents :
           ClaimedInUse(c) \/ RestoredUnderClaim(c) \/ RestoredWithoutFile(c) => c \in raced'
      /\ \A d \in Deliveries : AttachedLate(d) => d \in late'
  BY DEF HTypeOK, TypeInv, StorageInv, HNext
<1> DEFINE Holds(u) == \/ upload[u].stage = "leaving" /\ upload'[u].drop = upload[u].drop
                       \/ upload'[u].drop = NoUpload
                       \/ upload'[u].drop = u /\ Fresh(u)
(* Steps of one upload that leave rows, claims and deliveries alone.        *)
<1>a. ASSUME UNCHANGED <<object, remover, delivery>>, NEW u \in Uploads,
             \A v \in Uploads \ {u} : upload'[v] = upload[v],
             upload'[u].stage = "leaving" => Holds(u),
             \A k \in files \ files' : upload[u].stage = "leaving" /\ upload[u].drop = k,
             Fresh(u)' => Fresh(u) \/ u \in files',
             \A v \in Uploads : reference'[v] = "active" => reference[v] = "active"
      PROVE  Moves
  BY <1>a DEF Moves, RowMoves, ClaimMoves, DropMoves, FileMoves, UseMoves, Fresh
(* Steps that leave uploads alone and remove no reference's row.            *)
<1>b. ASSUME UNCHANGED upload, RowMoves, ClaimMoves,
             files' \subseteq files,
             \A k \in files \ files' :
               \E r \in Removers : \E cl \in remover[r].todo : cl.key = k,
             \A u \in Uploads : reference'[u] = "active" => reference[u] = "active",
             \A d \in Deliveries : delivery'[d].stage \in {"read", "live"} => delivery'[d] = delivery[d]
      PROVE  Moves
  BY <1>b DEF Moves, DropMoves, FileMoves, UseMoves, Fresh
<1>1. ASSUME NEW u \in Uploads, UploadStep(u)
      PROVE  Moves
  <2>1. CASE Put(u)
    <3>1. PICK p \in Places, c \in Contents :
            upload' = [upload EXCEPT ![u] = [stage |-> "stored", place |-> p,
                                             content |-> c, drop |-> NoUpload]]
      BY <2>1 DEF Put
    <3>2. upload'[u].stage = "stored" /\ \A v \in Uploads \ {u} : upload'[v] = upload[v]
      BY <1>0, <3>1 DEF TypeOK
    <3> QED BY <1>a, <2>1, <3>2 DEF Put
  <2>2. CASE CheckDuplicate(u)
    <3>1. CASE Leaving(u, u)
      <4>1. /\ upload'[u].stage = "leaving" /\ upload'[u].drop = u
            /\ \A v \in Uploads \ {u} : upload'[v] = upload[v]
        BY <1>0, <3>1, LeavingWrites
      <4> QED BY <1>a, <2>2, <4>1 DEF CheckDuplicate, Fresh
    <3>2. CASE ~Leaving(u, u)
      <4>1. upload' = [upload EXCEPT ![u].stage = "checked"] /\ upload[u].stage = "stored"
        BY <2>2, <3>2 DEF CheckDuplicate
      <4>2. [upload[u] EXCEPT !.stage = "checked"].stage = "checked"
        BY <1>0 DEF TypeOK, UploadRow
      <4>3. upload'[u].stage = "checked" /\ \A v \in Uploads \ {u} : upload'[v] = upload[v]
        BY <1>0, <4>1, <4>2 DEF TypeOK
      <4> QED BY <1>a, <2>2, <4>3 DEF CheckDuplicate, Fresh
    <3> QED BY <3>1, <3>2
  <2>3. CASE Rollback(u)
    <3>1. /\ upload'[u].stage = "leaving" /\ upload'[u].drop = u
          /\ \A v \in Uploads \ {u} : upload'[v] = upload[v]
      BY <1>0, <2>3, LeavingWrites DEF Rollback
    <3> QED BY <1>a, <2>3, <3>1 DEF Rollback, Fresh
  <2>7. CASE RefuseName(u)
    <3>1. upload' = [upload EXCEPT ![u].stage = "refused"] /\ upload[u].stage = "stored"
      BY <2>7 DEF RefuseName
    <3>2. [upload[u] EXCEPT !.stage = "refused"].stage = "refused"
      BY <1>0 DEF TypeOK, UploadRow
    <3>3. upload'[u].stage = "refused" /\ \A v \in Uploads \ {u} : upload'[v] = upload[v]
      BY <1>0, <3>1, <3>2 DEF TypeOK
    <3> QED BY <1>a, <2>7, <3>3 DEF RefuseName, Fresh
  <2>4. CASE Leave(u) \/ UploadFails(u)
    <3>1. upload' = [upload EXCEPT ![u].stage = "done", ![u].drop = NoUpload]
      BY <2>4 DEF Leave, UploadFails
    <3>2. upload'[u].stage = "done" /\ \A v \in Uploads \ {u} : upload'[v] = upload[v]
      BY <1>0, <3>1, DoneWrites
    <3> QED BY <1>a, <2>4, <3>2 DEF Leave, UploadFails, Fresh
  <2>5. CASE SoftDelete(u)
    <3>1. \A v \in Uploads : reference'[v] = "active" => reference[v] = "active"
      BY <1>0, <2>5 DEF SoftDelete, TypeOK
    <3> QED BY <1>a, <2>5, <3>1 DEF SoftDelete, Fresh
  <2>6. CASE SaveResume(u) \/ SaveOther(u) \/ ReuseResume(u)
    <3> DEFINE c == upload[u].content
    <3>1. Acquires(u)
      BY <2>6 DEF Acquires
    <3>2. /\ Fresh(u) /\ c \in Contents /\ Acquire(u)
          /\ \E key \in {u, Unneeded(u)} : Leaving(u, key)
          /\ ReuseResume(u) => Leaving(u, u) /\ References(c, "active") # {}
          /\ ~ReuseResume(u) => Leaving(u, Unneeded(u))
          /\ reference' \in {reference, [reference EXCEPT ![u] = "active"]}
          /\ UNCHANGED <<files, delivery, remover, faults>>
      BY <1>0, <3>1, AcquireStep DEF Fresh
    <3>3. object[c] \in Object /\ Unneeded(u) \in Uploads \cup {NoUpload}
      <4>1. object[c] \in Object
        BY <1>0, <3>2 DEF TypeOK
      <4> QED BY <4>1, Values DEF Unneeded
    <3>4. /\ object'[c].status = "ready"
          /\ object[c].status = "ready" => object'[c] = object[c]
          /\ object[c].status # "ready" => object'[c].key = u
          /\ object'[c].id \in {u, object[c].id}
          /\ ~Present(c) => object'[c].id = u
          /\ \A d \in Contents \ {c} : object'[d] = object[d]
      BY <1>0, <3>2, AcquireWrites
    <3>5. /\ upload'[u].stage = "leaving" /\ upload'[u].content = c
          /\ upload'[u].drop \in {u, Unneeded(u)}
          /\ ~ReuseResume(u) => upload'[u].drop = Unneeded(u)
          /\ \A v \in Uploads \ {u} : upload'[v] = upload[v]
      BY <1>0, <3>2, <3>3, LeavingWrites
    <3>6. object[c].status # "ready" => AcquiredBy(u, c)
      <4>1. SUFFICES ASSUME object[c].status # "ready", upload'[u].drop = u
                     PROVE  References(c, "active") # {}
        BY <3>2, <3>4, <3>5 DEF AcquiredBy, Spent
      <4>2. Unneeded(u) # u
        <5>1. Unneeded(u) = object[c].key
          BY <4>1 DEF Unneeded
        <5>2. CASE Present(c)
          BY <1>0, <3>2, <5>1, <5>2 DEF KeysSpent, SpentFor, Spent, Fresh
        <5>3. CASE ~Present(c)
          BY <3>3, <5>1, <5>3, Values, StorageAssumption DEF Present, StorageAssumption
        <5> QED BY <5>2, <5>3
      <4> QED BY <3>2, <3>5, <4>1, <4>2
    <3>7. RowMoves
      BY <3>4, <3>6 DEF RowMoves
    <3>8. DropMoves
      <4>1. CASE upload'[u].drop = u
        BY <3>2, <3>5, <4>1 DEF DropMoves, Fresh
      <4>2. CASE upload'[u].drop # u
        <5>1. object[c].status # "ready" /\ upload'[u].drop = object[c].key
          BY <3>5, <4>2 DEF Unneeded
        <5> QED BY <3>2, <3>5, <3>6, <5>1 DEF DropMoves
      <4> QED BY <4>1, <4>2
    <3>9. FileMoves /\ ClaimMoves
      BY <3>2, <3>5 DEF FileMoves, ClaimMoves, Fresh
    <3>10. UseMoves
      BY <1>0, <3>2, <3>4, <3>5 DEF UseMoves, TypeOK
    <3> QED BY <3>7, <3>8, <3>9, <3>10 DEF Moves
  <2> QED BY <1>1, <2>1, <2>2, <2>3, <2>4, <2>5, <2>6, <2>7 DEF UploadStep
<1>2. ASSUME NEW d \in Deliveries, DeliveryStep(d)
      PROVE  Moves
  <2>1. UNCHANGED <<object, files, upload, reference, remover>>
    BY <1>2 DEF DeliveryStep, ReadDocument, Attach, DeliveryEnds
  <2>2. RowMoves /\ ClaimMoves /\ DropMoves /\ FileMoves
    BY <2>1 DEF RowMoves, ClaimMoves, DropMoves, FileMoves, Fresh
  <2>3. UseMoves
    <3>1. SUFFICES ASSUME delivery'[d].stage \in {"read", "live"}
                   PROVE  \/ delivery[d].stage = delivery'[d].stage /\ delivery[d].object = delivery'[d].object
                          \/ \E c \in Contents :
                               /\ Present(c) /\ delivery'[d].object = object[c].id
                               /\ (delivery'[d].stage = "live" /\ d \notin late') => object[c].status = "ready"
      <4>1. \A e \in Deliveries \ {d} : delivery'[e] = delivery[e]
        BY <1>0, <1>2 DEF DeliveryStep, ReadDocument, Attach, DeliveryEnds, TypeOK
      <4> QED BY <2>1, <4>1 DEF UseMoves
    <3>2. CASE ReadDocument(d)
      <4>1. PICK u \in Uploads : \E h \in HrUsers :
              /\ reference[u] = "active"
              /\ object[upload[u].content].status = "ready"
              /\ delivery' = [delivery EXCEPT ![d] =
                   [stage |-> "read", object |-> object[upload[u].content].id,
                    owners |-> {Owner(upload[u].place), h}]]
        BY <3>2 DEF ReadDocument
      <4>2. /\ delivery'[d].stage = "read"
            /\ delivery'[d].object = object[upload[u].content].id
        BY <1>0, <4>1 DEF TypeOK
      <4>3. upload[u].content \in Contents /\ Present(upload[u].content)
        BY <1>0, <4>1 DEF RowsExist, Spent
      <4> QED BY <4>2, <4>3
    <3>3. CASE Attach(d)
      <4>1. PICK c \in Contents : object[c].id = delivery[d].object
        BY <3>3 DEF Attach
      <4>2. delivery[d].stage = "read" /\ delivery' = [delivery EXCEPT ![d].stage = "live"]
        BY <3>3 DEF Attach
      <4>3. delivery'[d].stage = "live" /\ delivery'[d].object = delivery[d].object
        BY <1>0, <4>2 DEF TypeOK, DeliveryRow
      <4>4. delivery[d].object \in Uploads
        BY <1>0, <4>2 DEF KeysSpent, Spent
      <4>5. \A e \in Contents : object[e].id = delivery[d].object => Present(e)
        BY <1>0, <4>4, Values, StorageAssumption DEF TypeOK, Present, StorageAssumption
      <4>6. CASE \E e \in Contents : object[e].id = delivery[d].object /\ object[e].status = "ready"
        BY <4>3, <4>5, <4>6
      <4>7. CASE \A e \in Contents : object[e].id = delivery[d].object => object[e].status # "ready"
        <5>1. AttachedLate(d)
          BY <4>2, <4>3, <4>7 DEF AttachedLate
        <5> QED BY <1>0, <4>1, <4>3, <4>5, <5>1
      <4> QED BY <4>6, <4>7
    <3>4. CASE DeliveryEnds(d)
      <4>1. delivery'[d].stage = "over"
        BY <1>0, <3>4 DEF DeliveryEnds, TypeOK, Over, NoDelivery
      <4> QED BY <3>1, <4>1
    <3> QED BY <1>2, <3>2, <3>3, <3>4 DEF DeliveryStep
  <2> QED BY <2>2, <2>3 DEF Moves
(* Claiming rows, whether for a reset or for the cleanup.                   *)
<1>c. ASSUME NEW r \in Removers, NEW claimed \in SUBSET Contents, ClaimRows(r, claimed),
             \A c \in claimed : Present(c),
             \A c \in claimed \ raced' : object[c].status = "ready" =>
               /\ \A u \in Uploads : ~(reference'[u] = "active" /\ upload'[u].content = c)
               /\ \A d \in Deliveries : ~(delivery'[d].stage = "live" /\ delivery'[d].object = object'[c].id)
      PROVE  RowMoves /\ ClaimMoves
  <2>1. /\ object' \in [Contents -> Object]
        /\ \A c \in Contents \ claimed : object'[c] = object[c]
        /\ \A c \in claimed : object'[c].status = "deleting" /\ SameKey(c)
        /\ \A s \in Removers \ {r} : remover'[s] = remover[s]
        /\ \A cl \in remover'[r].todo : \E c \in claimed : cl = Claim(c)
    BY <1>0, <1>c, ClaimWrites DEF SameKey
  <2>2. ASSUME NEW c \in claimed
        PROVE  object'[c] = object[c] \/ ClaimedRow(c)
    <3>1. CASE object[c].status = "ready"
      BY <1>c, <2>1, <3>1 DEF ClaimedRow
    <3>2. CASE object[c].status = "deleting"
      <4>1. [object[c] EXCEPT !.status = "deleting"] = object[c]
        <5>1. object[c] \in [status : {"ready", "deleting"}, id : Uploads, key : Uploads]
          BY <1>0, <3>2, Values DEF TypeOK
        <5> QED BY <3>2, <5>1
      <4> QED BY <4>1, <1>c DEF ClaimRows
    <3> QED BY <1>c, <3>1, <3>2 DEF Present
  <2> QED BY <1>c, <2>1, <2>2 DEF RowMoves, ClaimMoves
<1>3. ASSUME NEW r \in Resets, NEW a, Reset(r, a)
      PROVE  Moves
  <2>1. PICK mine \in SUBSET Uploads, sent \in SUBSET Deliveries, claimed \in SUBSET Contents :
          /\ reference' = [u \in Uploads |-> IF u \in mine THEN "none" ELSE reference[u]]
          /\ delivery' = [d \in Deliveries |-> IF d \in sent THEN Over ELSE delivery[d]]
          /\ ClaimRows(r, claimed)
          /\ \A c \in claimed : /\ Present(c)
                                /\ References(c, "active") \subseteq mine
                                /\ LiveAttachments(c) \subseteq sent
          /\ UNCHANGED <<files, upload, faults>>
    BY <1>0, <1>3, ResetWrites
  <2>2. r \in Removers
    BY DEF Removers
  <2>3. /\ \A u \in Uploads : reference'[u] = "active" => reference[u] = "active" /\ u \notin mine
        /\ \A d \in Deliveries : delivery'[d].stage \in {"read", "live"} =>
             delivery'[d] = delivery[d] /\ d \notin sent
    BY <2>1 DEF Over, NoDelivery
  <2>4. ASSUME NEW c \in claimed
        PROVE  /\ \A u \in Uploads : ~(reference'[u] = "active" /\ upload'[u].content = c)
               /\ \A d \in Deliveries : ~(delivery'[d].stage = "live" /\ delivery'[d].object = object'[c].id)
    <3>1. object'[c].id = object[c].id
      BY <1>0, <2>1, <2>2, <2>4, ClaimWrites
    <3> QED BY <2>1, <2>3, <3>1 DEF References, LiveAttachments
  <2>5. RowMoves /\ ClaimMoves
    BY <1>c, <2>1, <2>2, <2>4
  <2> QED BY <1>b, <2>1, <2>3, <2>5
<1>4. ASSUME NEW r \in Removers, RemoverStep(r)
      PROVE  Moves
  <2>0. remover[r] \in [todo : SUBSET Claims, at : SUBSET Claims]
    BY <1>0 DEF TypeOK
  <2>1. CASE RemoverFails(r)
    <3>1. PICK todo \in {{}, remover[r].todo} :
            remover' = [remover EXCEPT ![r] = [todo |-> todo, at |-> {}]]
      BY <2>1 DEF RemoverFails
    <3>2. ClaimMoves
      BY <1>0, <3>1 DEF ClaimMoves, TypeOK
    <3> QED BY <1>b, <2>1, <3>2 DEF RemoverFails, RowMoves
  <2>2. ASSUME NEW cl \in remover[r].todo, Unlink(r, cl)
        PROVE  Moves
    <3>1. remover' = [remover EXCEPT ![r] = [todo |-> remover[r].todo \ {cl}, at |-> {cl}]]
      BY <1>0, <2>2 DEF Unlink, TypeOK
    <3>2. ClaimMoves
      BY <1>0, <3>1 DEF ClaimMoves, TypeOK
    <3> QED BY <1>b, <2>2, <3>2 DEF Unlink, RowMoves
  <2>3. ASSUME NEW cl \in remover[r].todo, UnlinkFails(r, cl)
        PROVE  Moves
    <3> DEFINE c == cl.content
    <3>0. cl \in Claims /\ c \in Contents
      BY <2>0 DEF Claims
    <3>1. /\ remover' = [remover EXCEPT ![r] = [todo |-> remover[r].todo \ {cl}, at |-> {}]]
          /\ UNCHANGED <<files, upload, reference, delivery>>
      BY <1>0, <2>3 DEF UnlinkFails, TypeOK
    <3>2. /\ remover'[r].todo = remover[r].todo \ {cl}
          /\ \A s \in Removers \ {r} : remover'[s] = remover[s]
      BY <1>0, <3>1 DEF TypeOK
    <3>3. ClaimMoves
      BY <3>2 DEF ClaimMoves
    <3>4. RowMoves
      <4>1. CASE UNCHANGED object
        BY <4>1 DEF RowMoves
      <4>2. CASE ~UNCHANGED object
        <5>1. r = Cleanup /\ Held(cl) /\ object' = [object EXCEPT ![c].status = "ready"]
          BY <2>3, <4>2 DEF UnlinkFails
        <5>2. /\ object[c].status = "deleting" /\ object'[c].status = "ready" /\ SameKey(c)
              /\ \A d \in Contents \ {c} : object'[d] = object[d]
          BY <1>0, <3>0, <5>1, RestoreWrites DEF Held, Present, SameKey
        <5>3. ASSUME c \notin raced'
              PROVE  /\ object[c].key \in files'
                     /\ \A s \in Removers : \A k \in remover'[s].todo : k.content # c
          <6>1. object[c].key \in files'
            BY <1>0, <3>0, <3>1, <5>2, <5>3 DEF RestoredWithoutFile, SameKey
          <6>2. ASSUME NEW s \in Resets, NEW k \in remover'[s].todo
                PROVE  k.content # c
            <7>1. s \in Removers \ {r} /\ s \in Removers
              BY <5>1, StorageAssumption DEF StorageAssumption, Removers
            <7>2. k \in remover[s].todo
              BY <3>2, <6>2, <7>1
            <7> QED BY <1>0, <3>0, <5>2, <5>3, <6>2, <7>2 DEF RestoredUnderClaim, SameKey
          <6>3. ASSUME NEW k \in remover'[r].todo
                PROVE  k.content # c
            BY <1>0, <3>2, <6>3 DEF OneClaimEach
          <6> QED BY <5>1, <6>1, <6>2, <6>3 DEF Removers
        <5> QED BY <3>0, <5>2, <5>3 DEF RowMoves, RestoredRow
      <4> QED BY <4>1, <4>2
    <3> QED BY <1>b, <3>1, <3>3, <3>4
  <2>4. ASSUME NEW cl \in remover[r].at, Finalize(r, cl)
        PROVE  Moves
    <3>0. cl \in Claims /\ cl.content \in Contents
      BY <2>0, <2>4 DEF Claims
    <3>1. [remover[r] EXCEPT !.at = {}] = [todo |-> remover[r].todo, at |-> {}]
      BY <2>0, DropAt
    <3>2. remover' = [remover EXCEPT ![r] = [todo |-> remover[r].todo, at |-> {}]]
      BY <1>0, <2>4, <3>1 DEF Finalize, TypeOK
    <3>3. ClaimMoves
      BY <1>0, <3>2 DEF ClaimMoves, TypeOK
    <3>4. RowMoves
      <4>1. CASE Removable(cl)
        BY <1>0, <2>4, <3>0, <4>1 DEF Finalize, RowMoves, RemovedRow, Removable, Held, TypeOK
      <4>2. CASE ~Removable(cl)
        BY <2>4, <4>2 DEF Finalize, RowMoves
      <4> QED BY <4>1, <4>2
    <3> QED BY <1>b, <2>4, <3>3, <3>4 DEF Finalize
  <2> QED BY <1>4, <2>1, <2>2, <2>3, <2>4 DEF RemoverStep
<1>5. CASE (\E c \in Contents : HourPasses(c)) \/ Scan
  BY <1>b, <1>5 DEF HourPasses, Scan, RowMoves, ClaimMoves
<1>6. CASE ClaimExpired
  <2>1. PICK B \in SUBSET scan : ClaimRows(Cleanup, B)
    BY <1>6 DEF ClaimExpired, Batches
  <2>2. /\ Cleanup \in Removers /\ B \in SUBSET Contents /\ \A c \in B : Present(c)
        /\ UNCHANGED <<files, upload, reference, delivery>>
    BY <1>0, <1>6, <2>1 DEF Removers, TypeOK, RowsExist, ClaimExpired
  <2>3. ASSUME NEW c \in B \ raced', object[c].status = "ready"
        PROVE  /\ \A u \in Uploads : ~(reference'[u] = "active" /\ upload'[u].content = c)
               /\ \A d \in Deliveries : ~(delivery'[d].stage = "live" /\ delivery'[d].object = object'[c].id)
    <3>1. object'[c].status = "deleting"
      BY <1>0, <2>1, <2>2, ClaimWrites
    <3>2. ~Referenced(c)'
      BY <1>0, <2>2, <2>3, <3>1 DEF ClaimedInUse
    <3> QED BY <3>2 DEF Referenced, References, LiveAttachments
  <2>4. RowMoves /\ ClaimMoves
    BY <1>c, <2>1, <2>2, <2>3
  <2> QED BY <1>b, <2>2, <2>4
<1> QED BY <1>0, <1>1, <1>2, <1>3, <1>4, <1>5, <1>6 DEF Next

(* Nothing but the two races takes a file away that is referred to.         *)
LEMMA StorageStep == HTypeOK /\ StorageInv /\ [HNext]_hvars => StorageInv'
<1> SUFFICES ASSUME HTypeOK, StorageInv, [HNext]_hvars
             PROVE  StorageInv'
  OBVIOUS
<1>1. CASE HNext
  <2>1. Moves
    BY <1>1, MovesStep
  <2>2. TypeInv /\ [Next]_vars /\ raced \subseteq raced' /\ late \subseteq late'
    BY <1>1 DEF HTypeOK, HNext
  <2>3. KeysSpent'
    BY <2>1, <2>2, KeysSpentStep DEF StorageInv
  <2>4. OneClaimEach' /\ FreshFiles'
    BY <2>1, <2>2, OneClaimStep, FreshFilesStep DEF StorageInv
  <2>5. KeysKept' /\ UsedIsReady'
    BY <2>1, <2>2, <2>3, KeysKeptStep, UsedIsReadyStep
  <2> QED BY <2>3, <2>4, <2>5 DEF StorageInv
<1>2. CASE UNCHANGED hvars
  BY <1>2 DEF hvars, vars, StorageInv, KeysSpent, OneClaimEach, FreshFiles, KeysKept, UsedIsReady,
              Present, SpentFor, Spent
<1> QED BY <1>1, <1>2

LEMMA StorageInit == HInit => HTypeOK /\ StorageInv
<1>1. SUFFICES ASSUME HInit
               PROVE  HTypeOK /\ StorageInv
  OBVIOUS
<1>2. Init /\ raced = {} /\ late = {}
  BY <1>1 DEF HInit
<1>3. HTypeOK
  BY <1>2, TypeInit DEF HTypeOK
<1>4. \A c \in Contents : ~Present(c) /\ object[c].status # "ready"
  BY <1>2, Values DEF Init, Present
<1>5. \A r \in Removers : remover[r].todo = {}
  BY <1>2 DEF Init
<1>6. \A u \in Uploads : upload[u].stage = "idle" /\ reference[u] = "none"
  BY <1>2 DEF Init
<1>7. \A d \in Deliveries : delivery[d].stage = "idle"
  BY <1>2 DEF Init, NoDelivery
<1> QED BY <1>3, <1>4, <1>5, <1>6, <1>7
        DEF StorageInv, KeysSpent, OneClaimEach, FreshFiles, KeysKept, UsedIsReady

(* A resume, document or job that is not deleted has its file, however      *)
(* uploads, deletions, the cleanup, resets and crashes interleave, unless   *)
(* one of the two races has hit its content.                                *)
THEOREM ResourceKeepsItsFile == HSpec => []ResourceKeepsFile
<1>1. HTypeOK /\ StorageInv => ResourceKeepsFile
  <2> SUFFICES ASSUME HTypeOK, StorageInv, NEW u \in Uploads,
                      reference[u] = "active", upload[u].content \notin raced
               PROVE  HasFile(upload[u].content)
    BY DEF ResourceKeepsFile
  <2>1. upload[u].content \in Contents
    BY DEF HTypeOK, TypeInv, RowsExist, Spent
  <2> QED BY <2>1 DEF StorageInv, UsedIsReady, KeysKept, HasFile
<1> QED BY <1>1, StorageInit, StorageStep, HTypeStep, PTL DEF HSpec

(* The same for the attachment of a message, for as long as it may be       *)
(* downloaded and whatever becomes of its document.                         *)
THEOREM AttachmentKeepsItsFile == HSpec => []AttachmentKeepsFile
<1>1. HTypeOK /\ StorageInv => AttachmentKeepsFile
  BY DEF StorageInv, UsedIsReady, KeysKept, HasFile, AttachmentKeepsFile
<1> QED BY <1>1, StorageInit, StorageStep, HTypeStep, PTL DEF HSpec

-----------------------------------------------------------------------------
(* That no file is forgotten while nothing fails: each file under the storage  *)
(* root is the one of a row, or a request or a claim will still unlink it.     *)
Claimed(k) == \E r \in Removers : \E cl \in remover[r].todo : cl.key = k

Misnamed(k) == upload[k].stage = "refused" /\ Kind(upload[k].place) = "resume"

Remembered(k) ==
  \/ \E c \in Contents : object[c].key = k
  \/ Fresh(k) \/ Misnamed(k)
  \/ \E u \in Uploads : upload[u].stage = "leaving" /\ upload[u].drop = k
  \/ Claimed(k)

(* The row may be deleted, or get another key, while its file is still there:  *)
(* so the file of a row on its way out has a claim that will unlink it.  No     *)
(* claim is overwritten, since the cleanup that has scanned has none.           *)
FilesInv ==
  /\ scan # {} => Idle(Cleanup)
  /\ faults = 0 =>
       /\ \A k \in files : Remembered(k)
       /\ \A c \in Contents :
            object[c].status = "deleting" /\ object[c].key \in files => Claimed(object[c].key)

-----------------------------------------------------------------------------
(* What a step without failure does to files and to those who remember them.    *)
FilesRemembered == \A k \in files' \ files : upload'[k].stage = "stored"
RowsRemembered ==
  \A c \in Contents, k \in files' :
    object[c].key = k => object'[c].key = k \/ Remembered(k)'
UploadsRemembered ==
  /\ \A k \in files' : Fresh(k) \/ Misnamed(k) => Remembered(k)'
  /\ \A u \in Uploads : upload[u].stage = "leaving" =>
       \/ upload'[u].stage = "leaving" /\ upload'[u].drop = upload[u].drop
       \/ upload[u].drop \notin files'
ClaimsRemembered ==
  \A r \in Removers : \A cl \in remover[r].todo :
    cl \in remover'[r].todo \/ cl.key \notin files'
DeletionsClaimed ==
  \A c \in Contents, k \in files' : object'[c].status = "deleting" /\ object'[c].key = k =>
    \/ object[c].status = "deleting" /\ object[c].key = k /\ k \in files
    \/ Claimed(k)'
FilesStep ==
  FilesRemembered /\ RowsRemembered /\ UploadsRemembered /\ ClaimsRemembered /\ DeletionsClaimed

(* Such a step forgets no file.                                                 *)
LEMMA FilesStepKeeps ==
  ASSUME TypeInv, FilesInv, faults = 0, FilesStep, scan' # {} => Idle(Cleanup)'
  PROVE  FilesInv'
<1>1. ASSUME NEW k, k \in files', Claimed(k)
      PROVE  Claimed(k)'
  BY <1>1 DEF Claimed, FilesStep, ClaimsRemembered, Removers
<1>2. ASSUME NEW k \in files', k \in files
      PROVE  Remembered(k)'
  <2>1. CASE \E c \in Contents : object[c].key = k
    BY <2>1 DEF FilesStep, RowsRemembered, Remembered
  <2>2. CASE Fresh(k) \/ Misnamed(k)
    BY <2>2 DEF FilesStep, UploadsRemembered, Remembered, Fresh, Misnamed, Remembered
  <2>3. CASE \E u \in Uploads : upload[u].stage = "leaving" /\ upload[u].drop = k
    BY <2>3 DEF FilesStep, UploadsRemembered, Remembered, Fresh, Misnamed, Remembered
  <2>4. CASE Claimed(k)
    BY <1>1, <2>4 DEF Remembered
  <2> QED BY <1>2, <2>1, <2>2, <2>3, <2>4 DEF FilesInv, Remembered
<1>3. \A k \in files' : Remembered(k)'
  BY <1>2 DEF FilesStep, FilesRemembered, Remembered, Fresh
<1>4. ASSUME NEW c \in Contents, NEW k \in files',
             object'[c].status = "deleting", object'[c].key = k
      PROVE  Claimed(k)'
  BY <1>1, <1>4 DEF FilesInv, FilesStep, DeletionsClaimed
<1>5. ASSUME NEW c \in Contents, object'[c].status = "deleting", object'[c].key \in files'
      PROVE  Claimed(object[c].key)'
  <2>1. PICK k \in files' : object'[c].key = k
    BY <1>5
  <2>2. Claimed(k)'
    BY <1>4, <1>5, <2>1
  <2> QED BY <2>1, <2>2 DEF Claimed
<1> QED BY <1>3, <1>5 DEF FilesInv

-----------------------------------------------------------------------------
(* Uploads                                                                   *)

(* An upload that gets the row its content has gives its own key away, one      *)
(* that makes a row ready takes over the row and gives the row's key away, or   *)
(* leaves it to the claim.                                                      *)
LEMMA AcquireFiles ==
  ASSUME TypeInv, FilesInv, faults = 0, NEW u \in Uploads, Acquires(u)
  PROVE  FilesStep
<1> DEFINE c == upload[u].content
<1>1. /\ TypeOK /\ c \in Contents /\ upload[u].stage \in {"stored", "checked"}
      /\ Acquire(u) /\ UNCHANGED <<files, remover>>
      /\ ReuseResume(u) => Leaving(u, u)
      /\ ~ReuseResume(u) => Leaving(u, Unneeded(u))
  BY AcquireStep DEF TypeInv
<1>2. /\ object'[c].status = "ready" /\ \A d \in Contents \ {c} : object'[d] = object[d]
      /\ object[c].status = "ready" => object'[c] = object[c]
      /\ object[c].status # "ready" => object'[c].key = u
  BY <1>1, AcquireWrites
<1>3. object[c] \in Object /\ Unneeded(u) \in Uploads \cup {NoUpload}
  BY <1>1, Values DEF TypeOK, Unneeded
<1>4. /\ upload'[u].stage = "leaving" /\ \A v \in Uploads \ {u} : upload'[v] = upload[v]
      /\ ReuseResume(u) => upload'[u].drop = u
      /\ ~ReuseResume(u) => upload'[u].drop = Unneeded(u)
  BY <1>1, <1>3, LeavingWrites
<1>5. NoUpload \notin files
  BY <1>1, StorageAssumption DEF TypeOK, StorageAssumption
<1>6. \A k : Claimed(k) => Claimed(k)'
  BY <1>1 DEF Claimed
<1>7. ASSUME NEW k \in files, object[c].key = k, object[c].status # "ready"
      PROVE  Remembered(k)'
  <2>1. object[c].status = "deleting"
    BY <1>3, <1>5, <1>7, Values
  <2>2. CASE ReuseResume(u)
    BY <1>1, <1>6, <1>7, <2>1 DEF FilesInv, Remembered
  <2>3. CASE ~ReuseResume(u)
    <3>1. upload'[u].stage = "leaving" /\ upload'[u].drop = k
      BY <1>4, <1>7, <2>3 DEF Unneeded
    <3> QED BY <3>1 DEF Remembered
  <2> QED BY <2>2, <2>3
<1>8. Remembered(u)'
  <2>1. CASE object[c].status = "ready"
    <3>1. upload'[u].stage = "leaving" /\ upload'[u].drop = u
      BY <1>4, <2>1 DEF Unneeded
    <3> QED BY <3>1 DEF Remembered
  <2>2. CASE object[c].status # "ready"
    <3>1. object'[c].key = u
      BY <1>2, <2>2
    <3> QED BY <1>1, <3>1 DEF Remembered
  <2> QED BY <2>1, <2>2
<1> HIDE DEF c
<1>9. FilesRemembered /\ ClaimsRemembered
  BY <1>1 DEF FilesRemembered, ClaimsRemembered
<1>10. RowsRemembered
  BY <1>1, <1>2, <1>7 DEF RowsRemembered
<1>11. UploadsRemembered
  BY <1>1, <1>4, <1>8 DEF UploadsRemembered, Remembered, Fresh, Misnamed, TypeOK
<1>12. DeletionsClaimed
  BY <1>1, <1>2 DEF DeletionsClaimed
<1> QED BY <1>9, <1>10, <1>11, <1>12 DEF FilesStep

(* A row whose key is not spent is not there, so a new file is of no row.       *)
LEMMA UploadFiles ==
  ASSUME TypeInv, KeysSpent, FilesInv, faults' = 0, NEW u \in Uploads, UploadStep(u)
  PROVE  FilesStep /\ faults = 0
<1>1. TypeOK /\ faults \in Nat /\ ~Fault
  BY DEF TypeInv, TypeOK, Fault
<1>2. CASE Acquires(u)
  <2>1. faults = 0
    BY <1>2, AcquireStep
  <2> QED BY <1>2, <2>1, AcquireFiles
<1>3. CASE Put(u)
  <2>1. /\ upload[u].stage = "idle" /\ files' = files \cup {u}
        /\ UNCHANGED <<object, remover, faults>>
        /\ upload'[u].stage = "stored" /\ \A v \in Uploads \ {u} : upload'[v] = upload[v]
    BY <1>1, <1>3 DEF Put, TypeOK
  <2>2. \A c \in Contents : object[c].status = "deleting" => object[c].key # u
    BY <2>1 DEF KeysSpent, Present, SpentFor, Spent
  <2>3. FilesRemembered /\ ClaimsRemembered /\ RowsRemembered
    BY <2>1 DEF FilesRemembered, ClaimsRemembered, RowsRemembered
  <2>4. UploadsRemembered
    BY <1>1, <2>1 DEF UploadsRemembered, Remembered, Fresh, Misnamed, TypeOK
  <2>5. DeletionsClaimed
    BY <2>1, <2>2 DEF DeletionsClaimed
  <2> QED BY <2>1, <2>3, <2>4, <2>5 DEF FilesStep
<1>4. ASSUME UNCHANGED <<object, remover, faults>>, files' \subseteq files, UploadsRemembered
      PROVE  FilesStep /\ faults = 0
  BY <1>4 DEF FilesStep, FilesRemembered, ClaimsRemembered, RowsRemembered, DeletionsClaimed
<1>5. ASSUME upload[u].stage # "leaving", UNCHANGED <<object, files, remover, faults>>,
             \A v \in Uploads \ {u} : upload'[v] = upload[v],
             \/ Fresh(u)' \/ Misnamed(u)'
             \/ upload'[u].stage = "leaving" /\ upload'[u].drop = u
      PROVE  FilesStep /\ faults = 0
  <2>1. Remembered(u)'
    BY <1>5 DEF Remembered
  <2>2. UploadsRemembered
    BY <1>1, <1>5, <2>1 DEF UploadsRemembered, Remembered, Fresh, Misnamed, TypeOK
  <2> QED BY <1>4, <1>5, <2>2
<1>6. CASE Rollback(u)
  <2>1. Leaving(u, u) /\ upload[u].stage # "leaving" /\ UNCHANGED <<object, files, remover, faults>>
    BY <1>6 DEF Rollback
  <2> QED BY <1>1, <1>5, <2>1, LeavingWrites
<1>7. CASE CheckDuplicate(u)
  <2>1. upload[u].stage = "stored" /\ UNCHANGED <<object, files, remover, faults>>
    BY <1>7 DEF CheckDuplicate
  <2>2. CASE Leaving(u, u)
    BY <1>1, <1>5, <2>1, <2>2, LeavingWrites
  <2>3. CASE ~Leaving(u, u)
    <3>1. upload' = [upload EXCEPT ![u].stage = "checked"]
      BY <1>7, <2>3 DEF CheckDuplicate
    <3>2. [upload[u] EXCEPT !.stage = "checked"].stage = "checked"
      BY <1>1 DEF TypeOK, UploadRow
    <3>3. upload'[u].stage = "checked" /\ \A v \in Uploads \ {u} : upload'[v] = upload[v]
      BY <1>1, <3>1, <3>2 DEF TypeOK
    <3> QED BY <1>5, <2>1, <3>3 DEF Fresh
  <2> QED BY <2>2, <2>3
<1>8. CASE Leave(u)
  <2>1. /\ upload[u].stage = "leaving" /\ files' = files \ {upload[u].drop}
        /\ UNCHANGED <<object, remover, faults>>
        /\ upload' = [upload EXCEPT ![u].stage = "done", ![u].drop = NoUpload]
    BY <1>8 DEF Leave
  <2>2. \A v \in Uploads \ {u} : upload'[v] = upload[v]
    BY <1>1, <2>1, DoneWrites
  <2>3. UploadsRemembered
    BY <1>1, <2>1, <2>2 DEF UploadsRemembered, Remembered, Fresh, Misnamed, TypeOK
  <2> QED BY <1>4, <2>1, <2>3
<1>9. CASE SoftDelete(u)
  <2>1. UNCHANGED <<object, files, upload, remover, faults>>
    BY <1>9 DEF SoftDelete
  <2>2. UploadsRemembered
    BY <2>1 DEF UploadsRemembered, Remembered, Fresh, Misnamed
  <2> QED BY <1>4, <2>1, <2>2
<1>11. CASE RefuseName(u)
  <2>1. /\ upload[u].stage = "stored" /\ Kind(upload[u].place) = "resume"
        /\ UNCHANGED <<object, files, remover, faults>>
        /\ upload' = [upload EXCEPT ![u].stage = "refused"]
    BY <1>11 DEF RefuseName
  <2>2. LET r == [upload[u] EXCEPT !.stage = "refused"]
        IN  r.stage = "refused" /\ r.place = upload[u].place
    BY <1>1 DEF TypeOK, UploadRow
  <2>3. Misnamed(u)' /\ \A v \in Uploads \ {u} : upload'[v] = upload[v]
    BY <1>1, <2>1, <2>2 DEF TypeOK, Misnamed
  <2> QED BY <1>5, <2>1, <2>3
<1>10. ~UploadFails(u)
  BY <1>1 DEF UploadFails
<1> QED BY <1>2, <1>3, <1>6, <1>7, <1>8, <1>9, <1>10, <1>11 DEF UploadStep, Acquires

-----------------------------------------------------------------------------
(* Removers                                                                  *)

(* A claim is of the row's key.                                                 *)
LEMMA ClaimFiles ==
  ASSUME TypeInv, NEW r \in Removers, Idle(r), NEW claimed \in SUBSET Contents,
         \A c \in claimed : Present(c), ClaimRows(r, claimed), UNCHANGED <<files, upload>>
  PROVE  FilesStep
<1>1. /\ TypeOK
      /\ \A c \in Contents \ claimed : object'[c] = object[c]
      /\ \A c \in claimed : object'[c].key = object[c].key
      /\ \A s \in Removers \ {r} : remover'[s] = remover[s]
  BY ClaimWrites DEF TypeInv
<1>2. remover'[r].todo = {Claim(c) : c \in claimed} /\ remover[r].todo = {}
  BY <1>1 DEF ClaimRows, Idle, TypeOK
<1>3. ASSUME NEW c \in claimed, NEW k, object[c].key = k
      PROVE  Claimed(k)'
  <2>1. Claim(c) \in remover'[r].todo /\ Claim(c).key = k
    BY <1>2, <1>3 DEF Claim
  <2> QED BY <2>1 DEF Claimed
<1>4. FilesRemembered /\ UploadsRemembered
  BY DEF FilesRemembered, UploadsRemembered, Remembered, Fresh, Misnamed
<1>5. RowsRemembered
  BY <1>1 DEF RowsRemembered
<1>6. ClaimsRemembered
  BY <1>1, <1>2 DEF ClaimsRemembered
<1>7. DeletionsClaimed
  BY <1>1, <1>3 DEF DeletionsClaimed
<1> QED BY <1>4, <1>5, <1>6, <1>7 DEF FilesStep

LEMMA RemoverFiles ==
  ASSUME TypeInv, FilesInv, faults' = 0, NEW r \in Removers, RemoverStep(r)
  PROVE  FilesStep /\ faults = 0
<1>1. TypeOK /\ faults \in Nat /\ ~Fault
  BY DEF TypeInv, TypeOK, Fault
<1>2. remover[r] \in [todo : SUBSET Claims, at : SUBSET Claims]
  BY <1>1 DEF TypeOK
<1>3. ASSUME NEW cl \in remover[r].todo, Unlink(r, cl)
      PROVE  FilesStep /\ faults = 0
  <2>1. /\ files' = files \ {cl.key} /\ UNCHANGED <<object, upload, faults>>
        /\ remover' = [remover EXCEPT ![r] = [todo |-> @.todo \ {cl}, at |-> {cl}]]
    BY <1>3 DEF Unlink
  <2>2. /\ remover'[r].todo = remover[r].todo \ {cl}
        /\ \A s \in Removers \ {r} : remover'[s] = remover[s]
    BY <1>1, <2>1 DEF TypeOK
  <2>3. ClaimsRemembered
    BY <2>1, <2>2 DEF ClaimsRemembered
  <2>4. FilesRemembered /\ UploadsRemembered /\ RowsRemembered /\ DeletionsClaimed
    BY <2>1 DEF FilesRemembered, UploadsRemembered, Remembered, Fresh, Misnamed, RowsRemembered, DeletionsClaimed
  <2> QED BY <2>1, <2>3, <2>4 DEF FilesStep
<1>4. ASSUME NEW cl \in remover[r].at, Finalize(r, cl)
      PROVE  FilesStep /\ faults = 0
  <2>1. /\ remover' = [remover EXCEPT ![r].at = {}] /\ UNCHANGED <<files, upload, faults>>
        /\ \/ object' = object
           \/ Held(cl) /\ object' = [object EXCEPT ![cl.content] = NoObject]
    BY <1>4 DEF Finalize, Removable
  <2>2. \A s \in Removers : remover'[s].todo = remover[s].todo
    BY <1>1, <1>2, <2>1, DropAt DEF TypeOK
  <2>3. cl.content \in Contents
    BY <1>2, <1>4 DEF Claims
  <2>4. ClaimsRemembered /\ FilesRemembered /\ UploadsRemembered
    BY <2>1, <2>2 DEF ClaimsRemembered, FilesRemembered, UploadsRemembered, Remembered, Fresh, Misnamed
  <2>5. \A k : Claimed(k) => Remembered(k)'
    BY <2>2 DEF Claimed, Remembered
  <2>6. /\ \A c \in Contents : object'[c] = object[c] \/ object[c].status = "deleting"
        /\ \A c \in Contents : object'[c] = object[c] \/ object'[c] = NoObject
    BY <1>1, <2>1, <2>3 DEF TypeOK, Held
  <2>7. RowsRemembered
    BY <2>1, <2>5, <2>6 DEF RowsRemembered, FilesInv
  <2>8. DeletionsClaimed
    BY <2>1, <2>6, Values DEF DeletionsClaimed
  <2> QED BY <2>1, <2>4, <2>7, <2>8 DEF FilesStep
<1>5. ~RemoverFails(r) /\ \A cl : ~UnlinkFails(r, cl)
  BY <1>1 DEF RemoverFails, UnlinkFails
<1> QED BY <1>3, <1>4, <1>5 DEF RemoverStep

-----------------------------------------------------------------------------
(* The invariant and the theorem                                             *)

(* Only the cleanup scans, and only when it has no claims.                      *)
LEMMA ScanStep ==
  ASSUME TypeInv, FilesInv, [Next]_vars
  PROVE  scan' # {} => Idle(Cleanup)'
<1>1. TypeOK /\ Cleanup \in Removers /\ Cleanup \notin Resets
  BY StorageAssumption DEF TypeInv, Removers, StorageAssumption
<1>2. ASSUME scan' \subseteq scan, remover'[Cleanup] = remover[Cleanup]
      PROVE  scan' # {} => Idle(Cleanup)'
  BY <1>2 DEF FilesInv, Idle
<1>3. ASSUME NEW u \in Uploads, UploadStep(u)
      PROVE  scan' \subseteq scan /\ remover' = remover
  <2>1. CASE Acquires(u)
    BY <1>1, <2>1, AcquireStep, AcquireWrites
  <2> QED BY <1>3, <2>1 DEF Acquires, UploadStep, Put, CheckDuplicate, RefuseName, Rollback, Leave, UploadFails,
                           SoftDelete
<1>4. ASSUME NEW d \in Deliveries, DeliveryStep(d)
      PROVE  scan' \subseteq scan /\ remover' = remover
  BY <1>4 DEF DeliveryStep, ReadDocument, Attach, DeliveryEnds
<1>5. ASSUME NEW r \in Resets, NEW a, Reset(r, a)
      PROVE  scan' \subseteq scan /\ remover'[Cleanup] = remover[Cleanup]
  BY <1>1, <1>5 DEF Reset, Restamp, ClaimRows, TypeOK
<1>6. ASSUME NEW r \in Removers, RemoverStep(r)
      PROVE  scan' # {} => Idle(Cleanup)'
  <2>1. scan' \subseteq scan /\ ~Idle(r)
    BY <1>6 DEF RemoverStep, RemoverFails, Unlink, UnlinkFails, Finalize, Restamp, Idle
  <2>2. \A s \in Removers \ {r} : remover'[s] = remover[s]
    BY <1>1, <1>6 DEF RemoverStep, RemoverFails, Unlink, UnlinkFails, Finalize, TypeOK
  <2>3. CASE r = Cleanup
    BY <2>1, <2>3 DEF FilesInv
  <2>4. CASE r # Cleanup
    BY <1>1, <1>2, <2>1, <2>2, <2>4
  <2> QED BY <2>3, <2>4
<1>7. ASSUME NEW c \in Contents, HourPasses(c)
      PROVE  scan' \subseteq scan /\ remover' = remover
  BY <1>7 DEF HourPasses
<1>8. CASE Scan \/ ClaimExpired
  BY <1>8 DEF Scan, ClaimExpired, Idle
<1>9. CASE UNCHANGED vars
  BY <1>2, <1>9 DEF vars
<1> QED BY <1>2, <1>3, <1>4, <1>5, <1>6, <1>7, <1>8, <1>9 DEF Next

LEMMA FilesNext ==
  ASSUME TypeInv, KeysSpent, FilesInv, [Next]_vars
  PROVE  FilesInv'
<1>1. TypeOK /\ (scan' # {} => Idle(Cleanup)')
  BY ScanStep DEF TypeInv
<1>2. SUFFICES ASSUME faults' = 0
               PROVE  FilesStep /\ faults = 0
  BY <1>1, FilesStepKeeps DEF FilesInv
<1>3. ASSUME UNCHANGED <<object, files, upload, remover, faults>>
      PROVE  FilesStep /\ faults = 0
  BY <1>2, <1>3 DEF FilesStep, FilesRemembered, RowsRemembered, UploadsRemembered, Remembered, Fresh, Misnamed,
                    ClaimsRemembered, DeletionsClaimed
<1>4. ASSUME NEW u \in Uploads, UploadStep(u)
      PROVE  FilesStep /\ faults = 0
  BY <1>2, <1>4, UploadFiles
<1>5. ASSUME NEW d \in Deliveries, DeliveryStep(d)
      PROVE  FilesStep /\ faults = 0
  BY <1>3, <1>5 DEF DeliveryStep, ReadDocument, Attach, DeliveryEnds
<1>6. ASSUME NEW r \in Resets, NEW a, Reset(r, a)
      PROVE  FilesStep /\ faults = 0
  <2>1. PICK claimed \in SUBSET Contents :
          /\ ClaimRows(r, claimed) /\ \A c \in claimed : Present(c)
          /\ UNCHANGED <<files, upload, faults>>
    BY <1>6, ResetWrites
  <2>2. Idle(r) /\ r \in Removers
    BY <1>6 DEF Reset, Removers
  <2> QED BY <1>2, <2>1, <2>2, ClaimFiles
<1>7. ASSUME NEW r \in Removers, RemoverStep(r)
      PROVE  FilesStep /\ faults = 0
  BY <1>2, <1>7, RemoverFiles
<1>8. ASSUME NEW c \in Contents, HourPasses(c)
      PROVE  FilesStep /\ faults = 0
  BY <1>3, <1>8 DEF HourPasses
<1>9. CASE Scan
  BY <1>3, <1>9 DEF Scan
<1>10. CASE ClaimExpired
  <2>1. PICK skipped \in SUBSET (scan \cap MaybeLocked) : \E B \in Batches(scan \ skipped) :
          ClaimRows(Cleanup, B)
    BY <1>10 DEF ClaimExpired
  <2>2. PICK B \in SUBSET scan : ClaimRows(Cleanup, B)
    BY <2>1 DEF Batches
  <2>3. Idle(Cleanup) /\ Cleanup \in Removers /\ UNCHANGED <<files, upload, faults>>
    BY <1>10 DEF ClaimExpired, FilesInv, Removers
  <2>4. B \in SUBSET Contents /\ \A c \in B : Present(c)
    BY <1>1 DEF TypeInv, TypeOK, RowsExist
  <2> QED BY <1>2, <2>2, <2>3, <2>4, ClaimFiles
<1>11. CASE UNCHANGED vars
  BY <1>3, <1>11 DEF vars
<1> QED BY <1>4, <1>5, <1>6, <1>7, <1>8, <1>9, <1>10, <1>11 DEF Next

LEMMA FilesInit == HInit => FilesInv
BY Values DEF HInit, Init, FilesInv

(* As long as no call fails and no process dies, every file belongs to a row, or  *)
(* a request or a claim still under way will unlink it: put, acquire_for_reference *)
(* and the two claims of object_storage_repository leave no other file behind.    *)
THEOREM NoFileIsForgotten == HSpec => []NoFileForgotten
<1>1. ASSUME HTypeOK, StorageInv, FilesInv, [HNext]_hvars
      PROVE  FilesInv'
  <2>1. TypeInv /\ KeysSpent /\ [Next]_vars
    BY <1>1 DEF HTypeOK, StorageInv, HNext, hvars, vars
  <2> QED BY <1>1, <2>1, FilesNext
<1>2. FilesInv => NoFileForgotten
  BY DEF FilesInv, NoFileForgotten, Remembered, Fresh, Misnamed, Claimed
<1> QED BY <1>1, <1>2, FilesInit, StorageInit, StorageStep, HTypeStep, PTL DEF HSpec
=============================================================================
