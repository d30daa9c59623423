------------------------- MODULE FileStore_proofs -------------------------
(***************************************************************************)
(* Proofs that a registered file stays in the store and that an authorized *)
(* upload is registered once, for any attachments, files, uploads and      *)
(* requests.  A file is followed from the request that puts it in place,   *)
(* or finds it there, to the attachment it is registered for; the sweep,   *)
(* from the files it lists to those it removes.                            *)
(***************************************************************************)
EXTENDS FileStore, TLAPS

\* The file is there as it should be, or something took it that is known.
Served(d) == store[d] = "whole" \/ d \in damaged \/ d \in raced

\* What refers to a digest: bytes on their way, an attachment, a request
\* that found the file and has yet to commit, one that is to discard it.
Flying(d) ==
    \/ \E u \in Upload : /\ uploads[u] # None /\ uploads[u].received
                         /\ StoredDigest(uploads[u].file) = d
    \/ \E r \in Request : pc[r] \in {"stored", "sent"} /\ StoredDigest(job[r].file) = d
Held(d) == \E i \in Item : items[i].registered = d
Found(d) == \E r \in Request : pc[r] \in {"exists", "kept"} /\ StoredDigest(job[r].file) = d
Discarding(d) == \E r \in Request : pc[r] = "discarding" /\ StoredDigest(job[r].file) = d

Listed(d) == candidates # None /\ d \in candidates

\* What the store owes each of them.
Kept(d) ==
    /\ store[d] = "damaged" => d \in damaged
    /\ Flying(d) => Served(d) /\ d \notin old /\ (Listed(d) \/ d \in doomed => d \in raced)
    /\ Held(d) => Served(d) /\ (d \in doomed => d \in raced)
    /\ Found(d) => Served(d)
    /\ Discarding(d) => d \in damaged \/ d \in raced
AllKept == \A d \in Digest : Kept(d)

\* What a request is about, by how far it has got.
JobOf(r) ==
    /\ pc[r] # "idle" => job[r].file \in File
    /\ pc[r] \in {"sending", "stored", "discarding", "confirmed"} => job[r].upload \in Upload
    /\ pc[r] \in {"granted", "exists", "asked", "kept", "sent", "confirmed"} => job[r].item \in Item
    /\ pc[r] \in {"sending", "stored"} /\ uploads[job[r].upload] # None =>
           uploads[job[r].upload].file = job[r].file
    /\ pc[r] = "confirmed" /\ uploads[job[r].upload] # None => uploads[job[r].upload].received
    /\ pc[r] \in {"asked", "kept", "sent"} => job[r].file.zip = None
Jobs == \A r \in Request : JobOf(r)

\* An upload that can still be registered has not been.
Unspent == \A u \in Upload : uploads[u] # None => u \notin spent

IInv == TypeOK /\ Jobs /\ Unspent /\ AllKept

-----------------------------------------------------------------------------
(* Operators *)

LEMMA StoredDigestType ==
    ASSUME NEW f \in File
    PROVE  StoredDigest(f) \in Digest /\ f.md5 \in Digest /\ f.zip \in Digest \cup {None}
           /\ (f.zip = None => StoredDigest(f) = f.md5)
BY FileAssumption DEF StoredDigest

LEMMA AttachType ==
    ASSUME TypeOK, NEW i \in Item, NEW md5 \in Digest \cup {None},
           NEW registered \in Digest \cup {None}, Attach(i, md5, registered)
    PROVE  /\ version' \in 0..MaxVersion /\ version' = version + 1
           /\ items' \in [Item -> Attachment]
           /\ items'[i].registered = registered
           /\ items'[i].version = version'
           /\ \A j \in Item \ {i} : items'[j] = items[j]
<1>1. version + 1 \in 0..MaxVersion
  BY FileAssumption DEF Attach, TypeOK
<1>2. [present |-> TRUE, md5 |-> md5, registered |-> registered, version |-> version + 1]
         \in Attachment
  BY <1>1 DEF Attachment
<1> QED
  BY <1>1, <1>2 DEF Attach, TypeOK

LEMMA NoJobType == NoJob \in Job
BY FileAssumption DEF NoJob, Job, Match, Gone, Attachment

LEMMA FinishType ==
    ASSUME TypeOK, NEW r \in Request, Finish(r)
    PROVE  /\ pc' \in [Request -> {"idle", "granted", "exists", "sending", "stored", "discarding",
                                   "confirmed", "asked", "kept", "sent"}]
           /\ job' \in [Request -> Job]
           /\ pc'[r] = "idle" /\ job'[r] = NoJob
           /\ \A q \in Request \ {r} : pc'[q] = pc[q] /\ job'[q] = job[q]
BY NoJobType DEF Finish, TypeOK

\* What a registration writes over the attachment.
LEMMA WrittenType ==
    ASSUME TypeOK, NEW r \in Request, job[r].item \in Item, NEW f \in File
    PROVE  /\ Written(r, f).md5 \in Digest \cup {None}
           /\ Written(r, f).registered \in {items[job[r].item].registered, StoredDigest(f)}
           /\ Written(r, f).registered \in Digest \cup {None}
<1>1. items[job[r].item] \in Attachment
  BY DEF TypeOK
<1> QED
  BY <1>1, StoredDigestType DEF Written, Attachment

-----------------------------------------------------------------------------
(* Types *)

LEMMA PutType ==
    ASSUME TypeOK, NEW d \in Digest, PutInPlace(d)
    PROVE  /\ store' \in [Digest -> {"absent", "whole", "damaged"}]
           /\ \A e \in old' : e \in Digest /\ store'[e] # "absent"
           /\ hashed' \subseteq Harmed
           /\ damaged' \subseteq Digest /\ raced' \subseteq Digest
BY DEF PutInPlace, TypeOK

LEMMA UnlinkType ==
    ASSUME TypeOK, NEW d \in Digest, Unlink(d)
    PROVE  /\ store' \in [Digest -> {"absent", "whole", "damaged"}]
           /\ \A e \in old' : e \in Digest /\ store'[e] # "absent"
           /\ hashed' \subseteq Harmed
BY DEF Unlink, TypeOK

\* Moving request r on with the same job, or a new one.
LEMMA MoveType ==
    ASSUME TypeOK, NEW r \in Request, NEW step, NEW j \in Job,
           step \in {"idle", "granted", "exists", "sending", "stored", "discarding",
                      "confirmed", "asked", "kept", "sent"},
           pc' = [pc EXCEPT ![r] = step], job' = [job EXCEPT ![r] = j]
    PROVE  /\ pc' \in [Request -> {"idle", "granted", "exists", "sending", "stored", "discarding",
                                   "confirmed", "asked", "kept", "sent"}]
           /\ job' \in [Request -> Job]
           /\ pc'[r] = step /\ job'[r] = j
           /\ \A q \in Request \ {r} : pc'[q] = pc[q] /\ job'[q] = job[q]
BY DEF TypeOK

LEMMA AuthorizeType ==
    ASSUME TypeOK, NEW r \in Request, Authorize(r)
    PROVE  TypeOK'
<1>1. PICK i \in Item, f \in File, step \in {"exists", "granted"} :
          /\ pc' = [pc EXCEPT ![r] = step]
          /\ job' = [job EXCEPT ![r] = [NoJob EXCEPT !.item = i, !.file = f]]
  BY DEF Authorize
<1>2. [NoJob EXCEPT !.item = i, !.file = f] \in Job
  BY NoJobType DEF Job
<1>3. /\ pc' \in [Request -> {"idle", "granted", "exists", "sending", "stored", "discarding",
                              "confirmed", "asked", "kept", "sent"}]
      /\ job' \in [Request -> Job] /\ pc'[r] = step
      /\ \A q \in Request \ {r} : pc'[q] = pc[q]
  <2> DEFINE j == [NoJob EXCEPT !.item = i, !.file = f]
  <2> HIDE DEF j
  <2> QED
    BY <1>1, <1>2, MoveType DEF j
<1>4. \A q \in Request : pc'[q] \in {"granted", "exists"} <=> lock' = q
  BY <1>3, FileAssumption DEF Authorize, TypeOK
<1> QED
  BY <1>3, <1>4 DEF Authorize, TypeOK, storeVars, sweepVars, history

LEMMA ReleasesType ==
    ASSUME TypeOK, NEW r \in Request, Finish(r), lock' = IF lock = r THEN None ELSE lock
    PROVE  /\ lock' \in Request \cup {None}
           /\ \A q \in Request : pc'[q] \in {"granted", "exists"} <=> lock' = q
<1>1. /\ pc'[r] = "idle" /\ \A q \in Request \ {r} : pc'[q] = pc[q]
  BY FinishType
<1> QED
  BY <1>1, FileAssumption DEF TypeOK

LEMMA TypesStep ==
    ASSUME TypeOK, Jobs, [Next]_vars
    PROVE  TypeOK'
<1> USE DEF dbVars, storeVars, sweepVars, requestVars, history, vars
<1>1. ASSUME NEW r \in Request, Authorize(r)
      PROVE  TypeOK'
  BY <1>1, AuthorizeType
<1>2. ASSUME NEW r \in Request, ExistsCommit(r)
      PROVE  TypeOK'
  <2>1. /\ job[r].item \in Item /\ job[r].file \in File /\ lock = r
    BY <1>2 DEF ExistsCommit, Jobs, JobOf, TypeOK
  <2>2. StoredDigest(job[r].file) \in Digest /\ job[r].file.md5 \in Digest
    BY <2>1, StoredDigestType
  <2>3. version' \in 0..MaxVersion /\ items' \in [Item -> Attachment]
    BY <1>2, <2>1, <2>2, AttachType DEF ExistsCommit
  <2>4. Finish(r) /\ lock' = IF lock = r THEN None ELSE lock
    BY <1>2, <2>1 DEF ExistsCommit
  <2> QED
    BY <1>2, <2>2, <2>3, <2>4, FinishType, ReleasesType DEF ExistsCommit, TypeOK
<1>3. ASSUME NEW r \in Request, GrantCommit(r)
      PROVE  TypeOK'
  <2>1. /\ job[r].item \in Item /\ job[r].file \in File /\ lock = r
    BY <1>3 DEF GrantCommit, Jobs, JobOf, TypeOK
  <2>2. StoredMd5(job[r].item) \in Digest \cup {None}
    BY <2>1 DEF StoredMd5, TypeOK, Attachment
  <2>3. [item |-> job[r].item, file |-> job[r].file, received |-> FALSE,
         over |-> StoredMd5(job[r].item)] \in UploadRow
    BY <2>1, <2>2 DEF UploadRow
  <2>4. uploads' \in [Upload -> UploadRow \cup {None}] /\ spent' \subseteq Upload
    BY <1>3, <2>3 DEF GrantCommit, TypeOK
  <2>5. Finish(r) /\ lock' = IF lock = r THEN None ELSE lock
    BY <1>3, <2>1 DEF GrantCommit
  <2> QED
    BY <1>3, <2>4, <2>5, FinishType, ReleasesType DEF GrantCommit, TypeOK
<1>4. ASSUME NEW r \in Request, Receive(r)
      PROVE  TypeOK'
  <2>1. PICK u \in Upload : uploads[u] # None /\
          job' = [job EXCEPT ![r] = [NoJob EXCEPT !.upload = u, !.file = uploads[u].file]]
    BY <1>4 DEF Receive
  <2>2. [NoJob EXCEPT !.upload = u, !.file = uploads[u].file] \in Job
    <3>1. uploads[u].file \in File
      BY <2>1 DEF TypeOK, UploadRow
    <3> QED
      BY <3>1, NoJobType DEF Job
  <2>3. /\ job' \in [Request -> Job]
    BY <2>1, <2>2 DEF TypeOK
  <2>4. /\ pc' \in [Request -> {"idle", "granted", "exists", "sending", "stored", "discarding",
                                "confirmed", "asked", "kept", "sent"}]
        /\ \A q \in Request : pc'[q] \in {"granted", "exists"} <=> lock' = q
    BY <1>4 DEF Receive, TypeOK
  <2> QED
    BY <1>4, <2>3, <2>4 DEF Receive, TypeOK
<1>5. ASSUME NEW r \in Request, ReceiveStore(r)
      PROVE  TypeOK'
  <2>1. StoredDigest(job[r].file) \in Digest
    BY <1>5, StoredDigestType DEF ReceiveStore, Jobs, JobOf
  <2>2. /\ store' \in [Digest -> {"absent", "whole", "damaged"}]
        /\ \A e \in old' : e \in Digest /\ store'[e] # "absent"
        /\ hashed' \subseteq Harmed
        /\ damaged' \subseteq Digest /\ raced' \subseteq Digest
    BY <1>5, <2>1, PutType DEF ReceiveStore
  <2>3. /\ pc' \in [Request -> {"idle", "granted", "exists", "sending", "stored", "discarding",
                                "confirmed", "asked", "kept", "sent"}]
        /\ \A q \in Request : pc'[q] \in {"granted", "exists"} <=> lock' = q
    BY <1>5 DEF ReceiveStore, TypeOK
  <2> QED
    BY <1>5, <2>2, <2>3 DEF ReceiveStore, TypeOK
<1>6. ASSUME NEW r \in Request, ReceiveCommit(r)
      PROVE  TypeOK'
  <2>1. job[r].upload \in Upload /\ lock # r
    BY <1>6 DEF ReceiveCommit, Jobs, JobOf, TypeOK
  <2>2. uploads[job[r].upload] \in UploadRow
    BY <1>6, <2>1 DEF ReceiveCommit, TypeOK
  <2>3. uploads' \in [Upload -> UploadRow \cup {None}]
    <3> DEFINE row == [uploads[job[r].upload] EXCEPT !.received = TRUE]
    <3>1. row \in UploadRow
      BY <2>2 DEF UploadRow
    <3>2. uploads' = [uploads EXCEPT ![job[r].upload] = row]
      BY <1>6 DEF ReceiveCommit
    <3> HIDE DEF row
    <3> QED
      BY <2>1, <3>1, <3>2 DEF TypeOK
  <2>4. Finish(r) /\ lock' = IF lock = r THEN None ELSE lock
    BY <1>6, <2>1 DEF ReceiveCommit
  <2> QED
    BY <1>6, <2>3, <2>4, FinishType, ReleasesType DEF ReceiveCommit, TypeOK
<1>7. ASSUME NEW r \in Request, Confirm(r)
      PROVE  TypeOK'
  <2>1. PICK u \in Upload :
          /\ uploads[u] # None /\ items[uploads[u].item].present
          /\ job' = [job EXCEPT ![r] = [NoJob EXCEPT !.item = uploads[u].item,
                 !.file = uploads[u].file, !.upload = u,
                 !.loaded = [items[uploads[u].item] EXCEPT !.version = 0]]]
          /\ \/ pc' = [pc EXCEPT ![r] = "confirmed"]
             \/ /\ store[StoredDigest(uploads[u].file)] = "damaged"
                /\ pc' = [pc EXCEPT ![r] = "discarding"]
    BY <1>7 DEF Confirm
  <2>2. uploads[u].item \in Item /\ uploads[u].file \in File
    BY <2>1 DEF TypeOK, UploadRow
  <2>3. [items[uploads[u].item] EXCEPT !.version = 0] \in Attachment
    BY <2>2, FileAssumption DEF TypeOK, Attachment
  <2>4. [NoJob EXCEPT !.item = uploads[u].item, !.file = uploads[u].file, !.upload = u,
                      !.loaded = [items[uploads[u].item] EXCEPT !.version = 0]] \in Job
    BY <2>2, <2>3, FileAssumption DEF NoJob, Job, Match
  <2>5. job' \in [Request -> Job]
    BY <2>1, <2>4 DEF TypeOK
  <2>6. /\ pc' \in [Request -> {"idle", "granted", "exists", "sending", "stored", "discarding",
                                "confirmed", "asked", "kept", "sent"}]
        /\ \A q \in Request : pc'[q] \in {"granted", "exists"} <=> lock' = q
    BY <1>7, <2>1 DEF Confirm, TypeOK
  <2>7. hashed' \subseteq Harmed
    BY <1>7 DEF Confirm, TypeOK
  <2> QED
    BY <1>7, <2>5, <2>6, <2>7 DEF Confirm, TypeOK
<1>8. ASSUME NEW r \in Request, Discard(r)
      PROVE  TypeOK'
  <2>1. StoredDigest(job[r].file) \in Digest /\ lock # r
    BY <1>8, StoredDigestType DEF Discard, Jobs, JobOf, TypeOK
  <2>2. /\ store' \in [Digest -> {"absent", "whole", "damaged"}]
        /\ \A e \in old' : e \in Digest /\ store'[e] # "absent"
        /\ hashed' \subseteq Harmed
    BY <1>8, <2>1, UnlinkType DEF Discard
  <2>3. Finish(r) /\ lock' = IF lock = r THEN None ELSE lock
    BY <1>8, <2>1 DEF Discard
  <2> QED
    BY <1>8, <2>2, <2>3, FinishType, ReleasesType DEF Discard, TypeOK
<1>9. ASSUME NEW r \in Request, Register(r)
      PROVE  TypeOK'
  <2>1. /\ job[r].upload \in Upload /\ lock # r /\ job[r].item \in Item
        /\ uploads[job[r].upload] \in UploadRow
    BY <1>9, FileAssumption DEF Register, Jobs, JobOf, TypeOK
  <2> DEFINE row == uploads[job[r].upload]
             w == Written(r, row.file)
  <2>2. row.item \in Item /\ row.file \in File
    BY <2>1 DEF UploadRow
  <2>3. w.md5 \in Digest \cup {None} /\ w.registered \in Digest \cup {None}
    BY <2>1, <2>2, WrittenType
  <2>4. Attach(row.item, w.md5, w.registered)
    BY <1>9 DEF Register
  <2>5. version' \in 0..MaxVersion /\ items' \in [Item -> Attachment]
    BY <2>2, <2>3, <2>4, AttachType
  <2>6. stale' \in {stale, stale \cup {row.item}}
    BY <1>9 DEF Register
  <2>7. Finish(r) /\ lock' = IF lock = r THEN None ELSE lock
    BY <1>9, <2>1 DEF Register
  <2>8. /\ uploads' = [uploads EXCEPT ![job[r].upload] = None]
        /\ spent' = spent \cup {job[r].upload}
        /\ UNCHANGED <<store, old, hashed, damaged, raced, candidates, doomed>>
    BY <1>9 DEF Register
  <2> HIDE DEF row, w
  <2> QED
    BY <2>1, <2>2, <2>5, <2>6, <2>7, <2>8, FinishType, ReleasesType DEF TypeOK
<1>10. ASSUME NEW r \in Request, BrowserAsk(r)
       PROVE  TypeOK'
  <2>1. PICK i \in Item, f \in File, match \in Match :
          job' = [job EXCEPT ![r] = [NoJob EXCEPT !.item = i, !.file = f, !.match = match,
                                                  !.loaded.present = items[i].present]]
    BY <1>10 DEF BrowserAsk
  <2>2. [NoJob EXCEPT !.item = i, !.file = f, !.match = match,
                      !.loaded.present = items[i].present] \in Job
    <3>1. [NoJob.loaded EXCEPT !.present = items[i].present] \in Attachment
      BY NoJobType DEF Job, Attachment, TypeOK
    <3> QED
      BY <3>1, NoJobType DEF Job
  <2>3. job' \in [Request -> Job]
    BY <2>1, <2>2 DEF TypeOK
  <2>4. /\ pc' \in [Request -> {"idle", "granted", "exists", "sending", "stored", "discarding",
                                "confirmed", "asked", "kept", "sent"}]
        /\ \A q \in Request : pc'[q] \in {"granted", "exists"} <=> lock' = q
    BY <1>10 DEF BrowserAsk, TypeOK
  <2> QED
    BY <1>10, <2>3, <2>4 DEF BrowserAsk, TypeOK
<1>11. ASSUME NEW r \in Request, BrowserStore(r)
       PROVE  TypeOK'
  <2>1. job[r].file.md5 \in Digest
    BY <1>11, StoredDigestType DEF BrowserStore, Jobs, JobOf
  <2>2. UNCHANGED storeVars \/ PutInPlace(job[r].file.md5)
    BY <1>11 DEF BrowserStore
  <2>3. /\ store' \in [Digest -> {"absent", "whole", "damaged"}]
        /\ \A e \in old' : e \in Digest /\ store'[e] # "absent"
        /\ hashed' \subseteq Harmed
        /\ damaged' \subseteq Digest /\ raced' \subseteq Digest
    BY <2>1, <2>2, PutType DEF TypeOK
  <2>4. pc' = [pc EXCEPT ![r] = "kept"] \/ pc' = [pc EXCEPT ![r] = "sent"]
    BY <1>11 DEF BrowserStore
  <2>5. /\ pc' \in [Request -> {"idle", "granted", "exists", "sending", "stored", "discarding",
                                "confirmed", "asked", "kept", "sent"}]
        /\ \A q \in Request : pc'[q] \in {"granted", "exists"} <=> lock' = q
    BY <1>11, <2>4 DEF BrowserStore, TypeOK
  <2> QED
    BY <1>11, <2>3, <2>5 DEF BrowserStore, TypeOK
<1>12. ASSUME NEW r \in Request, BrowserCommit(r)
       PROVE  TypeOK'
  <2>1. job[r].file.md5 \in Digest /\ job[r].item \in Item /\ lock # r
    BY <1>12, StoredDigestType, FileAssumption DEF BrowserCommit, Jobs, JobOf
  <2>2. version' \in 0..MaxVersion /\ items' \in [Item -> Attachment]
    BY <1>12, <2>1, AttachType DEF BrowserCommit
  <2>3. Finish(r) /\ lock' = IF lock = r THEN None ELSE lock
    BY <1>12, <2>1 DEF BrowserCommit
  <2> QED
    BY <1>12, <2>1, <2>2, <2>3, FinishType, ReleasesType DEF BrowserCommit, TypeOK
<1>13. ASSUME NEW r \in Request, Fail(r)
       PROVE  TypeOK'
  BY <1>13, FinishType, ReleasesType DEF Fail, TypeOK
<1>14. ASSUME NEW i \in Item, WriteItem(i)
       PROVE  TypeOK'
  <2>1. items[i].registered \in Digest \cup {None}
    BY DEF TypeOK, Attachment
  <2>2. version' \in 0..MaxVersion /\ items' \in [Item -> Attachment]
    BY <1>14, <2>1, AttachType DEF WriteItem
  <2> QED
    BY <1>14, <2>2 DEF WriteItem, TypeOK
<1>15. ASSUME NEW i \in Item, DeleteItem(i)
       PROVE  TypeOK'
  <2>1. Gone \in Attachment /\ version + 1 \in 0..MaxVersion
    BY <1>15, FileAssumption DEF Gone, Attachment, DeleteItem, TypeOK
  <2> QED
    BY <1>15, <2>1 DEF DeleteItem, TypeOK
<1>16. ASSUME NEW u \in Upload, PurgeStaleUploads(u)
       PROVE  TypeOK'
  BY <1>16 DEF PurgeStaleUploads, TypeOK
<1>17. ASSUME NEW d \in Digest, Age(d)
       PROVE  TypeOK'
  BY <1>17 DEF Age, IsFile, TypeOK
<1>18. ASSUME NEW d \in Digest, Damage(d)
       PROVE  TypeOK'
  BY <1>18 DEF Damage, TypeOK
<1>19. ASSUME NEW d \in Digest, PurgeRemove(d)
       PROVE  TypeOK'
  <2>1. /\ store' \in [Digest -> {"absent", "whole", "damaged"}]
        /\ \A e \in old' : e \in Digest /\ store'[e] # "absent"
        /\ hashed' \subseteq Harmed
    BY <1>19, UnlinkType DEF PurgeRemove
  <2> QED
    BY <1>19, <2>1 DEF PurgeRemove, TypeOK
<1>20. ASSUME PurgeList
       PROVE  TypeOK'
  BY <1>20 DEF PurgeList, TypeOK
<1>21. ASSUME PurgeRead
       PROVE  TypeOK'
  BY <1>21 DEF PurgeRead, TypeOK
<1>22. CASE UNCHANGED vars
  BY <1>22 DEF TypeOK
<1> QED
  BY <1>1, <1>2, <1>3, <1>4, <1>5, <1>6, <1>7, <1>8, <1>9, <1>10, <1>11, <1>12, <1>13, <1>14,
     <1>15, <1>16, <1>17, <1>18, <1>19, <1>20, <1>21, <1>22 DEF Next

-----------------------------------------------------------------------------
(* Requests and uploads *)

\* A request that another's step leaves alone: its upload may go, or be
\* received, and its key is given to no other upload.
LEMMA JobFrame ==
    ASSUME NEW q \in Request, JobOf(q), pc'[q] = pc[q], job'[q] = job[q],
           \A u \in Upload : u = job[q].upload =>
               \/ uploads'[u] = None
               \/ /\ uploads[u] # None /\ uploads'[u].file = uploads[u].file
                  /\ uploads[u].received => uploads'[u].received
    PROVE  JobOf(q)'
BY DEF JobOf

\* A step of r that ends it.
LEMMA JobsEnd ==
    ASSUME TypeOK, Jobs, NEW r \in Request, Finish(r),
           \A q \in Request \ {r}, u \in Upload : u = job[q].upload =>
               \/ uploads'[u] = None
               \/ /\ uploads[u] # None /\ uploads'[u].file = uploads[u].file
                  /\ uploads[u].received => uploads'[u].received
    PROVE  Jobs'
<1>1. /\ pc'[r] = "idle"
      /\ \A q \in Request \ {r} : pc'[q] = pc[q] /\ job'[q] = job[q]
  BY FinishType
<1>2. JobOf(r)'
  BY <1>1 DEF JobOf
<1>3. ASSUME NEW q \in Request, q # r
      PROVE  JobOf(q)'
  BY <1>1, <1>3, JobFrame DEF Jobs
<1> QED
  BY <1>2, <1>3 DEF Jobs

\* A step of r that leaves the uploads alone and is right about its own job.
LEMMA JobsMove ==
    ASSUME TypeOK, Jobs, NEW r \in Request, uploads' = uploads, JobOf(r)',
           \A q \in Request \ {r} : pc'[q] = pc[q] /\ job'[q] = job[q]
    PROVE  Jobs'
<1>1. ASSUME NEW q \in Request, q # r
      PROVE  JobOf(q)'
  BY <1>1 DEF Jobs, JobOf
<1> QED
  BY <1>1 DEF Jobs

LEMMA JobsStep ==
    ASSUME TypeOK, Jobs, [Next]_vars
    PROVE  Jobs'
<1> USE DEF dbVars, storeVars, sweepVars, requestVars, history, vars
<1>1. ASSUME NEW r \in Request, Authorize(r)
      PROVE  Jobs'
  <2>1. PICK i \in Item, f \in File, step \in {"exists", "granted"} :
            /\ pc' = [pc EXCEPT ![r] = step]
            /\ job' = [job EXCEPT ![r] = [NoJob EXCEPT !.item = i, !.file = f]]
    BY <1>1 DEF Authorize
  <2>2. /\ pc'[r] = step /\ job'[r].item = i /\ job'[r].file = f
        /\ \A q \in Request \ {r} : pc'[q] = pc[q] /\ job'[q] = job[q]
    BY <2>1 DEF TypeOK, NoJob
  <2>3. JobOf(r)'
    BY <2>2 DEF JobOf
  <2> QED
    BY <1>1, <2>2, <2>3, JobsMove DEF Authorize
<1>2. ASSUME NEW r \in Request, ExistsCommit(r) \/ Discard(r) \/ BrowserCommit(r) \/ Fail(r)
      PROVE  Jobs'
  <2>1. Finish(r) /\ uploads' = uploads
    BY <1>2 DEF ExistsCommit, Discard, BrowserCommit, Fail
  <2>2. JobOf(r)' /\ \A q \in Request \ {r} : pc'[q] = pc[q] /\ job'[q] = job[q]
    BY <2>1, FinishType DEF JobOf
  <2> QED
    BY <2>1, <2>2, JobsMove
<1>3. ASSUME NEW r \in Request, GrantCommit(r)
      PROVE  Jobs'
  <2>1. PICK u \in Upload :
          /\ uploads[u] = None
          /\ \A q \in Request : job[q].upload # u
          /\ uploads' = [uploads EXCEPT ![u] =
                           [item |-> job[r].item, file |-> job[r].file, received |-> FALSE,
                            over |-> StoredMd5(job[r].item)]]
    BY <1>3 DEF GrantCommit
  <2>2. \A w \in Upload : w # u => uploads'[w] = uploads[w]
    BY <2>1 DEF TypeOK
  <2>3. Finish(r)
    BY <1>3 DEF GrantCommit
  <2>4. \A q \in Request \ {r}, w \in Upload : w = job[q].upload =>
            \/ uploads'[w] = None
            \/ /\ uploads[w] # None /\ uploads'[w].file = uploads[w].file
               /\ uploads[w].received => uploads'[w].received
    BY <2>1, <2>2
  <2> QED
    BY <2>3, <2>4, JobsEnd
<1>4. ASSUME NEW r \in Request, Receive(r)
      PROVE  Jobs'
  <2>1. PICK u \in Upload : uploads[u] # None /\
          job' = [job EXCEPT ![r] = [NoJob EXCEPT !.upload = u, !.file = uploads[u].file]]
    BY <1>4 DEF Receive
  <2>2. /\ pc'[r] = "sending" /\ job'[r].upload = u /\ job'[r].file = uploads[u].file
        /\ uploads' = uploads
        /\ \A q \in Request \ {r} : pc'[q] = pc[q] /\ job'[q] = job[q]
    BY <1>4, <2>1 DEF Receive, TypeOK, NoJob
  <2>3. uploads[u].file \in File
    BY <2>1 DEF TypeOK, UploadRow
  <2>4. JobOf(r)'
    BY <2>2, <2>3 DEF JobOf
  <2> QED
    BY <2>2, <2>4, JobsMove
<1>5. ASSUME NEW r \in Request, ReceiveStore(r)
      PROVE  Jobs'
  <2>1. /\ pc[r] = "sending" /\ pc'[r] = "stored" /\ job' = job /\ uploads' = uploads
        /\ \A q \in Request \ {r} : pc'[q] = pc[q] /\ job'[q] = job[q]
    BY <1>5 DEF ReceiveStore, TypeOK
  <2>2. JobOf(r)'
    BY <2>1 DEF Jobs, JobOf
  <2> QED
    BY <2>1, <2>2, JobsMove
<1>6. ASSUME NEW r \in Request, ReceiveCommit(r)
      PROVE  Jobs'
  <2>1. job[r].upload \in Upload /\ uploads[job[r].upload] \in UploadRow
    BY <1>6 DEF ReceiveCommit, Jobs, JobOf, TypeOK
  <2>2. Finish(r) /\ uploads' = [uploads EXCEPT ![job[r].upload].received = TRUE]
    BY <1>6 DEF ReceiveCommit
  <2>3. /\ uploads'[job[r].upload].received
        /\ uploads'[job[r].upload].file = uploads[job[r].upload].file
        /\ \A u \in Upload : u # job[r].upload => uploads'[u] = uploads[u]
    BY <2>1, <2>2 DEF TypeOK, UploadRow
  <2>4. \A q \in Request \ {r}, u \in Upload : u = job[q].upload =>
            \/ uploads'[u] = None
            \/ /\ uploads[u] # None /\ uploads'[u].file = uploads[u].file
               /\ uploads[u].received => uploads'[u].received
    BY <1>6, <2>3 DEF ReceiveCommit
  <2> QED
    BY <2>2, <2>4, JobsEnd
<1>7. ASSUME NEW r \in Request, Confirm(r)
      PROVE  Jobs'
  <2>1. PICK u \in Upload :
          /\ uploads[u] # None /\ uploads[u].received
          /\ job' = [job EXCEPT ![r] = [NoJob EXCEPT !.item = uploads[u].item,
                 !.file = uploads[u].file, !.upload = u,
                 !.loaded = [items[uploads[u].item] EXCEPT !.version = 0]]]
          /\ \/ pc' = [pc EXCEPT ![r] = "confirmed"]
             \/ /\ store[StoredDigest(uploads[u].file)] = "damaged"
                /\ pc' = [pc EXCEPT ![r] = "discarding"]
    BY <1>7 DEF Confirm
  <2>2. /\ pc'[r] \in {"confirmed", "discarding"} /\ uploads' = uploads
        /\ job'[r].upload = u /\ job'[r].file = uploads[u].file
        /\ job'[r].item = uploads[u].item
        /\ \A q \in Request \ {r} : pc'[q] = pc[q] /\ job'[q] = job[q]
    BY <1>7, <2>1 DEF Confirm, TypeOK, NoJob
  <2>3. uploads[u].file \in File /\ uploads[u].item \in Item
    BY <2>1 DEF TypeOK, UploadRow
  <2>4. JobOf(r)'
    BY <2>1, <2>2, <2>3 DEF JobOf
  <2> QED
    BY <2>2, <2>4, JobsMove
<1>8. ASSUME NEW r \in Request, Register(r)
      PROVE  Jobs'
  <2>1. Finish(r) /\ uploads' = [uploads EXCEPT ![job[r].upload] = None]
    BY <1>8 DEF Register
  <2>2. \A u \in Upload : uploads'[u] \in {uploads[u], None}
    BY <2>1 DEF TypeOK
  <2> QED
    BY <2>1, <2>2, JobsEnd
<1>9. ASSUME NEW r \in Request, BrowserAsk(r)
      PROVE  Jobs'
  <2>1. PICK i \in Item, f \in File, match \in Match :
          /\ f.zip = None
          /\ job' = [job EXCEPT ![r] = [NoJob EXCEPT !.item = i, !.file = f, !.match = match,
                                                    !.loaded.present = items[i].present]]
    BY <1>9 DEF BrowserAsk
  <2>2. /\ pc'[r] = "asked" /\ uploads' = uploads /\ job'[r].item = i /\ job'[r].file = f
        /\ \A q \in Request \ {r} : pc'[q] = pc[q] /\ job'[q] = job[q]
    BY <1>9, <2>1 DEF BrowserAsk, TypeOK, NoJob
  <2>3. JobOf(r)'
    BY <2>1, <2>2 DEF JobOf
  <2> QED
    BY <2>2, <2>3, JobsMove
<1>10. ASSUME NEW r \in Request, BrowserStore(r)
       PROVE  Jobs'
  <2>1. /\ pc[r] = "asked" /\ pc'[r] \in {"kept", "sent"} /\ job' = job /\ uploads' = uploads
        /\ \A q \in Request \ {r} : pc'[q] = pc[q] /\ job'[q] = job[q]
    BY <1>10 DEF BrowserStore, TypeOK
  <2>2. JobOf(r)'
    BY <2>1 DEF Jobs, JobOf
  <2> QED
    BY <2>1, <2>2, JobsMove
<1>11. ASSUME UNCHANGED requestVars, \A u \in Upload : uploads'[u] \in {uploads[u], None}
       PROVE  Jobs'
  BY <1>11, JobFrame DEF Jobs
<1>12. ASSUME NEW i \in Item, WriteItem(i) \/ DeleteItem(i)
       PROVE  Jobs'
  BY <1>11, <1>12 DEF WriteItem, DeleteItem
<1>13. ASSUME NEW u \in Upload, PurgeStaleUploads(u)
       PROVE  Jobs'
  BY <1>11, <1>13 DEF PurgeStaleUploads, TypeOK
<1>14. ASSUME NEW d \in Digest, Age(d) \/ Damage(d) \/ PurgeRemove(d)
       PROVE  Jobs'
  BY <1>11, <1>14 DEF Age, Damage, PurgeRemove
<1>15. ASSUME PurgeList \/ PurgeRead \/ UNCHANGED vars
       PROVE  Jobs'
  BY <1>11, <1>15 DEF PurgeList, PurgeRead
<1> QED
  BY <1>1, <1>2, <1>3, <1>4, <1>5, <1>6, <1>7, <1>8, <1>9, <1>10, <1>12, <1>13, <1>14, <1>15
     DEF Next

\* Only a registration spends, and it takes the upload away with it.
LEMMA UnspentStep ==
    ASSUME TypeOK, Jobs, Unspent, [Next]_vars
    PROVE  Unspent'
<1> USE DEF dbVars, storeVars, sweepVars, requestVars, history, vars
<1>1. ASSUME NEW r \in Request, GrantCommit(r)
      PROVE  Unspent'
  BY <1>1 DEF GrantCommit, Unspent, TypeOK
<1>2. ASSUME NEW r \in Request, Register(r)
      PROVE  Unspent'
  BY <1>2 DEF Register, Unspent, TypeOK
<1>3. ASSUME NEW r \in Request, ReceiveCommit(r)
      PROVE  Unspent'
  <2>1. /\ uploads[job[r].upload] # None /\ spent' = spent
        /\ \A u \in Upload : u # job[r].upload => uploads'[u] = uploads[u]
    BY <1>3 DEF ReceiveCommit, TypeOK
  <2> QED
    BY <2>1 DEF Unspent
<1>4. ASSUME spent' = spent, \A u \in Upload : uploads'[u] \in {uploads[u], None}
      PROVE  Unspent'
  BY <1>4 DEF Unspent
<1>5. ASSUME NEW r \in Request,
             \/ Authorize(r) \/ ExistsCommit(r) \/ Receive(r) \/ ReceiveStore(r) \/ Confirm(r)
             \/ Discard(r) \/ BrowserAsk(r) \/ BrowserStore(r) \/ BrowserCommit(r) \/ Fail(r)
      PROVE  Unspent'
  BY <1>4, <1>5 DEF Authorize, ExistsCommit, Receive, ReceiveStore, Confirm, Discard, BrowserAsk,
                    BrowserStore, BrowserCommit, Fail
<1>6. ASSUME NEW i \in Item, WriteItem(i) \/ DeleteItem(i)
      PROVE  Unspent'
  BY <1>4, <1>6 DEF WriteItem, DeleteItem
<1>7. ASSUME NEW u \in Upload, PurgeStaleUploads(u)
      PROVE  Unspent'
  BY <1>4, <1>7 DEF PurgeStaleUploads, TypeOK
<1>8. ASSUME NEW d \in Digest, Age(d) \/ Damage(d) \/ PurgeRemove(d)
      PROVE  Unspent'
  BY <1>4, <1>8 DEF Age, Damage, PurgeRemove
<1>9. ASSUME PurgeList \/ PurgeRead \/ UNCHANGED vars
      PROVE  Unspent'
  BY <1>4, <1>9 DEF PurgeList, PurgeRead
<1> QED
  BY <1>1, <1>2, <1>3, <1>5, <1>6, <1>7, <1>8, <1>9 DEF Next

-----------------------------------------------------------------------------
(* The store *)

\* Steps after which nothing refers to a digest that did not before.
LEMMA UsersShrink ==
    ASSUME \A u \in Upload : \/ uploads'[u] \in {uploads[u], None}
                             \/ ~uploads'[u].received,
           \A q \in Request : \/ pc'[q] = pc[q] /\ job'[q] = job[q]
                              \/ pc'[q] \in {"idle", "granted", "sending", "confirmed", "asked"},
           NEW d
    PROVE  /\ Flying(d)' => Flying(d)
           /\ Found(d)' => Found(d)
           /\ Discarding(d)' => Discarding(d)
<1>1. Flying(d)' => Flying(d)
  <2>1. ASSUME NEW u \in Upload, uploads'[u] # None, uploads'[u].received,
               StoredDigest(uploads'[u].file) = d
        PROVE  Flying(d)
    <3>1. uploads'[u] = uploads[u]
      BY <2>1
    <3> QED
      BY <2>1, <3>1 DEF Flying
  <2>2. ASSUME NEW r \in Request, pc'[r] \in {"stored", "sent"}, StoredDigest(job'[r].file) = d
        PROVE  Flying(d)
    <3>1. pc'[r] = pc[r] /\ job'[r] = job[r]
      BY <2>2
    <3> QED
      BY <2>2, <3>1 DEF Flying
  <2> QED
    BY <2>1, <2>2 DEF Flying, StoredDigest
<1>2. Found(d)' => Found(d)
  BY DEF Found, StoredDigest
<1>3. Discarding(d)' => Discarding(d)
  BY DEF Discarding, StoredDigest
<1> QED
  BY <1>1, <1>2, <1>3

\* Steps that leave the file of a digest alone, and add nothing that refers
\* to it.
LEMMA KeptFrame ==
    ASSUME NEW d, Kept(d), store'[d] = store[d],
           d \in damaged => d \in damaged', d \in raced => d \in raced', d \in old' => d \in old,
           Listed(d)' => Listed(d), d \in doomed' => d \in doomed,
           Flying(d)' => Flying(d), Held(d)' => Held(d),
           Found(d)' => Found(d), Discarding(d)' => Discarding(d)
    PROVE  Kept(d)'
BY DEF Kept, Served

\* The new file of a digest is as it should be, and marks the removals that
\* are under way.
LEMMA PutKept ==
    ASSUME TypeOK, NEW d \in Digest, PutInPlace(d), NEW e \in Digest, Kept(e),
           UNCHANGED <<items, candidates, doomed>>,
           e # d => (Flying(e)' => Flying(e)), Found(e)' => Found(e),
           Discarding(e)' => Discarding(e)
    PROVE  Kept(e)'
<1>1. Held(e)' <=> Held(e)
  BY DEF Held
<1>2. Listed(e)' <=> Listed(e)
  BY DEF Listed
<1>3. CASE e # d
  <2>1. /\ store'[e] = store[e] /\ (e \in damaged <=> e \in damaged')
        /\ (e \in raced <=> e \in raced') /\ (e \in old' => e \in old) /\ doomed' = doomed
    BY <1>3 DEF PutInPlace, TypeOK
  <2> QED
    BY <1>1, <1>2, <1>3, <2>1, KeptFrame
<1>4. CASE e = d
  <2>1. store'[d] = "whole" /\ d \notin old'
    BY DEF PutInPlace, TypeOK
  <2>2. Listed(d) \/ d \in doomed \/ Discarding(d) => d \in raced'
    BY DEF PutInPlace, Listed, Discarding
  <2> QED
    BY <1>1, <1>2, <1>4, <2>1, <2>2 DEF Kept, Served
<1> QED
  BY <1>3, <1>4

\* A file is removed that nothing needs, or that crossed what needs it.
LEMMA UnlinkKept ==
    ASSUME TypeOK, NEW d \in Digest, Unlink(d), NEW e \in Digest, Kept(e),
           UNCHANGED <<items, candidates, damaged>>,
           raced \subseteq raced', doomed' \subseteq doomed,
           Flying(e)' => Flying(e), Found(e)' => Found(e), Discarding(e)' => Discarding(e),
           Flying(d)' \/ Held(d)' \/ Found(d)' => d \in damaged \/ d \in raced'
    PROVE  Kept(e)'
<1>1. Held(e)' <=> Held(e)
  BY DEF Held
<1>2. Listed(e)' <=> Listed(e)
  BY DEF Listed
<1>3. CASE e # d
  <2>1. store'[e] = store[e] /\ (e \in old' => e \in old)
    BY <1>3 DEF Unlink, TypeOK
  <2> QED
    BY <1>1, <1>2, <2>1, KeptFrame
<1>4. CASE e = d
  <2>1. store'[d] = "absent" /\ d \notin old'
    BY DEF Unlink, TypeOK
  <2> QED
    BY <1>1, <1>2, <1>4, <2>1 DEF Kept, Served
<1> QED
  BY <1>3, <1>4

\* An attachment is given a file: one that is served, and that is marked if
\* the sweep is about to remove it.
LEMMA AttachKept ==
    ASSUME TypeOK, NEW i \in Item, NEW md5 \in Digest \cup {None},
           NEW registered \in Digest \cup {None}, Attach(i, md5, registered),
           NEW e \in Digest, Kept(e),
           UNCHANGED <<store, old, damaged, candidates, doomed>>, raced \subseteq raced',
           Flying(e)' => Flying(e), Found(e)' => Found(e), Discarding(e)' => Discarding(e),
           registered = e => Held(e) \/ (Served(e) /\ (e \in doomed => e \in raced'))
    PROVE  Kept(e)'
<1>1. Held(e)' => Held(e) \/ registered = e
  BY AttachType DEF Held
<1>2. Listed(e)' <=> Listed(e)
  BY DEF Listed
<1>3. Served(e) => Served(e)'
  BY DEF Served
<1> QED
  BY <1>1, <1>2, <1>3 DEF Kept

LEMMA KeptStep ==
    ASSUME TypeOK, Jobs, AllKept, [Next]_vars
    PROVE  AllKept'
<1> USE DEF dbVars, storeVars, sweepVars, requestVars, history, vars
<1> SUFFICES ASSUME NEW e \in Digest
             PROVE  Kept(e)'
  BY DEF AllKept
<1>0. Kept(e) /\ \A d \in Digest : Kept(d)
  BY DEF AllKept
\* Steps that leave the attachments, the store and the sweep alone.
<1>1. ASSUME UNCHANGED <<items, store, old, damaged, raced, candidates, doomed>>,
             Flying(e)' => Flying(e), Found(e)' => Found(e), Discarding(e)' => Discarding(e)
      PROVE  Kept(e)'
  <2>1. Held(e)' => Held(e)
    BY <1>1 DEF Held
  <2>2. Listed(e)' => Listed(e)
    BY <1>1 DEF Listed
  <2> QED
    BY <1>0, <1>1, <2>1, <2>2, KeptFrame
<1>2. ASSUME NEW r \in Request, Authorize(r)
      PROVE  Kept(e)'
  <2>1. PICK f \in File, i \in Item, held \in BOOLEAN :
            /\ held \in AlreadyHeld(f)
            /\ pc' = [pc EXCEPT ![r] = IF held THEN "exists" ELSE "granted"]
            /\ job' = [job EXCEPT ![r] = [NoJob EXCEPT !.item = i, !.file = f]]
    <3>1. \A f \in File : StoredDigest(f) \in Digest
      BY StoredDigestType
    <3>2. \A f \in File : AlreadyHeld(f) \subseteq BOOLEAN
      BY <3>1 DEF AlreadyHeld, TypeOK
    <3> QED
      BY <1>2, <3>2 DEF Authorize
  <2>2. /\ pc'[r] = (IF held THEN "exists" ELSE "granted") /\ job'[r].file = f
        /\ uploads' = uploads
        /\ \A q \in Request \ {r} : pc'[q] = pc[q] /\ job'[q] = job[q]
    BY <1>2, <2>1 DEF Authorize, TypeOK, NoJob
  <2>3. Flying(e)' => Flying(e)
    BY <2>2 DEF Flying, StoredDigest
  <2>4. Discarding(e)' => Discarding(e)
    BY <2>2 DEF Discarding, StoredDigest
  <2>5. Found(e)' => Found(e) \/ (held /\ StoredDigest(f) = e)
    BY <2>2 DEF Found, StoredDigest
  <2>6. held /\ StoredDigest(f) = e => Served(e)
    <3>1. store[e] \in {"absent", "whole", "damaged"}
      BY DEF TypeOK
    <3> QED
      BY <1>0, <2>1, <3>1 DEF AlreadyHeld, Kept, Served
  <2>7. UNCHANGED <<items, store, old, damaged, raced, candidates, doomed>>
    BY <1>2 DEF Authorize
  <2>8. /\ Held(e)' <=> Held(e)
        /\ Listed(e)' <=> Listed(e)
        /\ Served(e)' <=> Served(e)
    BY <2>7 DEF Held, Listed, Served
  <2> QED
    BY <1>0, <2>3, <2>4, <2>5, <2>6, <2>7, <2>8 DEF Kept
<1>3. ASSUME NEW r \in Request, ExistsCommit(r)
      PROVE  Kept(e)'
  <2> DEFINE d == StoredDigest(job[r].file)
  <2>1. job[r].item \in Item /\ job[r].file \in File
    BY <1>3 DEF ExistsCommit, Jobs, JobOf
  <2>2. d \in Digest /\ job[r].file.md5 \in Digest
    BY <2>1, StoredDigestType
  <2>3. Attach(job[r].item, job[r].file.md5, d) /\ Finish(r) /\ uploads' = uploads
    BY <1>3 DEF ExistsCommit
  <2>4. /\ Flying(e)' => Flying(e)
        /\ Found(e)' => Found(e)
        /\ Discarding(e)' => Discarding(e)
    BY <2>3, FinishType, UsersShrink
  <2>5. /\ UNCHANGED <<store, old, damaged, candidates, doomed>> /\ raced \subseteq raced'
        /\ d = e => (e \in doomed => e \in raced')
    BY <1>3 DEF ExistsCommit
  <2>6. d = e => Found(e)
    BY <1>3 DEF ExistsCommit, Found
  <2>7. d = e => Served(e) /\ (e \in doomed => e \in raced')
    BY <1>0, <2>5, <2>6 DEF Kept
  <2> HIDE DEF d
  <2> QED
    BY <1>0, <2>1, <2>2, <2>3, <2>4, <2>5, <2>7, AttachKept
<1>4. ASSUME NEW r \in Request, GrantCommit(r)
      PROVE  Kept(e)'
  <2>1. \A u \in Upload : uploads'[u] \in {uploads[u], None} \/ ~uploads'[u].received
    BY <1>4 DEF GrantCommit, TypeOK
  <2>2. Finish(r) /\ UNCHANGED <<items, store, old, damaged, raced, candidates, doomed>>
    BY <1>4 DEF GrantCommit
  <2> QED
    BY <1>1, <2>1, <2>2, FinishType, UsersShrink
<1>5. ASSUME NEW r \in Request, Receive(r) \/ BrowserAsk(r)
      PROVE  Kept(e)'
  <2>1. /\ pc'[r] \in {"sending", "asked"} /\ uploads' = uploads
        /\ \A q \in Request \ {r} : pc'[q] = pc[q] /\ job'[q] = job[q]
        /\ UNCHANGED <<items, store, old, damaged, raced, candidates, doomed>>
    BY <1>5 DEF Receive, BrowserAsk, TypeOK
  <2> QED
    BY <1>1, <2>1, UsersShrink
<1>6. ASSUME NEW r \in Request, ReceiveStore(r)
      PROVE  Kept(e)'
  <2> DEFINE d == StoredDigest(job[r].file)
  <2>1. d \in Digest
    BY <1>6, StoredDigestType DEF ReceiveStore, Jobs, JobOf
  <2>2. /\ PutInPlace(d) /\ pc'[r] = "stored" /\ job' = job /\ uploads' = uploads
        /\ \A q \in Request \ {r} : pc'[q] = pc[q]
        /\ UNCHANGED <<items, candidates, doomed>>
    BY <1>6 DEF ReceiveStore, TypeOK
  <2>3. /\ e # d => (Flying(e)' => Flying(e))
        /\ Found(e)' => Found(e)
        /\ Discarding(e)' => Discarding(e)
    BY <2>2 DEF Flying, Found, Discarding, StoredDigest
  <2> HIDE DEF d
  <2> QED
    BY <1>0, <2>1, <2>2, <2>3, PutKept
<1>7. ASSUME NEW r \in Request, ReceiveCommit(r)
      PROVE  Kept(e)'
  <2> DEFINE v == job[r].upload
  <2>1. /\ v \in Upload /\ uploads[v] \in UploadRow /\ uploads[v].file = job[r].file
        /\ pc[r] = "stored"
    BY <1>7 DEF ReceiveCommit, Jobs, JobOf, TypeOK
  <2>2. Finish(r) /\ UNCHANGED <<items, store, old, damaged, raced, candidates, doomed>>
    BY <1>7 DEF ReceiveCommit
  <2>3. /\ uploads'[v].file = job[r].file
        /\ \A u \in Upload : u # v => uploads'[u] = uploads[u]
    BY <1>7, <2>1 DEF ReceiveCommit, TypeOK, UploadRow
  <2>4. /\ pc'[r] = "idle"
        /\ \A q \in Request \ {r} : pc'[q] = pc[q] /\ job'[q] = job[q]
    BY <2>2, FinishType
  <2>5. Found(e)' => Found(e)
    BY <2>4 DEF Found, StoredDigest
  <2>6. Discarding(e)' => Discarding(e)
    BY <2>4 DEF Discarding, StoredDigest
  <2>7. Flying(e)' => Flying(e)
    BY <2>1, <2>3, <2>4 DEF Flying, StoredDigest
  <2> QED
    BY <1>1, <2>2, <2>5, <2>6, <2>7
<1>8. ASSUME NEW r \in Request, Confirm(r)
      PROVE  Kept(e)'
  <2>1. PICK u \in Upload :
          /\ uploads[u] # None /\ IsFile(StoredDigest(uploads[u].file))
          /\ job' = [job EXCEPT ![r] = [NoJob EXCEPT !.item = uploads[u].item,
                 !.file = uploads[u].file, !.upload = u,
                 !.loaded = [items[uploads[u].item] EXCEPT !.version = 0]]]
          /\ \/ pc' = [pc EXCEPT ![r] = "confirmed"]
             \/ /\ store[StoredDigest(uploads[u].file)] = "damaged"
                /\ pc' = [pc EXCEPT ![r] = "discarding"]
    BY <1>8 DEF Confirm
  <2> DEFINE d == StoredDigest(uploads[u].file)
  <2>2. /\ job'[r].file = uploads[u].file
        /\ pc'[r] = "confirmed" \/ (pc'[r] = "discarding" /\ store[d] = "damaged")
        /\ \A q \in Request \ {r} : pc'[q] = pc[q] /\ job'[q] = job[q]
        /\ UNCHANGED <<uploads, items, store, old, damaged, raced, candidates, doomed>>
    BY <1>8, <2>1 DEF Confirm, TypeOK, NoJob
  <2>3. Flying(e)' => Flying(e)
    BY <2>2 DEF Flying, StoredDigest
  <2>4. Found(e)' => Found(e)
    BY <2>2 DEF Found, StoredDigest
  <2>5. Discarding(e)' => Discarding(e) \/ (d = e /\ store[e] = "damaged")
    BY <2>2 DEF Discarding, StoredDigest
  <2>6. d = e /\ store[e] = "damaged" => e \in damaged
    BY <1>0, <2>1 DEF IsFile, Kept, TypeOK
  <2>7. /\ Held(e)' <=> Held(e)
        /\ Listed(e)' <=> Listed(e)
        /\ Served(e)' <=> Served(e)
    BY <2>2 DEF Held, Listed, Served
  <2> HIDE DEF d
  <2> QED
    BY <1>0, <2>2, <2>3, <2>4, <2>5, <2>6, <2>7 DEF Kept
<1>9. ASSUME NEW r \in Request, Discard(r)
      PROVE  Kept(e)'
  <2> DEFINE d == StoredDigest(job[r].file)
  <2>1. d \in Digest
    BY <1>9, StoredDigestType DEF Discard, Jobs, JobOf
  <2>2. /\ Unlink(d) /\ Finish(r)
        /\ UNCHANGED <<uploads, items, candidates, damaged, raced, doomed>>
    BY <1>9 DEF Discard
  <2>3. /\ Flying(e)' => Flying(e)
        /\ Found(e)' => Found(e)
        /\ Discarding(e)' => Discarding(e)
    BY <2>2, FinishType, UsersShrink
  <2>4. d \in damaged \/ d \in raced
    <3>1. Discarding(d)
      BY <1>9 DEF Discard, Discarding
    <3> QED
      BY <1>0, <2>1, <3>1 DEF Kept
  <2> HIDE DEF d
  <2> QED
    BY <1>0, <2>1, <2>2, <2>3, <2>4, UnlinkKept
<1>10. ASSUME NEW r \in Request, Register(r)
       PROVE  Kept(e)'
  <2> DEFINE row == uploads[job[r].upload]
             w == Written(r, row.file)
  <2>1. /\ job[r].upload \in Upload /\ job[r].item \in Item /\ row \in UploadRow /\ row # None
        /\ row.received
    BY <1>10 DEF Register, Jobs, JobOf, TypeOK
  <2>2. row.item \in Item /\ row.file \in File
    BY <2>1 DEF UploadRow
  <2>3. /\ w.md5 \in Digest \cup {None}
        /\ w.registered \in {items[job[r].item].registered, StoredDigest(row.file)}
        /\ w.registered \in Digest \cup {None}
    BY <2>1, <2>2, WrittenType
  <2>4. /\ Attach(row.item, w.md5, w.registered) /\ Finish(r)
        /\ uploads' = [uploads EXCEPT ![job[r].upload] = None]
        /\ UNCHANGED <<store, old, damaged, raced, candidates, doomed>>
    BY <1>10 DEF Register
  <2>5. \A u \in Upload : uploads'[u] \in {uploads[u], None}
    BY <2>4 DEF TypeOK
  <2>6. /\ Flying(e)' => Flying(e)
        /\ Found(e)' => Found(e)
        /\ Discarding(e)' => Discarding(e)
    BY <2>4, <2>5, FinishType, UsersShrink
  <2>7. StoredDigest(row.file) = e => Flying(e)
    BY <2>1 DEF Flying
  <2>8. items[job[r].item].registered = e => Held(e)
    BY <2>1 DEF Held
  <2>9. w.registered = e => Held(e) \/ (Served(e) /\ (e \in doomed => e \in raced'))
    BY <1>0, <2>3, <2>4, <2>7, <2>8 DEF Kept
  <2> HIDE DEF row, w
  <2> QED
    BY <1>0, <2>2, <2>3, <2>4, <2>6, <2>9, AttachKept
<1>11. ASSUME NEW r \in Request, BrowserStore(r)
       PROVE  Kept(e)'
  <2> DEFINE d == job[r].file.md5
  <2>1. /\ job[r].file \in File /\ job[r].file.zip = None
    BY <1>11 DEF BrowserStore, Jobs, JobOf
  <2>2. d \in Digest /\ StoredDigest(job[r].file) = d
    BY <2>1, StoredDigestType
  <2>3. /\ UNCHANGED <<items, job, uploads, candidates, doomed>>
        /\ \A q \in Request \ {r} : pc'[q] = pc[q]
    BY <1>11 DEF BrowserStore, TypeOK
  <2>4. CASE IsFile(d)
    <3>1. pc'[r] = "kept" /\ UNCHANGED <<store, old, damaged, raced>>
      BY <1>11, <2>4 DEF BrowserStore, TypeOK
    <3>2. Flying(e)' => Flying(e)
      BY <2>3, <3>1 DEF Flying, StoredDigest
    <3>3. Discarding(e)' => Discarding(e)
      BY <2>3, <3>1 DEF Discarding, StoredDigest
    <3>4. Found(e)' => Found(e) \/ e = d
      BY <2>2, <2>3, <3>1 DEF Found, StoredDigest
    <3>5. e = d => Served(e)
      BY <1>0, <2>4 DEF IsFile, Kept, Served, TypeOK
    <3>6. /\ Held(e)' <=> Held(e)
          /\ Listed(e)' <=> Listed(e)
          /\ Served(e)' <=> Served(e)
      BY <2>3, <3>1 DEF Held, Listed, Served
    <3> QED
      BY <1>0, <2>3, <3>1, <3>2, <3>3, <3>4, <3>5, <3>6 DEF Kept
  <2>5. CASE ~IsFile(d)
    <3>1. pc'[r] = "sent" /\ PutInPlace(d)
      BY <1>11, <2>5 DEF BrowserStore, TypeOK
    <3>2. /\ e # d => (Flying(e)' => Flying(e))
          /\ Found(e)' => Found(e)
          /\ Discarding(e)' => Discarding(e)
      BY <2>2, <2>3, <3>1 DEF Flying, Found, Discarding, StoredDigest
    <3> HIDE DEF d
    <3> QED
      BY <1>0, <2>2, <2>3, <3>1, <3>2, PutKept
  <2> QED
    BY <2>4, <2>5
<1>12. ASSUME NEW r \in Request, BrowserCommit(r)
       PROVE  Kept(e)'
  <2> DEFINE d == job[r].file.md5
  <2>1. /\ job[r].item \in Item /\ job[r].file \in File /\ job[r].file.zip = None
        /\ pc[r] \in {"kept", "sent"}
    BY <1>12 DEF BrowserCommit, Jobs, JobOf
  <2>2. d \in Digest /\ StoredDigest(job[r].file) = d
    BY <2>1, StoredDigestType
  <2>3. Attach(job[r].item, d, d) /\ Finish(r) /\ uploads' = uploads
    BY <1>12 DEF BrowserCommit
  <2>4. /\ Flying(e)' => Flying(e)
        /\ Found(e)' => Found(e)
        /\ Discarding(e)' => Discarding(e)
    BY <2>3, FinishType, UsersShrink
  <2>5. /\ UNCHANGED <<store, old, damaged, candidates, doomed>> /\ raced \subseteq raced'
        /\ d = e => (e \in doomed => e \in raced')
    BY <1>12 DEF BrowserCommit
  <2>6. d = e => Found(e) \/ Flying(e)
    BY <2>1, <2>2 DEF Found, Flying
  <2>7. d = e => Served(e) /\ (e \in doomed => e \in raced')
    BY <1>0, <2>5, <2>6 DEF Kept
  <2> HIDE DEF d
  <2> QED
    BY <1>0, <2>1, <2>2, <2>3, <2>4, <2>5, <2>7, AttachKept
<1>13. ASSUME NEW r \in Request, Fail(r)
       PROVE  Kept(e)'
  <2>1. /\ Finish(r)
        /\ UNCHANGED <<uploads, items, store, old, damaged, raced, candidates, doomed>>
    BY <1>13 DEF Fail
  <2> QED
    BY <1>1, <2>1, FinishType, UsersShrink
\* The other writes of the library, and retention.
<1>14. ASSUME UNCHANGED requestVars, \A u \in Upload : uploads'[u] \in {uploads[u], None}
       PROVE  /\ Flying(e)' => Flying(e)
              /\ Found(e)' => Found(e)
              /\ Discarding(e)' => Discarding(e)
  BY <1>14, UsersShrink
<1>15. ASSUME NEW i \in Item, WriteItem(i)
       PROVE  Kept(e)'
  <2>1. PICK md5 \in Digest \cup {None} : Attach(i, md5, items[i].registered)
    BY <1>15 DEF WriteItem
  <2>2. items[i].registered \in Digest \cup {None}
    BY DEF TypeOK, Attachment
  <2>3. UNCHANGED <<uploads, pc, job, store, old, damaged, raced, candidates, doomed>>
    BY <1>15 DEF WriteItem
  <2>4. items[i].registered = e => Held(e)
    BY DEF Held
  <2> QED
    BY <1>0, <1>14, <2>1, <2>2, <2>3, <2>4, AttachKept
<1>16. ASSUME NEW i \in Item, DeleteItem(i)
       PROVE  Kept(e)'
  <2>1. /\ \A u \in Upload : uploads'[u] \in {uploads[u], None}
        /\ UNCHANGED <<pc, job, store, old, damaged, raced, candidates, doomed>>
        /\ items' = [items EXCEPT ![i] = Gone]
    BY <1>16 DEF DeleteItem
  <2>2. Held(e)' => Held(e)
    BY <2>1, FileAssumption DEF Held, Gone, TypeOK
  <2>3. Listed(e)' => Listed(e)
    BY <2>1 DEF Listed
  <2> QED
    BY <1>0, <1>14, <2>1, <2>2, <2>3, KeptFrame
<1>17. ASSUME NEW u \in Upload, PurgeStaleUploads(u)
       PROVE  Kept(e)'
  <2>1. /\ \A w \in Upload : uploads'[w] \in {uploads[w], None}
        /\ UNCHANGED <<pc, job, items, store, old, damaged, raced, candidates, doomed>>
    BY <1>17 DEF PurgeStaleUploads, TypeOK
  <2> QED
    BY <1>1, <1>14, <2>1
\* A file grows old only while no bytes of it are on their way.
<1>18. ASSUME NEW d \in Digest, Age(d)
       PROVE  Kept(e)'
  <2>1. /\ UNCHANGED <<pc, job, uploads, items, store, damaged, raced, candidates, doomed>>
        /\ old' = old \cup {d} /\ d \notin InFlight
    BY <1>18 DEF Age
  <2>2. ~Flying(d)
    BY <2>1 DEF InFlight, Flying
  <2>3. Flying(e)' => Flying(e) /\ e # d
    BY <1>14, <2>1, <2>2
  <2>4. /\ Found(e)' => Found(e)
        /\ Discarding(e)' => Discarding(e)
    BY <1>14, <2>1
  <2>5. /\ Held(e)' <=> Held(e)
        /\ Listed(e)' <=> Listed(e)
        /\ Served(e)' <=> Served(e)
    BY <2>1 DEF Held, Listed, Served
  <2> QED
    BY <1>0, <2>1, <2>3, <2>4, <2>5 DEF Kept
<1>19. ASSUME NEW d \in Digest, Damage(d)
       PROVE  Kept(e)'
  <2>1. /\ UNCHANGED <<pc, job, uploads, items, raced, candidates, doomed>>
        /\ damaged' = damaged \cup {d} /\ old' \subseteq old
        /\ e # d => store'[e] = store[e]
    BY <1>19 DEF Damage, TypeOK
  <2>2. /\ Flying(e)' => Flying(e)
        /\ Found(e)' => Found(e)
        /\ Discarding(e)' => Discarding(e)
    BY <1>14, <2>1
  <2>3. /\ Held(e)' <=> Held(e)
        /\ Listed(e)' <=> Listed(e)
    BY <2>1 DEF Held, Listed
  <2> QED
    BY <1>0, <2>1, <2>2, <2>3 DEF Kept, Served
<1>20. ASSUME NEW d \in Digest, PurgeRemove(d)
       PROVE  Kept(e)'
  <2>1. /\ UNCHANGED <<pc, job, uploads, items, damaged, candidates>>
        /\ Unlink(d) /\ d \in doomed /\ doomed' \subseteq doomed /\ raced \subseteq raced'
    BY <1>20 DEF PurgeRemove
  <2>2. \A f \in Digest : /\ Flying(f)' => Flying(f)
                          /\ Found(f)' => Found(f)
                          /\ Discarding(f)' => Discarding(f)
    BY <2>1, UsersShrink
  <2>3. Flying(d) \/ Held(d) => d \in raced'
    BY <1>0, <2>1 DEF Kept
  <2>4. Found(d) => d \in raced'
    BY <1>20 DEF PurgeRemove, Found
  <2>5. Held(d)' => Held(d)
    BY <2>1 DEF Held
  <2>6. Flying(d)' \/ Held(d)' \/ Found(d)' => d \in damaged \/ d \in raced'
    BY <2>2, <2>3, <2>4, <2>5
  <2> QED
    BY <1>0, <2>1, <2>2, <2>6, UnlinkKept
\* What the sweep lists is old, so no bytes of it are on their way ...
<1>21. ASSUME PurgeList
       PROVE  Kept(e)'
  <2>1. /\ UNCHANGED <<pc, job, uploads, items, store, old, damaged, raced, doomed>>
        /\ candidates' = old
    BY <1>21 DEF PurgeList
  <2>2. Listed(e)' => e \in old
    BY <2>1 DEF Listed
  <2>3. /\ Flying(e)' => Flying(e)
        /\ Found(e)' => Found(e)
        /\ Discarding(e)' => Discarding(e)
    BY <1>14, <2>1
  <2>4. /\ Held(e)' <=> Held(e)
        /\ Served(e)' <=> Served(e)
    BY <2>1 DEF Held, Served
  <2> QED
    BY <1>0, <2>1, <2>2, <2>3, <2>4 DEF Kept
\* ... and what it is to remove, no attachment has.
<1>22. ASSUME PurgeRead
       PROVE  Kept(e)'
  <2>1. /\ UNCHANGED <<pc, job, uploads, items, store, old, damaged, raced>>
        /\ candidates # None /\ candidates' = None /\ doomed' = candidates \ Referenced
    BY <1>22 DEF PurgeRead
  <2>2. ~Listed(e)' /\ (e \in doomed' => Listed(e) /\ ~Held(e))
    BY <2>1 DEF Listed, Held, Referenced
  <2>3. /\ Flying(e)' => Flying(e)
        /\ Found(e)' => Found(e)
        /\ Discarding(e)' => Discarding(e)
    BY <1>14, <2>1
  <2>4. /\ Held(e)' <=> Held(e)
        /\ Served(e)' <=> Served(e)
    BY <2>1 DEF Held, Served
  <2> QED
    BY <1>0, <2>1, <2>2, <2>3, <2>4 DEF Kept
<1>23. ASSUME UNCHANGED vars
       PROVE  Kept(e)'
  BY <1>1, <1>14, <1>23
<1> QED
  BY <1>2, <1>3, <1>4, <1>5, <1>6, <1>7, <1>8, <1>9, <1>10, <1>11, <1>12, <1>13, <1>15, <1>16,
     <1>17, <1>18, <1>19, <1>20, <1>21, <1>22, <1>23 DEF Next

-----------------------------------------------------------------------------
(* Theorems *)

\* Whatever crosses it, a file that something refers to is in the store, or
\* it is known what took it.
THEOREM FileStoreInvariance == Spec => []IInv
<1>1. ASSUME Init
      PROVE  IInv
  <2>1. TypeOK
    <3>1. Unfilled \subseteq Attachment
      <4>1. Gone \in Attachment
        BY FileAssumption DEF Gone, Attachment
      <4>2. \A md5 \in Digest \cup {None} :
                [Gone EXCEPT !.present = TRUE, !.md5 = md5] \in Attachment
        BY <4>1 DEF Attachment
      <4> QED
        BY <4>2 DEF Unfilled
    <3> QED
      <4>1. items \in [Item -> Attachment]
        BY <1>1, <3>1 DEF Init
      <4>2. \A r \in Request : pc[r] \in {"granted", "exists"} <=> lock = r
        <5>1. \A r \in Request : pc[r] = "idle"
          BY <1>1 DEF Init
        <5>2. \A r \in Request : lock # r
          BY <1>1, FileAssumption DEF Init
        <5> QED
          BY <5>1, <5>2
      <4>3. job \in [Request -> Job]
        BY <1>1, NoJobType DEF Init
      <4>4. version \in 0..MaxVersion
        BY <1>1, FileAssumption DEF Init
      <4>5. /\ store \in [Digest -> {"absent", "whole", "damaged"}]
            /\ uploads \in [Upload -> UploadRow \cup {None}]
            /\ pc \in [Request -> {"idle", "granted", "exists", "sending", "stored",
                                   "discarding", "confirmed", "asked", "kept", "sent"}]
        BY <1>1 DEF Init
      <4>6. /\ \A d \in old : d \in Digest /\ store[d] # "absent"
            /\ hashed \subseteq Harmed
            /\ lock \in Request \cup {None}
            /\ candidates \in (SUBSET Digest) \cup {None}
            /\ doomed \subseteq Digest
            /\ damaged \subseteq Digest
            /\ raced \subseteq Digest
            /\ spent \subseteq Upload
            /\ stale \subseteq Item
        BY <1>1 DEF Init
      <4> QED
        BY <4>1, <4>2, <4>3, <4>4, <4>5, <4>6 DEF TypeOK
  <2>2. Jobs /\ Unspent
    BY <1>1 DEF Init, Jobs, JobOf, Unspent
  <2>3. \A i \in Item : items[i].registered = None
    <3>1. \A i \in Item : items[i] \in Unfilled
      BY <1>1 DEF Init
    <3>2. ASSUME NEW md5
          PROVE  [Gone EXCEPT !.present = TRUE, !.md5 = md5].registered = None
      BY DEF Gone
    <3> QED
      BY <3>1, <3>2 DEF Unfilled
  <2>4. AllKept
    <3> SUFFICES ASSUME NEW d \in Digest
                 PROVE  Kept(d)
      BY DEF AllKept
    <3>1. ~Flying(d) /\ ~Found(d) /\ ~Discarding(d)
      BY <1>1 DEF Init, Flying, Found, Discarding
    <3>2. ~Held(d)
      BY <2>3, FileAssumption DEF Held
    <3>3. store[d] = "absent"
      BY <1>1 DEF Init
    <3> QED
      BY <3>1, <3>2, <3>3 DEF Kept
  <2> QED
    BY <2>1, <2>2, <2>4 DEF IInv
<1>2. IInv /\ [Next]_vars => IInv'
  BY TypesStep, JobsStep, UnspentStep, KeptStep DEF IInv
<1> QED
  BY <1>1, <1>2, PTL DEF Spec

\* The state of the three protocols and the sweep is as declared; the row
\* lock is held by exactly the request that is under it.
THEOREM FileStoreTypes == Spec => []TypeOK
<1>1. IInv => TypeOK
  BY DEF IInv
<1> QED
  BY <1>1, FileStoreInvariance, PTL

\* register_upload, upload_file and the exists: 1 answer never leave an
\* attachment without its file, and purge_orphans takes none, but for files
\* harmed from outside and those that cross their own removal.
THEOREM RegisteredStaysStored == Spec => []RegisteredIsStored
<1>1. IInv => RegisteredIsStored
  <2> SUFFICES ASSUME IInv, NEW i \in Item, items[i].registered # None
               PROVE  store[items[i].registered] = "whole"
                        \/ items[i].registered \in damaged \cup raced
    BY DEF RegisteredIsStored
  <2>1. items[i].registered \in Digest
    BY DEF IInv, TypeOK, Attachment
  <2>2. Held(items[i].registered)
    BY DEF Held
  <2> QED
    BY <2>1, <2>2 DEF IInv, AllKept, Kept, Served
<1> QED
  BY <1>1, FileStoreInvariance, PTL

\* An upload is registered once however its repeated requests overlap: under
\* the lock register_upload reads the upload again.
THEOREM RegisteredOnce == Spec => OncePerGrant
<1>1. ASSUME IInv, [Next]_vars, NEW r \in Request, pc[r] = "confirmed", items' # items,
             job'[r] # job[r]
      PROVE  job[r].upload \notin spent
  <2> USE DEF dbVars, storeVars, sweepVars, requestVars, history, vars
  <2>1. TypeOK /\ JobOf(r) /\ Unspent
    BY <1>1 DEF IInv, Jobs
  <2>2. ASSUME NEW q \in Request, Register(q)
        PROVE  job[r].upload \notin spent
    <3>1. q = r
      BY <1>1, <2>1, <2>2, FinishType DEF Register
    <3> QED
      BY <1>1, <2>1, <2>2, <3>1 DEF Register, JobOf, Unspent
  <2>3. ASSUME NEW q \in Request, ExistsCommit(q) \/ BrowserCommit(q)
        PROVE  FALSE
    <3>1. q # r /\ Finish(q)
      BY <1>1, <2>3 DEF ExistsCommit, BrowserCommit
    <3> QED
      BY <1>1, <2>1, <3>1, FinishType
  <2>4. ~UNCHANGED vars
    BY <1>1
  <2> QED
    BY <1>1, <2>2, <2>3, <2>4
       DEF Next, Authorize, GrantCommit, Receive, ReceiveStore, ReceiveCommit, Confirm, Discard,
           BrowserAsk, BrowserStore, Fail, WriteItem, DeleteItem, PurgeStaleUploads, Age, Damage,
           PurgeRemove, PurgeList, PurgeRead
<1>2. IInv /\ [Next]_vars =>
        [\A r \in Request : (pc[r] = "confirmed" /\ items' # items /\ job'[r] # job[r]) =>
            job[r].upload \notin spent]_vars
  BY <1>1
<1> QED
  BY <1>2, FileStoreInvariance, PTL DEF Spec, OncePerGrant

\* Whichever way an attachment is given another file, it is at a version of
\* the library that no client can hold yet.
THEOREM FileChangesAreStamped == Spec => FileChangesStamped
<1>1. ASSUME IInv, [Next]_vars, NEW i \in Item, items'[i].present,
             items'[i].registered # items[i].registered
      PROVE  items'[i].version = version' /\ version < version'
  <2> USE DEF dbVars, storeVars, sweepVars, requestVars, history, vars
  <2>1. TypeOK /\ Jobs /\ version < version + 1
    BY <1>1, FileAssumption DEF IInv, TypeOK
  <2>2. ASSUME NEW j \in Item, NEW md5 \in Digest \cup {None},
               NEW registered \in Digest \cup {None}, Attach(j, md5, registered)
        PROVE  items'[i].version = version' /\ version < version'
    <3>1. i = j
      BY <1>1, <2>1, <2>2, AttachType
    <3> QED
      BY <2>1, <2>2, <3>1, AttachType
  <2>3. ASSUME NEW q \in Request, ExistsCommit(q) \/ BrowserCommit(q)
        PROVE  items'[i].version = version' /\ version < version'
    <3>1. job[q].item \in Item /\ job[q].file \in File
      BY <2>1, <2>3 DEF ExistsCommit, BrowserCommit, Jobs, JobOf
    <3>2. StoredDigest(job[q].file) \in Digest /\ job[q].file.md5 \in Digest
      BY <3>1, StoredDigestType
    <3>3. \/ Attach(job[q].item, job[q].file.md5, StoredDigest(job[q].file))
          \/ Attach(job[q].item, job[q].file.md5, job[q].file.md5)
      BY <2>3 DEF ExistsCommit, BrowserCommit
    <3> QED
      BY <2>2, <3>1, <3>2, <3>3
  <2>4. ASSUME NEW q \in Request, Register(q)
        PROVE  items'[i].version = version' /\ version < version'
    <3> DEFINE row == uploads[job[q].upload]
               w == Written(q, row.file)
    <3>1. job[q].item \in Item /\ row \in UploadRow
      BY <2>1, <2>4 DEF Register, Jobs, JobOf, TypeOK
    <3>2. row.item \in Item /\ row.file \in File
      BY <3>1 DEF UploadRow
    <3>3. w.md5 \in Digest \cup {None} /\ w.registered \in Digest \cup {None}
      BY <2>1, <3>1, <3>2, WrittenType
    <3>4. Attach(row.item, w.md5, w.registered)
      BY <2>4 DEF Register
    <3> HIDE DEF row, w
    <3> QED
      BY <2>2, <3>2, <3>3, <3>4
  <2>5. ASSUME NEW j \in Item, WriteItem(j)
        PROVE  items'[i].version = version' /\ version < version'
    <3>1. items[j].registered \in Digest \cup {None}
      BY <2>1 DEF TypeOK, Attachment
    <3> QED
      BY <2>2, <2>5, <3>1 DEF WriteItem
  <2>6. ASSUME NEW j \in Item, DeleteItem(j)
        PROVE  FALSE
    <3>1. items' = [items EXCEPT ![j] = Gone]
      BY <2>6 DEF DeleteItem
    <3>2. CASE i = j
      BY <1>1, <2>1, <3>1, <3>2 DEF TypeOK, Gone
    <3>3. CASE i # j
      BY <1>1, <2>1, <3>1, <3>3 DEF TypeOK
    <3> QED
      BY <3>2, <3>3
  <2>7. items' # items
    BY <1>1
  <2> QED
    BY <1>1, <2>3, <2>4, <2>5, <2>6, <2>7
       DEF Next, Authorize, GrantCommit, Receive, ReceiveStore, ReceiveCommit, Confirm, Discard,
           BrowserAsk, BrowserStore, Fail, PurgeStaleUploads, Age, Damage, PurgeRemove, PurgeList,
           PurgeRead
<1>2. IInv /\ [Next]_vars =>
        [\A i \in Item :
           (items'[i].present /\ items'[i].registered # items[i].registered) =>
              items'[i].version = version' /\ version < version']_vars
  BY <1>1
<1> QED
  BY <1>2, FileStoreInvariance, PTL DEF Spec, FileChangesStamped

=============================================================================
