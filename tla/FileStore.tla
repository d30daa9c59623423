----------------------------- MODULE FileStore -----------------------------
(***************************************************************************)
(* The files of attachments.  Bytes live in one store for the instance, by *)
(* digest, outside the database; an attachment names the digest its        *)
(* metadata claims and the digest an upload registered for it.  The v3     *)
(* protocol brings a file in three requests (authorize, send, register),   *)
(* the browser in one, and an administrator may sweep away files that no   *)
(* attachment refers to.  Nothing spans the store and the database: every  *)
(* check of one against the other may be stale when it is used.            *)
(*                                                                         *)
(* One library is modelled, the store and the sweep with it.  A client     *)
(* tells the truth about a file's size, and bytes that are not what was    *)
(* promised are refused before they reach the store and have no step.      *)
(***************************************************************************)
EXTENDS Naturals

CONSTANTS
    Item,         \* the keys of attachments
    Digest,       \* what bytes in the store can hash to
    File,         \* the files clients have
    Upload,       \* the keys of uploads, as many as are authorized at a time
    Request,      \* the requests the server may be running at one time
    Harmed,       \* the digests whose stored file something outside may harm
    None,         \* no digest, no upload, no request
    MaxVersion    \* bound on the library version

\* A file's own digest, and that of the archive it is sent as, for a
\* snapshot.
ASSUME FileAssumption ==
    /\ File \subseteq [md5 : Digest, zip : Digest \cup {None}]
    /\ Harmed \subseteq Digest
    /\ None \notin Digest \cup Item \cup File \cup Upload \cup Request
    /\ MaxVersion \in Nat

VARIABLES
    version,      \* libraries.version
    items,        \* the attachments
    uploads,      \* storage_uploads
    store,        \* whether the store has a file for each digest
    old,          \* the stored files older than the grace period
    hashed,       \* the files that may be harmed whose digest is cached, by size
                  \* and mtime
    lock,         \* which request holds the library's row lock
    pc,           \* how far each request has got
    job,          \* what each request is about
    candidates,   \* the old files the sweep has listed
    doomed,       \* those it is about to remove
    damaged,      \* history: the digests whose file was harmed from outside
    raced,        \* history: the digests put, kept or handed out while being
                  \* removed
    spent,        \* history: the uploads registered
    stale         \* history: the items whose file an upload replaced that was
                  \* authorized to replace another

dbVars == <<version, items, uploads, lock>>
storeVars == <<store, old, hashed, damaged, raced>>
sweepVars == <<candidates, doomed>>
requestVars == <<pc, job>>
history == <<spent, stale>>
vars == <<version, items, uploads, store, old, hashed, lock, pc, job, candidates, doomed,
          damaged, raced, spent, stale>>

Attachment == [present : BOOLEAN, md5 : Digest \cup {None},
               registered : Digest \cup {None}, version : 0..MaxVersion]
Gone == [present |-> FALSE, md5 |-> None, registered |-> None, version |-> 0]
Unfilled == {[Gone EXCEPT !.present = TRUE, !.md5 = md5] : md5 \in Digest \cup {None}}

\* If-None-Match: * or If-Match with a digest.
Match == {"nothing"} \cup Digest

\* over is history: the file the attachment had when this was authorized.
UploadRow == [item : Item, file : File, received : BOOLEAN, over : Digest \cup {None}]

\* loaded is the attachment as the request's session first read it, without
\* its version, which no request goes by.
Job == [item : Item \cup {None}, file : File \cup {None}, match : Match,
        upload : Upload \cup {None}, loaded : Attachment]
NoJob == [item |-> None, file |-> None, match |-> "nothing", upload |-> None,
          loaded |-> Gone]

TypeOK ==
    /\ version \in 0..MaxVersion
    /\ items \in [Item -> Attachment]
    /\ uploads \in [Upload -> UploadRow \cup {None}]
    /\ store \in [Digest -> {"absent", "whole", "damaged"}]
    /\ \A d \in old : d \in Digest /\ store[d] # "absent"
    /\ hashed \subseteq Harmed
    /\ lock \in Request \cup {None}
    /\ pc \in [Request -> {"idle", "granted", "exists", "sending", "stored", "discarding",
                           "confirmed", "asked", "kept", "sent"}]
    /\ \A r \in Request : pc[r] \in {"granted", "exists"} <=> lock = r
    /\ job \in [Request -> Job]
    /\ candidates \in (SUBSET Digest) \cup {None}
    /\ doomed \subseteq Digest
    /\ damaged \subseteq Digest
    /\ raced \subseteq Digest
    /\ spent \subseteq Upload
    /\ stale \subseteq Item

\* Some attachments are there already, as their clients made them, with the
\* digest their metadata claims: their files come after.
Init ==
    /\ version = 0
    /\ items \in [Item -> Unfilled]
    /\ uploads = [u \in Upload |-> None]
    /\ store = [d \in Digest |-> "absent"]
    /\ old = {}
    /\ hashed = {}
    /\ lock = None
    /\ pc = [r \in Request |-> "idle"]
    /\ job = [r \in Request |-> NoJob]
    /\ candidates = None
    /\ doomed = {}
    /\ damaged = {}
    /\ raced = {}
    /\ spent = {}
    /\ stale = {}

----------------------------------------------------------------------------
(***************************************************************************)
(* What the requests ask.                                                  *)
(***************************************************************************)

\* The bytes go under their own digest, the archive's for a snapshot.
StoredDigest(f) == IF f.zip = None THEN f.md5 ELSE f.zip

IsFile(d) == store[d] # "absent"

\* The file an attachment has is the registered one, if it is there.
StoredMd5(i) ==
    IF items[i].registered # None /\ IsFile(items[i].registered)
    THEN items[i].registered ELSE None

\* Whether there is a file is asked of the store; which one it is, of the
\* attachment's metadata.
CheckPreconditions(i, match) ==
    IF match = "nothing" THEN StoredMd5(i) = None ELSE items[i].md5 = match

\* A file of the right size: one damaged may have kept its size or not.
AlreadyHeld(f) ==
    LET found == store[StoredDigest(f)]
    IN  CASE found = "whole" -> {TRUE}
          [] found = "absent" -> {FALSE}
          [] found = "damaged" -> BOOLEAN

\* The bytes that arrived for an upload not registered yet, or for a browser
\* whose request has not committed.
InFlight ==
    {StoredDigest(uploads[u].file) : u \in {u \in Upload : uploads[u] # None /\ uploads[u].received}}
      \cup {StoredDigest(job[r].file) : r \in {r \in Request : pc[r] \in {"stored", "sent"}}}

\* os.replace onto the digest: whole, new, and whatever was there is gone.
PutInPlace(d) ==
    /\ store' = [store EXCEPT ![d] = "whole"]
    /\ old' = old \ {d}
    /\ hashed' = hashed \ {d}
    /\ damaged' = damaged \ {d}
    /\ raced' = (raced \ {d}) \cup
                IF \/ candidates # None /\ d \in candidates
                   \/ d \in doomed
                   \/ \E q \in Request : pc[q] = "discarding" /\ StoredDigest(job[q].file) = d
                THEN {d} ELSE {}

Unlink(d) ==
    /\ store' = [store EXCEPT ![d] = "absent"]
    /\ old' = old \ {d}
    /\ hashed' = hashed \ {d}

\* Mutant of Attach: the attachment keeps the version it was at.
AttachUnstamped(i, md5, registered) ==
    /\ version < MaxVersion
    /\ version' = version + 1
    /\ items' = [items EXCEPT ![i] = [present |-> TRUE, md5 |-> md5,
                                      registered |-> registered, version |-> @.version]]

\* The attachment is at the new version of the library with this file.
Attach(i, md5, registered) ==
    /\ version < MaxVersion
    /\ version' = version + 1
    /\ items' = [items EXCEPT ![i] = [present |-> TRUE, md5 |-> md5,
                                      registered |-> registered, version |-> version + 1]]

Finish(r) ==
    /\ pc' = [pc EXCEPT ![r] = "idle"]
    /\ job' = [job EXCEPT ![r] = NoJob]

----------------------------------------------------------------------------
(***************************************************************************)
(* The three requests of the v3 protocol.                                  *)
(***************************************************************************)

\* Under the lock the precondition is checked and the store asked whether
\* it holds the file.
Authorize(r) ==
    /\ pc[r] = "idle"
    /\ lock = None
    /\ \E i \in Item, f \in File, match \in Match :
         /\ items[i].present
         /\ CheckPreconditions(i, match)
         /\ \E held \in AlreadyHeld(f) :
              pc' = [pc EXCEPT ![r] = IF held THEN "exists" ELSE "granted"]
         /\ job' = [job EXCEPT ![r] = [NoJob EXCEPT !.item = i, !.file = f]]
    /\ lock' = r
    /\ UNCHANGED <<version, items, uploads, storeVars, sweepVars, history>>

\* exists: 1.  The held file is attached with nothing sent.
ExistsCommit(r) ==
    /\ pc[r] = "exists"
    /\ LET d == StoredDigest(job[r].file)
       IN  /\ Attach(job[r].item, job[r].file.md5, d)
           /\ raced' = IF d \in doomed THEN raced \cup {d} ELSE raced
    /\ lock' = None
    /\ Finish(r)
    /\ UNCHANGED <<uploads, store, old, hashed, damaged, sweepVars, history>>

\* An upload is authorized, under a key nobody has seen before.
GrantCommit(r) ==
    /\ pc[r] = "granted"
    /\ \E u \in Upload :
         /\ uploads[u] = None
         /\ \A q \in Request : job[q].upload # u
         /\ uploads' = [uploads EXCEPT ![u] =
                         [item |-> job[r].item, file |-> job[r].file, received |-> FALSE,
                          over |-> StoredMd5(job[r].item)]]
         /\ spent' = spent \ {u}
    /\ lock' = None
    /\ Finish(r)
    /\ UNCHANGED <<version, items, storeVars, sweepVars, stale>>

\* The bytes begin to arrive; they are staged, and hashed on the way.
Receive(r) ==
    /\ pc[r] = "idle"
    /\ \E u \in Upload :
         /\ uploads[u] # None
         /\ job' = [job EXCEPT ![r] = [NoJob EXCEPT !.upload = u, !.file = uploads[u].file]]
    /\ pc' = [pc EXCEPT ![r] = "sending"]
    /\ UNCHANGED <<dbVars, storeVars, sweepVars, history>>

ReceiveStore(r) ==
    /\ pc[r] = "sending"
    /\ PutInPlace(StoredDigest(job[r].file))
    /\ pc' = [pc EXCEPT ![r] = "stored"]
    /\ UNCHANGED <<dbVars, job, sweepVars, history>>

\* received = True is committed, if the row is still there to be updated.
ReceiveCommit(r) ==
    /\ pc[r] = "stored"
    /\ uploads[job[r].upload] # None
    /\ uploads' = [uploads EXCEPT ![job[r].upload].received = TRUE]
    /\ Finish(r)
    /\ UNCHANGED <<version, items, lock, storeVars, sweepVars, history>>

\* A registration reads the attachment and the upload and then, before it
\* takes the lock, the stored file.  One that is not what was sent is to be
\* discarded, unless it kept its size and its mtime and the process answers
\* with the digest it once computed; without a file the answer is 400.
Confirm(r) ==
    /\ pc[r] = "idle"
    /\ \E u \in Upload :
         /\ uploads[u] # None
         /\ uploads[u].received
         /\ LET i == uploads[u].item
                f == uploads[u].file
                d == StoredDigest(f)
            IN  /\ items[i].present
                /\ IsFile(d)
                /\ \/ /\ store[d] = "whole" \/ d \in hashed
                      /\ pc' = [pc EXCEPT ![r] = "confirmed"]
                   \/ /\ store[d] = "damaged"
                      /\ pc' = [pc EXCEPT ![r] = "discarding"]
                /\ hashed' = IF store[d] = "whole" THEN hashed \cup ({d} \cap Harmed) ELSE hashed
                /\ job' = [job EXCEPT ![r] = [NoJob EXCEPT !.item = i, !.file = f, !.upload = u,
                                                           !.loaded = [items[i] EXCEPT !.version = 0]]]
    /\ UNCHANGED <<dbVars, store, old, damaged, raced, sweepVars, history>>

\* Whatever is under the digest by now is removed, and the answer is 400.
Discard(r) ==
    /\ pc[r] = "discarding"
    /\ Unlink(StoredDigest(job[r].file))
    /\ Finish(r)
    /\ UNCHANGED <<dbVars, damaged, raced, sweepVars, history>>

\* The session writes the fields whose value is not the one it loaded.  A
\* row of the md5 field that has appeared or gone since fails the write.
Written(r, file) ==
    LET loaded == job[r].loaded
        now == items[job[r].item]
    IN  [md5 |-> IF loaded.md5 = file.md5 THEN now.md5 ELSE file.md5,
         registered |-> IF loaded.registered = StoredDigest(file)
                        THEN now.registered ELSE StoredDigest(file),
         fails |-> loaded.md5 # file.md5 /\ (loaded.md5 = None) # (now.md5 = None)]

\* Mutant of Register: the upload read before the lock is believed.
RegisterTwice(r) ==
    /\ pc[r] = "confirmed"
    /\ lock = None
    /\ items[job[r].item].present
    /\ LET i == job[r].item
           written == Written(r, job[r].file)
       IN  /\ ~written.fails
           /\ Attach(i, written.md5, written.registered)
           /\ uploads' = [uploads EXCEPT ![job[r].upload] = None]
           /\ spent' = spent \cup {job[r].upload}
    /\ Finish(r)
    /\ UNCHANGED <<lock, storeVars, sweepVars, stale>>

\* Under the lock the upload is read again, the attachment is not, and the
\* precondition the upload was authorized under is not checked again.
Register(r) ==
    /\ pc[r] = "confirmed"
    /\ lock = None
    /\ uploads[job[r].upload] # None
    /\ LET row == uploads[job[r].upload]
           i == row.item
           written == Written(r, row.file)
       IN  /\ ~written.fails
           /\ Attach(i, written.md5, written.registered)
           /\ stale' = IF StoredMd5(i) \notin {row.over, written.registered, None}
                       THEN stale \cup {i} ELSE stale
    /\ uploads' = [uploads EXCEPT ![job[r].upload] = None]
    /\ spent' = spent \cup {job[r].upload}
    /\ Finish(r)
    /\ UNCHANGED <<lock, storeVars, sweepVars>>

----------------------------------------------------------------------------
(***************************************************************************)
(* The browser, which sends the file with its one request.                 *)
(***************************************************************************)

\* A new attachment, or one to be given another file: the precondition is
\* asked once before the bytes are read.
BrowserAsk(r) ==
    /\ pc[r] = "idle"
    /\ \E i \in Item, f \in File, match \in Match :
         /\ f.zip = None
         /\ IF items[i].present THEN CheckPreconditions(i, match) ELSE match = "nothing"
         /\ job' = [job EXCEPT ![r] = [NoJob EXCEPT !.item = i, !.file = f, !.match = match,
                                                    !.loaded.present = items[i].present]]
    /\ pc' = [pc EXCEPT ![r] = "asked"]
    /\ UNCHANGED <<dbVars, storeVars, sweepVars, history>>

\* The bytes are put under their digest, unless something is there already.
BrowserStore(r) ==
    /\ pc[r] = "asked"
    /\ IF IsFile(job[r].file.md5)
       THEN UNCHANGED storeVars /\ pc' = [pc EXCEPT ![r] = "kept"]
       ELSE PutInPlace(job[r].file.md5) /\ pc' = [pc EXCEPT ![r] = "sent"]
    /\ UNCHANGED <<dbVars, job, sweepVars, history>>

\* Everything is read again under the lock, and the precondition asked again.
BrowserCommit(r) ==
    /\ pc[r] \in {"kept", "sent"}
    /\ lock = None
    /\ LET i == job[r].item
           d == job[r].file.md5
       IN  /\ items[i].present = job[r].loaded.present
           /\ items[i].present => CheckPreconditions(i, job[r].match)
           /\ Attach(i, d, d)
           /\ raced' = IF d \in doomed THEN raced \cup {d} ELSE raced
    /\ Finish(r)
    /\ UNCHANGED <<uploads, lock, store, old, hashed, damaged, sweepVars, history>>

\* Mutant of Fail: a session that is never closed.
FailLocked(r) ==
    /\ pc[r] # "idle"
    /\ Finish(r)
    /\ UNCHANGED <<dbVars, storeVars, sweepVars, history>>

\* Any request may end without its commit: refused, failed, cut off, or the
\* server stopped.  What it put in the store stays there.
Fail(r) ==
    /\ pc[r] # "idle"
    /\ lock' = IF lock = r THEN None ELSE lock
    /\ Finish(r)
    /\ UNCHANGED <<version, items, uploads, storeVars, sweepVars, history>>

----------------------------------------------------------------------------
(***************************************************************************)
(* Everything else that touches the attachments or the store.              *)
(***************************************************************************)

\* An attachment is made, or written, with any digest in its metadata.
WriteItem(i) ==
    /\ lock = None
    /\ \E md5 \in Digest \cup {None} : Attach(i, md5, items[i].registered)
    /\ UNCHANGED <<uploads, lock, storeVars, sweepVars, requestVars, history>>

\* Its uploads go with it; the stored bytes stay.
DeleteItem(i) ==
    /\ lock = None
    /\ items[i].present
    /\ version < MaxVersion
    /\ version' = version + 1
    /\ items' = [items EXCEPT ![i] = Gone]
    /\ uploads' = [u \in Upload |->
                    IF uploads[u] # None /\ uploads[u].item = i THEN None ELSE uploads[u]]
    /\ UNCHANGED <<lock, storeVars, sweepVars, requestVars, history>>

\* Retention forgets an upload nobody finished.
PurgeStaleUploads(u) ==
    /\ uploads[u] # None
    /\ uploads' = [uploads EXCEPT ![u] = None]
    /\ UNCHANGED <<version, items, lock, storeVars, sweepVars, requestVars, history>>

\* A day passes.  No upload takes that long from its bytes to its
\* registration, which is what the grace period stands on.
Age(d) ==
    /\ IsFile(d)
    /\ d \notin old
    /\ d \notin InFlight
    /\ old' = old \cup {d}
    /\ UNCHANGED <<dbVars, requestVars, store, hashed, damaged, raced, sweepVars, history>>

\* The disk, the mount or somebody with access to it harms a file.
Damage(d) ==
    /\ d \in Harmed
    /\ store[d] = "whole"
    /\ \E left \in {"damaged", "absent"} : store' = [store EXCEPT ![d] = left]
    /\ old' = IF store'[d] = "absent" THEN old \ {d} ELSE old
    /\ hashed' = IF store'[d] = "absent" THEN hashed \ {d} ELSE hashed
    /\ damaged' = damaged \cup {d}
    /\ UNCHANGED <<dbVars, requestVars, raced, sweepVars, history>>

\* Mutant of PurgeList: no grace period.
PurgeListYoung ==
    /\ candidates = None
    /\ doomed = {}
    /\ candidates' = {d \in Digest : IsFile(d)}
    /\ UNCHANGED <<dbVars, requestVars, storeVars, doomed, history>>

\* purge_orphans lists the old files, ...
PurgeList ==
    /\ candidates = None
    /\ doomed = {}
    /\ old # {}
    /\ candidates' = old
    /\ UNCHANGED <<dbVars, requestVars, storeVars, doomed, history>>

Referenced == {items[i].registered : i \in Item}

\* ... then reads what is referenced, ...
PurgeRead ==
    /\ candidates # None
    /\ doomed' = candidates \ Referenced
    /\ candidates' = None
    /\ UNCHANGED <<dbVars, requestVars, storeVars, history>>

\* ... and removes the others one by one, without another look.
PurgeRemove(d) ==
    /\ d \in doomed
    /\ Unlink(d)
    /\ doomed' = doomed \ {d}
    /\ raced' = IF \E r \in Request : pc[r] \in {"exists", "kept"} /\ StoredDigest(job[r].file) = d
                THEN raced \cup {d} ELSE raced
    /\ UNCHANGED <<dbVars, requestVars, damaged, candidates, history>>

Next ==
    \/ \E r \in Request :
         \/ Authorize(r)
         \/ ExistsCommit(r)
         \/ GrantCommit(r)
         \/ Receive(r)
         \/ ReceiveStore(r)
         \/ ReceiveCommit(r)
         \/ Confirm(r)
         \/ Discard(r)
         \/ Register(r)
         \/ BrowserAsk(r)
         \/ BrowserStore(r)
         \/ BrowserCommit(r)
         \/ Fail(r)
    \/ \E i \in Item : WriteItem(i) \/ DeleteItem(i)
    \/ \E u \in Upload : PurgeStaleUploads(u)
    \/ \E d \in Digest : Age(d) \/ Damage(d) \/ PurgeRemove(d)
    \/ PurgeList
    \/ PurgeRead

Spec == Init /\ [][Next]_vars

----------------------------------------------------------------------------
(***************************************************************************)
(* Safety.                                                                 *)
(***************************************************************************)

\* A file that was registered can be served: it is in the store, whole,
\* unless it was harmed from outside or crossed its own removal on the way
\* in.  Every file an attachment was given, by whichever of the three ways,
\* survives any sweep the grace period is meant to shield it from.
RegisteredIsStored ==
    \A i \in Item :
        LET d == items[i].registered
        IN  d # None => store[d] = "whole" \/ d \in damaged \cup raced

\* An authorized upload is registered once, however often the client
\* repeats the request and however the repeats overlap.
OncePerGrant ==
    [][\A r \in Request :
         (pc[r] = "confirmed" /\ items' # items /\ job'[r] # job[r]) =>
            job[r].upload \notin spent]_vars

\* No attachment gets another file at a version a client may already hold.
FileChangesStamped ==
    [][\A i \in Item :
         (items'[i].present /\ items'[i].registered # items[i].registered) =>
            items'[i].version = version' /\ version < version']_vars

\* "So a client working from stale information cannot overwrite a newer
\* file" (check_preconditions).
NewerFileKept == stale = {}

\* "A file that became referenced in between is spared rather than deleted"
\* (purge_orphans): nothing but harm from outside takes a registered file.
ReferencedIsSpared ==
    \A i \in Item :
        LET d == items[i].registered
        IN  d # None => IsFile(d) \/ d \in damaged
============================================================================
