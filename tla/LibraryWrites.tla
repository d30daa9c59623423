--------------------------- MODULE LibraryWrites ---------------------------
(***************************************************************************)
(* The write requests of one library, running at once.  A request takes    *)
(* the library's row lock, checks the version the client last saw, claims  *)
(* its write token, raises the version, saves or removes its objects in a  *)
(* transaction of its own, and commits or is rolled back.  What a request  *)
(* has staged is its private copy of the database; the other requests see  *)
(* only what is committed.                                                 *)
(*                                                                         *)
(* Three kinds of method are told apart: "post", a batch whose objects     *)
(* succeed or fail one by one in savepoints, or a batch of settings that   *)
(* is all or nothing; "put", the write of a single object (PUT or PATCH);  *)
(* and "delete".  The body of a request is chosen as it is applied, which  *)
(* is the same as choosing it on arrival: nothing looks at it before.  An  *)
(* object that fails, or changes nothing, has its savepoint rolled back    *)
(* and leaves the staged copy as it was, so it has no step here.           *)
(***************************************************************************)
EXTENDS Naturals

CONSTANTS
    Request,      \* the requests the server may be running at one time
    Collections,  \* the keys of collections
    Items,        \* the keys of items
    Searches,     \* the keys of saved searches
    Settings,     \* the names of settings
    Value,        \* what an object can hold beside its parent
    Token,        \* the write tokens clients send
    NoParent,     \* the parent of a top-level object
    NoToken,      \* a request without a Zotero-Write-Token
    NoVersion,    \* a request or an object without a version
    Absent,       \* the content of a key that names nothing
    Nobody,       \* the lock is free
    NoWork,       \* a request that has staged nothing
    MaxVersion    \* bound on the library version

Key == Collections \cup Items \cup Searches \cup Settings

ASSUME WritesAssumption ==
    /\ MaxVersion \in Nat
    /\ NoVersion \notin Nat
    /\ NoToken \notin Token
    /\ NoParent \notin Key
    /\ Nobody \notin Request

Kinds == {Collections, Items, Searches, Settings}
Content == [value : Value, parent : Key \cup {NoParent}]

ASSUME ContentAssumption == Absent \notin Content

\* A key belongs to one table.
ASSUME KindsAssumption ==
    /\ Collections \cap (Items \cup Searches \cup Settings) = {}
    /\ Items \cap (Searches \cup Settings) = {}
    /\ Searches \cap Settings = {}

VARIABLES
    lib,          \* the committed database
    old,          \* the write tokens stored more than twelve hours ago
    lock,         \* which request holds the library's row lock
    pc,           \* how far each request has got
    req,          \* the method, keys, version and token of each request
    work,         \* what each open transaction would commit
    wrote,        \* results.any_succeeded, or "changed" of a settings write
    changed       \* history: the version that last changed what a key holds

vars == <<lib, old, lock, pc, req, work, wrote, changed>>

Object == [version : Nat, content : Content \cup {Absent}]
Database == [version : Nat, objs : [Key -> Object], log : [Key -> Nat],
             tokens : SUBSET Token]
RequestBody == [method : {"post", "put", "delete"}, keys : SUBSET Key,
                since : Nat \cup {NoVersion}, token : Token \cup {NoToken}]

NoObject == [version |-> 0, content |-> Absent]
Idle == [method |-> "post", keys |-> {}, since |-> NoVersion, token |-> NoToken]

Present(db, k) == db.objs[k].content # Absent
ForSettings(r) == req[r].keys \subseteq Settings

TypeOK ==
    /\ lib \in Database
    /\ lib.version <= MaxVersion
    /\ old \subseteq lib.tokens
    /\ lock \in Request \cup {Nobody}
    /\ pc \in [Request -> {"idle", "arrived", "locked", "apply"}]
    /\ req \in [Request -> RequestBody]
    /\ work \in [Request -> Database \cup {NoWork}]
    /\ wrote \in [Request -> BOOLEAN]
    /\ changed \in [Key -> Nat]

Init ==
    /\ lib = [version |-> 0, objs |-> [k \in Key |-> NoObject],
              log |-> [k \in Key |-> 0], tokens |-> {}]
    /\ old = {}
    /\ lock = Nobody
    /\ pc = [r \in Request |-> "idle"]
    /\ req = [r \in Request |-> Idle]
    /\ work = [r \in Request |-> NoWork]
    /\ wrote = [r \in Request |-> FALSE]
    /\ changed = [k \in Key |-> 0]

----------------------------------------------------------------------------
(***************************************************************************)
(* The checks and the effects of the service layer, on a database.         *)
(***************************************************************************)

\* Mutant of CheckLibraryVersion: off by one.
CheckLibraryVersionLate(current, expected, required) ==
    IF expected = NoVersion THEN ~required ELSE current <= expected + 1

CheckLibraryVersion(current, expected, required) ==
    IF expected = NoVersion THEN ~required ELSE current <= expected

\* A key that names nothing is at version 0, and 0 says "create this".
CheckObjectVersion(current, supplied, required) ==
    IF supplied = NoVersion THEN ~required ELSE supplied = current

BumpLibraryVersion(db) == [db EXCEPT !.version = @ + 1]

\* The rows older than twelve hours go first, then the row is inserted and
\* the unique constraint decides.
TokenUsed(db, t) == t \in db.tokens \ old
ClaimWriteToken(db, t) ==
    IF t = NoToken THEN db ELSE [db EXCEPT !.tokens = (@ \ old) \cup {t}]

\* An object's parent is another object of its kind that exists, or is not
\* named and stays what it is.  Searches and settings have none.
ParentFound(db, k, parent) ==
    \/ parent = NoParent
    \/ Present(db, k) /\ parent = db.objs[k].content.parent
    \/ /\ parent # k
       /\ \/ {k, parent} \subseteq Collections
          \/ {k, parent} \subseteq Items
       /\ Present(db, parent)

\* The version the caller names is checked against the stored object.  A
\* setting that is not stored is created whatever version is named.
VersionAccepted(db, k, supplied, required) ==
    IF Present(db, k)
    THEN CheckObjectVersion(db.objs[k].version, supplied, required)
    ELSE k \in Settings \/ CheckObjectVersion(0, supplied, FALSE)

\* Mutants of Save: a version for each object of a batch; a setting that
\* comes back and stays in the delete log.
SaveBumps(db, k, content) ==
    [db EXCEPT !.version = @ + 1,
               !.objs[k] = [version |-> db.version + 1, content |-> content],
               !.log[k] = IF k \in Settings THEN 0 ELSE @]
SaveKeepsLog(db, k, content) ==
    [db EXCEPT !.objs[k] = [version |-> db.version, content |-> content]]

\* Saving stamps the object with the request's version.  Only a setting
\* takes its row out of the delete log as it comes back.
Save(db, k, content) ==
    [db EXCEPT !.objs[k] = [version |-> db.version, content |-> content],
               !.log[k] = IF k \in Settings THEN 0 ELSE @]

\* Mutant of Remove: the rows go unlogged.
RemoveUnlogged(db, gone) ==
    [db EXCEPT !.objs = [k \in Key |-> IF k \in gone THEN NoObject ELSE @[k]]]

\* Rows go and the delete log names them; a key logged before has its row
\* moved forward.
Remove(db, gone) ==
    [db EXCEPT !.objs = [k \in Key |-> IF k \in gone THEN NoObject ELSE @[k]],
               !.log = [k \in Key |-> IF k \in gone THEN db.version ELSE @[k]]]

Children(db, above) ==
    {k \in Items : Present(db, k) /\ db.objs[k].content.parent \in above}

\* How deep the walk below a deleted item goes before it gives up.
Deepest == 16

Level(db, k) ==
    LET level[n \in 0..Deepest] ==
            IF n = 0 THEN {k}
            ELSE LET above == level[n - 1] IN Children(db, above)
    IN  level

\* Mutant of Subtree: the children stay.
SubtreeAlone(db, k) == {k}

Subtree(db, k) ==
    {c \in Items : Present(db, c) /\ \E n \in 0..Deepest : c \in Level(db, k)[n]}

\* Mutants of Promote: the nested collections stay where they are; they move
\* and keep their version.
PromoteNone(db, k) == db
PromoteUnstamped(db, k) ==
    [db EXCEPT !.objs = [c \in Key |->
        IF c \in Collections /\ @[c].content # Absent /\ @[c].content.parent = k
        THEN [@[c] EXCEPT !.content.parent = db.objs[k].content.parent]
        ELSE @[c]]]

\* The nested collections of a removed one move up to its parent, and are
\* stamped so that clients fetch where they are now.
Promote(db, k) ==
    [db EXCEPT !.objs = [c \in Key |->
        IF c \in Collections /\ @[c].content # Absent /\ @[c].content.parent = k
        THEN [version |-> db.version,
              content |-> [@[c].content EXCEPT !.parent = db.objs[k].content.parent]]
        ELSE @[c]]]

\* Mutant of Removable: the column of parents has no foreign key.
RemovableAlways(db, k) == TRUE

\* The foreign key fails the removal of a collection while others are nested
\* in it.  Promotion has moved them out, unless the collection is its own
\* parent, as each of two nested in one another becomes when the other goes.
Removable(db, k) ==
    db.objs[k].content.parent = k =>
        \A c \in Collections \ {k} : Present(db, c) => db.objs[c].content.parent # k

----------------------------------------------------------------------------
(***************************************************************************)
(* One request, step by step.                                              *)
(***************************************************************************)

\* A request reaches its handler.  The single write of a collection looks
\* the collection up before it takes the lock and answers 404 without it;
\* the object it found is not used again.  A token belongs to a batch of
\* objects.  The version it names need not be one the library has reached.
\* The single write keeps the version of its object in since.
Arrive(r) ==
    /\ pc[r] = "idle"
    /\ \E kind \in Kinds \ {{}}, method \in {"post", "put", "delete"},
          since \in (0..MaxVersion) \cup {NoVersion}, token \in Token \cup {NoToken} :
         /\ token # NoToken => method = "post" /\ kind # Settings
         /\ \E keys \in (IF method = "put" THEN {{k} : k \in kind} ELSE {kind}) :
              /\ (method = "put" /\ kind = Collections) => \A k \in keys : Present(lib, k)
              /\ req' = [req EXCEPT ![r] = [method |-> method, keys |-> keys,
                                            since |-> since, token |-> token]]
    /\ pc' = [pc EXCEPT ![r] = "arrived"]
    /\ UNCHANGED <<lib, old, lock, work, wrote, changed>>

\* Mutant of Lock: the row is read without FOR UPDATE.
LockNothing(r) ==
    /\ pc[r] = "arrived"
    /\ req[r].method = "put" => ForSettings(r)
    /\ lib.version < MaxVersion
    /\ lock' = r
    /\ work' = [work EXCEPT ![r] = lib]
    /\ pc' = [pc EXCEPT ![r] = "locked"]
    /\ UNCHANGED <<lib, old, req, wrote, changed>>

\* lock_library: the row is read again under the lock, past the identity
\* map, and nothing can be committed by another request until it is let go.
Lock(r) ==
    /\ pc[r] = "arrived"
    /\ req[r].method = "put" => ForSettings(r)
    /\ lock = Nobody
    /\ lib.version < MaxVersion
    /\ lock' = r
    /\ work' = [work EXCEPT ![r] = lib]
    /\ pc' = [pc EXCEPT ![r] = "locked"]
    /\ UNCHANGED <<lib, old, req, wrote, changed>>

\* Mutant of Prepare: the token is stored and never asked for.
PrepareAnyToken(r) ==
    /\ pc[r] = "locked"
    /\ req[r].method # "put" =>
         CheckLibraryVersion(work[r].version, req[r].since, req[r].method = "delete")
    /\ work' = [work EXCEPT ![r] = BumpLibraryVersion(ClaimWriteToken(@, req[r].token))]
    /\ pc' = [pc EXCEPT ![r] = "apply"]
    /\ UNCHANGED <<lib, old, lock, req, wrote, changed>>

\* What a locked request does before it touches an object: the version
\* precondition (required of a delete, not asked of a single setting, whose
\* header names the setting's own version), the token, the new version.
Prepare(r) ==
    /\ pc[r] = "locked"
    /\ req[r].method # "put" =>
         CheckLibraryVersion(work[r].version, req[r].since, req[r].method = "delete")
    /\ ~TokenUsed(work[r], req[r].token)
    /\ work' = [work EXCEPT ![r] = BumpLibraryVersion(ClaimWriteToken(@, req[r].token))]
    /\ pc' = [pc EXCEPT ![r] = "apply"]
    /\ UNCHANGED <<lib, old, lock, req, wrote, changed>>

\* Mutant of BumpSingle: the version is raised in the program.
BumpSingleUnlocked(r) ==
    /\ pc[r] = "arrived"
    /\ req[r].method = "put" /\ ~ForSettings(r)
    /\ lib.version < MaxVersion
    /\ lock' = r
    /\ work' = [work EXCEPT ![r] = BumpLibraryVersion(lib)]
    /\ pc' = [pc EXCEPT ![r] = "apply"]
    /\ UNCHANGED <<lib, old, req, wrote, changed>>

\* The single write of a collection, an item or a search takes no lock of
\* its own: the UPDATE that raises the version waits for the row and holds
\* it.
BumpSingle(r) ==
    /\ pc[r] = "arrived"
    /\ req[r].method = "put" /\ ~ForSettings(r)
    /\ lock = Nobody
    /\ lib.version < MaxVersion
    /\ lock' = r
    /\ work' = [work EXCEPT ![r] = BumpLibraryVersion(lib)]
    /\ pc' = [pc EXCEPT ![r] = "apply"]
    /\ UNCHANGED <<lib, old, req, wrote, changed>>

\* One object of a batch, or the object of a single write.  An object sent
\* exactly as it is stored is not written, except by the single write of a
\* collection, an item or a search.
SaveOne(r) ==
    /\ pc[r] = "apply"
    /\ req[r].method \in {"post", "put"}
    /\ req[r].method = "put" => ~wrote[r]
    /\ \E k \in req[r].keys, content \in Content,
          supplied \in (0..work[r].version) \cup {NoVersion} :
         LET single == req[r].method = "put"
             required == single /\ k \notin Settings
         IN  /\ single => supplied = req[r].since
             /\ VersionAccepted(work[r], k, supplied, required)
             /\ ParentFound(work[r], k, content.parent)
             /\ required \/ work[r].objs[k].content # content
             /\ work' = [work EXCEPT ![r] = Save(@, k, content)]
    /\ wrote' = [wrote EXCEPT ![r] = TRUE]
    /\ UNCHANGED <<lib, old, lock, pc, req, changed>>

\* One key of a delete.  A key that names nothing is passed over and has no
\* step.
DeleteOne(r) ==
    /\ pc[r] = "apply"
    /\ req[r].method = "delete"
    /\ \E k \in req[r].keys :
         /\ Present(work[r], k)
         /\ IF k \in Items
            THEN /\ Level(work[r], k)[Deepest] = {}
                 /\ work' = [work EXCEPT ![r] = Remove(@, Subtree(@, k))]
            ELSE /\ Removable(work[r], k)
                 /\ work' = [work EXCEPT ![r] = Remove(Promote(@, k), {k})]
    /\ UNCHANGED <<lib, old, lock, pc, req, wrote, changed>>

Finish(r) ==
    /\ lock' = IF lock = r THEN Nobody ELSE lock
    /\ pc' = [pc EXCEPT ![r] = "idle"]
    /\ req' = [req EXCEPT ![r] = Idle]
    /\ work' = [work EXCEPT ![r] = NoWork]
    /\ wrote' = [wrote EXCEPT ![r] = FALSE]

\* A write in which nothing succeeded, or nothing differed, is not
\* committed; a delete always is.
Commit(r) ==
    /\ pc[r] = "apply"
    /\ req[r].method = "delete" \/ wrote[r]
    /\ lib' = work[r]
    /\ old' = (old \cap work[r].tokens) \ {req[r].token}
    /\ changed' = [k \in Key |-> IF work[r].objs[k].content # lib.objs[k].content
                                THEN work[r].version ELSE changed[k]]
    /\ Finish(r)

\* Every way a request ends without its commit: an answer of 400, 404, 409,
\* 412 or 428 from any of the checks above, a batch in which nothing
\* succeeded, a wait for the lock that ran out of time, a client that went
\* away, a crash.  The database drops what was staged, token included.
Rollback(r) ==
    /\ pc[r] # "idle"
    /\ Finish(r)
    /\ UNCHANGED <<lib, old, changed>>

\* Twelve hours pass for a stored token.
Expire(t) ==
    /\ t \in lib.tokens
    /\ t \notin old
    /\ old' = old \cup {t}
    /\ UNCHANGED <<lib, lock, pc, req, work, wrote, changed>>

Next ==
    \/ \E r \in Request :
         \/ Arrive(r)
         \/ Lock(r)
         \/ Prepare(r)
         \/ BumpSingle(r)
         \/ SaveOne(r)
         \/ DeleteOne(r)
         \/ Commit(r)
         \/ Rollback(r)
    \/ \E t \in Token : Expire(t)

Spec == Init /\ [][Next]_vars

----------------------------------------------------------------------------
(***************************************************************************)
(* Safety.                                                                 *)
(***************************************************************************)

\* Writes to one library do not interleave: a transaction past the lock
\* stands on what is committed now, differs from it only where it stamped
\* or logged its own version, and nobody else has one open.
StagedOverCommitted ==
    \A r \in Request : pc[r] \in {"locked", "apply"} =>
        /\ lock = r
        /\ work[r].version = lib.version + (IF pc[r] = "apply" THEN 1 ELSE 0)
        /\ \A k \in Key :
             \/ /\ work[r].objs[k] = lib.objs[k]
                /\ work[r].log[k] = lib.log[k]
             \/ /\ Present(work[r], k)
                /\ work[r].objs[k].version = lib.version + 1
                /\ work[r].log[k] = IF k \in Settings THEN 0 ELSE lib.log[k]
             \/ /\ Present(lib, k)
                /\ work[r].objs[k] = NoObject
                /\ work[r].log[k] = lib.version + 1

\* Every parent that is named exists, after any interleaving of writes that
\* nest objects and deletes that take the parent away.
ParentsExist ==
    \A k \in Key : Present(lib, k) /\ lib.objs[k].content.parent # NoParent =>
        Present(lib, lib.objs[k].content.parent)

\* A client that syncs from any earlier version is told of every key that
\* holds something else now.
SinceIsComplete ==
    \A k \in Key : IF Present(lib, k) THEN lib.objs[k].version >= changed[k]
                                      ELSE lib.log[k] >= changed[k]

\* A write that named the version its client last saw, of the library or of
\* the object it replaces, is committed only over exactly that: nothing the
\* client had not seen is overwritten.
NoLostUpdate ==
    [][\A r \in Request :
         (pc[r] = "apply" /\ lib' # lib /\ lib' = work[r] /\ req[r].since # NoVersion) =>
            IF req[r].method = "put"
            THEN \A k \in req[r].keys :
                   (Present(lib, k) \/ ~ForSettings(r)) => lib.objs[k].version = req[r].since
            ELSE lib.version <= req[r].since]_vars

\* A write token is honoured once: a request that carries it is committed
\* only if no committed request of the last twelve hours did, and is itself
\* remembered by its own commit.
TokenHonouredOnce ==
    [][\A r \in Request :
         (pc[r] = "apply" /\ lib' # lib /\ lib' = work[r] /\ req[r].token # NoToken) =>
            /\ ~TokenUsed(lib, req[r].token)
            /\ req[r].token \in lib'.tokens \ old']_vars

\* The requests together are one sequence of atomic writes, each at a
\* version of its own, of a library that keeps its promise to a syncing
\* client.
Versions == INSTANCE LibraryVersions
              WITH version <- lib.version, objs <- lib.objs, log <- lib.log,
                   Forgets <- Settings

ImplementsVersions == Versions!Spec

\* A present object is not named by the delete log: what a client is told
\* was removed "since" is gone.
LogNamesOnlyTheRemoved ==
    \A k \in Key : Present(lib, k) => lib.log[k] = 0

\* No collection is nested in itself, however deep: some collection of every
\* set of them has its parent outside the set.  The walks over the tree count
\* on it; a save refuses only a collection named as its own parent.
NoLoop ==
    \A S \in SUBSET {k \in Collections : Present(lib, k)} :
        S # {} => \E k \in S : lib.objs[k].content.parent \notin S
============================================================================
