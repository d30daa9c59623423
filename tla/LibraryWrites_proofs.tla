------------------------ MODULE LibraryWrites_proofs ------------------------
(***************************************************************************)
(* Proofs about the write requests of a library, for any number of         *)
(* requests, keys, values and tokens.  The argument is the row lock's: a   *)
(* request past the lock is the only one, so what it staged still stands   *)
(* on what is committed when it commits.  WInv says so key by key, and     *)
(* tells what a batch may have staged from what a delete may have.  What a *)
(* request checked under the lock stays true in the same way; what it      *)
(* stages leaves nothing without its parent.                               *)
(***************************************************************************)
EXTENDS LibraryWrites, TLAPS

\* What a transaction may have done to one key: nothing, ...
Untouched(w, k) == w.objs[k] = lib.objs[k] /\ w.log[k] = lib.log[k]

\* ... stamped it with the new version, ...
Stamped(w, k) ==
    /\ Present(w, k)
    /\ w.objs[k].version = lib.version + 1
    /\ w.log[k] = IF k \in Settings THEN 0 ELSE lib.log[k]

\* ... or removed and logged it.
Removed(w, k) ==
    /\ Present(lib, k)
    /\ w.objs[k] = NoObject
    /\ w.log[k] = lib.version + 1

\* Only a delete removes, and a delete stamps only what was there.
StagedKey(r, k) ==
    \/ Untouched(work[r], k)
    \/ /\ Stamped(work[r], k)
       /\ req[r].method = "delete" => Present(lib, k)
    \/ /\ Removed(work[r], k)
       /\ req[r].method = "delete"

\* A request past the lock holds it, and what it staged it staged on what
\* is committed.
StagedInv ==
    \A r \in Request : pc[r] \in {"locked", "apply"} =>
        /\ lock = r
        /\ work[r] \in Database
        /\ lib.version < MaxVersion
        /\ pc[r] = "locked" => work[r] = lib
        /\ pc[r] = "apply" =>
             /\ work[r].version = lib.version + 1
             /\ \A k \in Key : StagedKey(r, k)

WInv == TypeOK /\ StagedInv

----------------------------------------------------------------------------
(***************************************************************************)
(* The operators of the service layer.                                     *)
(***************************************************************************)

LEMMA NoObjectType == NoObject \in Object
BY DEF NoObject, Object

\* Raising the version touches nothing else.
LEMMA BumpFacts ==
    ASSUME NEW db \in Database
    PROVE  /\ BumpLibraryVersion(db) \in Database
           /\ BumpLibraryVersion(db).version = db.version + 1
           /\ BumpLibraryVersion(db).objs = db.objs
           /\ BumpLibraryVersion(db).log = db.log
BY DEF BumpLibraryVersion, Database

\* Claiming a token touches only the tokens.
LEMMA ClaimFacts ==
    ASSUME NEW db \in Database, NEW t \in Token \cup {NoToken}
    PROVE  /\ ClaimWriteToken(db, t) \in Database
           /\ ClaimWriteToken(db, t).version = db.version
           /\ ClaimWriteToken(db, t).objs = db.objs
           /\ ClaimWriteToken(db, t).log = db.log
BY DEF ClaimWriteToken, Database

\* Saving stamps one key and clears the row of a setting.
LEMMA SaveFacts ==
    ASSUME NEW db \in Database, NEW k \in Key, NEW content \in Content
    PROVE  /\ Save(db, k, content) \in Database
           /\ Save(db, k, content).version = db.version
           /\ \A j \in Key :
                /\ Save(db, k, content).objs[j] =
                     IF j = k THEN [version |-> db.version, content |-> content]
                              ELSE db.objs[j]
                /\ Save(db, k, content).log[j] =
                     IF j = k /\ k \in Settings THEN 0 ELSE db.log[j]
<1>1. [version |-> db.version, content |-> content] \in Object
  BY DEF Object, Database
<1> QED BY <1>1 DEF Save, Database

\* Removing drops and logs the keys named and leaves the others.
LEMMA RemoveFacts ==
    ASSUME NEW db \in Database, NEW gone \in SUBSET Key
    PROVE  /\ Remove(db, gone) \in Database
           /\ Remove(db, gone).version = db.version
           /\ \A j \in Key :
                /\ Remove(db, gone).objs[j] = IF j \in gone THEN NoObject ELSE db.objs[j]
                /\ Remove(db, gone).log[j] = IF j \in gone THEN db.version ELSE db.log[j]
BY NoObjectType DEF Remove, Database

\* Promotion stamps collections that were there and leaves the rest.
LEMMA PromoteFacts ==
    ASSUME NEW db \in Database, NEW k \in Key, Present(db, k)
    PROVE  /\ Promote(db, k) \in Database
           /\ Promote(db, k).version = db.version
           /\ Promote(db, k).log = db.log
           /\ \A j \in Key :
                \/ Promote(db, k).objs[j] = db.objs[j]
                \/ /\ j \in Collections
                   /\ Present(db, j)
                   /\ Promote(db, k).objs[j].version = db.version
                   /\ Promote(db, k).objs[j].content \in Content
<1> DEFINE moved(j) == [version |-> db.version,
                        content |-> [db.objs[j].content EXCEPT
                                       !.parent = db.objs[k].content.parent]]
           nested(j) == /\ j \in Collections
                        /\ db.objs[j].content # Absent
                        /\ db.objs[j].content.parent = k
<1>1. Promote(db, k) = [db EXCEPT !.objs =
          [j \in Key |-> IF nested(j) THEN moved(j) ELSE db.objs[j]]]
  BY DEF Promote, Database
<1>2. ASSUME NEW j \in Key, nested(j)
      PROVE  moved(j).content \in Content /\ moved(j) \in Object
  <2>1. db.objs[j].content \in Content /\ db.objs[k].content \in Content
    BY <1>2 DEF Database, Object, Present
  <2>2. moved(j).content \in Content
    BY <2>1 DEF Content
  <2> QED BY <2>2 DEF Object, Database
<1>3. [j \in Key |-> IF nested(j) THEN moved(j) ELSE db.objs[j]] \in [Key -> Object]
  BY <1>2 DEF Database
<1>4. Promote(db, k) \in Database
  BY <1>1, <1>3 DEF Database
<1>5. ASSUME NEW j \in Key
      PROVE  Promote(db, k).objs[j] = IF nested(j) THEN moved(j) ELSE db.objs[j]
  BY <1>1 DEF Database
<1>6. Promote(db, k).version = db.version /\ Promote(db, k).log = db.log
  BY <1>1 DEF Database
<1>7. ASSUME NEW j \in Key
      PROVE  \/ Promote(db, k).objs[j] = db.objs[j]
             \/ /\ j \in Collections
                /\ Present(db, j)
                /\ Promote(db, k).objs[j].version = db.version
                /\ Promote(db, k).objs[j].content \in Content
  <2>1. CASE nested(j)
    <3>1. moved(j).version = db.version
      OBVIOUS
    <3> QED BY <2>1, <3>1, <1>2, <1>5 DEF Present
  <2>2. CASE ~nested(j)
    BY <2>2, <1>5
  <2> QED BY <2>1, <2>2
<1> QED BY <1>4, <1>6, <1>7

\* The items removed with one are items that exist.
LEMMA SubtreeFacts ==
    ASSUME NEW db, NEW k
    PROVE  Subtree(db, k) \in SUBSET Key /\ \A c \in Subtree(db, k) : Present(db, c)
BY DEF Subtree, Key

----------------------------------------------------------------------------
(***************************************************************************)
(* The inductive invariant.                                                *)
(***************************************************************************)

LEMMA InitInv == Init => WInv
BY WritesAssumption, NoObjectType
   DEF Init, WInv, TypeOK, StagedInv, Database, RequestBody, Idle

\* Steps that stage nothing and leave the staging of the others alone.
LEMMA ArriveInv ==
    ASSUME WInv, NEW r \in Request, Arrive(r)
    PROVE  WInv'
<1>1. req' \in [Request -> RequestBody]
  <2>1. PICK kind \in Kinds \ {{}}, method \in {"post", "put", "delete"},
             since \in (0..MaxVersion) \cup {NoVersion}, token \in Token \cup {NoToken} :
           \E keys \in (IF method = "put" THEN {{k} : k \in kind} ELSE {kind}) :
              req' = [req EXCEPT ![r] = [method |-> method, keys |-> keys,
                                         since |-> since, token |-> token]]
    BY DEF Arrive
  <2>2. PICK keys \in (IF method = "put" THEN {{k} : k \in kind} ELSE {kind}) :
              req' = [req EXCEPT ![r] = [method |-> method, keys |-> keys,
                                         since |-> since, token |-> token]]
    BY <2>1
  <2>3. keys \in SUBSET Key
    BY <2>1, <2>2 DEF Kinds, Key
  <2>4. since \in Nat \cup {NoVersion}
    BY WritesAssumption
  <2> QED BY <2>2, <2>3, <2>4 DEF WInv, TypeOK, RequestBody
<1>2. TypeOK'
  BY <1>1 DEF WInv, TypeOK, Arrive
<1>3. \A q \in Request : pc'[q] \in {"locked", "apply"} =>
         q # r /\ pc'[q] = pc[q] /\ req'[q] = req[q]
  BY DEF WInv, TypeOK, Arrive
<1>4. UNCHANGED <<lib, lock, work>>
  BY DEF Arrive
<1>5. StagedInv'
  BY <1>3, <1>4 DEF WInv, StagedInv, StagedKey, Untouched, Stamped, Removed, Present
<1> QED BY <1>2, <1>5 DEF WInv

\* The lock is free, so nobody else is past it.
LEMMA LockInv ==
    ASSUME WInv, NEW r \in Request, Lock(r)
    PROVE  WInv'
<1>1. TypeOK'
  BY DEF WInv, TypeOK, Lock
<1>2. \A q \in Request : pc[q] \notin {"locked", "apply"}
  BY WritesAssumption DEF WInv, StagedInv, Lock
<1>3. \A q \in Request : pc'[q] \in {"locked", "apply"} => q = r
  BY <1>2 DEF WInv, TypeOK, Lock
<1>4. pc'[r] = "locked" /\ work'[r] = lib /\ lock' = r /\ lib' = lib
  BY DEF WInv, TypeOK, Lock
<1>5. StagedInv'
  BY <1>3, <1>4 DEF WInv, TypeOK, StagedInv, Lock
<1> QED BY <1>1, <1>5 DEF WInv

LEMMA PrepareInv ==
    ASSUME WInv, NEW r \in Request, Prepare(r)
    PROVE  WInv'
<1> DEFINE claimed == ClaimWriteToken(work[r], req[r].token)
<1>1. /\ pc[r] = "locked" /\ lock = r /\ work[r] = lib /\ lib \in Database
      /\ lib.version < MaxVersion /\ req[r].token \in Token \cup {NoToken}
  BY DEF WInv, TypeOK, StagedInv, Prepare, RequestBody
<1>2. /\ claimed \in Database
      /\ claimed.version = lib.version /\ claimed.objs = lib.objs /\ claimed.log = lib.log
  BY <1>1, ClaimFacts
<1>3. /\ work'[r] = BumpLibraryVersion(claimed)
      /\ \A q \in Request : q # r => work'[q] = work[q] /\ pc'[q] = pc[q]
      /\ pc'[r] = "apply"
      /\ UNCHANGED <<lib, lock, req>>
  BY DEF Prepare, WInv, TypeOK
<1> HIDE DEF claimed
<1>4. /\ work'[r] \in Database /\ work'[r].version = lib.version + 1
      /\ work'[r].objs = lib.objs /\ work'[r].log = lib.log
  BY <1>2, <1>3, BumpFacts
<1>5. TypeOK'
  BY <1>4 DEF WInv, TypeOK, Prepare
<1>6. \A q \in Request : pc'[q] \in {"locked", "apply"} => q = r
  BY <1>1, <1>3 DEF WInv, StagedInv
<1>7. StagedInv'
  BY <1>1, <1>3, <1>4, <1>6 DEF StagedInv, StagedKey, Untouched
<1> QED BY <1>5, <1>7 DEF WInv

LEMMA BumpSingleInv ==
    ASSUME WInv, NEW r \in Request, BumpSingle(r)
    PROVE  WInv'
<1>1. lib \in Database /\ lib.version < MaxVersion /\ lock = Nobody
  BY DEF WInv, TypeOK, BumpSingle
<1>2. \A q \in Request : pc[q] \notin {"locked", "apply"}
  BY <1>1, WritesAssumption DEF WInv, StagedInv
<1>3. /\ work'[r] = BumpLibraryVersion(lib)
      /\ \A q \in Request : q # r => pc'[q] = pc[q]
      /\ pc'[r] = "apply" /\ lock' = r
      /\ UNCHANGED <<lib, req>>
  BY DEF BumpSingle, WInv, TypeOK
<1>4. /\ work'[r] \in Database /\ work'[r].version = lib.version + 1
      /\ work'[r].objs = lib.objs /\ work'[r].log = lib.log
  BY <1>1, <1>3, BumpFacts
<1>5. TypeOK'
  BY <1>4 DEF WInv, TypeOK, BumpSingle
<1>6. StagedInv'
  BY <1>1, <1>2, <1>3, <1>4 DEF StagedInv, StagedKey, Untouched
<1> QED BY <1>5, <1>6 DEF WInv

\* A step that replaces what the lock's holder staged keeps the invariant
\* if what it staged before and after differs key by key as allowed.
LEMMA RestageInv ==
    ASSUME WInv, NEW r \in Request, pc[r] = "apply",
           NEW w \in Database, w.version = work[r].version,
           work' = [work EXCEPT ![r] = w],
           wrote' \in [Request -> BOOLEAN],
           UNCHANGED <<lib, old, lock, pc, req, changed>>,
           \A k \in Key : \/ Untouched(w, k)
                          \/ /\ Stamped(w, k)
                             /\ req[r].method = "delete" => Present(lib, k)
                          \/ /\ Removed(w, k)
                             /\ req[r].method = "delete"
    PROVE  WInv'
<1>1. /\ lock = r /\ lib.version < MaxVersion /\ w.version = lib.version + 1
  BY DEF WInv, StagedInv
<1>2. /\ work'[r] = w
      /\ \A q \in Request : pc'[q] \in {"locked", "apply"} => q = r
  BY <1>1 DEF WInv, TypeOK, StagedInv
<1>3. TypeOK'
  BY <1>2 DEF WInv, TypeOK
<1>4. StagedInv'
  BY <1>1, <1>2 DEF StagedInv, StagedKey, Untouched, Stamped, Removed, Present
<1> QED BY <1>3, <1>4 DEF WInv

LEMMA SaveOneInv ==
    ASSUME WInv, NEW r \in Request, SaveOne(r)
    PROVE  WInv'
<1>1. PICK k \in req[r].keys, content \in Content :
          work' = [work EXCEPT ![r] = Save(work[r], k, content)]
  BY DEF SaveOne, WInv, TypeOK
<1> DEFINE w == Save(work[r], k, content)
<1>2. /\ work[r] \in Database /\ work[r].version = lib.version + 1
      /\ \A j \in Key : StagedKey(r, j)
      /\ req[r].method # "delete" /\ pc[r] = "apply"
  BY DEF WInv, StagedInv, SaveOne
<1>3. k \in Key
  BY <1>1 DEF WInv, TypeOK, RequestBody
<1>4. /\ w \in Database /\ w.version = work[r].version
      /\ \A j \in Key :
           /\ w.objs[j] = IF j = k THEN [version |-> work[r].version, content |-> content]
                                   ELSE work[r].objs[j]
           /\ w.log[j] = IF j = k /\ k \in Settings THEN 0 ELSE work[r].log[j]
  BY <1>2, <1>3, SaveFacts
<1> HIDE DEF w
<1>5. ASSUME NEW j \in Key
      PROVE  Untouched(w, j) \/ Stamped(w, j)
  <2>1. Untouched(work[r], j) \/ Stamped(work[r], j)
    BY <1>2 DEF StagedKey
  <2>2. CASE j = k
    BY <2>1, <2>2, <1>2, <1>4, ContentAssumption DEF Untouched, Stamped, Present
  <2>3. CASE j # k
    BY <2>1, <2>3, <1>4 DEF Untouched, Stamped, Present
  <2> QED BY <2>2, <2>3
<1>6. work' = [work EXCEPT ![r] = w]
  BY <1>1 DEF w
<1>7. wrote' \in [Request -> BOOLEAN] /\ UNCHANGED <<lib, old, lock, pc, req, changed>>
  BY DEF SaveOne, WInv, TypeOK
<1> QED BY <1>2, <1>4, <1>5, <1>6, <1>7, RestageInv

\* Dropping keys that are there, from a delete's staging, is a delete's
\* staging again.
LEMMA RemoveStaged ==
    ASSUME TypeOK, NEW db \in Database, db.version = lib.version + 1,
           NEW gone \in SUBSET Key, \A j \in gone : Present(db, j),
           \A j \in Key : \/ Untouched(db, j)
                          \/ Stamped(db, j) /\ Present(lib, j)
                          \/ Removed(db, j),
           NEW j \in Key
    PROVE  \/ Untouched(Remove(db, gone), j)
           \/ Stamped(Remove(db, gone), j) /\ Present(lib, j)
           \/ Removed(Remove(db, gone), j)
<1> DEFINE w == Remove(db, gone)
<1>1. /\ w.objs[j] = IF j \in gone THEN NoObject ELSE db.objs[j]
      /\ w.log[j] = IF j \in gone THEN db.version ELSE db.log[j]
  BY RemoveFacts
<1> HIDE DEF w
<1>2. CASE j \in gone
  <2>1. Present(lib, j)
    BY <1>2 DEF Untouched, Removed, Present, NoObject
  <2> QED BY <2>1, <1>1, <1>2 DEF w, Removed
<1>3. CASE j \notin gone
  BY <1>1, <1>3 DEF w, Untouched, Stamped, Removed, Present
<1> QED BY <1>2, <1>3

\* Promotion stamps what is there, so a delete's staging stays one.
LEMMA PromoteStaged ==
    ASSUME TypeOK, NEW db \in Database, db.version = lib.version + 1,
           NEW k \in Key, Present(db, k),
           \A j \in Key : \/ Untouched(db, j)
                          \/ Stamped(db, j) /\ Present(lib, j)
                          \/ Removed(db, j),
           NEW j \in Key
    PROVE  \/ Untouched(Promote(db, k), j)
           \/ Stamped(Promote(db, k), j) /\ Present(lib, j)
           \/ Removed(Promote(db, k), j)
<1> DEFINE w == Promote(db, k)
<1>1. w.log[j] = db.log[j]
  BY PromoteFacts
<1>2. CASE w.objs[j] = db.objs[j]
  BY <1>1, <1>2 DEF Untouched, Stamped, Removed, Present
<1>3. CASE w.objs[j] # db.objs[j]
  <2>1. /\ j \in Collections /\ Present(db, j)
        /\ w.objs[j].version = db.version /\ w.objs[j].content \in Content
    BY <1>3, PromoteFacts
  <2>2. Untouched(db, j) \/ (Stamped(db, j) /\ Present(lib, j))
    BY <2>1 DEF Removed, Present, NoObject
  <2>3. Present(lib, j) /\ Present(w, j)
    BY <2>1, <2>2, ContentAssumption DEF Untouched, Present
  <2>4. w.log[j] = IF j \in Settings THEN 0 ELSE lib.log[j]
    <3>1. j \notin Settings
      BY <2>1, KindsAssumption
    <3> QED BY <3>1, <2>2, <1>1 DEF Untouched, Stamped
  <2> QED BY <2>1, <2>3, <2>4 DEF Stamped
<1> QED BY <1>2, <1>3

LEMMA DeleteOneInv ==
    ASSUME WInv, NEW r \in Request, DeleteOne(r)
    PROVE  WInv'
<1> DEFINE allowed(db, j) == \/ Untouched(db, j)
                             \/ Stamped(db, j) /\ Present(lib, j)
                             \/ Removed(db, j)
<1>1. /\ work[r] \in Database /\ work[r].version = lib.version + 1
      /\ \A j \in Key : StagedKey(r, j)
      /\ req[r].method = "delete" /\ pc[r] = "apply"
      /\ req[r].keys \in SUBSET Key
      /\ wrote' \in [Request -> BOOLEAN]
      /\ UNCHANGED <<lib, old, lock, pc, req, changed>>
  BY DEF WInv, TypeOK, StagedInv, DeleteOne, RequestBody
<1>2. \A j \in Key : allowed(work[r], j)
  BY <1>1 DEF StagedKey
<1>3. PICK k \in req[r].keys :
        /\ Present(work[r], k)
        /\ \/ work' = [work EXCEPT ![r] = Remove(work[r], Subtree(work[r], k))]
           \/ work' = [work EXCEPT ![r] = Remove(Promote(work[r], k), {k})]
  BY DEF DeleteOne, WInv, TypeOK
<1>4. CASE work' = [work EXCEPT ![r] = Remove(work[r], Subtree(work[r], k))]
  <2> DEFINE gone == Subtree(work[r], k)
             w == Remove(work[r], gone)
  <2>1. gone \in SUBSET Key /\ \A j \in gone : Present(work[r], j)
    BY SubtreeFacts
  <2> HIDE DEF gone
  <2>2. w \in Database /\ w.version = work[r].version
    BY <1>1, <2>1, RemoveFacts
  <2>3. \A j \in Key : allowed(w, j)
    BY <1>1, <1>2, <2>1, RemoveStaged DEF WInv
  <2>4. work' = [work EXCEPT ![r] = w]
    BY <1>4 DEF gone
  <2> HIDE DEF w
  <2> QED BY <1>1, <2>2, <2>3, <2>4, RestageInv
<1>5. CASE work' = [work EXCEPT ![r] = Remove(Promote(work[r], k), {k})]
  <2> DEFINE p == Promote(work[r], k)
             w == Remove(p, {k})
  <2>1. p \in Database /\ p.version = lib.version + 1
    BY <1>1, <1>3, PromoteFacts
  <2>2. \A j \in Key : allowed(p, j)
    BY <1>1, <1>2, <1>3, PromoteStaged DEF WInv
  <2>3. Present(p, k)
    BY <1>1, <1>3, PromoteFacts, ContentAssumption DEF Present
  <2>4. work' = [work EXCEPT ![r] = w]
    BY <1>5
  <2> HIDE DEF p
  <2>5. {k} \in SUBSET Key
    BY <1>1, <1>3
  <2>6. w \in Database /\ w.version = work[r].version
    BY <1>1, <2>1, <2>5, RemoveFacts
  <2>7. \A j \in Key : allowed(w, j)
    BY <2>1, <2>2, <2>3, <2>5, RemoveStaged DEF WInv
  <2> HIDE DEF w
  <2> QED BY <1>1, <2>4, <2>6, <2>7, RestageInv
<1> QED BY <1>3, <1>4, <1>5

\* Ending a request lets the lock go and drops what was staged.
LEMMA FinishFacts ==
    ASSUME WInv, NEW r \in Request, Finish(r)
    PROVE  /\ lock' \in Request \cup {Nobody}
           /\ pc' \in [Request -> {"idle", "arrived", "locked", "apply"}]
           /\ req' \in [Request -> RequestBody]
           /\ work' \in [Request -> Database \cup {NoWork}]
           /\ wrote' \in [Request -> BOOLEAN]
           /\ pc'[r] = "idle"
           /\ \A q \in Request : q # r =>
                /\ pc'[q] = pc[q] /\ req'[q] = req[q] /\ work'[q] = work[q]
                /\ lock = q => lock' = q
BY DEF WInv, TypeOK, Finish, Idle, RequestBody

LEMMA CommitInv ==
    ASSUME WInv, NEW r \in Request, Commit(r)
    PROVE  WInv'
<1>1. /\ work[r] \in Database /\ work[r].version = lib.version + 1
      /\ lib.version < MaxVersion /\ lock = r
  BY DEF WInv, StagedInv, Commit
<1>2. Finish(r) /\ lib' = work[r]
  BY DEF Commit
<1>3. \A q \in Request : pc'[q] \notin {"locked", "apply"}
  BY <1>1, <1>2, FinishFacts DEF WInv, StagedInv
<1>4. StagedInv'
  BY <1>3 DEF StagedInv
<1>5. changed' \in [Key -> Nat]
  BY <1>1 DEF Commit, WInv, TypeOK, Database
<1>6. lib' \in Database /\ lib'.version <= MaxVersion
  BY <1>1, <1>2, WritesAssumption DEF WInv, TypeOK, Database
<1>7. old' \subseteq lib'.tokens
  BY DEF Commit
<1>8. TypeOK'
  BY <1>2, <1>5, <1>6, <1>7, FinishFacts DEF TypeOK
<1> QED BY <1>4, <1>8 DEF WInv

LEMMA RollbackInv ==
    ASSUME WInv, NEW r \in Request, Rollback(r)
    PROVE  WInv'
<1>1. Finish(r) /\ UNCHANGED <<lib, old, changed>>
  BY DEF Rollback
<1>2. TypeOK'
  BY <1>1, FinishFacts DEF WInv, TypeOK
<1>3. StagedInv'
  BY <1>1, FinishFacts DEF WInv, StagedInv, StagedKey, Untouched, Stamped, Removed, Present
<1> QED BY <1>2, <1>3 DEF WInv

LEMMA ExpireInv ==
    ASSUME WInv, NEW t \in Token, Expire(t)
    PROVE  WInv'
BY DEF Expire, WInv, TypeOK, StagedInv, StagedKey, Untouched, Stamped, Removed, Present

LEMMA StutterInv ==
    ASSUME WInv, UNCHANGED vars
    PROVE  WInv'
BY DEF vars, WInv, TypeOK, StagedInv, StagedKey, Untouched, Stamped, Removed, Present

LEMMA NextInv == WInv /\ [Next]_vars => WInv'
BY ArriveInv, LockInv, PrepareInv, BumpSingleInv, SaveOneInv, DeleteOneInv, CommitInv,
   RollbackInv, ExpireInv, StutterInv
   DEF Next

\* The inductive invariant holds of every reachable state.
THEOREM Invariance == Spec => []WInv
BY InitInv, NextInv, PTL DEF Spec

\* The state is as declared; the library's version keeps to its bound.
THEOREM WritesTypes == Spec => []TypeOK
<1>1. WInv => TypeOK
  BY DEF WInv
<1> QED BY <1>1, Invariance, PTL

\* A transaction past the lock stands on what is committed, for any number
\* of concurrent requests.
THEOREM LockSerializes == Spec => []StagedOverCommitted
<1>1. WInv => StagedOverCommitted
  <2> SUFFICES ASSUME WInv, NEW r \in Request, pc[r] \in {"locked", "apply"}
               PROVE  /\ lock = r
                      /\ work[r].version = lib.version + (IF pc[r] = "apply" THEN 1 ELSE 0)
                      /\ \A k \in Key : Untouched(work[r], k) \/ Stamped(work[r], k)
                                          \/ Removed(work[r], k)
    BY DEF StagedOverCommitted, Untouched, Stamped, Removed
  <2>1. CASE pc[r] = "locked"
    BY <2>1 DEF WInv, TypeOK, Database, StagedInv, Untouched
  <2>2. CASE pc[r] = "apply"
    BY <2>2 DEF WInv, StagedInv, StagedKey
  <2> QED BY <2>1, <2>2
<1> QED BY <1>1, Invariance, PTL

----------------------------------------------------------------------------
(***************************************************************************)
(* The requests implement LibraryVersions: a commit is a write, and every  *)
(* other step leaves the committed database as it was.                     *)
(***************************************************************************)

\* The keys a commit saves and those it removes.
SavedBy(r) == {k \in Key : Stamped(work[r], k)}
RemovedBy(r) == {k \in Key : Removed(work[r], k)}

LEMMA CommitIsWrite ==
    ASSUME WInv, NEW r \in Request, Commit(r)
    PROVE  Versions!Write
<1> DEFINE written == SavedBy(r)
           removed == RemovedBy(r)
           saved == [k \in written |-> work[r].objs[k].content]
           w == work[r]
<1>1. /\ w \in Database /\ w.version = lib.version + 1 /\ lib.version < MaxVersion
      /\ \A k \in Key : Untouched(w, k) \/ Stamped(w, k) \/ Removed(w, k)
      /\ lib \in Database /\ lib' = w
  BY DEF WInv, TypeOK, StagedInv, StagedKey, Commit
<1>2. written \in SUBSET Key /\ removed \in SUBSET {k \in Key : Versions!Present(k)}
  BY DEF SavedBy, RemovedBy, Removed, Present, Versions!Present
<1>3. written \cap removed = {}
  BY DEF SavedBy, RemovedBy, Stamped, Removed, Present, NoObject
<1>4. saved \in [written -> Content]
  BY <1>1, <1>2 DEF SavedBy, Stamped, Present, Database, Object
<1>5. ASSUME NEW k \in Key
      PROVE  /\ w.objs[k] = IF k \in written
                            THEN [version |-> lib.version + 1, content |-> saved[k]]
                            ELSE IF k \in removed THEN NoObject ELSE lib.objs[k]
             /\ w.log[k] = IF k \in removed THEN lib.version + 1
                           ELSE IF k \in written /\ k \in Settings THEN 0 ELSE lib.log[k]
  <2>1. CASE k \in written
    <3>1. w.objs[k].version = lib.version + 1 /\ w.objs[k].content = saved[k]
      BY <2>1 DEF SavedBy, Stamped
    <3>2. w.objs[k] = [version |-> lib.version + 1, content |-> saved[k]]
      BY <3>1, <1>1 DEF Database, Object
    <3>3. k \notin removed /\ w.log[k] = IF k \in Settings THEN 0 ELSE lib.log[k]
      BY <2>1, <1>3 DEF SavedBy, Stamped
    <3> QED BY <2>1, <3>2, <3>3
  <2>2. CASE k \in removed
    BY <2>2, <1>3 DEF RemovedBy, Removed
  <2>3. CASE k \notin written /\ k \notin removed
    BY <2>3, <1>1 DEF SavedBy, RemovedBy, Untouched
  <2> QED BY <2>1, <2>2, <2>3
<1> DEFINE new == lib.version + 1
           objsAfter == [k \in Key |->
                           IF k \in written
                           THEN [version |-> new, content |-> saved[k]]
                           ELSE IF k \in removed THEN NoObject ELSE lib.objs[k]]
           logAfter == [k \in Key |->
                           IF k \in removed THEN new
                           ELSE IF k \in written /\ k \in Settings THEN 0 ELSE lib.log[k]]
<1>6. DOMAIN saved = written
  OBVIOUS
<1> HIDE DEF written, removed, saved
<1>7. w.objs = objsAfter /\ w.log = logAfter
  <2>1. w.objs \in [Key -> Object] /\ w.log \in [Key -> Nat]
    BY <1>1 DEF Database
  <2> QED BY <1>5, <2>1
<1>8. changed' = [k \in Key |-> IF lib'.objs[k].content # lib.objs[k].content
                               THEN new ELSE changed[k]]
  BY <1>1 DEF Commit
<1>9. Versions!Apply(saved, removed)
  BY <1>1, <1>6, <1>7, <1>8 DEF Versions!Apply, Versions!NoObject, NoObject
<1> QED BY <1>1, <1>2, <1>3, <1>4, <1>9 DEF Versions!Write

\* Every step of the requests is a write of the library, or none at all.
LEMMA StepIsWrite == WInv /\ [Next]_vars => [Versions!Next]_Versions!vars
<1> SUFFICES ASSUME WInv, [Next]_vars
             PROVE  Versions!Write \/ UNCHANGED Versions!vars
  BY DEF Versions!Next
<1>1. ASSUME NEW r \in Request, Commit(r) PROVE Versions!Write
  BY <1>1, CommitIsWrite
<1>2. ASSUME UNCHANGED <<lib, changed>> PROVE UNCHANGED Versions!vars
  BY <1>2 DEF Versions!vars
<1> QED BY <1>1, <1>2 DEF Next, vars, Arrive, Lock, Prepare, BumpSingle, SaveOne, DeleteOne,
           Rollback, Expire

LEMMA InitIsInit == Init => Versions!Init
BY DEF Init, Versions!Init, Versions!NoObject, NoObject

\* Concurrent requests, each in its own transaction, are one sequence of
\* atomic writes at consecutive versions.
THEOREM Refinement == Spec => ImplementsVersions
BY Invariance, StepIsWrite, InitIsInit, PTL DEF Spec, Versions!Spec, ImplementsVersions

\* Nothing committed carries a version the library has not reached, and a
\* client is told of every key that holds something else since any version.
TellsAll ==
    \A k \in Key :
        /\ lib.objs[k].version <= lib.version
        /\ lib.log[k] <= lib.version
        /\ changed[k] <= lib.version
        /\ IF Present(lib, k) THEN lib.objs[k].version >= changed[k]
                              ELSE lib.log[k] >= changed[k]

\* One key of a commit: as it was, or at the new version, which no change
\* before it can exceed.
LEMMA CommitTells ==
    ASSUME WInv, TellsAll, NEW r \in Request, Commit(r)
    PROVE  TellsAll'
<1> SUFFICES ASSUME NEW k \in Key
             PROVE  /\ lib'.objs[k].version <= lib'.version
                    /\ lib'.log[k] <= lib'.version
                    /\ changed'[k] <= lib'.version
                    /\ IF Present(lib', k) THEN lib'.objs[k].version >= changed'[k]
                                           ELSE lib'.log[k] >= changed'[k]
  BY DEF TellsAll
<1>1. /\ lib' = work[r] /\ work[r].version = lib.version + 1
      /\ Untouched(work[r], k) \/ Stamped(work[r], k) \/ Removed(work[r], k)
      /\ changed'[k] = IF work[r].objs[k].content # lib.objs[k].content
                       THEN work[r].version ELSE changed[k]
  BY DEF Commit, WInv, StagedInv, StagedKey
<1>2. /\ lib.version \in Nat /\ changed[k] \in Nat
      /\ lib.objs[k].version \in Nat /\ lib.log[k] \in Nat
  BY DEF WInv, TypeOK, Database, Object
<1>3. /\ lib.objs[k].version <= lib.version /\ lib.log[k] <= lib.version
      /\ changed[k] <= lib.version
      /\ IF Present(lib, k) THEN lib.objs[k].version >= changed[k]
                            ELSE lib.log[k] >= changed[k]
  BY DEF TellsAll
<1>4. CASE Untouched(work[r], k)
  BY <1>1, <1>2, <1>3, <1>4 DEF Untouched, Present
<1>5. CASE Stamped(work[r], k)
  BY <1>1, <1>2, <1>3, <1>5 DEF Stamped
<1>6. CASE Removed(work[r], k)
  BY <1>1, <1>2, <1>3, <1>6 DEF Removed, Present, NoObject
<1> QED BY <1>1, <1>4, <1>5, <1>6

\* What LibraryVersions promises of its state holds of the committed
\* database, whatever requests there are: a client is told of everything
\* that changed since any version.
THEOREM SinceIsAlwaysComplete == Spec => []SinceIsComplete
<1>1. Init => TellsAll
  BY DEF Init, TellsAll, Present, NoObject
<1>2. WInv /\ TellsAll /\ [Next]_vars => TellsAll'
  <2>1. ASSUME TellsAll, UNCHANGED <<lib, changed>>
        PROVE  TellsAll'
    BY <2>1 DEF TellsAll, Present
  <2> QED BY <2>1, CommitTells DEF Next, vars, Arrive, Lock, Prepare, BumpSingle, SaveOne,
             DeleteOne, Rollback, Expire
<1>3. TellsAll => SinceIsComplete
  BY DEF TellsAll, SinceIsComplete
<1> QED BY <1>1, <1>2, <1>3, Invariance, PTL DEF Spec

----------------------------------------------------------------------------
(***************************************************************************)
(* Parents.                                                                *)
(***************************************************************************)

\* Every parent is there, and is of its children's kind.
Rooted(db) ==
    \A k \in Key : Present(db, k) /\ db.objs[k].content.parent # NoParent =>
        LET parent == db.objs[k].content.parent
        IN  /\ Present(db, parent)
            /\ {k, parent} \subseteq Collections \/ {k, parent} \subseteq Items

PInv ==
    /\ Rooted(lib)
    /\ \A r \in Request : pc[r] = "apply" => Rooted(work[r])

\* The levels below an item are well defined: there is a function that is
\* the first n of them, for 0, for one more, and so for Deepest.
LevelsUpTo(db, k, n) ==
    \E f : f = [m \in 0..n |-> IF m = 0 THEN {k} ELSE Children(db, f[m - 1])]

LEMMA LevelDef ==
    ASSUME NEW db, NEW k
    PROVE  Level(db, k) =
             CHOOSE f : f = [m \in 0..Deepest |->
                               IF m = 0 THEN {k} ELSE Children(db, f[m - 1])]
BY DEF Level

LEMMA LevelsExtend ==
    ASSUME NEW db, NEW k, NEW n \in Nat, LevelsUpTo(db, k, n)
    PROVE  LevelsUpTo(db, k, n + 1)
<1>1. PICK f : f = [m \in 0..n |-> IF m = 0 THEN {k} ELSE Children(db, f[m - 1])]
  BY DEF LevelsUpTo
<1> DEFINE g == [m \in 0..(n + 1) |-> IF m = n + 1 THEN Children(db, f[n]) ELSE f[m]]
<1>2. ASSUME NEW m \in 0..(n + 1)
      PROVE  g[m] = IF m = 0 THEN {k} ELSE Children(db, g[m - 1])
  <2>1. CASE m = n + 1
    BY <2>1
  <2>2. CASE m # n + 1
    <3>1. m \in 0..n /\ (m # 0 => m - 1 \in 0..n)
      BY <2>2
    <3>2. g[m] = f[m] /\ (m # 0 => g[m - 1] = f[m - 1])
      BY <3>1
    <3> QED
      BY <1>1, <3>1, <3>2
  <2> QED
    BY <2>1, <2>2
<1> DEFINE next == [m \in 0..(n + 1) |-> IF m = 0 THEN {k} ELSE Children(db, g[m - 1])]
<1>3. g = next
  BY <1>2
<1> QED
  BY <1>3 DEF LevelsUpTo

LEMMA LevelsExist ==
    ASSUME NEW db, NEW k
    PROVE  LevelsUpTo(db, k, Deepest)
<1> HIDE DEF LevelsUpTo
<1>1. LevelsUpTo(db, k, 0)
  <2> DEFINE f == [m \in 0..0 |-> {k}]
  <2>1. f = [m \in 0..0 |-> IF m = 0 THEN {k} ELSE Children(db, f[m - 1])]
    OBVIOUS
  <2> QED
    BY <2>1 DEF LevelsUpTo
<1>2. \A n \in Nat : LevelsUpTo(db, k, n) => LevelsUpTo(db, k, n + 1)
  BY LevelsExtend
<1>3. \A n \in Nat : LevelsUpTo(db, k, n) => LevelsUpTo(db, k, n + 2)
  <2> SUFFICES ASSUME NEW n \in Nat, LevelsUpTo(db, k, n) PROVE LevelsUpTo(db, k, n + 2)
    OBVIOUS
  <2>1. LevelsUpTo(db, k, n + 1) /\ n + 1 \in Nat /\ n + 1 + 1 = n + 2
    BY <1>2
  <2> QED
    BY <1>2, <2>1
<1>4. \A n \in Nat : LevelsUpTo(db, k, n) => LevelsUpTo(db, k, n + 4)
  <2> SUFFICES ASSUME NEW n \in Nat, LevelsUpTo(db, k, n) PROVE LevelsUpTo(db, k, n + 4)
    OBVIOUS
  <2>1. LevelsUpTo(db, k, n + 2) /\ n + 2 \in Nat /\ n + 2 + 2 = n + 4
    BY <1>3
  <2> QED
    BY <1>3, <2>1
<1>5. LevelsUpTo(db, k, 4) /\ LevelsUpTo(db, k, 8)
  BY <1>1, <1>4
<1>6. LevelsUpTo(db, k, 12) /\ LevelsUpTo(db, k, 16)
  BY <1>5, <1>4
<1> QED
  BY <1>6 DEF Deepest

\* Each level is the children of the one above.
LEMMA LevelFacts ==
    ASSUME NEW db, NEW k
    PROVE  /\ Level(db, k)[0] = {k}
           /\ \A n \in 0..Deepest - 1 : Level(db, k)[n + 1] = Children(db, Level(db, k)[n])
<1> DEFINE level == Level(db, k)
<1>1. level = [m \in 0..Deepest |-> IF m = 0 THEN {k} ELSE Children(db, level[m - 1])]
  <2>1. \E f : f = [m \in 0..Deepest |-> IF m = 0 THEN {k} ELSE Children(db, f[m - 1])]
    <3>1. LevelsUpTo(db, k, Deepest)
      BY LevelsExist
    <3> QED
      BY <3>1 DEF LevelsUpTo
  <2> QED
    BY <2>1, LevelDef
<1> HIDE DEF level
<1>2. level[0] = {k}
  BY <1>1 DEF Deepest
<1>3. ASSUME NEW m \in 1..Deepest
      PROVE  level[m] = Children(db, level[m - 1])
  <2>1. m \in 0..Deepest /\ m # 0
    BY DEF Deepest
  <2> QED
    BY <1>1, <2>1
<1>4. ASSUME NEW n \in 0..Deepest - 1
      PROVE  level[n + 1] = Children(db, level[n])
  <2>1. n + 1 \in 1..Deepest /\ (n + 1) - 1 = n
    BY DEF Deepest
  <2>2. level[n + 1] = Children(db, level[(n + 1) - 1])
    BY <1>3, <2>1
  <2> QED
    BY <2>1, <2>2
<1> QED
  BY <1>2, <1>4 DEF level

\* The children of what goes go with it.
LEMMA SubtreeClosed ==
    ASSUME NEW db, NEW k \in Items, Present(db, k), Level(db, k)[Deepest] = {},
           NEW c \in Items, Present(db, c), db.objs[c].content.parent \in Subtree(db, k)
    PROVE  c \in Subtree(db, k)
<1> DEFINE p == db.objs[c].content.parent
<1>1. PICK n \in 0..Deepest : p \in Level(db, k)[n]
  BY DEF Subtree
<1>2. n # Deepest
  BY <1>1
<1>3. n \in 0..Deepest - 1 /\ n + 1 \in 0..Deepest
  BY <1>2 DEF Deepest
<1>4. c \in Level(db, k)[n + 1]
  BY <1>1, <1>3, LevelFacts DEF Children
<1> QED
  BY <1>3, <1>4 DEF Subtree

\* Whether parents are there is a matter of the objects only.
LEMMA SameObjectsRooted ==
    ASSUME NEW db, NEW w, w.objs = db.objs, Rooted(db)
    PROVE  Rooted(w)
BY DEF Rooted, Present

LEMMA SaveRooted ==
    ASSUME NEW db \in Database, NEW k \in Key, NEW content \in Content, Rooted(db),
           ParentFound(db, k, content.parent)
    PROVE  Rooted(Save(db, k, content))
<1> DEFINE w == Save(db, k, content)
<1>1. \A j \in Key : w.objs[j] = IF j = k THEN [version |-> db.version, content |-> content]
                                          ELSE db.objs[j]
  BY SaveFacts
<1> HIDE DEF w
<1>2. \A j \in Key : Present(db, j) => Present(w, j)
  BY <1>1, ContentAssumption DEF Present
<1>3. ASSUME NEW j \in Key, Present(w, j), w.objs[j].content.parent # NoParent
      PROVE  LET parent == w.objs[j].content.parent
             IN  /\ Present(db, parent) /\ parent \in Key
                 /\ {j, parent} \subseteq Collections \/ {j, parent} \subseteq Items
  <2>1. CASE j # k \/ (Present(db, k) /\ content.parent = db.objs[k].content.parent)
    <3>1. Present(db, j) /\ w.objs[j].content.parent = db.objs[j].content.parent
      BY <1>1, <1>3, <2>1 DEF Present
    <3> QED
      BY <1>3, <3>1 DEF Rooted, Key
  <2>2. CASE j = k /\ ~(Present(db, k) /\ content.parent = db.objs[k].content.parent)
    BY <1>1, <1>3, <2>2 DEF ParentFound, Key
  <2> QED
    BY <2>1, <2>2
<1>4. Rooted(w)
  BY <1>2, <1>3 DEF Rooted
<1> QED
  BY <1>4 DEF w

\* An item goes with all below it.
LEMMA RemoveItemRooted ==
    ASSUME NEW db \in Database, NEW k \in Items, Rooted(db), Present(db, k),
           Level(db, k)[Deepest] = {}
    PROVE  Rooted(Remove(db, Subtree(db, k)))
<1> DEFINE gone == Subtree(db, k)
           w == Remove(db, gone)
<1>1. gone \in SUBSET Key /\ gone \subseteq Items
  BY DEF Subtree, Key
<1>2. \A c \in Items : Present(db, c) /\ db.objs[c].content.parent \in gone => c \in gone
  BY SubtreeClosed
<1> HIDE DEF gone
<1>3. \A j \in Key : w.objs[j] = IF j \in gone THEN NoObject ELSE db.objs[j]
  BY <1>1, RemoveFacts
<1> HIDE DEF w
<1>4. \A j \in Key : Present(w, j) <=> j \notin gone /\ Present(db, j)
  BY <1>3 DEF Present, NoObject
<1>5. ASSUME NEW j \in Key, Present(w, j), w.objs[j].content.parent # NoParent
      PROVE  LET parent == w.objs[j].content.parent
             IN  /\ Present(w, parent)
                 /\ {j, parent} \subseteq Collections \/ {j, parent} \subseteq Items
  <2> DEFINE parent == db.objs[j].content.parent
  <2>1. j \notin gone /\ Present(db, j) /\ w.objs[j].content.parent = parent
    BY <1>3, <1>4, <1>5
  <2>2. /\ Present(db, parent) /\ parent \in Key
        /\ {j, parent} \subseteq Collections \/ {j, parent} \subseteq Items
    BY <1>5, <2>1 DEF Rooted, Key
  <2>3. parent \notin gone
    BY <1>1, <1>2, <2>1, <2>2, KindsAssumption
  <2> QED
    BY <1>4, <2>1, <2>2, <2>3
<1>6. Rooted(w)
  BY <1>5 DEF Rooted
<1> QED
  BY <1>6 DEF w, gone

\* Promotion changes the parent of what is nested in the collection.
LEMMA PromoteParents ==
    ASSUME NEW db \in Database, NEW k \in Key, Present(db, k), NEW j \in Key
    PROVE  /\ Present(Promote(db, k), j) <=> Present(db, j)
           /\ Present(db, j) =>
                Promote(db, k).objs[j].content.parent =
                    IF j \in Collections /\ db.objs[j].content.parent = k
                    THEN db.objs[k].content.parent ELSE db.objs[j].content.parent
<1> DEFINE nested == /\ j \in Collections
                     /\ db.objs[j].content # Absent
                     /\ db.objs[j].content.parent = k
           moved == [db.objs[j].content EXCEPT !.parent = db.objs[k].content.parent]
<1>1. Promote(db, k).objs[j] = IF nested THEN [version |-> db.version, content |-> moved]
                                         ELSE db.objs[j]
  BY DEF Promote, Database
<1>2. CASE nested
  <2>1. db.objs[j].content \in Content /\ db.objs[k].content \in Content
    BY <1>2 DEF Present, Database, Object
  <2>2. moved \in Content /\ moved.parent = db.objs[k].content.parent
    BY <2>1 DEF Content
  <2>3. moved # Absent
    BY <2>2, ContentAssumption
  <2> HIDE DEF moved
  <2>4. Present(Promote(db, k), j) /\ Present(db, j)
    BY <1>1, <1>2, <2>3 DEF Present
  <2>5. Promote(db, k).objs[j].content.parent = db.objs[k].content.parent
    BY <1>1, <1>2, <2>2
  <2> QED
    BY <1>2, <2>4, <2>5
<1>3. CASE ~nested
  <2>1. Promote(db, k).objs[j] = db.objs[j]
    BY <1>1, <1>3
  <2> HIDE DEF nested
  <2>2. Present(db, j) => ~(j \in Collections /\ db.objs[j].content.parent = k)
    BY <1>3 DEF Present, nested
  <2> QED
    BY <2>1, <2>2 DEF Present
<1> QED
  BY <1>2, <1>3

\* What is nested in a collection moves out of it as it goes.
LEMMA RemoveCollectionRooted ==
    ASSUME NEW db \in Database, NEW k \in Key \ Items, Rooted(db), Present(db, k),
           Removable(db, k)
    PROVE  Rooted(Remove(Promote(db, k), {k}))
<1> DEFINE p == Promote(db, k)
           w == Remove(p, {k})
<1>1. p \in Database
  BY PromoteFacts
<1>2. \A j \in Key : /\ Present(p, j) <=> Present(db, j)
                     /\ Present(db, j) =>
                          p.objs[j].content.parent =
                              IF j \in Collections /\ db.objs[j].content.parent = k
                              THEN db.objs[k].content.parent ELSE db.objs[j].content.parent
  BY PromoteParents
<1> HIDE DEF p
<1>3. \A j \in Key : w.objs[j] = IF j = k THEN NoObject ELSE p.objs[j]
  BY <1>1, RemoveFacts
<1> HIDE DEF w
<1>4. \A j \in Key : Present(w, j) <=> j # k /\ Present(db, j)
  BY <1>2, <1>3 DEF Present, NoObject
<1>5. ASSUME NEW j \in Key, Present(w, j), w.objs[j].content.parent # NoParent
      PROVE  LET parent == w.objs[j].content.parent
             IN  /\ Present(w, parent)
                 /\ {j, parent} \subseteq Collections \/ {j, parent} \subseteq Items
  <2>1. j # k /\ Present(db, j) /\ w.objs[j].content.parent = p.objs[j].content.parent
    BY <1>3, <1>4, <1>5
  <2>2. CASE j \in Collections /\ db.objs[j].content.parent = k
    <3> DEFINE parent == db.objs[k].content.parent
    <3>1. w.objs[j].content.parent = parent
      BY <1>2, <2>1, <2>2
    <3>2. k \in Collections
      <4>1. {j, k} \subseteq Collections \/ {j, k} \subseteq Items
        BY <2>1, <2>2, WritesAssumption DEF Rooted
      <4> QED
        BY <4>1
    <3>3. Present(db, parent) /\ parent \in Collections
      BY <1>5, <3>1, <3>2 DEF Rooted
    <3>4. parent # k
      BY <2>1, <2>2 DEF Removable
    <3> QED
      BY <1>4, <2>2, <3>1, <3>3, <3>4 DEF Key
  <2>3. CASE ~(j \in Collections /\ db.objs[j].content.parent = k)
    <3> DEFINE parent == db.objs[j].content.parent
    <3>1. w.objs[j].content.parent = parent
      BY <1>2, <2>1, <2>3
    <3>2. /\ Present(db, parent)
          /\ {j, parent} \subseteq Collections \/ {j, parent} \subseteq Items
      BY <1>5, <2>1, <3>1 DEF Rooted
    <3>3. parent # k
      BY <2>3, <3>2
    <3> QED
      BY <1>4, <3>1, <3>2, <3>3 DEF Key
  <2> QED
    BY <2>2, <2>3
<1>6. Rooted(w)
  BY <1>5 DEF Rooted
<1> QED
  BY <1>6 DEF w, p

\* Steps that neither stage nor commit.
LEMMA ParentsFrame ==
    ASSUME PInv, UNCHANGED lib,
           \A q \in Request : pc'[q] = "apply" =>
               (pc[q] = "apply" /\ work'[q] = work[q]) \/ work'[q].objs = lib.objs
    PROVE  PInv'
<1>1. Rooted(lib)'
  BY DEF PInv, Rooted, Present
<1>2. ASSUME NEW q \in Request, pc'[q] = "apply"
      PROVE  Rooted(work'[q])
  <2>1. CASE pc[q] = "apply" /\ work'[q] = work[q]
    BY <2>1 DEF PInv
  <2>2. CASE work'[q].objs = lib.objs
    BY <2>2, SameObjectsRooted DEF PInv
  <2> QED
    BY <1>2, <2>1, <2>2
<1> QED
  BY <1>1, <1>2 DEF PInv, Rooted, Present

\* Steps that stage something else.
LEMMA ParentsRestaged ==
    ASSUME WInv, PInv, NEW r \in Request, NEW w \in Database, Rooted(w),
           work' = [work EXCEPT ![r] = w], UNCHANGED <<lib, pc>>
    PROVE  PInv'
<1>1. \A q \in Request : pc'[q] = "apply" => Rooted(work'[q])
  BY DEF PInv, WInv, TypeOK
<1>2. Rooted(lib)'
  BY DEF PInv, Rooted, Present
<1> QED
  BY <1>1, <1>2 DEF PInv, Rooted, Present

LEMMA ParentsStep ==
    ASSUME WInv, PInv, [Next]_vars
    PROVE  PInv'
<1>1. ASSUME NEW r \in Request, Arrive(r) \/ Lock(r) \/ Rollback(r)
      PROVE  PInv'
  <2>1. UNCHANGED lib
    BY <1>1 DEF Arrive, Lock, Rollback
  <2>2. \A q \in Request : pc'[q] = "apply" => pc[q] = "apply" /\ work'[q] = work[q]
    BY <1>1 DEF WInv, TypeOK, Arrive, Lock, Rollback, Finish
  <2> QED
    BY <2>1, <2>2, ParentsFrame
<1>2. ASSUME NEW r \in Request, Prepare(r) \/ BumpSingle(r)
      PROVE  PInv'
  <2>1. UNCHANGED lib
    BY <1>2 DEF Prepare, BumpSingle
  <2>2. work'[r].objs = lib.objs
    <3>1. CASE Prepare(r)
      <4>1. /\ work[r] = lib /\ lib \in Database /\ req[r].token \in Token \cup {NoToken}
            /\ work'[r] = BumpLibraryVersion(ClaimWriteToken(work[r], req[r].token))
        BY <3>1 DEF Prepare, WInv, TypeOK, StagedInv, RequestBody
      <4> QED
        BY <4>1, ClaimFacts, BumpFacts
    <3>2. CASE BumpSingle(r)
      BY <3>2, BumpFacts DEF BumpSingle, WInv, TypeOK
    <3> QED
      BY <1>2, <3>1, <3>2
  <2>3. \A q \in Request : pc'[q] = "apply" =>
            (pc[q] = "apply" /\ work'[q] = work[q]) \/ work'[q].objs = lib.objs
    BY <1>2, <2>2 DEF WInv, TypeOK, Prepare, BumpSingle
  <2> QED
    BY <2>1, <2>3, ParentsFrame
<1>3. ASSUME NEW r \in Request, SaveOne(r)
      PROVE  PInv'
  <2>1. PICK k \in req[r].keys, content \in Content :
            /\ ParentFound(work[r], k, content.parent)
            /\ work' = [work EXCEPT ![r] = Save(work[r], k, content)]
    BY <1>3 DEF SaveOne, WInv, TypeOK
  <2>2. /\ k \in Key /\ work[r] \in Database /\ Rooted(work[r])
        /\ UNCHANGED <<lib, pc>>
    BY <1>3, <2>1 DEF SaveOne, WInv, TypeOK, RequestBody, StagedInv, PInv
  <2>3. Save(work[r], k, content) \in Database /\ Rooted(Save(work[r], k, content))
    BY <2>1, <2>2, SaveFacts, SaveRooted
  <2> QED
    BY <2>1, <2>2, <2>3, ParentsRestaged
<1>4. ASSUME NEW r \in Request, DeleteOne(r)
      PROVE  PInv'
  <2>1. PICK k \in req[r].keys :
            /\ Present(work[r], k)
            /\ \/ /\ k \in Items /\ Level(work[r], k)[Deepest] = {}
                  /\ work' = [work EXCEPT ![r] = Remove(work[r], Subtree(work[r], k))]
               \/ /\ k \notin Items /\ Removable(work[r], k)
                  /\ work' = [work EXCEPT ![r] = Remove(Promote(work[r], k), {k})]
    BY <1>4 DEF DeleteOne, WInv, TypeOK
  <2>2. /\ k \in Key /\ work[r] \in Database /\ Rooted(work[r])
        /\ UNCHANGED <<lib, pc>>
    BY <1>4, <2>1 DEF DeleteOne, WInv, TypeOK, RequestBody, StagedInv, PInv
  <2>3. CASE /\ k \in Items /\ Level(work[r], k)[Deepest] = {}
             /\ work' = [work EXCEPT ![r] = Remove(work[r], Subtree(work[r], k))]
    <3>1. Rooted(Remove(work[r], Subtree(work[r], k)))
      BY <2>1, <2>2, <2>3, RemoveItemRooted
    <3>2. Remove(work[r], Subtree(work[r], k)) \in Database
      BY <2>2, SubtreeFacts, RemoveFacts
    <3> QED
      BY <2>2, <2>3, <3>1, <3>2, ParentsRestaged
  <2>4. CASE /\ k \notin Items /\ Removable(work[r], k)
             /\ work' = [work EXCEPT ![r] = Remove(Promote(work[r], k), {k})]
    <3>1. Rooted(Remove(Promote(work[r], k), {k}))
      BY <2>1, <2>2, <2>4, RemoveCollectionRooted
    <3>2. Promote(work[r], k) \in Database
      BY <2>1, <2>2, PromoteFacts
    <3>3. Remove(Promote(work[r], k), {k}) \in Database
      BY <2>2, <3>2, RemoveFacts
    <3> QED
      BY <2>2, <2>4, <3>1, <3>3, ParentsRestaged
  <2> QED
    BY <2>1, <2>3, <2>4
<1>5. ASSUME NEW r \in Request, Commit(r)
      PROVE  PInv'
  <2>1. pc[r] = "apply" /\ lib' = work[r]
    BY <1>5 DEF Commit
  <2>2. \A q \in Request : pc'[q] # "apply"
    BY <1>5 DEF Commit, Finish, WInv, TypeOK, StagedInv
  <2> QED
    BY <2>1, <2>2 DEF PInv, Rooted, Present
<1>6. ASSUME NEW t \in Token, Expire(t)
      PROVE  PInv'
  BY <1>6, ParentsFrame DEF Expire
<1>7. CASE UNCHANGED vars
  BY <1>7, ParentsFrame DEF vars
<1> QED
  BY <1>1, <1>2, <1>3, <1>4, <1>5, <1>6, <1>7 DEF Next

\* No write leaves anything under a parent that is gone, for any number of
\* requests, and any trees of collections and of items.
THEOREM ParentsAreThere == Spec => []ParentsExist
<1>1. Init => PInv
  BY DEF Init, PInv, Rooted, Present, NoObject
<1>2. WInv /\ PInv /\ [Next]_vars => PInv'
  BY ParentsStep
<1>3. PInv => ParentsExist
  BY DEF PInv, Rooted, ParentsExist
<1> QED
  BY <1>1, <1>2, <1>3, Invariance, PTL DEF Spec

----------------------------------------------------------------------------
(***************************************************************************)
(* Preconditions and tokens.                                               *)
(***************************************************************************)

\* What arrives: tokens come with batches, a single write has one key, and
\* nothing is written before the checks.
Asked(r) ==
    /\ pc[r] # "apply" => ~wrote[r]
    /\ req[r].token # NoToken => req[r].method = "post"
    /\ req[r].method = "put" => \E k \in Key : req[r].keys = {k}

\* A token that was found unused is still unused, and is staged.
Claimed(r) ==
    pc[r] = "apply" /\ req[r].token # NoToken =>
        /\ ~TokenUsed(lib, req[r].token)
        /\ req[r].token \in work[r].tokens

\* A version that was found to be the newest still is: of the library, or
\* of the one object that is written.
Informed(r) ==
    pc[r] = "apply" /\ req[r].since # NoVersion =>
        IF req[r].method = "put"
        THEN IF wrote[r]
             THEN \A k \in req[r].keys :
                     Present(lib, k) \/ ~ForSettings(r) => lib.objs[k].version = req[r].since
             ELSE work[r].objs = lib.objs
        ELSE lib.version <= req[r].since

\* A key that names nothing has no version.
Blank == \A k \in Key : ~Present(lib, k) => lib.objs[k] = NoObject

RInv == Blank /\ \A r \in Request : Asked(r) /\ Claimed(r) /\ Informed(r)

\* Staging objects leaves the tokens alone.
LEMMA TokensKept ==
    ASSUME NEW db \in Database, NEW k, NEW content, NEW gone
    PROVE  /\ Save(db, k, content).tokens = db.tokens
           /\ Remove(db, gone).tokens = db.tokens
           /\ Promote(db, k).tokens = db.tokens
BY DEF Save, Remove, Promote, Database

\* Only the request under the lock changes the library, by its commit.
LEMMA OnlyCommitWrites ==
    ASSUME WInv, [Next]_vars, lib' # lib, NEW r \in Request, pc[r] = "apply"
    PROVE  Commit(r)
<1>1. PICK q \in Request : Commit(q)
  BY DEF Next, vars, Arrive, Lock, Prepare, BumpSingle, SaveOne, DeleteOne, Rollback, Expire
<1>2. q = r
  BY <1>1 DEF Commit, WInv, StagedInv
<1> QED
  BY <1>1, <1>2

\* A request that a step leaves where it is, with the library.
LEMMA RequestFrame ==
    ASSUME NEW q \in Request, Asked(q), Claimed(q), Informed(q), UNCHANGED lib, old \subseteq old',
           pc'[q] = pc[q], req'[q] = req[q], work'[q] = work[q], wrote'[q] = wrote[q]
    PROVE  (Asked(q) /\ Claimed(q) /\ Informed(q))'
<1>1. Asked(q)'
  BY DEF Asked
<1>2. Claimed(q)'
  BY DEF Claimed, TokenUsed
<1>3. Informed(q)'
  BY DEF Informed, Present, ForSettings
<1> QED
  BY <1>1, <1>2, <1>3

\* A request that has not got as far as its objects.
LEMMA RequestEarly ==
    ASSUME NEW q \in Request, pc'[q] # "apply", Asked(q)'
    PROVE  (Asked(q) /\ Claimed(q) /\ Informed(q))'
BY DEF Claimed, Informed

LEMMA FinishAsked ==
    ASSUME WInv, NEW r \in Request, Finish(r)
    PROVE  Asked(r)'
BY DEF WInv, TypeOK, Finish, Idle, Asked

LEMMA ArriveAsked ==
    ASSUME WInv, NEW r \in Request, Asked(r), Arrive(r)
    PROVE  Asked(r)'
<1>1. PICK kind \in Kinds \ {{}}, method \in {"post", "put", "delete"},
           since \in (0..MaxVersion) \cup {NoVersion}, token \in Token \cup {NoToken} :
         /\ token # NoToken => method = "post"
         /\ \E keys \in (IF method = "put" THEN {{k} : k \in kind} ELSE {kind}) :
              req' = [req EXCEPT ![r] = [method |-> method, keys |-> keys,
                                         since |-> since, token |-> token]]
  BY DEF Arrive
<1>2. PICK keys \in (IF method = "put" THEN {{k} : k \in kind} ELSE {kind}) :
            req' = [req EXCEPT ![r] = [method |-> method, keys |-> keys,
                                       since |-> since, token |-> token]]
  BY <1>1
<1>3. req'[r] = [method |-> method, keys |-> keys, since |-> since, token |-> token]
  BY <1>2 DEF WInv, TypeOK
<1>4. method = "put" => \E k \in Key : keys = {k}
  BY <1>1, <1>2 DEF Kinds, Key
<1>5. ~wrote'[r]
  BY DEF Asked, Arrive
<1> QED
  BY <1>1, <1>3, <1>4, <1>5 DEF Asked

\* The checks are made on what is committed, under the lock.
LEMMA PrepareChecked ==
    ASSUME WInv, NEW r \in Request, Asked(r), Prepare(r)
    PROVE  (Asked(r) /\ Claimed(r) /\ Informed(r))'
<1> DEFINE token == req[r].token
           claimed == ClaimWriteToken(lib, token)
<1>1. /\ work[r] = lib /\ lib \in Database
      /\ req[r] \in RequestBody
      /\ UNCHANGED <<lib, old, req, wrote>>
      /\ work'[r] = BumpLibraryVersion(claimed)
      /\ ~TokenUsed(lib, token)
      /\ req[r].method # "put" =>
           CheckLibraryVersion(lib.version, req[r].since, req[r].method = "delete")
  BY DEF Prepare, WInv, TypeOK, StagedInv
<1>2. claimed \in Database /\ claimed.objs = lib.objs
      /\ (token # NoToken => token \in claimed.tokens)
  <2>1. token \in Token \cup {NoToken}
    BY <1>1 DEF RequestBody
  <2>2. claimed \in Database /\ claimed.objs = lib.objs
    BY <1>1, <2>1, ClaimFacts
  <2>3. token # NoToken => claimed.tokens = (lib.tokens \ old) \cup {token}
    BY <1>1 DEF ClaimWriteToken, Database
  <2> QED
    BY <2>2, <2>3
<1> HIDE DEF claimed
<1>3. work'[r].objs = lib.objs /\ work'[r].tokens = claimed.tokens
  BY <1>1, <1>2, BumpFacts DEF BumpLibraryVersion, Database
<1>4. ~wrote'[r]
  BY <1>1 DEF Asked, Prepare
<1>5. Asked(r)'
  BY <1>1, <1>4 DEF Asked
<1>6. Claimed(r)'
  BY <1>1, <1>2, <1>3 DEF Claimed, TokenUsed
<1>7. Informed(r)'
  BY <1>1, <1>3, <1>4 DEF Informed, CheckLibraryVersion
<1> QED
  BY <1>5, <1>6, <1>7

\* A single write asks for nothing of the library.
LEMMA BumpSingleChecked ==
    ASSUME WInv, NEW r \in Request, Asked(r), BumpSingle(r)
    PROVE  (Asked(r) /\ Claimed(r) /\ Informed(r))'
<1>1. /\ req[r].method = "put" /\ UNCHANGED <<lib, old, req, wrote>>
      /\ work'[r] = BumpLibraryVersion(lib) /\ lib \in Database /\ ~wrote[r]
  BY DEF BumpSingle, WInv, TypeOK, Asked
<1>2. work'[r].objs = lib.objs
  BY <1>1, BumpFacts
<1>3. Asked(r)'
  BY <1>1 DEF Asked
<1>4. Claimed(r)'
  BY <1>1 DEF Claimed, Asked
<1>5. Informed(r)'
  BY <1>1, <1>2 DEF Informed
<1> QED
  BY <1>3, <1>4, <1>5

\* The object of a single write is checked as it is saved: what is stored
\* is at the version named, and 0 is named for what is not.
LEMMA SaveOneChecked ==
    ASSUME WInv, Blank, NEW r \in Request, Asked(r), Claimed(r), Informed(r), SaveOne(r)
    PROVE  (Asked(r) /\ Claimed(r) /\ Informed(r))'
<1>1. PICK k \in req[r].keys, content \in Content,
           supplied \in (0..work[r].version) \cup {NoVersion} :
        LET single == req[r].method = "put"
            required == single /\ k \notin Settings
        IN  /\ single => supplied = req[r].since
            /\ VersionAccepted(work[r], k, supplied, required)
            /\ work' = [work EXCEPT ![r] = Save(work[r], k, content)]
  BY DEF SaveOne, WInv, TypeOK
<1>2. /\ pc[r] = "apply" /\ work[r] \in Database /\ k \in Key
      /\ work'[r] = Save(work[r], k, content)
      /\ req[r].method = "put" => ~wrote[r]
      /\ UNCHANGED <<lib, old, pc, req>> /\ wrote'[r]
  BY <1>1 DEF SaveOne, WInv, TypeOK, StagedInv, RequestBody
<1>3. Asked(r)'
  BY <1>2 DEF Asked
<1>4. Claimed(r)'
  <2>1. work'[r].tokens = work[r].tokens
    BY <1>2, TokensKept
  <2> QED
    BY <1>2, <2>1 DEF Claimed, TokenUsed
<1>5. Informed(r)'
  <2>1. CASE req[r].method = "put" /\ req[r].since # NoVersion
    <3>1. work[r].objs = lib.objs /\ req[r].keys = {k}
      BY <1>1, <1>2, <2>1 DEF Informed, Asked
    <3>2. VersionAccepted(work[r], k, req[r].since, k \notin Settings)
      BY <1>1, <2>1
    <3>3. CASE Present(lib, k)
      <4>1. lib.objs[k].version = req[r].since
        BY <2>1, <3>1, <3>2, <3>3 DEF VersionAccepted, CheckObjectVersion, Present
      <4> QED
        BY <1>2, <2>1, <3>1, <4>1 DEF Informed
    <3>4. CASE ~Present(lib, k)
      <4>1. k \in Settings \/ req[r].since = 0
        BY <2>1, <3>1, <3>2, <3>4 DEF VersionAccepted, CheckObjectVersion, Present
      <4>2. lib.objs[k].version = 0
        BY <1>2, <3>4 DEF Blank, NoObject
      <4>3. ~ForSettings(r) => k \notin Settings
        BY <3>1 DEF ForSettings
      <4> QED
        BY <1>2, <2>1, <3>1, <3>4, <4>1, <4>2, <4>3 DEF Informed, Present, ForSettings
    <3> QED
      BY <3>3, <3>4
  <2>2. CASE ~(req[r].method = "put" /\ req[r].since # NoVersion)
    BY <1>2, <2>2 DEF Informed
  <2> QED
    BY <2>1, <2>2
<1> QED
  BY <1>3, <1>4, <1>5

\* A delete has no token, and was checked against the library.
LEMMA DeleteOneChecked ==
    ASSUME WInv, NEW r \in Request, Asked(r), Informed(r), DeleteOne(r)
    PROVE  (Asked(r) /\ Claimed(r) /\ Informed(r))'
<1>1. /\ pc[r] = "apply" /\ req[r].method = "delete"
      /\ UNCHANGED <<lib, pc, req, wrote>>
  BY DEF DeleteOne
<1>2. Asked(r)'
  BY <1>1 DEF Asked
<1>3. Claimed(r)'
  BY <1>1 DEF Claimed, Asked
<1>4. Informed(r)'
  BY <1>1 DEF Informed
<1> QED
  BY <1>2, <1>3, <1>4

LEMMA BlankKept ==
    ASSUME WInv, Blank, [Next]_vars
    PROVE  Blank'
<1>1. ASSUME NEW r \in Request, Commit(r)
      PROVE  Blank'
  <2>1. lib' = work[r] /\ \A k \in Key : StagedKey(r, k)
    BY <1>1 DEF Commit, WInv, StagedInv
  <2> QED
    BY <2>1 DEF Blank, Present, StagedKey, Untouched, Stamped, Removed
<1>2. ASSUME UNCHANGED lib
      PROVE  Blank'
  BY <1>2 DEF Blank, Present
<1> QED
  BY <1>1, <1>2 DEF Next, vars, Arrive, Lock, Prepare, BumpSingle, SaveOne, DeleteOne, Rollback,
     Expire

LEMMA RequestsStep ==
    ASSUME WInv, RInv, [Next]_vars, NEW q \in Request
    PROVE  (Asked(q) /\ Claimed(q) /\ Informed(q))'
<1>1. Blank /\ Asked(q) /\ Claimed(q) /\ Informed(q)
  BY DEF RInv
<1>2. ASSUME NEW r \in Request, q # r, UNCHANGED <<lib, old>>,
             pc'[q] = pc[q], req'[q] = req[q], work'[q] = work[q], wrote'[q] = wrote[q]
      PROVE  (Asked(q) /\ Claimed(q) /\ Informed(q))'
  BY <1>1, <1>2, RequestFrame
<1>3. ASSUME NEW r \in Request, Arrive(r)
      PROVE  (Asked(q) /\ Claimed(q) /\ Informed(q))'
  <2>1. CASE q = r
    <3>1. Asked(q)' /\ pc'[q] # "apply"
      BY <1>1, <1>3, <2>1, ArriveAsked DEF Arrive, WInv, TypeOK
    <3> QED
      BY <3>1, RequestEarly
  <2>2. CASE q # r
    BY <1>2, <1>3, <2>2 DEF Arrive, WInv, TypeOK
  <2> QED
    BY <2>1, <2>2
<1>4. ASSUME NEW r \in Request, Lock(r)
      PROVE  (Asked(q) /\ Claimed(q) /\ Informed(q))'
  <2>1. CASE q = r
    <3>1. Asked(q)' /\ pc'[q] # "apply"
      BY <1>1, <1>4, <2>1 DEF Lock, WInv, TypeOK, Asked
    <3> QED
      BY <3>1, RequestEarly
  <2>2. CASE q # r
    BY <1>2, <1>4, <2>2 DEF Lock, WInv, TypeOK
  <2> QED
    BY <2>1, <2>2
<1>5. ASSUME NEW r \in Request, Prepare(r)
      PROVE  (Asked(q) /\ Claimed(q) /\ Informed(q))'
  <2>1. CASE q = r
    BY <1>1, <1>5, <2>1, PrepareChecked
  <2>2. CASE q # r
    BY <1>2, <1>5, <2>2 DEF Prepare, WInv, TypeOK
  <2> QED
    BY <2>1, <2>2
<1>6. ASSUME NEW r \in Request, BumpSingle(r)
      PROVE  (Asked(q) /\ Claimed(q) /\ Informed(q))'
  <2>1. CASE q = r
    BY <1>1, <1>6, <2>1, BumpSingleChecked
  <2>2. CASE q # r
    BY <1>2, <1>6, <2>2 DEF BumpSingle, WInv, TypeOK
  <2> QED
    BY <2>1, <2>2
<1>7. ASSUME NEW r \in Request, SaveOne(r)
      PROVE  (Asked(q) /\ Claimed(q) /\ Informed(q))'
  <2>1. CASE q = r
    BY <1>1, <1>7, <2>1, SaveOneChecked
  <2>2. CASE q # r
    BY <1>2, <1>7, <2>2 DEF SaveOne, WInv, TypeOK
  <2> QED
    BY <2>1, <2>2
<1>8. ASSUME NEW r \in Request, DeleteOne(r)
      PROVE  (Asked(q) /\ Claimed(q) /\ Informed(q))'
  <2>1. CASE q = r
    BY <1>1, <1>8, <2>1, DeleteOneChecked
  <2>2. CASE q # r
    <3>1. work'[q] = work[q]
      BY <1>8, <2>2 DEF DeleteOne, WInv, TypeOK
    <3> QED
      BY <1>2, <1>8, <2>2, <3>1 DEF DeleteOne
  <2> QED
    BY <2>1, <2>2
<1>9. ASSUME NEW r \in Request, Commit(r)
      PROVE  (Asked(q) /\ Claimed(q) /\ Informed(q))'
  <2>1. Finish(r) /\ pc'[q] # "apply"
    BY <1>9 DEF Commit, Finish, WInv, TypeOK, StagedInv
  <2>2. Asked(q)'
    <3>1. CASE q = r
      BY <2>1, <3>1, FinishAsked
    <3>2. CASE q # r
      BY <1>1, <2>1, <3>2 DEF Finish, WInv, TypeOK, Asked
    <3> QED
      BY <3>1, <3>2
  <2> QED
    BY <2>1, <2>2, RequestEarly
<1>10. ASSUME NEW r \in Request, Rollback(r)
       PROVE  (Asked(q) /\ Claimed(q) /\ Informed(q))'
  <2>1. CASE q = r
    <3>1. Asked(q)' /\ pc'[q] # "apply"
      BY <1>10, <2>1, FinishAsked DEF Rollback, Finish, WInv, TypeOK
    <3> QED
      BY <3>1, RequestEarly
  <2>2. CASE q # r
    BY <1>2, <1>10, <2>2 DEF Rollback, Finish, WInv, TypeOK
  <2> QED
    BY <2>1, <2>2
<1>11. ASSUME NEW t \in Token, Expire(t)
       PROVE  (Asked(q) /\ Claimed(q) /\ Informed(q))'
  BY <1>1, <1>11, RequestFrame DEF Expire
<1>12. CASE UNCHANGED vars
  BY <1>1, <1>12, RequestFrame DEF vars
<1> QED
  BY <1>3, <1>4, <1>5, <1>6, <1>7, <1>8, <1>9, <1>10, <1>11, <1>12 DEF Next

LEMMA RequestsChecked == Spec => []RInv
<1>1. Init => RInv
  BY DEF Init, RInv, Blank, Present, NoObject, Asked, Claimed, Informed, Idle
<1>2. WInv /\ RInv /\ [Next]_vars => RInv'
  <2> SUFFICES ASSUME WInv, RInv, [Next]_vars
               PROVE  RInv'
    OBVIOUS
  <2>1. Blank'
    BY BlankKept DEF RInv
  <2> QED
    BY <2>1, RequestsStep DEF RInv
<1> QED
  BY <1>1, <1>2, Invariance, PTL DEF Spec

\* A write that named a version is committed only over what its client had
\* seen, whatever requests there are and however their steps interleave.
THEOREM NothingIsOverwritten == Spec => NoLostUpdate
<1> DEFINE Sees(r) ==
        (pc[r] = "apply" /\ lib' # lib /\ lib' = work[r] /\ req[r].since # NoVersion) =>
            IF req[r].method = "put"
            THEN \A k \in req[r].keys :
                   (Present(lib, k) \/ ~ForSettings(r)) => lib.objs[k].version = req[r].since
            ELSE lib.version <= req[r].since
<1>1. ASSUME WInv, RInv, [Next]_vars, NEW r \in Request
      PROVE  Sees(r)
  <2>1. CASE pc[r] = "apply" /\ lib' # lib
    <3>1. req[r].method = "delete" \/ wrote[r]
      BY <1>1, <2>1, OnlyCommitWrites DEF Commit
    <3>2. Informed(r)
      BY <1>1 DEF RInv
    <3> QED
      BY <2>1, <3>1, <3>2 DEF Informed
  <2>2. CASE ~(pc[r] = "apply" /\ lib' # lib)
    BY <2>2
  <2> QED
    BY <2>1, <2>2
<1>2. WInv /\ RInv /\ [Next]_vars => [\A r \in Request : Sees(r)]_vars
  BY <1>1
<1> QED
  BY <1>2, Invariance, RequestsChecked, PTL DEF Spec, NoLostUpdate

\* A token is honoured by one commit in twelve hours, however the client
\* repeats itself and whichever of its requests is rolled back.
THEOREM TokensCountOnce == Spec => TokenHonouredOnce
<1> DEFINE Once(r) ==
        (pc[r] = "apply" /\ lib' # lib /\ lib' = work[r] /\ req[r].token # NoToken) =>
            /\ ~TokenUsed(lib, req[r].token)
            /\ req[r].token \in lib'.tokens \ old'
<1>1. ASSUME WInv, RInv, [Next]_vars, NEW r \in Request
      PROVE  Once(r)
  <2>1. CASE pc[r] = "apply" /\ lib' # lib
    <3>1. lib' = work[r] /\ req[r].token \notin old'
      BY <1>1, <2>1, OnlyCommitWrites DEF Commit
    <3>2. Claimed(r)
      BY <1>1 DEF RInv
    <3> QED
      BY <2>1, <3>1, <3>2 DEF Claimed
  <2>2. CASE ~(pc[r] = "apply" /\ lib' # lib)
    BY <2>2
  <2> QED
    BY <2>1, <2>2
<1>2. WInv /\ RInv /\ [Next]_vars => [\A r \in Request : Once(r)]_vars
  BY <1>1
<1> QED
  BY <1>2, Invariance, RequestsChecked, PTL DEF Spec, TokenHonouredOnce
============================================================================
