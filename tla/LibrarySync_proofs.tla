------------------------- MODULE LibrarySync_proofs -------------------------
(***************************************************************************)
(* Proofs that a library keeps its promise to a syncing client, and that   *)
(* a client which repeats its sync misses nothing, for any clients, keys,  *)
(* contents and bound on the version.                                      *)
(*                                                                         *)
(* The library's own invariant (IInv) is inductive as it stands:           *)
(* VersionsReached is what lets a write's new version exceed every version *)
(* and row the other keys carry.  NothingMissed speaks of the version a    *)
(* client holds, which is the one its sync began at; so the clients'       *)
(* invariant says in the middle of a sync what has been learnt of the keys *)
(* that did not change since it began (InStep).                            *)
(***************************************************************************)
EXTENDS LibrarySync, TLAPS

-----------------------------------------------------------------------------
(* The library by itself *)

\* An absent object is of the type of a stored one.
LEMMA NoObjectType == NoObject \in Object
BY DEF NoObject, Object

\* A write keeps the type of the state.
LEMMA ApplyType ==
    ASSUME TypeOK, version < MaxVersion,
           NEW written \in SUBSET Key, NEW removed \in SUBSET Key,
           NEW saved \in [written -> Content], Apply(saved, removed)
    PROVE  TypeOK'
<1> USE LibraryAssumption
<1>1. version' \in 0..MaxVersion
  BY DEF TypeOK, Apply
<1>2. objs' \in [Key -> Object]
  BY NoObjectType DEF TypeOK, Apply, Object
<1>3. log' \in [Key -> Nat]
  BY DEF TypeOK, Apply
<1>4. changed' \in [Key -> Nat]
  BY DEF TypeOK, Apply
<1> QED BY <1>1, <1>2, <1>3, <1>4 DEF TypeOK

\* What one key looks like after a write: saved and stamped, removed and
\* logged, or as it was.
LEMMA ApplyKey ==
    ASSUME TypeOK, VersionsReached, SinceIsComplete, ForgottenWhenReturned,
           NEW written \in SUBSET Key, NEW removed \in SUBSET {k \in Key : Present(k)},
           written \cap removed = {},
           NEW saved \in [written -> Content], Apply(saved, removed),
           NEW k \in Key
    PROVE  /\ objs'[k].version <= version'
           /\ log'[k] <= version'
           /\ changed'[k] <= version'
           /\ IF Present(k)' THEN objs'[k].version >= changed'[k]
                             ELSE log'[k] >= changed'[k]
           /\ k \in Forgets => (Present(k)' => log'[k] = 0)
<1> USE LibraryAssumption
<1>a. /\ version \in Nat
      /\ log[k] \in Nat
      /\ changed[k] \in Nat
      /\ objs[k].version \in Nat
      /\ objs[k].content \in Content \cup {Absent}
  BY DEF TypeOK, Object
<1>b. /\ version' = version + 1
      /\ changed'[k] = IF objs'[k].content # objs[k].content
                       THEN version + 1 ELSE changed[k]
      /\ DOMAIN saved = written
  BY DEF Apply
<1>1. CASE k \in written
  <2>1. /\ objs'[k] = [version |-> version + 1, content |-> saved[k]]
        /\ saved[k] \in Content
        /\ log'[k] = IF k \in Forgets THEN 0 ELSE log[k]
    BY <1>1 DEF Apply
  <2> QED BY <1>a, <1>b, <2>1 DEF VersionsReached, Present
<1>2. CASE k \in removed
  <2>1. objs'[k] = NoObject /\ log'[k] = version + 1
    BY <1>2, <1>b DEF Apply
  <2> QED BY <1>a, <1>b, <2>1 DEF VersionsReached, Present, NoObject
<1>3. CASE k \notin written /\ k \notin removed
  <2>1. objs'[k] = objs[k] /\ log'[k] = log[k]
    BY <1>3, <1>b DEF Apply
  <2> QED BY <1>a, <1>b, <2>1 DEF VersionsReached, SinceIsComplete,
                                  ForgottenWhenReturned, Present
<1> QED BY <1>1, <1>2, <1>3

\* The initial library keeps the promise.
LEMMA InitInv == Init => IInv
BY LibraryAssumption, NoObjectType
   DEF Init, IInv, TypeOK, VersionsReached, SinceIsComplete, ForgottenWhenReturned,
       NoObject, Present

\* Every write keeps it.
LEMMA NextInv == IInv /\ [Next]_vars => IInv'
<1> SUFFICES ASSUME IInv, [Next]_vars PROVE IInv'
  OBVIOUS
<1>1. CASE Next
  <2>1. PICK written \in SUBSET Key, removed \in SUBSET {k \in Key : Present(k)} :
           /\ written \cap removed = {}
           /\ \E saved \in [written -> Content] : Apply(saved, removed)
    BY <1>1 DEF Next, Write
  <2>2. PICK saved \in [written -> Content] : Apply(saved, removed)
    BY <2>1
  <2>3. version < MaxVersion
    BY <1>1 DEF Next, Write
  <2>4. TypeOK'
    BY <2>2, <2>3, ApplyType DEF IInv
  <2>5. VersionsReached' /\ SinceIsComplete' /\ ForgottenWhenReturned'
    <3> SUFFICES ASSUME NEW k \in Key
                 PROVE  /\ objs'[k].version <= version'
                        /\ log'[k] <= version'
                        /\ changed'[k] <= version'
                        /\ IF Present(k)' THEN objs'[k].version >= changed'[k]
                                          ELSE log'[k] >= changed'[k]
                        /\ k \in Forgets => (Present(k)' => log'[k] = 0)
      BY LibraryAssumption DEF VersionsReached, SinceIsComplete, ForgottenWhenReturned
    <3> QED BY <2>1, <2>2, ApplyKey DEF IInv
  <2> QED BY <2>4, <2>5 DEF IInv
<1>2. CASE UNCHANGED vars
  BY <1>2 DEF vars, IInv, TypeOK, VersionsReached, SinceIsComplete,
              ForgottenWhenReturned, Present
<1> QED BY <1>1, <1>2

\* The inductive invariant holds of every reachable state.
THEOREM Invariance == Spec => []IInv
BY InitInv, NextInv, PTL DEF Spec

\* A client that asks for the objects and the deletions since any version
\* is told of every key that changed after it, for every library.
THEOREM SinceIsAlwaysComplete == Spec => []SinceIsComplete
<1>1. IInv => SinceIsComplete
  BY DEF IInv
<1> QED BY <1>1, Invariance, PTL

-----------------------------------------------------------------------------
(* What a client knows *)

InStep(c) ==
    /\ ver[c] <= version
    /\ header[c] <= version
    /\ \A k \in Key :
        /\ Unambiguous(k) => copy[c][k] = objs[k].content \/ changed[k] > ver[c]
        /\ phase[c] \in {"listed", "fetched"} /\ changed[k] <= header[c] /\ Present(k) =>
              k \in wanted[c] \/ changed[k] <= ver[c]
        /\ phase[c] = "fetched" /\ changed[k] <= header[c] =>
              got[c][k] = IF k \in wanted[c] THEN objs[k].content ELSE Absent

SyncInv == SyncTypeOK /\ IInv /\ \A c \in Client : InStep(c)

\* The step is not one of client c's.
Same(c) ==
    /\ ver'[c] = ver[c] /\ copy'[c] = copy[c] /\ phase'[c] = phase[c]
    /\ header'[c] = header[c] /\ wanted'[c] = wanted[c] /\ got'[c] = got[c]

-----------------------------------------------------------------------------
(* Writes *)

\* What a write does to one key: nothing that it holds changes, or the new
\* version is that of the change; and a row of the log that a kind does not
\* forget stays.
LEMMA WriteKey ==
    ASSUME TypeOK, Write, NEW k \in Key
    PROVE  /\ version' = version + 1
           /\ \/ objs'[k].content = objs[k].content /\ changed'[k] = changed[k]
              \/ changed'[k] = version + 1
           /\ Unambiguous(k)' => Unambiguous(k)
<1>1. PICK written \in SUBSET Key, removed \in SUBSET {j \in Key : Present(j)} :
         \E saved \in [written -> Content] : Apply(saved, removed)
  BY DEF Write
<1>2. PICK saved \in [written -> Content] : Apply(saved, removed)
  BY <1>1
<1>3. version' = version + 1 /\ version + 1 # 0
  BY <1>2, LibraryAssumption DEF Apply, TypeOK
<1>4. changed'[k] = IF objs'[k].content # objs[k].content THEN version + 1 ELSE changed[k]
  BY <1>2 DEF Apply
<1>5. log'[k] = 0 => k \in Forgets \/ log[k] = 0
  BY <1>2, <1>3 DEF Apply
<1> QED
  BY <1>3, <1>4, <1>5 DEF Unambiguous

\* A client is in step still when something was written that it has not
\* looked at: what changed carries a version beyond the sync's.
LEMMA OverWrite ==
    ASSUME SyncTypeOK, Write, NEW c \in Client, InStep(c), Same(c)
    PROVE  InStep(c)'
<1>1. version \in Nat /\ ver[c] \in Nat /\ header[c] \in Nat
  BY LibraryAssumption DEF SyncTypeOK, TypeOK
<1>2. ASSUME NEW k \in Key
      PROVE  /\ version' = version + 1
             /\ \/ objs'[k].content = objs[k].content /\ changed'[k] = changed[k]
                \/ changed'[k] = version + 1
             /\ Unambiguous(k)' => Unambiguous(k)
  BY <1>2, WriteKey DEF SyncTypeOK
<1>3. version' = version + 1
  BY DEF Write, Apply
<1>4. ver'[c] <= version' /\ header'[c] <= version'
  BY <1>1, <1>3 DEF InStep, Same
<1>5. ASSUME NEW k \in Key
      PROVE  (/\ Unambiguous(k) => copy[c][k] = objs[k].content \/ changed[k] > ver[c]
              /\ phase[c] \in {"listed", "fetched"} /\ changed[k] <= header[c] /\ Present(k) =>
                    k \in wanted[c] \/ changed[k] <= ver[c]
              /\ phase[c] = "fetched" /\ changed[k] <= header[c] =>
                    got[c][k] = IF k \in wanted[c] THEN objs[k].content ELSE Absent)'
  <2>1. CASE changed'[k] = version + 1
    <3>1. changed'[k] > ver'[c] /\ ~(changed'[k] <= header'[c])
      BY <1>1, <2>1 DEF InStep, Same
    <3> QED
      BY <3>1
  <2>2. CASE objs'[k].content = objs[k].content /\ changed'[k] = changed[k]
    BY <1>2, <2>2 DEF InStep, Same, Present
  <2> QED
    BY <1>2, <2>1, <2>2
<1> QED
  BY <1>4, <1>5 DEF InStep

\* So is one that another client's request passes by.
LEMMA OverRead ==
    ASSUME UNCHANGED serverVars, NEW c \in Client, InStep(c), Same(c)
    PROVE  InStep(c)'
BY DEF InStep, Same, serverVars, Present, Unambiguous

\* A client that may upload has nothing left to learn.
LEMMA UpToDate ==
    ASSUME SyncTypeOK, IInv, NEW c \in Client, InStep(c), version <= ver[c],
           NEW k \in Key, Unambiguous(k)
    PROVE  copy[c][k] = objs[k].content
<1>1. version \in Nat /\ ver[c] \in Nat /\ changed[k] \in Nat /\ changed[k] <= version
  BY LibraryAssumption DEF SyncTypeOK, IInv, TypeOK, VersionsReached
<1> QED
  BY <1>1 DEF InStep

\* An upload is a write, and leaves its client in step: under the key it
\* wrote the client holds what it wrote, and elsewhere it had nothing left
\* to learn.
LEMMA UploadStep ==
    ASSUME SyncTypeOK, IInv, NEW c \in Client, InStep(c), Upload(c)
    PROVE  /\ Write
           /\ copy' \in [Client -> [Key -> Content \cup {Absent}]]
           /\ \A d \in Client \ {c} : Same(d)
           /\ InStep(c)'
<1> DEFINE Saves(k, content) == /\ Apply([j \in {k} |-> content], {})
                                /\ copy' = [copy EXCEPT ![c][k] = content]
           Removes(k) == /\ Present(k)
                         /\ Apply([j \in {} |-> Absent], {k})
                         /\ copy' = [copy EXCEPT ![c][k] = Absent]
<1>1. /\ phase[c] = "ready" /\ version <= ver[c] /\ version < MaxVersion
      /\ ver' = [ver EXCEPT ![c] = version']
      /\ UNCHANGED <<phase, header, wanted, got>>
  BY DEF Upload
<1>2. PICK k \in Key : (\E content \in Content : Saves(k, content)) \/ Removes(k)
  BY DEF Upload
<1>3. PICK written \in SUBSET Key, removed \in SUBSET {j \in Key : Present(j)},
           content \in Content \cup {Absent} :
        /\ written \cap removed = {}
        /\ \E saved \in [written -> Content] : Apply(saved, removed)
        /\ copy' = [copy EXCEPT ![c][k] = content]
        /\ objs'[k].content = content
        /\ \A j \in Key : j # k => objs'[j].content = objs[j].content
  <2>1. ASSUME NEW content \in Content, Saves(k, content)
        PROVE  /\ [j \in {k} |-> content] \in [{k} -> Content]
               /\ objs'[k].content = content
               /\ \A j \in Key : j # k => objs'[j].content = objs[j].content
    BY <2>1 DEF Apply
  <2>2. ASSUME Removes(k)
        PROVE  /\ [j \in {} |-> Absent] \in [{} -> Content]
               /\ objs'[k].content = Absent
               /\ \A j \in Key : j # k => objs'[j].content = objs[j].content
    BY <2>2 DEF Apply, NoObject
  <2>3. CASE \E content \in Content : Saves(k, content)
    BY <2>1, <2>3
  <2>4. CASE Removes(k)
    BY <2>2, <2>4
  <2> QED
    BY <1>2, <2>3, <2>4
<1>4. Write
  BY <1>1, <1>3 DEF Write
<1>5. copy' \in [Client -> [Key -> Content \cup {Absent}]] /\ copy'[c] = [copy[c] EXCEPT ![k] = content]
  BY <1>3 DEF SyncTypeOK
<1>6. \A d \in Client \ {c} : Same(d)
  BY <1>1, <1>3 DEF Same, SyncTypeOK
<1>7. ver'[c] = version'
  BY <1>1 DEF SyncTypeOK
<1>8. version' = version + 1 /\ version \in Nat /\ header[c] <= version /\ header[c] \in Nat
  BY <1>4, LibraryAssumption DEF Write, Apply, SyncTypeOK, TypeOK, InStep
<1>9. ASSUME NEW j \in Key, Unambiguous(j)' PROVE copy'[c][j] = objs'[j].content
  <2>1. CASE j = k
    BY <1>3, <1>5, <2>1 DEF SyncTypeOK
  <2>2. CASE j # k
    <3>1. copy'[c][j] = copy[c][j]
      BY <1>5, <2>2 DEF SyncTypeOK
    <3>2. Unambiguous(j)
      BY <1>4, <1>9, WriteKey DEF IInv
    <3> QED
      BY <1>1, <1>3, <2>2, <3>1, <3>2, UpToDate
  <2> QED
    BY <2>1, <2>2
<1>10. phase'[c] = "ready" /\ header'[c] = header[c]
  BY <1>1
<1>11. InStep(c)'
  <2>1. ver'[c] <= version' /\ header'[c] <= version'
    BY <1>7, <1>8, <1>10
  <2> QED
    BY <1>9, <1>10, <2>1 DEF InStep
<1> QED
  BY <1>4, <1>5, <1>6, <1>11

-----------------------------------------------------------------------------
(* The steps of a sync *)

\* Between the first answer and the listing nothing is known of any key.
LEMMA AskStep ==
    ASSUME SyncTypeOK, NEW c \in Client, InStep(c), AskVersions(c)
    PROVE  InStep(c)'
<1>1. header'[c] = version /\ phase'[c] = "asked" /\ UNCHANGED <<serverVars, ver, copy>>
  BY DEF AskVersions, SyncTypeOK
<1>2. version \in Nat
  BY LibraryAssumption DEF SyncTypeOK, TypeOK
<1> QED
  BY <1>1, <1>2 DEF InStep, serverVars, Present, Unambiguous

\* The listing names every key that is present and changed since the version
\* the client holds.
LEMMA ListStep ==
    ASSUME SyncTypeOK, IInv, NEW c \in Client, InStep(c), ListVersions(c)
    PROVE  InStep(c)'
<1>1. /\ wanted'[c] = NewerThan(ver[c]) /\ phase'[c] = "listed"
      /\ UNCHANGED <<serverVars, ver, copy, header>>
  BY DEF ListVersions, SyncTypeOK
<1>2. ASSUME NEW k \in Key, Present(k) PROVE k \in NewerThan(ver[c]) \/ changed[k] <= ver[c]
  <2>1. objs[k].version \in Nat /\ changed[k] \in Nat /\ ver[c] \in Nat
    BY LibraryAssumption DEF SyncTypeOK, TypeOK, Object
  <2>2. objs[k].version >= changed[k]
    BY <1>2 DEF IInv, SinceIsComplete
  <2> QED
    BY <1>2, <2>1, <2>2 DEF NewerThan
<1> QED
  BY <1>1, <1>2 DEF InStep, serverVars, Present, Unambiguous

\* What is fetched is what the server holds.
LEMMA FetchStep ==
    ASSUME SyncTypeOK, NEW c \in Client, InStep(c), FetchObjects(c)
    PROVE  InStep(c)'
<1>1. /\ got'[c] = [k \in Key |-> IF k \in wanted[c] THEN objs[k].content ELSE Absent]
      /\ phase[c] = "listed" /\ phase'[c] = "fetched"
      /\ UNCHANGED <<serverVars, ver, copy, header, wanted>>
  BY DEF FetchObjects, SyncTypeOK
<1> QED
  BY <1>1 DEF InStep, serverVars, Present, Unambiguous

\* A key that has not changed since the sync began is now as the server has
\* it: it was listed and fetched, or the log says that it is gone, or it had
\* not changed since the version the client held.
LEMMA DeletedStep ==
    ASSUME SyncTypeOK, IInv, NEW c \in Client, InStep(c), ListDeleted(c)
    PROVE  InStep(c)'
<1>1. /\ phase[c] = "fetched"
      /\ ver'[c] = header[c] /\ phase'[c] = "ready" /\ header'[c] = 0
      /\ copy'[c] = [k \in Key |-> IF k \in ListDeletions(ver[c]) THEN Absent
                                   ELSE IF got[c][k] # Absent THEN got[c][k] ELSE copy[c][k]]
      /\ UNCHANGED serverVars
  BY DEF ListDeleted, SyncTypeOK
<1>2. version \in Nat /\ header[c] \in Nat /\ ver[c] \in Nat
  BY LibraryAssumption DEF SyncTypeOK, TypeOK
<1>3. ASSUME NEW k \in Key, Unambiguous(k), changed[k] <= header[c]
      PROVE  copy'[c][k] = objs[k].content
  <2>1. log[k] \in Nat /\ changed[k] \in Nat
    BY DEF SyncTypeOK, TypeOK
  <2>2. ~Present(k) => log[k] >= changed[k]
    BY DEF IInv, SinceIsComplete
  <2>3. log[k] # 0 => ~Present(k)
    BY <1>3 DEF Unambiguous, IInv, ForgottenWhenReturned
  <2>4. /\ copy[c][k] = objs[k].content \/ changed[k] > ver[c]
        /\ Present(k) => k \in wanted[c] \/ changed[k] <= ver[c]
        /\ got[c][k] = IF k \in wanted[c] THEN objs[k].content ELSE Absent
    BY <1>1, <1>3 DEF InStep
  <2>5. CASE log[k] > ver[c]
    <3>1. k \in ListDeletions(ver[c])
      BY <2>5 DEF ListDeletions
    <3>2. ~Present(k)
      BY <1>2, <2>1, <2>3, <2>5
    <3> QED
      BY <1>1, <3>1, <3>2 DEF Present
  <2>6. CASE ~(log[k] > ver[c])
    <3>1. copy'[c][k] = IF got[c][k] # Absent THEN got[c][k] ELSE copy[c][k]
      BY <1>1, <2>6 DEF ListDeletions
    <3>2. CASE got[c][k] # Absent
      BY <2>4, <3>1, <3>2
    <3>3. CASE got[c][k] = Absent
      <4>1. changed[k] <= ver[c]
        BY <1>2, <2>1, <2>2, <2>4, <2>6, <3>3 DEF Present
      <4> QED
        BY <1>2, <2>1, <2>4, <3>1, <3>3, <4>1
    <3> QED
      BY <3>2, <3>3
  <2> QED
    BY <2>5, <2>6
<1>4. \A k \in Key : changed[k] \in Nat
  BY DEF SyncTypeOK, TypeOK
<1>5. \A k \in Key : Unambiguous(k)' => copy'[c][k] = objs'[k].content \/ changed'[k] > ver'[c]
  BY <1>1, <1>2, <1>3, <1>4 DEF serverVars, Unambiguous
<1>6. ver'[c] <= version' /\ header'[c] <= version'
  BY <1>1, <1>2 DEF InStep, serverVars
<1> QED
  BY <1>1, <1>5, <1>6 DEF InStep

\* A sync that is given up leaves what the client had.
LEMMA InterruptedStep ==
    ASSUME SyncTypeOK, NEW c \in Client, InStep(c), Interrupted(c)
    PROVE  InStep(c)'
<1>1. phase'[c] = "ready" /\ header'[c] = 0 /\ UNCHANGED <<serverVars, ver, copy>>
  BY DEF Interrupted, SyncTypeOK
<1>2. version \in Nat
  BY LibraryAssumption DEF SyncTypeOK, TypeOK
<1> QED
  BY <1>1, <1>2 DEF InStep, serverVars, Present, Unambiguous

-----------------------------------------------------------------------------
(* Theorems *)

\* Every step is a write of the library, or leaves the library alone.
LEMMA ServerStep ==
    ASSUME SyncInv, [SyncNext]_syncVars
    PROVE  Write \/ UNCHANGED serverVars
<1>1. ASSUME NEW c \in Client, Sync(c) \/ Interrupted(c) PROVE UNCHANGED serverVars
  BY <1>1 DEF Sync, AskVersions, ListVersions, FetchObjects, ListDeleted, Interrupted
<1>2. ASSUME NEW c \in Client, Upload(c) PROVE Write
  BY <1>2, UploadStep DEF SyncInv
<1> QED
  BY <1>1, <1>2 DEF SyncNext, OtherWrite, syncVars, serverVars

\* The library keeps its invariant under syncing clients.
LEMMA LibraryStep ==
    ASSUME SyncInv, [SyncNext]_syncVars
    PROVE  IInv'
BY ServerStep, NextInv DEF SyncInv, Next, vars, serverVars

\* Every step keeps the types.
LEMMA SyncTypeStep ==
    ASSUME SyncInv, [SyncNext]_syncVars
    PROVE  SyncTypeOK'
<1> USE LibraryAssumption
<1>1. TypeOK' /\ SyncTypeOK /\ \A k \in Key : objs[k].content \in Content \cup {Absent}
  BY LibraryStep DEF SyncInv, IInv, SyncTypeOK, TypeOK, Object
<1>2. CASE OtherWrite
  BY <1>1, <1>2 DEF OtherWrite, clientVars, SyncTypeOK
<1>3. ASSUME NEW c \in Client, Upload(c) PROVE SyncTypeOK'
  <2>1. copy' \in [Client -> [Key -> Content \cup {Absent}]]
    BY <1>3, UploadStep DEF SyncInv
  <2>2. version' \in 0..MaxVersion
    BY <1>1 DEF TypeOK
  <2> QED
    BY <1>1, <1>3, <2>1, <2>2 DEF Upload, SyncTypeOK
<1>4. ASSUME NEW c \in Client, AskVersions(c) PROVE SyncTypeOK'
  <2>1. version \in 0..MaxVersion
    BY <1>1 DEF SyncTypeOK, TypeOK
  <2> QED
    BY <1>1, <1>4, <2>1 DEF AskVersions, SyncTypeOK
<1>5. ASSUME NEW c \in Client, ListVersions(c) PROVE SyncTypeOK'
  BY <1>1, <1>5 DEF ListVersions, SyncTypeOK, NewerThan
<1>6. ASSUME NEW c \in Client, FetchObjects(c) PROVE SyncTypeOK'
  BY <1>1, <1>6 DEF FetchObjects, SyncTypeOK
<1>7. ASSUME NEW c \in Client, ListDeleted(c) PROVE SyncTypeOK'
  <2>1. [k \in Key |-> IF k \in ListDeletions(ver[c]) THEN Absent
                       ELSE IF got[c][k] # Absent THEN got[c][k] ELSE copy[c][k]]
          \in [Key -> Content \cup {Absent}]
    BY <1>1 DEF SyncTypeOK
  <2>2. copy' \in [Client -> [Key -> Content \cup {Absent}]]
    BY <1>1, <1>7, <2>1 DEF ListDeleted, SyncTypeOK
  <2>3. got' \in [Client -> [Key -> Content \cup {Absent}]]
    BY <1>1, <1>7 DEF ListDeleted, SyncTypeOK, Nothing
  <2> QED
    BY <1>1, <1>7, <2>2, <2>3 DEF ListDeleted, SyncTypeOK
<1>8. ASSUME NEW c \in Client, Interrupted(c) PROVE SyncTypeOK'
  BY <1>1, <1>8 DEF Interrupted, SyncTypeOK, Nothing
<1>9. CASE UNCHANGED syncVars
  BY <1>1, <1>9 DEF syncVars, SyncTypeOK
<1> QED
  BY <1>2, <1>3, <1>4, <1>5, <1>6, <1>7, <1>8, <1>9 DEF SyncNext, Sync

\* Every step leaves every client in step.
LEMMA ClientStep ==
    ASSUME SyncInv, [SyncNext]_syncVars, NEW d \in Client
    PROVE  InStep(d)'
<1>1. SyncTypeOK /\ IInv /\ InStep(d)
  BY DEF SyncInv
<1>2. CASE OtherWrite
  BY <1>1, <1>2, OverWrite DEF OtherWrite, clientVars, Same
<1>3. ASSUME NEW c \in Client, Upload(c) PROVE InStep(d)'
  <2>1. InStep(c)
    BY DEF SyncInv
  <2>2. CASE d = c
    BY <1>1, <1>3, <2>2, UploadStep
  <2>3. CASE d # c
    <3>1. Write /\ Same(d)
      BY <1>1, <1>3, <2>1, <2>3, UploadStep
    <3> QED
      BY <1>1, <3>1, OverWrite
  <2> QED
    BY <2>2, <2>3
<1>4. ASSUME NEW c \in Client, Sync(c) \/ Interrupted(c), d # c PROVE InStep(d)'
  <2>1. UNCHANGED serverVars /\ Same(d)
    BY <1>1, <1>4 DEF Sync, AskVersions, ListVersions, FetchObjects, ListDeleted, Interrupted,
                      Same, SyncTypeOK
  <2> QED
    BY <1>1, <2>1, OverRead
<1>5. ASSUME Sync(d) \/ Interrupted(d) PROVE InStep(d)'
  BY <1>1, <1>5, AskStep, ListStep, FetchStep, DeletedStep, InterruptedStep DEF Sync
<1>6. CASE UNCHANGED syncVars
  BY <1>1, <1>6, OverRead DEF syncVars, serverVars, Same
<1> QED
  BY <1>2, <1>3, <1>4, <1>5, <1>6 DEF SyncNext

LEMMA SyncInitInv == SyncInit => SyncInv
<1> SUFFICES ASSUME SyncInit PROVE SyncInv
  OBVIOUS
<1> USE LibraryAssumption
<1>1. IInv
  BY InitInv DEF SyncInit
<1>2. SyncTypeOK
  BY <1>1 DEF SyncInit, SyncTypeOK, IInv, Nothing
<1>3. ASSUME NEW c \in Client PROVE InStep(c)
  BY DEF SyncInit, Init, InStep, Nothing, NoObject
<1> QED
  BY <1>1, <1>2, <1>3 DEF SyncInv

LEMMA SyncStepInv == SyncInv /\ [SyncNext]_syncVars => SyncInv'
BY LibraryStep, SyncTypeStep, ClientStep DEF SyncInv

\* The types, and what a client has learnt so far, hold of every reachable
\* state.
THEOREM SyncInvariance == SyncSpec => []SyncInv
BY SyncInitInv, SyncStepInv, PTL DEF SyncSpec

\* The server's state and the clients' keep their types, versions within the
\* bound, whatever is written between a client's requests.
THEOREM SyncTypes == SyncSpec => []SyncTypeOK
<1>1. SyncInv => SyncTypeOK
  BY DEF SyncInv
<1> QED
  BY <1>1, SyncInvariance, PTL

\* A client at version v holds what the server holds, under every key that
\* has not changed since v, whatever is written between its requests.
THEOREM NothingIsMissed == SyncSpec => []NothingMissed
<1>1. SyncInv => NothingMissed
  BY DEF SyncInv, InStep, NothingMissed
<1> QED
  BY <1>1, SyncInvariance, PTL

\* No upload that the server takes overwrites what its client was not sent.
THEOREM UploadsAreInformed == SyncSpec => UploadsSeeEverything
<1>1. ASSUME SyncInv, NEW c \in Client, Upload(c), NEW k \in Key, Unambiguous(k)
      PROVE  copy[c][k] = objs[k].content
  BY <1>1, UpToDate DEF SyncInv, Upload
<1>2. SyncInv /\ [SyncNext]_syncVars =>
        [\A c \in Client : Upload(c) =>
            \A k \in Key : Unambiguous(k) => copy[c][k] = objs[k].content]_syncVars
  BY <1>1
<1> QED
  BY <1>2, SyncInvariance, PTL DEF SyncSpec, UploadsSeeEverything
=============================================================================
