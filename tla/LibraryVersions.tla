-------------------------- MODULE LibraryVersions --------------------------
(***************************************************************************)
(* What a library promises to the clients that sync with it, with nothing  *)
(* said of how requests arrive or are serialized.  A library has one       *)
(* version, raised by one by every write; an object carries the version    *)
(* of the write that last saved it; the delete log keeps, for a removed    *)
(* key, the version of the write that removed it.  A client that holds     *)
(* version v asks for the objects and for the log entries above v and      *)
(* must learn of everything that changed since.                            *)
(***************************************************************************)
EXTENDS Naturals

CONSTANTS
    Key,          \* the keys of the library's objects, of every kind
    Content,      \* what a stored object can hold
    Absent,       \* the content of a key that names nothing
    Forgets,      \* the keys whose delete-log row goes when they come back
    MaxVersion    \* bound on the library version

ASSUME LibraryAssumption ==
    /\ Absent \notin Content
    /\ Forgets \subseteq Key
    /\ MaxVersion \in Nat

VARIABLES
    version,      \* libraries.version
    objs,         \* the object tables: the version and content of each key
    log,          \* deleted_objects: the version of each row, 0 for no row
    changed       \* history: the version that last changed what a key holds

vars == <<version, objs, log, changed>>

Object == [version : Nat, content : Content \cup {Absent}]

\* No row at all, which every version check reads as version 0.
NoObject == [version |-> 0, content |-> Absent]

Present(k) == objs[k].content # Absent

TypeOK ==
    /\ version \in 0..MaxVersion
    /\ objs \in [Key -> Object]
    /\ log \in [Key -> Nat]
    /\ changed \in [Key -> Nat]

Init ==
    /\ version = 0
    /\ objs = [k \in Key |-> NoObject]
    /\ log = [k \in Key |-> 0]
    /\ changed = [k \in Key |-> 0]

\* Mutant of Apply: no row ever leaves the log.
ApplyKeepsLog(saved, removed) ==
    LET new == version + 1
    IN  /\ version' = new
        /\ objs' = [k \in Key |->
                      IF k \in DOMAIN saved
                      THEN [version |-> new, content |-> saved[k]]
                      ELSE IF k \in removed THEN NoObject ELSE objs[k]]
        /\ log' = [k \in Key |-> IF k \in removed THEN new ELSE log[k]]
        /\ changed' = [k \in Key |->
                      IF objs'[k].content # objs[k].content THEN new ELSE changed[k]]

(***************************************************************************)
(* One committed write: the keys of saved are stored and stamped with the  *)
(* new version, those of removed are dropped and logged at it.  One that   *)
(* comes back loses its row of the log only if its kind does that.         *)
(***************************************************************************)
Apply(saved, removed) ==
    LET new == version + 1
    IN  /\ version' = new
        /\ objs' = [k \in Key |->
                      IF k \in DOMAIN saved
                      THEN [version |-> new, content |-> saved[k]]
                      ELSE IF k \in removed THEN NoObject ELSE objs[k]]
        /\ log' = [k \in Key |->
                      IF k \in removed THEN new
                      ELSE IF k \in DOMAIN saved /\ k \in Forgets THEN 0 ELSE log[k]]
        /\ changed' = [k \in Key |->
                      IF objs'[k].content # objs[k].content THEN new ELSE changed[k]]

\* A delete of keys that name nothing still raises the version, so both
\* sets may be empty.
Write ==
    /\ version < MaxVersion
    /\ \E written \in SUBSET Key, removed \in SUBSET {k \in Key : Present(k)} :
         /\ written \cap removed = {}
         /\ \E saved \in [written -> Content] : Apply(saved, removed)

Next == Write

Spec == Init /\ [][Next]_vars

----------------------------------------------------------------------------
(***************************************************************************)
(* Safety.                                                                 *)
(***************************************************************************)

\* Nothing carries a version the library has not reached, so a client that
\* holds the library's version has nothing left to ask for.
VersionsReached ==
    \A k \in Key : /\ objs[k].version <= version
                   /\ log[k] <= version
                   /\ changed[k] <= version

\* A client that asks for the objects and the deletions since any version
\* it was ever at is told of every key that holds something else now: a
\* present key is newer than the change, a removed one is in the log at or
\* above it.
SinceIsComplete ==
    \A k \in Key :
        IF Present(k) THEN objs[k].version >= changed[k]
                      ELSE log[k] >= changed[k]

\* A key of a kind that forgets its deletion is never both listed as stored
\* and named by the delete log, whichever order a client reads the two in.
ForgottenWhenReturned ==
    \A k \in Forgets : Present(k) => log[k] = 0

\* The three facts about the log and the versions, with the type, are
\* inductive together.
IInv == TypeOK /\ VersionsReached /\ SinceIsComplete /\ ForgottenWhenReturned
============================================================================
