---------------------------- MODULE LibrarySync ----------------------------
(***************************************************************************)
(* Clients that keep a copy of a library in step with the server while     *)
(* others write to it.  The server is LibraryVersions, which LibraryWrites *)
(* implements, so a write is one step; a read is not, because a request    *)
(* reads the library row first, for the version it reports, and the        *)
(* objects in a later statement, and a sync is several requests.           *)
(*                                                                         *)
(* The client is the one docs/compatibility.md and                         *)
(* tests/test_sync_cycle.py describe: it asks which objects are newer than *)
(* the version it holds, fetches those by key, asks what was removed since *)
(* the same version, and then holds the version the first answer carried.  *)
(***************************************************************************)
EXTENDS LibraryVersions

CONSTANTS Client       \* the clients that sync with the library

VARIABLES
    ver,        \* the library version each client holds
    copy,       \* what each client holds under each key
    phase,      \* how far each client's sync has got
    header,     \* the Last-Modified-Version of the sync's first answer
    wanted,     \* the keys the versions listing named
    got         \* the objects fetched by key

clientVars == <<ver, copy, phase, header, wanted, got>>
serverVars == <<version, objs, log, changed>>
syncVars == <<version, objs, log, changed, ver, copy, phase, header, wanted, got>>

Nothing == [k \in Key |-> Absent]

SyncTypeOK ==
    /\ TypeOK
    /\ ver \in [Client -> 0..MaxVersion]
    /\ copy \in [Client -> [Key -> Content \cup {Absent}]]
    /\ phase \in [Client -> {"ready", "asked", "listed", "fetched"}]
    /\ header \in [Client -> 0..MaxVersion]
    /\ wanted \in [Client -> SUBSET Key]
    /\ got \in [Client -> [Key -> Content \cup {Absent}]]

SyncInit ==
    /\ Init
    /\ ver = [c \in Client |-> 0]
    /\ copy = [c \in Client |-> Nothing]
    /\ phase = [c \in Client |-> "ready"]
    /\ header = [c \in Client |-> 0]
    /\ wanted = [c \in Client |-> {}]
    /\ got = [c \in Client |-> Nothing]

----------------------------------------------------------------------------
(***************************************************************************)
(* What the server answers.                                                *)
(***************************************************************************)

\* Mutant of NotModified: off by one.
NotModifiedLate(known) == version <= known + 1

\* If-Modified-Since-Version: the client has this version already.
NotModified(known) == version <= known

NewerThan(since) == {k \in Key : Present(k) /\ objs[k].version > since}

ListDeletions(since) == {k \in Key : log[k] > since}

----------------------------------------------------------------------------
(***************************************************************************)
(* A sync, and what else happens.                                          *)
(***************************************************************************)

\* Mutant of AskVersions: the version a write in progress would take.
AskVersionsAhead(c) ==
    /\ phase[c] = "ready"
    /\ ~NotModified(ver[c])
    /\ header' = [header EXCEPT ![c] = version + 1]
    /\ phase' = [phase EXCEPT ![c] = "asked"]
    /\ UNCHANGED <<serverVars, ver, copy, wanted, got>>

\* The versions listing arrives and its library row is read.
AskVersions(c) ==
    /\ phase[c] = "ready"
    /\ ~NotModified(ver[c])
    /\ header' = [header EXCEPT ![c] = version]
    /\ phase' = [phase EXCEPT ![c] = "asked"]
    /\ UNCHANGED <<serverVars, ver, copy, wanted, got>>

\* The objects newer than since are read, by a later statement, and the
\* answer reaches the client.
ListVersions(c) ==
    /\ phase[c] = "asked"
    /\ wanted' = [wanted EXCEPT ![c] = NewerThan(ver[c])]
    /\ phase' = [phase EXCEPT ![c] = "listed"]
    /\ UNCHANGED <<serverVars, ver, copy, header, got>>

\* The client fetches by key what it was told changed; a key that names
\* nothing any more is not in the answer.
FetchObjects(c) ==
    /\ phase[c] = "listed"
    /\ got' = [got EXCEPT ![c] =
                [k \in Key |-> IF k \in wanted[c] THEN objs[k].content ELSE Absent]]
    /\ phase' = [phase EXCEPT ![c] = "fetched"]
    /\ UNCHANGED <<serverVars, ver, copy, header, wanted>>

\* Mutant of ListDeleted: the version of the last answer, not of the first.
ListDeletedLast(c) ==
    /\ phase[c] = "fetched"
    /\ copy' = [copy EXCEPT ![c] =
                 [k \in Key |-> IF k \in ListDeletions(ver[c]) THEN Absent
                                ELSE IF got[c][k] # Absent THEN got[c][k] ELSE @[k]]]
    /\ ver' = [ver EXCEPT ![c] = version]
    /\ phase' = [phase EXCEPT ![c] = "ready"]
    /\ wanted' = [wanted EXCEPT ![c] = {}]
    /\ got' = [got EXCEPT ![c] = Nothing]
    /\ header' = [header EXCEPT ![c] = 0]
    /\ UNCHANGED serverVars

\* The client asks what was removed, applies what it was sent, removals
\* last, and holds the version the sync began at.
ListDeleted(c) ==
    /\ phase[c] = "fetched"
    /\ copy' = [copy EXCEPT ![c] =
                 [k \in Key |-> IF k \in ListDeletions(ver[c]) THEN Absent
                                ELSE IF got[c][k] # Absent THEN got[c][k] ELSE @[k]]]
    /\ ver' = [ver EXCEPT ![c] = header[c]]
    /\ phase' = [phase EXCEPT ![c] = "ready"]
    /\ wanted' = [wanted EXCEPT ![c] = {}]
    /\ got' = [got EXCEPT ![c] = Nothing]
    /\ header' = [header EXCEPT ![c] = 0]
    /\ UNCHANGED serverVars

\* Something other than a client of this module writes to the library.
OtherWrite == Write /\ UNCHANGED clientVars

\* Mutant of Upload: If-Unmodified-Since-Version is not looked at.
UploadUnchecked(c) ==
    /\ phase[c] = "ready"
    /\ version < MaxVersion
    /\ \E k \in Key :
         \/ \E content \in Content :
              /\ Apply([j \in {k} |-> content], {})
              /\ copy' = [copy EXCEPT ![c][k] = content]
         \/ /\ Present(k)
            /\ Apply([j \in {} |-> Absent], {k})
            /\ copy' = [copy EXCEPT ![c][k] = Absent]
    /\ ver' = [ver EXCEPT ![c] = version']
    /\ UNCHANGED <<phase, header, wanted, got>>

\* A client saves or removes one object, naming the version it holds, and
\* holds the version the server answers with.  The server takes it only if
\* the library has not moved on (CheckLibraryVersion of LibraryWrites).
Upload(c) ==
    /\ phase[c] = "ready"
    /\ version <= ver[c]
    /\ version < MaxVersion
    /\ \E k \in Key :
         \/ \E content \in Content :
              /\ Apply([j \in {k} |-> content], {})
              /\ copy' = [copy EXCEPT ![c][k] = content]
         \/ /\ Present(k)
            /\ Apply([j \in {} |-> Absent], {k})
            /\ copy' = [copy EXCEPT ![c][k] = Absent]
    /\ ver' = [ver EXCEPT ![c] = version']
    /\ UNCHANGED <<phase, header, wanted, got>>

\* A client gives up a sync that was interrupted and keeps what it had.
Interrupted(c) ==
    /\ phase[c] # "ready"
    /\ phase' = [phase EXCEPT ![c] = "ready"]
    /\ wanted' = [wanted EXCEPT ![c] = {}]
    /\ got' = [got EXCEPT ![c] = Nothing]
    /\ header' = [header EXCEPT ![c] = 0]
    /\ UNCHANGED <<serverVars, ver, copy>>

Sync(c) == AskVersions(c) \/ ListVersions(c) \/ FetchObjects(c) \/ ListDeleted(c)

SyncNext ==
    \/ OtherWrite
    \/ \E c \in Client : Sync(c) \/ Upload(c) \/ Interrupted(c)

SyncSpec == SyncInit /\ [][SyncNext]_syncVars

\* A client syncs again for as long as the server is ahead of it, and not
\* every sync is interrupted before its last request.
FairSync ==
    SyncSpec /\ \A c \in Client : /\ WF_syncVars(Sync(c))
                                  /\ SF_syncVars(ListDeleted(c))
                                  /\ SF_syncVars(FetchObjects(c))
                                  /\ SF_syncVars(ListVersions(c))

----------------------------------------------------------------------------
(***************************************************************************)
(* Properties.                                                             *)
(***************************************************************************)

\* The keys whose listing and log never contradict each other: those of a
\* kind that clears its row, and those never yet removed.
Unambiguous(k) == k \in Forgets \/ log[k] = 0

\* A client that holds version v holds, under every key, what the server
\* holds, unless the key changed after v: whatever was written between the
\* requests of its syncs, nothing is missed for good.
NothingMissed ==
    \A c \in Client, k \in Key :
        Unambiguous(k) => copy[c][k] = objs[k].content \/ changed[k] > ver[c]

\* An upload that is taken stands on all the client has not yet lost sight
\* of: no client overwrites what it has never been sent.
UploadsSeeEverything ==
    [][\A c \in Client : Upload(c) =>
         \A k \in Key : Unambiguous(k) => copy[c][k] = objs[k].content]_syncVars

\* When the writing stops every client ends with the server's contents.
Converges ==
    <>[](\A c \in Client, k \in Key :
            Unambiguous(k) => copy[c][k] = objs[k].content)
============================================================================
