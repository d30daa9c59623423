----------------------------- MODULE Streaming -----------------------------
(***************************************************************************)
(* The streaming API: what write requests note while their transaction is  *)
(* open, when that is published, and what reaches the sockets attached to  *)
(* the broker.  Events carry a topic and a version, or say that what an    *)
(* account may reach has changed; the connections here are all that        *)
(* account's, and hold at most one subscription, made without naming       *)
(* topics, which is the one the desktop client makes.                      *)
(*                                                                         *)
(* A connection runs two tasks that interleave wherever one awaits: the    *)
(* reader acts on the client's messages, the writer on the queue.          *)
(***************************************************************************)
EXTENDS Naturals, Sequences

CONSTANTS
    Library,      \* the libraries, each of them a topic
    Request,      \* the requests the server may be running at one time
    Conn,         \* the sockets
    Account,      \* the topic of an AccessChanged event
    None,         \* a task that is not in the middle of anything
    QueueSize,    \* QUEUE_SIZE: events held for one connection
    MaxVersion    \* bound on the version of a library

ASSUME StreamingAssumption ==
    /\ QueueSize \in Nat \ {0}
    /\ MaxVersion \in Nat
    /\ Account \notin Library
    /\ \A S \in SUBSET Library : S # None

VARIABLES
    version,      \* the committed version of each library
    access,       \* the libraries the account may read, as committed
    tx,           \* the transaction of each request
    pending,      \* session.info: what each transaction would announce
    conn,         \* closed, greeting (not attached yet) or attached
    queue,        \* the broker's queue of each attached connection
    topics,       \* what each connection's subscription watches
    subscribed,   \* whether it has one
    creating,     \* what a createSubscriptions in progress has read
    resyncing,    \* what a _resync in progress has read
    known,        \* history: the newest version each connection has taken off
                  \* its queue, or that was committed before it attached
    before,       \* history: the version announced, but not committed, when
                  \* the connection attached; 0 for none
    overflowed,   \* history: an event was dropped from the queue
    missed,       \* history: the account's access changed between the read
                  \* of a subscription's topics and the moment they took hold
    unannounced   \* history: the libraries whose membership was last gained
                  \* by taking up an invitation

serverVars == <<version, access, tx, pending, unannounced>>
connVars == <<conn, topics, subscribed, creating, resyncing>>
vars == <<version, access, tx, pending, conn, queue, topics, subscribed, creating,
          resyncing, known, before, overflowed, missed, unannounced>>

Event == [topic : Library \cup {Account}, version : 0..MaxVersion]
AccessChanged == [topic |-> Account, version |-> 0]

\* A transaction is about one library: it moves its version, gives or takes
\* the account's membership, or both.
NoTx == [step |-> "idle", topic |-> None, batch |-> FALSE, bumps |-> FALSE, toggles |-> FALSE]
Transaction == [step : {"idle", "open", "committed"}, topic : Library \cup {None},
                batch : BOOLEAN, bumps : BOOLEAN, toggles : BOOLEAN]

\* The events a session has noted, an access change first; 0 for no version.
Pending == [access : BOOLEAN, version : 0..MaxVersion]
NothingPending == [access |-> FALSE, version |-> 0]

TypeOK ==
    /\ version \in [Library -> 0..MaxVersion]
    /\ access \subseteq Library
    /\ tx \in [Request -> Transaction]
    /\ pending \in [Request -> Pending]
    /\ conn \in [Conn -> {"closed", "greeting", "attached"}]
    /\ \A c \in Conn : queue[c] \in Seq(Event) /\ Len(queue[c]) <= QueueSize
    /\ topics \in [Conn -> SUBSET Library]
    /\ subscribed \in [Conn -> BOOLEAN]
    /\ creating \in [Conn -> (SUBSET Library) \cup {None}]
    /\ resyncing \in [Conn -> (SUBSET Library) \cup {None}]
    /\ known \in [Conn -> [Library -> 0..MaxVersion]]
    /\ before \in [Conn -> [Library -> 0..MaxVersion]]
    /\ overflowed \in [Conn -> BOOLEAN]
    /\ missed \in [Conn -> BOOLEAN]
    /\ unannounced \subseteq access

Init ==
    /\ version = [l \in Library |-> 0]
    /\ access \in SUBSET Library
    /\ tx = [r \in Request |-> NoTx]
    /\ pending = [r \in Request |-> NothingPending]
    /\ conn = [c \in Conn |-> "closed"]
    /\ queue = [c \in Conn |-> <<>>]
    /\ topics = [c \in Conn |-> {}]
    /\ subscribed = [c \in Conn |-> FALSE]
    /\ creating = [c \in Conn |-> None]
    /\ resyncing = [c \in Conn |-> None]
    /\ known = [c \in Conn |-> [l \in Library |-> 0]]
    /\ before = [c \in Conn |-> [l \in Library |-> 0]]
    /\ overflowed = [c \in Conn |-> FALSE]
    /\ missed = [c \in Conn |-> FALSE]
    /\ unannounced = {}

----------------------------------------------------------------------------
(***************************************************************************)
(* The write side.                                                         *)
(***************************************************************************)

Newer(a, b) == IF a < b THEN b ELSE a

\* bump_library_version under the library's row lock: the new version is
\* noted, to be announced on commit.  With toggles the account is added to
\* or removed from the group first, which is noted too.
BumpLibraryVersion(r, l, batch, toggles) ==
    /\ tx[r].step = "idle"
    /\ \A q \in Request : tx[q].step = "open" => tx[q].topic # l
    /\ version[l] < MaxVersion
    /\ batch => ~toggles
    /\ tx' = [tx EXCEPT ![r] = [step |-> "open", topic |-> l, batch |-> batch,
                                bumps |-> TRUE, toggles |-> toggles]]
    /\ pending' = [pending EXCEPT ![r] = [access |-> toggles, version |-> version[l] + 1]]
    /\ UNCHANGED <<version, access, connVars, queue, known, before, overflowed, missed,
                   unannounced>>

\* The account makes a group, or one it is in is deleted: no version moves.
NoteAccessChange(r, l) ==
    /\ tx[r].step = "idle"
    /\ \A q \in Request : tx[q].step = "open" => tx[q].topic # l
    /\ tx' = [tx EXCEPT ![r] = [step |-> "open", topic |-> l, batch |-> FALSE,
                                bumps |-> FALSE, toggles |-> TRUE]]
    /\ pending' = [pending EXCEPT ![r] = [access |-> TRUE, version |-> 0]]
    /\ UNCHANGED <<version, access, connVars, queue, known, before, overflowed, missed,
                   unannounced>>

\* The account takes up an invitation: `accept` adds the member and raises
\* the version, and notes no access change.
AcceptInvitation(r, l) ==
    /\ tx[r].step = "idle"
    /\ \A q \in Request : tx[q].step = "open" => tx[q].topic # l
    /\ version[l] < MaxVersion
    /\ l \notin access
    /\ tx' = [tx EXCEPT ![r] = [step |-> "open", topic |-> l, batch |-> FALSE,
                                bumps |-> TRUE, toggles |-> TRUE]]
    /\ pending' = [pending EXCEPT ![r] = [access |-> FALSE, version |-> version[l] + 1]]
    /\ UNCHANGED <<version, access, connVars, queue, known, before, overflowed, missed,
                   unannounced>>

\* Mutants of Enqueue: no limit; an event is taken to say what one of the
\* same topic that still waits has said.
EnqueueUnbounded(q, m) == Append(q, m)
EnqueueOncePerTopic(q, m) ==
    IF \E i \in DOMAIN q : q[i].topic = m.topic THEN q
    ELSE Append(IF Len(q) = QueueSize THEN Tail(q) ELSE q, m)

\* A full queue loses its oldest event.
Enqueue(q, m) == Append(IF Len(q) = QueueSize THEN Tail(q) ELSE q, m)

\* The events of topic l that noted holds, in the order they were noted.
Noted(noted, l) ==
    (IF noted.access THEN <<AccessChanged>> ELSE <<>>)
      \o (IF noted.version > 0 THEN <<[topic |-> l, version |-> noted.version]>> ELSE <<>>)

EnqueueAll(q, events) ==
    CASE Len(events) = 0 -> q
      [] Len(events) = 1 -> Enqueue(q, events[1])
      [] Len(events) = 2 -> Enqueue(Enqueue(q, events[1]), events[2])

\* _publish_pending: what the session noted goes out, once, to the queue of
\* every attached connection.
Publish(r) ==
    LET noted == pending[r]
        events == Noted(noted, tx[r].topic)
        attached == {c \in Conn : conn[c] = "attached"}
        reading(c) == conn[c] = "greeting" \/ creating[c] # None
    IN  /\ queue' = [c \in Conn |-> IF c \in attached THEN EnqueueAll(queue[c], events)
                                                       ELSE queue[c]]
        /\ overflowed' = [c \in Conn |->
               overflowed[c] \/ (c \in attached /\ Len(queue[c]) + Len(events) > QueueSize)]
        /\ missed' = [c \in Conn |-> missed[c] \/ (noted.access /\ reading(c))]
        /\ pending' = [pending EXCEPT ![r] = NothingPending]

\* The first object of a batch to succeed, or a tag that had to be made:
\* SQLAlchemy dispatches after_commit for the release of a savepoint too.
ReleaseSavepoint(r) ==
    /\ tx[r].step = "open"
    /\ tx[r].batch
    /\ Publish(r)
    /\ UNCHANGED <<version, access, tx, connVars, known, before, unannounced>>

\* The database commits: the others see it and the row lock is let go.
CommitTx(r) ==
    /\ tx[r].step = "open"
    /\ tx' = [tx EXCEPT ![r].step = "committed"]
    /\ version' = [l \in Library |-> IF tx[r].topic = l /\ tx[r].bumps
                                     THEN version[l] + 1 ELSE version[l]]
    /\ access' = IF ~tx[r].toggles THEN access
                 ELSE IF tx[r].topic \in access
                      THEN access \ {tx[r].topic} ELSE access \cup {tx[r].topic}
    /\ unannounced' = IF ~tx[r].toggles THEN unannounced
                      ELSE IF pending[r].access
                           THEN unannounced \ {tx[r].topic} ELSE unannounced \cup {tx[r].topic}
    /\ UNCHANGED <<pending, connVars, queue, known, before, overflowed, missed>>

\* The session hears of its commit, and after_commit runs.
AfterCommit(r) ==
    /\ tx[r].step = "committed"
    /\ Publish(r)
    /\ tx' = [tx EXCEPT ![r] = NoTx]
    /\ UNCHANGED <<version, access, connVars, known, before, unannounced>>

\* The request fails, its client goes away or nothing in it succeeded: the
\* session goes with what it would have announced.
RollbackTx(r) ==
    /\ tx[r].step = "open"
    /\ tx' = [tx EXCEPT ![r] = NoTx]
    /\ pending' = [pending EXCEPT ![r] = NothingPending]
    /\ before' = [c \in Conn |-> [l \in Library |->
           IF tx[r].topic = l /\ before[c][l] > version[l] THEN 0 ELSE before[c][l]]]
    /\ UNCHANGED <<version, access, connVars, queue, known, overflowed, missed, unannounced>>

----------------------------------------------------------------------------
(***************************************************************************)
(* The sockets.                                                            *)
(***************************************************************************)

\* A handshake with a key: the topics are read, the subscription made and
\* the greeting sent before the connection attaches to the broker.
Greet(c) ==
    /\ conn[c] = "closed"
    /\ conn' = [conn EXCEPT ![c] = "greeting"]
    /\ topics' = [topics EXCEPT ![c] = access]
    /\ subscribed' = [subscribed EXCEPT ![c] = TRUE]
    /\ UNCHANGED <<serverVars, queue, creating, resyncing, known, before, overflowed, missed>>

\* The open transaction of l has announced its version already.
Early(l) == \E r \in Request : /\ tx[r].step = "open" /\ tx[r].topic = l
                               /\ tx[r].bumps /\ pending[r].version = 0

\* broker.attach, after the greeting or, without a key, at once.  What was
\* published until now has gone to others.
Attach(c) ==
    /\ conn[c] \in {"closed", "greeting"}
    /\ conn' = [conn EXCEPT ![c] = "attached"]
    /\ known' = [known EXCEPT ![c] = version]
    /\ before' = [before EXCEPT ![c] = [l \in Library |->
                                           IF Early(l) THEN version[l] + 1 ELSE 0]]
    /\ UNCHANGED <<serverVars, queue, topics, subscribed, creating, resyncing,
                   overflowed, missed>>

\* createSubscriptions, up to its last await: what the key may read.
ReadTopics(c) ==
    /\ conn[c] = "attached"
    /\ creating[c] = None
    /\ creating' = [creating EXCEPT ![c] = access]
    /\ UNCHANGED <<serverVars, conn, queue, topics, subscribed, resyncing, known,
                   before, overflowed, missed>>

\* The subscription is made, or given what was read besides.
Subscribe(c) ==
    /\ creating[c] # None
    /\ topics' = [topics EXCEPT ![c] = @ \cup creating[c]]
    /\ subscribed' = [subscribed EXCEPT ![c] = TRUE]
    /\ creating' = [creating EXCEPT ![c] = None]
    /\ UNCHANGED <<serverVars, conn, queue, resyncing, known, before, overflowed, missed>>

\* deleteSubscriptions without a topic.  A resync in progress goes on to
\* write to a subscription nobody holds.
Unsubscribe(c) ==
    /\ conn[c] = "attached"
    /\ creating[c] = None
    /\ subscribed[c]
    /\ topics' = [topics EXCEPT ![c] = {}]
    /\ subscribed' = [subscribed EXCEPT ![c] = FALSE]
    /\ resyncing' = [resyncing EXCEPT ![c] = None]
    /\ missed' = [missed EXCEPT ![c] = FALSE]
    /\ UNCHANGED <<serverVars, conn, queue, creating, known, before, overflowed>>

\* The writer takes the oldest event.  One about a library goes to the
\* client if it is watched; one about the account starts a resync of the
\* subscription, which reads what the key may reach now.
Deliver(c) ==
    /\ conn[c] = "attached"
    /\ resyncing[c] = None
    /\ queue[c] # <<>>
    /\ LET m == Head(queue[c])
       IN  IF m.topic = Account
           THEN /\ resyncing' = [resyncing EXCEPT ![c] = IF subscribed[c] THEN access ELSE None]
                /\ UNCHANGED known
           ELSE /\ known' = [known EXCEPT ![c][m.topic] = Newer(@, m.version)]
                /\ UNCHANGED resyncing
    /\ queue' = [queue EXCEPT ![c] = Tail(@)]
    /\ UNCHANGED <<serverVars, conn, topics, subscribed, creating, before, overflowed, missed>>

\* Mutant of ResyncStore: what the key lost is still watched.
ResyncStoreAdds(c) ==
    /\ resyncing[c] # None
    /\ topics' = [topics EXCEPT ![c] = @ \cup resyncing[c]]
    /\ resyncing' = [resyncing EXCEPT ![c] = None]
    /\ missed' = [missed EXCEPT ![c] = @ /\ creating[c] # None]
    /\ UNCHANGED <<serverVars, conn, queue, subscribed, creating, known, before, overflowed>>

\* The client has been told what it gained and lost, and the subscription
\* is what was read.
ResyncStore(c) ==
    /\ resyncing[c] # None
    /\ topics' = [topics EXCEPT ![c] = resyncing[c]]
    /\ resyncing' = [resyncing EXCEPT ![c] = None]
    /\ missed' = [missed EXCEPT ![c] = @ /\ creating[c] # None]
    /\ UNCHANGED <<serverVars, conn, queue, subscribed, creating, known, before, overflowed>>

\* Either side ends the connection.
Close(c) ==
    /\ conn[c] # "closed"
    /\ conn' = [conn EXCEPT ![c] = "closed"]
    /\ queue' = [queue EXCEPT ![c] = <<>>]
    /\ topics' = [topics EXCEPT ![c] = {}]
    /\ subscribed' = [subscribed EXCEPT ![c] = FALSE]
    /\ creating' = [creating EXCEPT ![c] = None]
    /\ resyncing' = [resyncing EXCEPT ![c] = None]
    /\ known' = [known EXCEPT ![c] = [l \in Library |-> 0]]
    /\ before' = [before EXCEPT ![c] = [l \in Library |-> 0]]
    /\ overflowed' = [overflowed EXCEPT ![c] = FALSE]
    /\ missed' = [missed EXCEPT ![c] = FALSE]
    /\ UNCHANGED serverVars

Next ==
    \/ \E r \in Request :
         \/ \E l \in Library, batch \in BOOLEAN, toggles \in BOOLEAN :
              BumpLibraryVersion(r, l, batch, toggles)
         \/ \E l \in Library : NoteAccessChange(r, l) \/ AcceptInvitation(r, l)
         \/ ReleaseSavepoint(r)
         \/ CommitTx(r)
         \/ AfterCommit(r)
         \/ RollbackTx(r)
    \/ \E c \in Conn :
         \/ Greet(c)
         \/ Attach(c)
         \/ ReadTopics(c)
         \/ Subscribe(c)
         \/ Unsubscribe(c)
         \/ Deliver(c)
         \/ ResyncStore(c)
         \/ Close(c)

Spec == Init /\ [][Next]_vars

----------------------------------------------------------------------------
(***************************************************************************)
(* Safety.                                                                 *)
(***************************************************************************)

Queued(c, l) == \E i \in DOMAIN queue[c] : queue[c][i].topic = l /\ queue[c][i].version >= version[l]

Publishing(l) == \E r \in Request : tx[r].step = "committed" /\ tx[r].topic = l
PublishingAccess == \E r \in Request : tx[r].step = "committed" /\ tx[r].toggles

\* A version committed while a connection was attached has reached it or
\* waits in its queue, unless the queue overflowed, and but for the one that
\* a batch announced before its commit and before the connection attached:
\* announcements overtaken by a later commit make no difference.
EveryCommitAnnounced ==
    \A c \in Conn, l \in Library :
        conn[c] = "attached" /\ ~overflowed[c] /\ ~Publishing(l) =>
            known[c][l] >= version[l] \/ Queued(c, l) \/ before[c][l] = version[l]

\* The same with nothing excepted but the overflow: a connection is told of
\* every version committed after it attached.
AttachedAreTold ==
    \A c \in Conn, l \in Library :
        conn[c] = "attached" /\ ~overflowed[c] /\ ~Publishing(l) =>
            known[c][l] >= version[l] \/ Queued(c, l)

AccessQueued(c) == \E i \in DOMAIN queue[c] : queue[c][i].topic = Account

\* When nothing about the account is on its way to an attached connection,
\* its subscription watches ...
Settled(c) ==
    /\ conn[c] = "attached" /\ subscribed[c]
    /\ ~overflowed[c] /\ ~PublishingAccess /\ ~AccessQueued(c)
    /\ resyncing[c] = None /\ creating[c] = None

\* ... exactly what the account may read, provided that did not change
\* while the topics were being read, and but for groups it joined by taking
\* up an invitation, which no connection is told of.
SubscriptionFollowsAccess ==
    \A c \in Conn : Settled(c) /\ ~missed[c] =>
        topics[c] \ unannounced = access \ unannounced

\* "The set follows what the key can reach", with nothing excepted.
AutomaticFollowsAccess ==
    \A c \in Conn : Settled(c) => topics[c] = access

\* "A transaction that rolls back must announce nothing": with no
\* transaction open on a library, no connection has been told of a version
\* that cannot be fetched.
RolledBackUnannounced ==
    \A c \in Conn, l \in Library :
        (\A r \in Request : tx[r].step = "open" => tx[r].topic # l) =>
            known[c][l] <= version[l]
============================================================================
