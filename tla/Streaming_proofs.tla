-------------------------- MODULE Streaming_proofs --------------------------
(***************************************************************************)
(* Proofs that every committed version reaches every attached connection   *)
(* whose queue did not overflow, unless it was announced before both the   *)
(* commit and the connection, and that a settled subscription watches what *)
(* the account may read, for any libraries, requests, connections and      *)
(* queue size.                                                             *)
(*                                                                         *)
(* The first follows a version from the transaction that notes it          *)
(* (Promised) over its commit (OnItsWay) to the queues and off them        *)
(* (Reached).  The second says of what each task of a connection has read  *)
(* that it is current, or that an event or a publication is still to come  *)
(* (Followed), or that one has been missed (ReadCurrent).                  *)
(***************************************************************************)
EXTENDS Streaming, SequenceTheorems, TLAPS

\* An event that q holds tells of version v of l.
Tells(q, l, v) == \E i \in DOMAIN q : q[i].topic = l /\ q[i].version >= v

\* The connection has heard of version v of l, or it waits in its queue, or
\* it had been announced, and not committed, when the connection attached.
Reached(c, l, v) == known[c][l] >= v \/ Tells(queue[c], l, v) \/ before[c][l] = v

Hears(c) == conn[c] = "attached" /\ ~overflowed[c]

\* Published, to all who were attached.
Spread(l, v) == \A c \in Conn : Hears(c) => Reached(c, l, v)

\* A transaction names its library, and no two are open on one.
OneOpen ==
    /\ \A r \in Request : tx[r].step # "idle" => tx[r].topic \in Library
    /\ \A r, q \in Request :
         tx[r].step = "open" /\ tx[q].step = "open" /\ tx[r].topic = tx[q].topic => r = q

\* A transaction that raises a version still has it to announce, or has
\* announced it at the release of a savepoint.
Promised ==
    \A r \in Request, l \in Library, v \in Nat :
        tx[r].step = "open" /\ tx[r].bumps /\ tx[r].topic = l /\ v = version[l] + 1 =>
            /\ v <= MaxVersion
            /\ pending[r].version = v \/ (pending[r].version = 0 /\ Spread(l, v))

\* The newest version of a library has reached everybody, or the request
\* that committed it has yet to announce it.
Delivering(l, v) ==
    \E r \in Request : tx[r].step = "committed" /\ tx[r].topic = l /\ pending[r].version >= v
OnItsWay ==
    \A c \in Conn, l \in Library, v \in Nat :
        Hears(c) /\ v = version[l] => Reached(c, l, v) \/ Delivering(l, v)

\* A transaction that is to give or take the membership has noted so, or is
\* an invitation being taken up and will give it.
Noting ==
    \A r \in Request : tx[r].step = "open" /\ tx[r].toggles =>
        ~tx[r].batch /\ (pending[r].access \/ tx[r].topic \notin access)

Types == TypeOK /\ queue \in [Conn -> Seq(Event)]

IInv == Types /\ OneOpen /\ Noting /\ Promised /\ OnItsWay

-----------------------------------------------------------------------------
(* Queues *)

\* What is appended to a queue is told besides what it told.
LEMMA AppendTells ==
    ASSUME NEW q \in Seq(Event), NEW m \in Event, NEW l, NEW v
    PROVE  /\ Append(q, m) \in Seq(Event) /\ Len(Append(q, m)) = Len(q) + 1
           /\ Tells(q, l, v) => Tells(Append(q, m), l, v)
           /\ m.topic = l /\ m.version >= v => Tells(Append(q, m), l, v)
<1>1. Len(q) \in Nat /\ DOMAIN q = 1 .. Len(q)
  BY LenProperties
<1>2. /\ Append(q, m) \in Seq(Event)
      /\ Len(Append(q, m)) = Len(q) + 1
      /\ \A i \in 1 .. Len(q) : Append(q, m)[i] = q[i]
      /\ Append(q, m)[Len(q) + 1] = m
  BY AppendProperties
<1>3. DOMAIN Append(q, m) = 1 .. Len(q) + 1
  BY <1>2, LenProperties
<1>4. ASSUME Tells(q, l, v)
      PROVE  Tells(Append(q, m), l, v)
  <2>1. PICK i \in 1 .. Len(q) : q[i].topic = l /\ q[i].version >= v
    BY <1>1, <1>4 DEF Tells
  <2>2. i \in DOMAIN Append(q, m) /\ Append(q, m)[i] = q[i]
    BY <1>1, <1>2, <1>3
  <2> QED
    BY <2>1, <2>2 DEF Tells
<1>5. ASSUME m.topic = l, m.version >= v
      PROVE  Tells(Append(q, m), l, v)
  <2>1. Len(q) + 1 \in DOMAIN Append(q, m)
    BY <1>1, <1>3
  <2> QED
    BY <1>2, <1>5, <2>1 DEF Tells
<1> QED
  BY <1>2, <1>4, <1>5

\* A queue holds what is put in it and never more than its size; one with
\* room loses nothing.
LEMMA EnqueueKeeps ==
    ASSUME NEW q \in Seq(Event), Len(q) <= QueueSize, NEW m \in Event, NEW l, NEW v
    PROVE  /\ Enqueue(q, m) \in Seq(Event) /\ Len(Enqueue(q, m)) <= QueueSize
           /\ Len(q) + 1 <= QueueSize =>
                /\ Len(Enqueue(q, m)) = Len(q) + 1
                /\ Tells(q, l, v) => Tells(Enqueue(q, m), l, v)
                /\ m.topic = l /\ m.version >= v => Tells(Enqueue(q, m), l, v)
<1>1. Len(q) \in Nat /\ QueueSize \in Nat \ {0}
  BY LenProperties, StreamingAssumption
<1>2. CASE Len(q) = QueueSize
  <2>1. q # <<>>
    BY <1>1, <1>2, EmptySeq
  <2>2. Tail(q) \in Seq(Event) /\ Len(Tail(q)) = Len(q) - 1
    BY <2>1, HeadTailProperties
  <2>3. Enqueue(q, m) = Append(Tail(q), m)
    BY <1>2 DEF Enqueue
  <2>4. Enqueue(q, m) \in Seq(Event) /\ Len(Enqueue(q, m)) = Len(q) - 1 + 1
    BY <2>2, <2>3, AppendProperties
  <2> QED
    BY <1>1, <1>2, <2>4
<1>3. CASE Len(q) # QueueSize
  <2>1. Enqueue(q, m) = Append(q, m)
    BY <1>3 DEF Enqueue
  <2> QED
    BY <1>1, <1>3, <2>1, AppendTells
<1> QED
  BY <1>2, <1>3

\* The same of two events or fewer.
LEMMA EnqueueAllKeeps ==
    ASSUME NEW q \in Seq(Event), Len(q) <= QueueSize, NEW l, NEW v,
           NEW events \in Seq(Event), Len(events) <= 2
    PROVE  /\ EnqueueAll(q, events) \in Seq(Event) /\ Len(EnqueueAll(q, events)) <= QueueSize
           /\ Len(q) + Len(events) <= QueueSize =>
                /\ Tells(q, l, v) => Tells(EnqueueAll(q, events), l, v)
                /\ Tells(events, l, v) => Tells(EnqueueAll(q, events), l, v)
<1>1. /\ Len(events) \in Nat /\ DOMAIN events = 1 .. Len(events)
      /\ \A i \in 1 .. Len(events) : events[i] \in Event
  BY LenProperties, ElementOfSeq
<1>2. Len(q) \in Nat /\ QueueSize \in Nat \ {0}
  BY LenProperties, StreamingAssumption
<1>3. CASE Len(events) = 0
  BY <1>1, <1>3 DEF EnqueueAll, Tells
<1>4. CASE Len(events) = 1
  <2>1. 1 \in 1 .. Len(events) /\ events[1] \in Event
    BY <1>1, <1>4
  <2>2. EnqueueAll(q, events) = Enqueue(q, events[1])
    BY <1>4 DEF EnqueueAll
  <2>3. Tells(events, l, v) => events[1].topic = l /\ events[1].version >= v
    BY <1>1, <1>4 DEF Tells
  <2> QED
    BY <1>4, <2>1, <2>2, <2>3, EnqueueKeeps
<1>5. CASE Len(events) = 2
  <2> DEFINE q1 == Enqueue(q, events[1])
  <2>1. events[1] \in Event /\ events[2] \in Event
    BY <1>1, <1>5
  <2>2. EnqueueAll(q, events) = Enqueue(q1, events[2])
    BY <1>5 DEF EnqueueAll
  <2>3. /\ q1 \in Seq(Event) /\ Len(q1) <= QueueSize
        /\ Len(q) + 1 <= QueueSize =>
             /\ Len(q1) = Len(q) + 1
             /\ Tells(q, l, v) => Tells(q1, l, v)
             /\ events[1].topic = l /\ events[1].version >= v => Tells(q1, l, v)
    BY <2>1, EnqueueKeeps
  <2> HIDE DEF q1
  <2>4. /\ Enqueue(q1, events[2]) \in Seq(Event) /\ Len(Enqueue(q1, events[2])) <= QueueSize
        /\ Len(q1) + 1 <= QueueSize =>
             /\ Tells(q1, l, v) => Tells(Enqueue(q1, events[2]), l, v)
             /\ events[2].topic = l /\ events[2].version >= v => Tells(Enqueue(q1, events[2]), l, v)
    BY <2>1, <2>3, EnqueueKeeps
  <2>5. Tells(events, l, v) => (events[1].topic = l /\ events[1].version >= v)
                              \/ (events[2].topic = l /\ events[2].version >= v)
    BY <1>1, <1>5 DEF Tells
  <2> QED
    BY <1>2, <1>5, <2>2, <2>3, <2>4, <2>5
<1> QED
  BY <1>1, <1>3, <1>4, <1>5

\* What a session has noted is at most two events, its version among them.
LEMMA NotedTells ==
    ASSUME NEW p \in Pending, NEW l \in Library
    PROVE  /\ Noted(p, l) \in Seq(Event)
           /\ Len(Noted(p, l)) \in Nat /\ Len(Noted(p, l)) <= 2
           /\ p.version > 0 => Tells(Noted(p, l), l, p.version)
<1> DEFINE e == [topic |-> l, version |-> p.version]
           a == IF p.access THEN <<AccessChanged>> ELSE <<>>
           b == IF p.version > 0 THEN <<e>> ELSE <<>>
<1>1. e \in Event /\ AccessChanged \in Event
  BY StreamingAssumption DEF Event, Pending, AccessChanged
<1>2. a \in Seq(Event) /\ (Len(a) = 0 \/ Len(a) = 1)
  BY <1>1
<1>3. b \in Seq(Event) /\ (Len(b) = 0 \/ Len(b) = 1)
  BY <1>1
<1>4. p.version > 0 => Len(b) = 1 /\ b[1] = e
  BY <1>1
<1>5. Noted(p, l) = a \o b
  BY DEF Noted
<1>6. e.topic = l /\ e.version = p.version /\ p.version \in Nat
  BY DEF Pending
<1> HIDE DEF a, b, e
<1>7. /\ a \o b \in Seq(Event)
      /\ Len(a \o b) = Len(a) + Len(b)
      /\ \A i \in 1 .. Len(a) + Len(b) :
           (a \o b)[i] = IF i <= Len(a) THEN a[i] ELSE b[i - Len(a)]
  BY <1>2, <1>3, ConcatProperties
<1>8. ASSUME p.version > 0
      PROVE  Tells(a \o b, l, p.version)
  <2>1. Len(a) + 1 \in 1 .. Len(a) + Len(b)
    BY <1>2, <1>4, <1>8
  <2>2. (a \o b)[Len(a) + 1] = e
    <3>1. ~(Len(a) + 1 <= Len(a)) /\ Len(a) + 1 - Len(a) = 1
      BY <1>2
    <3> QED
      BY <1>4, <1>7, <1>8, <2>1, <3>1
  <2>3. Len(a) + 1 \in DOMAIN (a \o b)
    BY <1>7, <2>1, LenProperties
  <2> QED
    BY <1>6, <2>2, <2>3 DEF Tells
<1> QED
  <2>1. Len(a) + Len(b) \in Nat /\ Len(a) + Len(b) <= 2
    <3>1. \A x, y \in {0, 1} : x + y \in Nat /\ x + y <= 2
      OBVIOUS
    <3>2. Len(a) \in {0, 1} /\ Len(b) \in {0, 1}
      BY <1>2, <1>3, Zenon
    <3> QED
      BY <3>1, <3>2, Zenon
  <2> QED
    BY <1>5, <1>7, <1>8, <2>1

\* Taking the oldest event off a queue loses what that event tells.
LEMMA TailTells ==
    ASSUME NEW q \in Seq(Event), q # <<>>, NEW l, NEW v, Tells(q, l, v)
    PROVE  Tells(Tail(q), l, v) \/ (Head(q).topic = l /\ Head(q).version >= v)
<1>1. Len(q) \in Nat \ {0} /\ DOMAIN q = 1 .. Len(q)
  BY EmptySeq, LenProperties
<1>2. /\ Head(q) = q[1] /\ Tail(q) \in Seq(Event) /\ Len(Tail(q)) = Len(q) - 1
      /\ \A i \in 1 .. Len(Tail(q)) : Tail(q)[i] = q[i + 1]
  BY HeadTailProperties
<1>3. PICK i \in 1 .. Len(q) : q[i].topic = l /\ q[i].version >= v
  BY <1>1 DEF Tells
<1>4. CASE i = 1
  BY <1>2, <1>3, <1>4
<1>5. CASE i # 1
  <2>1. i - 1 \in 1 .. Len(Tail(q)) /\ i - 1 + 1 = i
    BY <1>1, <1>2, <1>5
  <2>2. Tail(q)[i - 1] = q[i]
    BY <1>2, <2>1
  <2>3. i - 1 \in DOMAIN Tail(q)
    BY <1>2, <2>1, LenProperties
  <2> QED
    BY <1>3, <2>2, <2>3 DEF Tells
<1> QED
  BY <1>4, <1>5

-----------------------------------------------------------------------------
(* What a publication does *)

\* Nobody's queue outgrows its size, and a version noted reaches everybody
\* who hears; what had reached them stays reached.
LEMMA PublishSpreads ==
    ASSUME Types, OneOpen, NEW r \in Request, tx[r].step # "idle",
           Publish(r), UNCHANGED <<conn, known, before>>,
           NEW c \in Conn, NEW l \in Library, NEW v \in Nat
    PROVE  /\ queue'[c] \in Seq(Event) /\ Len(queue'[c]) <= QueueSize
           /\ Hears(c)' => Hears(c)
           /\ Hears(c)' /\ Reached(c, l, v) => Reached(c, l, v)'
           /\ Hears(c)' /\ tx[r].topic = l /\ pending[r].version >= v => Reached(c, l, v)'
<1> DEFINE events == Noted(pending[r], tx[r].topic)
<1>1. /\ pending[r] \in Pending /\ tx[r].topic \in Library /\ pending[r].version \in Nat
      /\ known[c][l] \in Nat
      /\ queue[c] \in Seq(Event) /\ Len(queue[c]) <= QueueSize /\ overflowed[c] \in BOOLEAN
  BY StreamingAssumption DEF Types, TypeOK, OneOpen, Pending
<1>2. /\ events \in Seq(Event) /\ Len(events) \in Nat /\ Len(events) <= 2
      /\ pending[r].version > 0 => Tells(events, tx[r].topic, pending[r].version)
  BY <1>1, NotedTells
<1>3. /\ queue'[c] = IF conn[c] = "attached" THEN EnqueueAll(queue[c], events) ELSE queue[c]
      /\ overflowed'[c] = (overflowed[c] \/ (conn[c] = "attached"
                                              /\ Len(queue[c]) + Len(events) > QueueSize))
  BY DEF Publish
<1> HIDE DEF events
<1>5. /\ EnqueueAll(queue[c], events) \in Seq(Event)
      /\ Len(EnqueueAll(queue[c], events)) <= QueueSize
      /\ Len(queue[c]) + Len(events) <= QueueSize =>
           /\ Tells(queue[c], l, v) => Tells(EnqueueAll(queue[c], events), l, v)
           /\ Tells(events, l, v) => Tells(EnqueueAll(queue[c], events), l, v)
  BY <1>1, <1>2, EnqueueAllKeeps
<1>6. queue'[c] \in Seq(Event) /\ Len(queue'[c]) <= QueueSize
  BY <1>1, <1>3, <1>5
<1>7. Hears(c)' => /\ Hears(c)
                   /\ queue'[c] = EnqueueAll(queue[c], events)
                   /\ Len(queue[c]) + Len(events) <= QueueSize
  <2>1. Len(queue[c]) \in Nat /\ Len(events) \in Nat /\ QueueSize \in Nat
    BY <1>1, <1>2, LenProperties, StreamingAssumption
  <2>2. ASSUME Hears(c)'
        PROVE  conn[c] = "attached" /\ ~overflowed[c] /\ ~(Len(queue[c]) + Len(events) > QueueSize)
    BY <1>3, <2>2, Zenon DEF Hears
  <2>3. ~(Len(queue[c]) + Len(events) > QueueSize) => Len(queue[c]) + Len(events) <= QueueSize
    BY <2>1
  <2> QED
    BY <1>3, <2>2, <2>3, Zenon DEF Hears
<1>8. Hears(c)' /\ Reached(c, l, v) => Reached(c, l, v)'
  BY <1>5, <1>7 DEF Reached, Tells
<1>9. ASSUME Hears(c)', tx[r].topic = l, pending[r].version >= v
      PROVE  Reached(c, l, v)'
  <2>1. CASE v = 0
    BY <1>1, <2>1 DEF Reached
  <2>2. CASE v > 0
    <3>1. Tells(events, l, pending[r].version)
      BY <1>1, <1>2, <1>9, <2>2
    <3>2. \A i \in DOMAIN events : events[i].version \in Nat
      <4>1. \A i \in DOMAIN events : events[i] \in Event
        BY <1>2, LenProperties, ElementOfSeq
      <4> QED
        BY <4>1, StreamingAssumption DEF Event
    <3>3. Tells(events, l, v)
      BY <1>1, <1>9, <3>1, <3>2 DEF Tells
    <3>4. Tells(queue'[c], l, v)
      BY <1>5, <1>7, <1>9, <3>3
    <3> QED
      BY <3>4 DEF Reached, Tells
  <2> QED
    BY <2>1, <2>2
<1> QED
  BY <1>6, <1>7, <1>8, <1>9

-----------------------------------------------------------------------------
(* Types *)

LEMMA PublishTypes ==
    ASSUME Types, OneOpen, NEW r \in Request, tx[r].step # "idle", Publish(r),
           UNCHANGED <<conn, known, before>>
    PROVE  /\ queue' \in [Conn -> Seq(Event)] /\ \A c \in Conn : Len(queue'[c]) <= QueueSize
           /\ pending' \in [Request -> Pending]
           /\ overflowed' \in [Conn -> BOOLEAN]
           /\ missed' \in [Conn -> BOOLEAN]
<1>1. queue' = [c \in Conn |-> queue'[c]]
  BY DEF Publish
<1>2. \A c \in Conn : queue'[c] \in Seq(Event) /\ Len(queue'[c]) <= QueueSize
  <2> SUFFICES ASSUME NEW c \in Conn
               PROVE  queue'[c] \in Seq(Event) /\ Len(queue'[c]) <= QueueSize
    OBVIOUS
  <2>1. tx[r].topic \in Library /\ 0 \in Nat
    BY DEF OneOpen
  <2> QED
    BY <2>1, PublishSpreads
<1>3. queue' \in [Conn -> Seq(Event)]
  BY <1>1, <1>2
<1>4. pending' \in [Request -> Pending]
  BY StreamingAssumption DEF Publish, NothingPending, Pending, Types, TypeOK
<1>5. overflowed' \in [Conn -> BOOLEAN] /\ missed' \in [Conn -> BOOLEAN]
  BY DEF Publish
<1> QED
  BY <1>2, <1>3, <1>4, <1>5

LEMMA TypesStep ==
    ASSUME IInv, [Next]_vars
    PROVE  Types'
<1> USE StreamingAssumption
    DEF Types, TypeOK, Transaction, Pending, NoTx, NothingPending, serverVars, connVars, vars
<1>0. Types /\ OneOpen /\ Noting /\ Promised
  BY DEF IInv
<1>1. CASE UNCHANGED vars
  BY <1>0, <1>1
<1>2. ASSUME NEW r \in Request, NEW l \in Library, NEW batch \in BOOLEAN,
             NEW toggles \in BOOLEAN, BumpLibraryVersion(r, l, batch, toggles)
      PROVE  Types'
  BY <1>0, <1>2 DEF BumpLibraryVersion
<1>3. ASSUME NEW r \in Request, NEW l \in Library, NoteAccessChange(r, l)
      PROVE  Types'
  BY <1>0, <1>3 DEF NoteAccessChange
<1>4. ASSUME NEW r \in Request, NEW l \in Library, AcceptInvitation(r, l)
      PROVE  Types'
  BY <1>0, <1>4 DEF AcceptInvitation
<1>5. ASSUME NEW r \in Request, ReleaseSavepoint(r)
      PROVE  Types'
  <2>1. tx[r].step # "idle" /\ Publish(r) /\ UNCHANGED <<conn, known, before>>
    BY <1>5 DEF ReleaseSavepoint
  <2>2. /\ queue' \in [Conn -> Seq(Event)] /\ \A c \in Conn : Len(queue'[c]) <= QueueSize
        /\ pending' \in [Request -> Pending]
        /\ overflowed' \in [Conn -> BOOLEAN] /\ missed' \in [Conn -> BOOLEAN]
    BY <1>0, <2>1, PublishTypes
  <2> QED
    BY <1>0, <1>5, <2>2 DEF ReleaseSavepoint
<1>6. ASSUME NEW r \in Request, CommitTx(r)
      PROVE  Types'
  <2>1. tx' \in [Request -> Transaction]
    <3> DEFINE t == [tx[r] EXCEPT !.step = "committed"]
    <3>1. tx[r] \in Transaction
      BY <1>0
    <3>2. t \in Transaction
      BY <3>1
    <3>3. tx' = [tx EXCEPT ![r] = t]
      BY <1>6 DEF CommitTx
    <3> HIDE DEF t
    <3> QED
      BY <1>0, <3>2, <3>3
  <2>2. version' \in [Library -> 0..MaxVersion]
    <3>1. ASSUME NEW l \in Library, tx[r].topic = l, tx[r].bumps
          PROVE  version[l] + 1 <= MaxVersion
      <4>1. tx[r].step = "open"
        BY <1>6 DEF CommitTx
      <4>2. version[l] + 1 \in Nat
        BY <1>0
      <4> QED
        BY <1>0, <3>1, <4>1, <4>2 DEF Promised
    <3> QED
      BY <1>0, <1>6, <3>1 DEF CommitTx
  <2>3. access' \subseteq Library /\ unannounced' \subseteq access'
    BY <1>0, <1>6 DEF CommitTx, OneOpen, Noting
  <2> QED
    BY <1>0, <1>6, <2>1, <2>2, <2>3 DEF CommitTx
<1>7. ASSUME NEW r \in Request, AfterCommit(r)
      PROVE  Types'
  <2>1. tx[r].step # "idle" /\ Publish(r) /\ UNCHANGED <<conn, known, before>>
    BY <1>7 DEF AfterCommit
  <2>2. /\ queue' \in [Conn -> Seq(Event)] /\ \A c \in Conn : Len(queue'[c]) <= QueueSize
        /\ pending' \in [Request -> Pending]
        /\ overflowed' \in [Conn -> BOOLEAN] /\ missed' \in [Conn -> BOOLEAN]
    BY <1>0, <2>1, PublishTypes
  <2>3. tx' \in [Request -> Transaction]
    BY <1>0, <1>7 DEF AfterCommit
  <2> QED
    BY <1>0, <1>7, <2>2, <2>3 DEF AfterCommit
<1>8. ASSUME NEW r \in Request, RollbackTx(r)
      PROVE  Types'
  <2>1. before' \in [Conn -> [Library -> 0..MaxVersion]]
    BY <1>0, <1>8 DEF RollbackTx
  <2> QED
    BY <1>0, <1>8, <2>1 DEF RollbackTx
<1>9. ASSUME NEW c \in Conn, Greet(c)
      PROVE  Types'
  BY <1>0, <1>9 DEF Greet
<1>10. ASSUME NEW c \in Conn, Attach(c)
       PROVE  Types'
  <2>1. known' \in [Conn -> [Library -> 0..MaxVersion]]
    BY <1>0, <1>10 DEF Attach
  <2>2. ASSUME NEW l \in Library, Early(l)
        PROVE  version[l] + 1 \in 0..MaxVersion
    <3>1. version[l] \in Nat /\ version[l] + 1 \in Nat /\ MaxVersion \in Nat
      BY <1>0
    <3>2. PICK r \in Request : tx[r].step = "open" /\ tx[r].topic = l /\ tx[r].bumps
      BY <2>2 DEF Early
    <3>3. version[l] + 1 <= MaxVersion
      BY <1>0, <3>1, <3>2 DEF Promised
    <3> QED
      BY <3>1, <3>3
  <2>3. before' \in [Conn -> [Library -> 0..MaxVersion]]
    <3> DEFINE early == [l \in Library |-> IF Early(l) THEN version[l] + 1 ELSE 0]
    <3>1. \A l \in Library : (IF Early(l) THEN version[l] + 1 ELSE 0) \in 0..MaxVersion
      BY <2>2
    <3>2. early \in [Library -> 0..MaxVersion]
      BY <3>1
    <3>3. before' = [before EXCEPT ![c] = early]
      BY <1>10 DEF Attach
    <3> HIDE DEF early
    <3> QED
      BY <1>0, <3>2, <3>3
  <2> QED
    BY <1>0, <1>10, <2>1, <2>3 DEF Attach
<1>11. ASSUME NEW c \in Conn, ReadTopics(c)
       PROVE  Types'
  BY <1>0, <1>11 DEF ReadTopics
<1>12. ASSUME NEW c \in Conn, Subscribe(c)
       PROVE  Types'
  BY <1>0, <1>12 DEF Subscribe
<1>13. ASSUME NEW c \in Conn, Unsubscribe(c)
       PROVE  Types'
  BY <1>0, <1>13 DEF Unsubscribe
<1>14. ASSUME NEW c \in Conn, Deliver(c)
       PROVE  Types'
  <2> DEFINE m == Head(queue[c])
  <2>1. queue[c] \in Seq(Event) /\ queue[c] # <<>> /\ Len(queue[c]) <= QueueSize
    BY <1>0, <1>14 DEF Deliver
  <2>2. /\ m \in Event /\ Tail(queue[c]) \in Seq(Event)
        /\ Len(Tail(queue[c])) = Len(queue[c]) - 1 /\ Len(queue[c]) \in Nat
    BY <2>1, HeadTailProperties, LenProperties
  <2>3. queue' = [queue EXCEPT ![c] = Tail(queue[c])]
    BY <1>14 DEF Deliver
  <2>4. queue' \in [Conn -> Seq(Event)] /\ \A d \in Conn : Len(queue'[d]) <= QueueSize
    <3>1. Len(Tail(queue[c])) <= QueueSize
      BY <2>1, <2>2
    <3> QED
      BY <1>0, <2>2, <2>3, <3>1
  <2>5. CASE m.topic = Account
    <3>1. known' = known /\ resyncing' \in [Conn -> (SUBSET Library) \cup {None}]
      <4>1. /\ resyncing' = [resyncing EXCEPT ![c] = IF subscribed[c] THEN access ELSE None]
            /\ known' = known
        BY <1>14, <2>5, Zenon DEF Deliver
      <4>2. access \in SUBSET Library /\ resyncing \in [Conn -> (SUBSET Library) \cup {None}]
        BY <1>0
      <4>3. (IF subscribed[c] THEN access ELSE None) \in (SUBSET Library) \cup {None}
        BY <4>2
      <4> QED
        BY <4>1, <4>2, <4>3
    <3> HIDE DEF m
    <3> QED
      BY <1>0, <1>14, <2>4, <3>1 DEF Deliver
  <2>6. CASE m.topic # Account
    <3>1. m.topic \in Library /\ m.version \in 0..MaxVersion
      BY <2>2, <2>6 DEF Event
    <3>2. known' = [known EXCEPT ![c][m.topic] = Newer(known[c][m.topic], m.version)]
      BY <1>14, <2>6 DEF Deliver
    <3>3. known' \in [Conn -> [Library -> 0..MaxVersion]]
      BY <1>0, <3>1, <3>2 DEF Newer
    <3> QED
      BY <1>0, <1>14, <2>4, <2>6, <3>3 DEF Deliver
  <2> QED
    BY <2>5, <2>6
<1>15. ASSUME NEW c \in Conn, ResyncStore(c)
       PROVE  Types'
  BY <1>0, <1>15 DEF ResyncStore
<1>16. ASSUME NEW c \in Conn, Close(c)
       PROVE  Types'
  BY <1>0, <1>16 DEF Close
<1> QED
  BY <1>1, <1>2, <1>3, <1>4, <1>5, <1>6, <1>7, <1>8, <1>9, <1>10, <1>11, <1>12, <1>13,
     <1>14, <1>15, <1>16 DEF Next

-----------------------------------------------------------------------------
(* What has reached a connection *)

\* What has reached a connection stays reached for as long as it hears, and
\* the transaction that raised the version is not rolled back.  One that
\* comes to hear has just attached: it knows what was committed, and what
\* was announced before is noted.
LEMMA ReachedStays ==
    ASSUME Types, OneOpen, [Next]_vars, NEW c \in Conn, Hears(c)',
           NEW l \in Library, NEW v \in Nat,
           v <= version[l] \/ \A r \in Request : RollbackTx(r) => tx[r].topic # l
    PROVE  \/ Hears(c) /\ (Reached(c, l, v) => Reached(c, l, v)')
           \/ /\ known'[c][l] = version[l]
              /\ before'[c][l] = IF Early(l) THEN version[l] + 1 ELSE 0
<1> DEFINE Kept == Hears(c) /\ (Reached(c, l, v) => Reached(c, l, v)')
           Attached == /\ known'[c][l] = version[l]
                       /\ before'[c][l] = IF Early(l) THEN version[l] + 1 ELSE 0
<1> SUFFICES Kept \/ Attached
  OBVIOUS
<1> USE DEF serverVars, connVars, vars
<1>1. CASE UNCHANGED <<conn, queue, known, before, overflowed>>
  BY <1>1 DEF Hears, Reached, Tells
<1>2. ASSUME NEW r \in Request, tx[r].step # "idle", Publish(r), UNCHANGED <<conn, known, before>>
      PROVE  Kept
  BY <1>2, PublishSpreads
<1>3. ASSUME NEW r \in Request, NEW k \in Library, NEW batch \in BOOLEAN,
             NEW toggles \in BOOLEAN, BumpLibraryVersion(r, k, batch, toggles)
      PROVE  Kept \/ Attached
  BY <1>1, <1>3 DEF BumpLibraryVersion
<1>4. ASSUME NEW r \in Request, NEW k \in Library,
             NoteAccessChange(r, k) \/ AcceptInvitation(r, k)
      PROVE  Kept \/ Attached
  BY <1>1, <1>4 DEF NoteAccessChange, AcceptInvitation
<1>5. ASSUME NEW r \in Request, ReleaseSavepoint(r) \/ AfterCommit(r)
      PROVE  Kept \/ Attached
  BY <1>2, <1>5 DEF ReleaseSavepoint, AfterCommit
<1>6. ASSUME NEW r \in Request, CommitTx(r)
      PROVE  Kept \/ Attached
  BY <1>1, <1>6 DEF CommitTx
\* A rollback forgets what was announced of the version it gives up.
<1>7. ASSUME NEW r \in Request, RollbackTx(r)
      PROVE  Kept \/ Attached
  <2>1. /\ UNCHANGED <<conn, queue, known, overflowed>>
        /\ before'[c][l] = IF tx[r].topic = l /\ before[c][l] > version[l]
                           THEN 0 ELSE before[c][l]
    BY <1>7 DEF RollbackTx
  <2>2. ASSUME before[c][l] = v
        PROVE  before'[c][l] = v
    <3>1. before[c][l] \in Nat /\ version[l] \in Nat
      BY StreamingAssumption DEF Types, TypeOK
    <3>2. v <= version[l] \/ tx[r].topic # l
      BY <1>7
    <3> QED
      BY <2>1, <2>2, <3>1, <3>2
  <2> QED
    BY <2>1, <2>2 DEF Hears, Reached, Tells
<1>8. ASSUME NEW d \in Conn, Greet(d)
      PROVE  Kept \/ Attached
  BY <1>8 DEF Greet, Hears, Reached, Tells, Types, TypeOK
<1>9. ASSUME NEW d \in Conn, Attach(d)
      PROVE  Kept \/ Attached
  BY <1>9 DEF Attach, Hears, Reached, Tells, Types, TypeOK
<1>10. ASSUME NEW d \in Conn, ReadTopics(d) \/ Subscribe(d) \/ Unsubscribe(d) \/ ResyncStore(d)
       PROVE  Kept \/ Attached
  BY <1>1, <1>10 DEF ReadTopics, Subscribe, Unsubscribe, ResyncStore
<1>11. ASSUME NEW d \in Conn, Deliver(d)
       PROVE  Kept \/ Attached
  <2> DEFINE m == Head(queue[d])
  <2>1. Hears(c) /\ before' = before
    BY <1>11 DEF Deliver, Hears
  <2>2. SUFFICES ASSUME Reached(c, l, v)
                 PROVE  Reached(c, l, v)'
    BY <2>1
  <2>3. CASE c # d
    <3>1. queue'[c] = queue[c] /\ known'[c] = known[c]
      BY <1>11, <2>3 DEF Deliver, Types, TypeOK
    <3> QED
      BY <2>1, <2>2, <3>1 DEF Reached, Tells
  <2>4. CASE c = d
    <3>1. queue[c] \in Seq(Event) /\ queue[c] # <<>> /\ queue'[c] = Tail(queue[c])
      BY <1>11, <2>4 DEF Deliver, Types
    <3>2. m \in Event /\ m.version \in Nat
      <4>1. Head(queue[c]) \in Event
        BY <3>1, HeadTailProperties
      <4>2. m \in Event
        BY <2>4, <4>1, Zenon
      <4> HIDE DEF m
      <4> QED
        BY <4>2, StreamingAssumption DEF Event
    <3>3. known[c] \in [Library -> 0..MaxVersion] /\ known \in [Conn -> [Library -> 0..MaxVersion]]
      BY DEF Types, TypeOK
    <3>4. known'[c] = IF m.topic = Account THEN known[c]
                      ELSE [known[c] EXCEPT ![m.topic] = Newer(known[c][m.topic], m.version)]
      BY <1>11, <2>4, <3>3 DEF Deliver
    <3>5. known'[c][l] >= known[c][l] /\ (m.topic = l => known'[c][l] >= m.version)
      BY <3>2, <3>3, <3>4, StreamingAssumption DEF Newer
    <3>6. known[c][l] \in Nat /\ known'[c][l] \in Nat
      BY <3>2, <3>3, <3>4, StreamingAssumption DEF Newer
    <3>7. CASE known[c][l] >= v
      BY <3>5, <3>6, <3>7 DEF Reached
    <3>8. CASE Tells(queue[c], l, v)
      <4>1. Tells(Tail(queue[c]), l, v) \/ (m.topic = l /\ m.version >= v)
        BY <2>4, <3>1, <3>8, TailTells
      <4>2. CASE Tells(Tail(queue[c]), l, v)
        BY <3>1, <4>2 DEF Reached, Tells
      <4>3. CASE m.topic = l /\ m.version >= v
        BY <3>2, <3>5, <3>6, <4>3 DEF Reached
      <4> QED
        BY <4>1, <4>2, <4>3
    <3>9. CASE before[c][l] = v
      BY <2>1, <3>9 DEF Reached
    <3> QED
      BY <2>2, <3>7, <3>8, <3>9 DEF Reached
  <2> QED
    BY <2>3, <2>4
<1>12. ASSUME NEW d \in Conn, Close(d)
       PROVE  Kept \/ Attached
  BY <1>12 DEF Close, Hears, Reached, Tells, Types, TypeOK
<1>13. CASE UNCHANGED vars
  BY <1>1, <1>13
<1> HIDE DEF Kept, Attached
<1> QED
  BY <1>3, <1>4, <1>5, <1>6, <1>7, <1>8, <1>9, <1>10, <1>11, <1>12, <1>13 DEF Next

\* What an open transaction has announced to everybody stays so: whoever
\* attaches from now on attaches after the announcement.
LEMMA SpreadStays ==
    ASSUME Types, OneOpen, [Next]_vars, NEW l \in Library, NEW v \in Nat, Spread(l, v),
           NEW r \in Request, tx'[r] = tx[r], tx[r].step = "open", tx[r].topic = l,
           tx[r].bumps, pending[r].version = 0, v = version[l] + 1
    PROVE  Spread(l, v)'
<1>1. \A q \in Request : RollbackTx(q) => tx[q].topic # l
  <2> SUFFICES ASSUME NEW q \in Request, RollbackTx(q), tx[q].topic = l
               PROVE  FALSE
    OBVIOUS
  <2>1. q = r
    BY DEF RollbackTx, OneOpen
  <2>2. tx'[q].step = "idle"
    BY DEF RollbackTx, Types, TypeOK, NoTx
  <2> QED
    BY <2>1, <2>2
<1>2. ASSUME NEW c \in Conn, Hears(c)'
      PROVE  Reached(c, l, v)'
  <2>1. CASE Hears(c) /\ (Reached(c, l, v) => Reached(c, l, v)')
    BY <2>1 DEF Spread
  <2>2. CASE before'[c][l] = IF Early(l) THEN version[l] + 1 ELSE 0
    BY <2>2 DEF Reached, Early
  <2> QED
    BY <1>1, <1>2, <2>1, <2>2, ReachedStays
<1> QED
  BY <1>2 DEF Spread

-----------------------------------------------------------------------------
(* Transactions *)

\* Only writing steps touch transactions and versions, and one that does not
\* commit leaves the versions alone.
LEMMA SocketsLeaveTx ==
    ASSUME NEW c \in Conn,
           \/ Greet(c) \/ Attach(c) \/ ReadTopics(c) \/ Subscribe(c) \/ Unsubscribe(c)
           \/ Deliver(c) \/ ResyncStore(c) \/ Close(c)
    PROVE  UNCHANGED serverVars
BY DEF Greet, Attach, ReadTopics, Subscribe, Unsubscribe, Deliver, ResyncStore, Close

LEMMA OneOpenStep ==
    ASSUME IInv, [Next]_vars
    PROVE  OneOpen'
<1> USE DEF OneOpen, serverVars, vars
<1>0. Types /\ OneOpen
  BY DEF IInv
<1>1. tx \in [Request -> Transaction]
  BY <1>0 DEF Types, TypeOK
<1>2. CASE UNCHANGED tx
  BY <1>0, <1>2
<1>3. ASSUME NEW r \in Request, NEW l \in Library, NEW batch \in BOOLEAN,
             NEW toggles \in BOOLEAN, BumpLibraryVersion(r, l, batch, toggles)
      PROVE  OneOpen'
  BY <1>0, <1>1, <1>3 DEF BumpLibraryVersion
<1>4. ASSUME NEW r \in Request, NEW l \in Library,
             NoteAccessChange(r, l) \/ AcceptInvitation(r, l)
      PROVE  OneOpen'
  BY <1>0, <1>1, <1>4 DEF NoteAccessChange, AcceptInvitation
<1>5. ASSUME NEW r \in Request, CommitTx(r)
      PROVE  OneOpen'
  BY <1>0, <1>1, <1>5 DEF CommitTx, Transaction
<1>6. ASSUME NEW r \in Request, AfterCommit(r) \/ RollbackTx(r)
      PROVE  OneOpen'
  BY <1>0, <1>1, <1>6 DEF AfterCommit, RollbackTx, NoTx
<1>7. ASSUME NEW r \in Request, ReleaseSavepoint(r)
      PROVE  OneOpen'
  BY <1>2, <1>7 DEF ReleaseSavepoint
<1> QED
  BY <1>2, <1>3, <1>4, <1>5, <1>6, <1>7, SocketsLeaveTx DEF Next

LEMMA NotingStep ==
    ASSUME IInv, [Next]_vars
    PROVE  Noting'
<1> USE DEF Noting, serverVars, vars
<1>0. Types /\ OneOpen /\ Noting
  BY DEF IInv
<1>1. tx \in [Request -> Transaction] /\ pending \in [Request -> Pending]
  BY <1>0 DEF Types, TypeOK
<1>2. CASE UNCHANGED <<tx, pending, access>>
  BY <1>0, <1>2
<1>3. ASSUME NEW r \in Request, NEW l \in Library, NEW batch \in BOOLEAN,
             NEW toggles \in BOOLEAN, BumpLibraryVersion(r, l, batch, toggles)
      PROVE  Noting'
  BY <1>0, <1>1, <1>3 DEF BumpLibraryVersion
<1>4. ASSUME NEW r \in Request, NEW l \in Library,
             NoteAccessChange(r, l) \/ AcceptInvitation(r, l)
      PROVE  Noting'
  BY <1>0, <1>1, <1>4 DEF NoteAccessChange, AcceptInvitation
<1>5. ASSUME NEW r \in Request, CommitTx(r)
      PROVE  Noting'
  BY <1>0, <1>1, <1>5 DEF CommitTx, OneOpen, Transaction
<1>6. ASSUME NEW r \in Request, AfterCommit(r)
      PROVE  Noting'
  <2>1. /\ tx' = [tx EXCEPT ![r] = NoTx] /\ pending' = [pending EXCEPT ![r] = NothingPending]
        /\ access' = access
    BY <1>6 DEF AfterCommit, Publish
  <2> QED
    BY <1>0, <1>1, <2>1 DEF NoTx
<1>7. ASSUME NEW r \in Request, RollbackTx(r)
      PROVE  Noting'
  BY <1>0, <1>1, <1>7 DEF RollbackTx, NoTx
<1>8. ASSUME NEW r \in Request, ReleaseSavepoint(r)
      PROVE  Noting'
  <2>1. /\ tx' = tx /\ pending' = [pending EXCEPT ![r] = NothingPending]
        /\ access' = access /\ tx[r].batch
    BY <1>8 DEF ReleaseSavepoint, Publish
  <2> QED
    BY <1>0, <1>1, <1>8, <2>1 DEF ReleaseSavepoint
<1> QED
  BY <1>2, <1>3, <1>4, <1>5, <1>6, <1>7, <1>8, SocketsLeaveTx DEF Next

\* A transaction's promise is kept by its own steps and undisturbed by the
\* others': they cannot move its library's version.
LEMMA PromisedStep ==
    ASSUME IInv, [Next]_vars
    PROVE  Promised'
<1> USE DEF serverVars, vars
<1>0. Types /\ OneOpen /\ Promised
  BY DEF IInv
<1>1. /\ tx \in [Request -> Transaction] /\ pending \in [Request -> Pending]
      /\ version \in [Library -> 0..MaxVersion] /\ MaxVersion \in Nat
  BY <1>0, StreamingAssumption DEF Types, TypeOK
<1> SUFFICES ASSUME NEW r \in Request, NEW l \in Library, NEW v \in Nat,
                    tx'[r].step = "open", tx'[r].bumps, tx'[r].topic = l,
                    v = version'[l] + 1
             PROVE  /\ v <= MaxVersion
                    /\ pending'[r].version = v \/ (pending'[r].version = 0 /\ Spread(l, v)')
  BY DEF Promised
<1> DEFINE Kept == /\ v <= MaxVersion
                   /\ pending'[r].version = v \/ (pending'[r].version = 0 /\ Spread(l, v)')
\* What it promised before the step it still promises, unless it has just
\* announced it.
<1>2. ASSUME tx'[r] = tx[r], version'[l] = version[l],
             \/ pending'[r] = pending[r]
             \/ pending'[r].version = 0 /\ (pending[r].version = v => Spread(l, v)')
      PROVE  Kept
  <2>1. /\ v <= MaxVersion
        /\ pending[r].version = v \/ (pending[r].version = 0 /\ Spread(l, v))
    BY <1>0, <1>2 DEF Promised
  <2>2. pending[r].version = 0 /\ Spread(l, v) => Spread(l, v)'
    BY <1>0, <1>2, SpreadStays
  <2> QED
    BY <1>2, <2>1, <2>2
<1>3. ASSUME NEW q \in Request, NEW k \in Library, NEW batch \in BOOLEAN,
             NEW toggles \in BOOLEAN, BumpLibraryVersion(q, k, batch, toggles)
      PROVE  Kept
  <2>1. CASE q = r
    BY <1>1, <1>3, <2>1 DEF BumpLibraryVersion
  <2>2. CASE q # r
    BY <1>1, <1>2, <1>3, <2>2 DEF BumpLibraryVersion
  <2> QED
    BY <2>1, <2>2
<1>4. ASSUME NEW q \in Request, NEW k \in Library, NoteAccessChange(q, k)
      PROVE  Kept
  <2>1. q # r
    BY <1>1, <1>4 DEF NoteAccessChange
  <2> QED
    BY <1>1, <1>2, <1>4, <2>1 DEF NoteAccessChange
<1>5. ASSUME NEW q \in Request, NEW k \in Library, AcceptInvitation(q, k)
      PROVE  Kept
  <2>1. CASE q = r
    BY <1>1, <1>5, <2>1 DEF AcceptInvitation
  <2>2. CASE q # r
    BY <1>1, <1>2, <1>5, <2>2 DEF AcceptInvitation
  <2> QED
    BY <2>1, <2>2
<1>6. ASSUME NEW q \in Request, ReleaseSavepoint(q)
      PROVE  Kept
  <2>0. /\ tx' = tx /\ version' = version /\ Publish(q) /\ tx[q].step # "idle"
        /\ UNCHANGED <<conn, known, before>>
    BY <1>6 DEF ReleaseSavepoint, connVars
  <2>1. CASE q = r
    <3>1. pending[r].version = v => \A c \in Conn : Hears(c)' => Reached(c, l, v)'
      BY <1>0, <2>0, <2>1, PublishSpreads
    <3>2. pending[r].version = v => Spread(l, v)'
      BY <3>1 DEF Spread
    <3>3. pending'[r].version = 0
      BY <1>1, <2>0, <2>1 DEF Publish, NothingPending
    <3> QED
      BY <1>2, <2>0, <3>2, <3>3
  <2>2. CASE q # r
    <3>1. pending'[r] = pending[r]
      BY <1>1, <2>0, <2>2 DEF Publish
    <3> QED
      BY <1>2, <2>0, <3>1
  <2> QED
    BY <2>1, <2>2
<1>7. ASSUME NEW q \in Request, CommitTx(q)
      PROVE  Kept
  <2>1. q # r
    BY <1>1, <1>7 DEF CommitTx, Transaction
  <2>2. tx'[r] = tx[r] /\ pending'[r] = pending[r]
    BY <1>1, <1>7, <2>1 DEF CommitTx
  <2>3. tx[q].topic # l
    BY <1>0, <1>7, <2>1, <2>2 DEF CommitTx, OneOpen
  <2>4. version'[l] = version[l]
    BY <1>7, <2>3 DEF CommitTx
  <2> QED
    BY <1>2, <2>2, <2>4
<1>8. ASSUME NEW q \in Request, AfterCommit(q)
      PROVE  Kept
  <2>1. tx' = [tx EXCEPT ![q] = NoTx] /\ version' = version /\ Publish(q)
    BY <1>8 DEF AfterCommit
  <2>2. q # r
    BY <1>1, <2>1 DEF NoTx
  <2>3. tx'[r] = tx[r] /\ pending'[r] = pending[r]
    BY <1>1, <2>1, <2>2 DEF Publish
  <2> QED
    BY <1>2, <2>1, <2>3
<1>9. ASSUME NEW q \in Request, RollbackTx(q)
      PROVE  Kept
  <2>1. /\ tx' = [tx EXCEPT ![q] = NoTx] /\ version' = version
        /\ pending' = [pending EXCEPT ![q] = NothingPending]
    BY <1>9 DEF RollbackTx
  <2>2. q # r
    BY <1>1, <2>1 DEF NoTx
  <2>3. tx'[r] = tx[r] /\ pending'[r] = pending[r]
    BY <1>1, <2>1, <2>2
  <2> QED
    BY <1>2, <2>1, <2>3
<1>10. ASSUME UNCHANGED serverVars
       PROVE  Kept
  <2>1. tx' = tx /\ version' = version /\ pending' = pending
    BY <1>10
  <2> QED
    BY <1>2, <2>1
<1> HIDE DEF Kept
<1>11. ASSUME NEW d \in Conn,
              \/ Greet(d) \/ Attach(d) \/ ReadTopics(d) \/ Subscribe(d) \/ Unsubscribe(d)
              \/ Deliver(d) \/ ResyncStore(d) \/ Close(d)
       PROVE  Kept
  BY <1>10, <1>11, SocketsLeaveTx
<1>12. ASSUME UNCHANGED vars
       PROVE  Kept
  BY <1>10, <1>12
<1>13. Kept
  BY <1>3, <1>4, <1>5, <1>6, <1>7, <1>8, <1>9, <1>11, <1>12 DEF Next
<1> QED
  BY <1>13 DEF Kept

\* A version that is being delivered has reached everybody once it is
\* delivered; a commit that raises a version starts a delivery, unless the
\* release of a savepoint was ahead of it.
LEMMA OnItsWayStep ==
    ASSUME IInv, [Next]_vars
    PROVE  OnItsWay'
<1> USE DEF serverVars, vars
<1>0. Types /\ OneOpen /\ Promised /\ OnItsWay
  BY DEF IInv
<1>1. /\ tx \in [Request -> Transaction] /\ pending \in [Request -> Pending]
      /\ version \in [Library -> 0..MaxVersion] /\ MaxVersion \in Nat
  BY <1>0, StreamingAssumption DEF Types, TypeOK
<1> SUFFICES ASSUME NEW c \in Conn, NEW l \in Library, NEW v \in Nat,
                    Hears(c)', v = version'[l]
             PROVE  Reached(c, l, v)' \/ Delivering(l, v)'
  BY DEF OnItsWay
<1> DEFINE Kept == Reached(c, l, v)' \/ Delivering(l, v)'
\* What has reached it, or a delivery that goes on, is kept.
<1>2. ASSUME version'[l] = version[l], Delivering(l, v) => Kept
      PROVE  Kept
  <2>1. version[l] \in Nat
    BY <1>1
  <2>2. CASE Hears(c) /\ (Reached(c, l, v) => Reached(c, l, v)')
    BY <1>0, <1>2, <2>2 DEF OnItsWay
  <2>3. CASE known'[c][l] = version[l]
    BY <1>2, <2>1, <2>3 DEF Reached
  <2> QED
    BY <1>0, <1>2, <2>1, <2>2, <2>3, ReachedStays
<1>3. ASSUME version'[l] = version[l],
             \A r \in Request : tx[r].step = "committed" =>
                 tx'[r] = tx[r] /\ pending'[r] = pending[r]
      PROVE  Kept
  BY <1>2, <1>3 DEF Delivering
<1>4. ASSUME NEW q \in Request, NEW k \in Library, NEW batch \in BOOLEAN,
             NEW toggles \in BOOLEAN, BumpLibraryVersion(q, k, batch, toggles)
      PROVE  Kept
  BY <1>1, <1>3, <1>4 DEF BumpLibraryVersion
<1>5. ASSUME NEW q \in Request, NEW k \in Library,
             NoteAccessChange(q, k) \/ AcceptInvitation(q, k)
      PROVE  Kept
  BY <1>1, <1>3, <1>5 DEF NoteAccessChange, AcceptInvitation
<1>6. ASSUME NEW q \in Request, ReleaseSavepoint(q)
      PROVE  Kept
  BY <1>1, <1>3, <1>6 DEF ReleaseSavepoint, Publish
<1>7. ASSUME NEW q \in Request, CommitTx(q)
      PROVE  Kept
  <2>0. /\ tx[q].step = "open" /\ pending' = pending
        /\ tx'[q].step = "committed" /\ tx'[q].topic = tx[q].topic
        /\ \A r \in Request \ {q} : tx'[r] = tx[r]
        /\ UNCHANGED <<conn, queue, known, before, overflowed>>
        /\ version'[l] = IF tx[q].topic = l /\ tx[q].bumps THEN version[l] + 1 ELSE version[l]
    BY <1>1, <1>7 DEF CommitTx, connVars
  <2>1. CASE tx[q].topic = l /\ tx[q].bumps
    <3>1. pending[q].version = v \/ Spread(l, v)
      BY <1>0, <2>0, <2>1 DEF Promised
    <3>2. CASE pending[q].version = v
      BY <2>0, <2>1, <3>2 DEF Delivering
    <3>3. CASE Spread(l, v)
      <4>1. Reached(c, l, v)
        BY <2>0, <3>3 DEF Spread, Hears
      <4> QED
        BY <2>0, <4>1 DEF Reached, Tells
    <3> QED
      BY <3>1, <3>2, <3>3
  <2>2. CASE ~(tx[q].topic = l /\ tx[q].bumps)
    BY <1>3, <2>0, <2>2
  <2> QED
    BY <2>1, <2>2
<1>8. ASSUME NEW q \in Request, AfterCommit(q)
      PROVE  Kept
  <2>1. /\ tx' = [tx EXCEPT ![q] = NoTx] /\ version' = version /\ Publish(q)
        /\ tx[q].step # "idle" /\ UNCHANGED <<conn, known, before>>
    BY <1>8 DEF AfterCommit, connVars
  <2>2. ASSUME NEW r \in Request, tx[r].step = "committed", tx[r].topic = l,
               pending[r].version >= v
        PROVE  Kept
    <3>1. CASE r = q
      BY <1>0, <2>1, <2>2, <3>1, PublishSpreads
    <3>2. CASE r # q
      <4>1. tx'[r] = tx[r] /\ pending'[r] = pending[r]
        BY <1>1, <2>1, <3>2 DEF Publish
      <4> QED
        BY <2>2, <4>1 DEF Delivering
    <3> QED
      BY <3>1, <3>2
  <2>3. Delivering(l, v) => Kept
    BY <2>2 DEF Delivering
  <2> QED
    BY <1>2, <2>1, <2>3
<1>9. ASSUME NEW q \in Request, RollbackTx(q)
      PROVE  Kept
  <2>1. /\ tx[q].step = "open" /\ version' = version
        /\ tx' = [tx EXCEPT ![q] = NoTx] /\ pending' = [pending EXCEPT ![q] = NothingPending]
    BY <1>9 DEF RollbackTx
  <2>2. \A r \in Request : tx[r].step = "committed" => tx'[r] = tx[r] /\ pending'[r] = pending[r]
    BY <1>1, <2>1
  <2> QED
    BY <1>3, <2>1, <2>2
<1>10. ASSUME UNCHANGED serverVars
       PROVE  Kept
  <2>1. tx' = tx /\ version' = version /\ pending' = pending
    BY <1>10
  <2> QED
    BY <1>3, <2>1
<1> HIDE DEF Kept
<1>11. ASSUME NEW d \in Conn,
              \/ Greet(d) \/ Attach(d) \/ ReadTopics(d) \/ Subscribe(d) \/ Unsubscribe(d)
              \/ Deliver(d) \/ ResyncStore(d) \/ Close(d)
       PROVE  Kept
  BY <1>10, <1>11, SocketsLeaveTx
<1>12. ASSUME UNCHANGED vars
       PROVE  Kept
  BY <1>10, <1>12
<1>13. Kept
  BY <1>4, <1>5, <1>6, <1>7, <1>8, <1>9, <1>11, <1>12 DEF Next
<1> QED
  BY <1>13 DEF Kept

-----------------------------------------------------------------------------
(* Theorems *)

LEMMA InitIInv ==
    ASSUME Init
    PROVE  IInv
<1> USE StreamingAssumption
<1>1. Types
  BY EmptySeq DEF Init, Types, TypeOK, NoTx, Transaction, NothingPending, Pending
<1>2. OneOpen /\ Noting /\ Promised
  BY DEF Init, OneOpen, Noting, Promised, NoTx
<1>3. OnItsWay
  BY DEF Init, OnItsWay, Hears
<1> QED
  BY <1>1, <1>2, <1>3 DEF IInv

\* Whatever the transactions, savepoints, handshakes and resyncs in flight,
\* a version that is committed has reached every socket that keeps up, or a
\* commit hook is about to send it.
THEOREM StreamingInvariance == Spec => []IInv
<1>1. Init => IInv
  BY InitIInv
<1>2. IInv /\ [Next]_vars => IInv'
  BY TypesStep, OneOpenStep, NotingStep, PromisedStep, OnItsWayStep DEF IInv
<1> QED
  BY <1>1, <1>2, PTL DEF Spec

\* No queue outgrows its size and no state leaves its type: streaming.py's
\* broker, the events noted on a session and the subscriptions.
THEOREM TypeCorrect == Spec => []TypeOK
<1>1. IInv => TypeOK
  BY DEF IInv, Types
<1> QED
  BY <1>1, StreamingInvariance, PTL

\* A version committed while a connection was attached has reached it or
\* waits in its queue, unless the queue overflowed, or the version was
\* announced by the release of a savepoint before the connection attached:
\* after_commit publishes what the savepoint's release did not.
THEOREM CommitsAnnounced == Spec => []EveryCommitAnnounced
<1>1. IInv => EveryCommitAnnounced
  <2> SUFFICES ASSUME IInv, NEW c \in Conn, NEW l \in Library,
                      conn[c] = "attached", ~overflowed[c], ~Publishing(l)
               PROVE  known[c][l] >= version[l] \/ Queued(c, l) \/ before[c][l] = version[l]
    BY DEF EveryCommitAnnounced
  <2>1. version[l] \in Nat
    BY StreamingAssumption DEF IInv, Types, TypeOK
  <2>2. ~Delivering(l, version[l])
    BY DEF Delivering, Publishing
  <2>3. Reached(c, l, version[l])
    BY <2>1, <2>2 DEF IInv, OnItsWay, Hears
  <2> QED
    BY <2>3 DEF Reached, Tells, Queued
<1> QED
  BY <1>1, StreamingInvariance, PTL

-----------------------------------------------------------------------------
(* Subscriptions *)

\* But for the groups nobody announced, S is what the account may read.
Same(S) == S \ unannounced = access \ unannounced

\* A request has committed a change of what the account may reach, and has
\* yet to announce it.
Announcing == \E r \in Request : tx[r].step = "committed" /\ tx[r].toggles /\ pending[r].access

\* An account's event is in a queue.
Told(q) == Tells(q, Account, 0)

\* Nothing more about the account will reach this connection for now.
Quiet(c) == ~overflowed[c] /\ ~Announcing /\ ~Told(queue[c])

\* What a task has read belongs to an attached socket, and what a socket
\* watches to a subscription.
Owned(c) ==
    /\ conn[c] # "attached" => creating[c] = None /\ resyncing[c] = None
    /\ conn[c] = "closed" => ~subscribed[c]
    /\ ~subscribed[c] => topics[c] = {} /\ resyncing[c] = None

\* What a createSubscriptions has read is current until a publication, from
\* where on its connection has missed it; and so are the topics of a
\* connection that greets.
ReadCurrent(c) ==
    ~missed[c] /\ ~Announcing =>
        /\ creating[c] # None => Same(creating[c])
        /\ conn[c] = "greeting" => Same(topics[c])

\* What a resync has read, and without one what the subscription watches, is
\* current or another event will start a resync.
Followed(c) ==
    conn[c] = "attached" /\ Quiet(c) =>
        /\ resyncing[c] # None => Same(resyncing[c])
        /\ resyncing[c] = None /\ subscribed[c] /\ ~missed[c] => Same(topics[c])

Follows == \A c \in Conn : Owned(c) /\ ReadCurrent(c) /\ Followed(c)

\* A publication puts what it says about the account into the queues.
LEMMA PublishTells ==
    ASSUME Types, OneOpen, NEW r \in Request, tx[r].step # "idle", Publish(r),
           UNCHANGED conn, NEW c \in Conn, conn[c] = "attached", ~overflowed'[c]
    PROVE  /\ ~overflowed[c]
           /\ Told(queue[c]) => Told(queue'[c])
           /\ pending[r].access => Told(queue'[c])
<1> DEFINE events == Noted(pending[r], tx[r].topic)
<1>1. /\ pending[r] \in Pending /\ tx[r].topic \in Library
      /\ queue[c] \in Seq(Event) /\ Len(queue[c]) <= QueueSize
  BY DEF Types, TypeOK, OneOpen
<1>2. events \in Seq(Event) /\ Len(events) \in Nat /\ Len(events) <= 2
  BY <1>1, NotedTells
<1>3. /\ queue'[c] = EnqueueAll(queue[c], events)
      /\ ~overflowed[c] /\ ~(Len(queue[c]) + Len(events) > QueueSize)
  BY Zenon DEF Publish
<1>4. pending[r].access => Told(events)
  <2> DEFINE b == IF pending[r].version > 0
                  THEN <<[topic |-> tx[r].topic, version |-> pending[r].version]>> ELSE <<>>
  <2>1. b \in Seq(Event)
    <3>1. [topic |-> tx[r].topic, version |-> pending[r].version] \in Event
      BY <1>1, StreamingAssumption DEF Event, Pending
    <3> QED
      BY <3>1
  <2>2. <<AccessChanged>> \in Seq(Event) /\ Len(<<AccessChanged>>) = 1
        /\ <<AccessChanged>>[1] = AccessChanged
        /\ AccessChanged.topic = Account /\ AccessChanged.version = 0
    BY StreamingAssumption DEF Event, AccessChanged
  <2>3. pending[r].access => events = <<AccessChanged>> \o b
    BY DEF Noted
  <2> HIDE DEF b, events
  <2>4. /\ Len(<<AccessChanged>> \o b) = 1 + Len(b) /\ Len(b) \in Nat
        /\ (<<AccessChanged>> \o b)[1] = AccessChanged
    BY <2>1, <2>2, ConcatProperties, LenProperties
  <2>5. <<AccessChanged>> \o b \in Seq(Event)
    BY <2>1, <2>2, ConcatProperties
  <2>6. 1 \in DOMAIN (<<AccessChanged>> \o b)
    BY <2>4, <2>5, LenProperties
  <2> QED
    BY <2>2, <2>3, <2>4, <2>6 DEF Told, Tells
<1> HIDE DEF events
<1>5. Len(queue[c]) + Len(events) <= QueueSize
  <2>1. Len(queue[c]) \in Nat /\ QueueSize \in Nat
    BY <1>1, LenProperties, StreamingAssumption
  <2> QED
    BY <1>2, <1>3, <2>1
<1>6. /\ Told(queue[c]) => Told(EnqueueAll(queue[c], events))
      /\ Told(events) => Told(EnqueueAll(queue[c], events))
  BY <1>1, <1>2, <1>5, EnqueueAllKeeps DEF Told
<1> QED
  BY <1>3, <1>4, <1>6

\* Steps that touch neither what the account may read, nor what is on its
\* way, nor this connection.
LEMMA FollowsFrame ==
    ASSUME NEW c \in Conn, Owned(c), ReadCurrent(c), Followed(c), Announcing => Announcing',
           UNCHANGED <<access, unannounced, conn[c], queue[c], topics[c], subscribed[c],
                       creating[c], resyncing[c], overflowed[c], missed[c]>>
    PROVE  (Owned(c) /\ ReadCurrent(c) /\ Followed(c))'
<1>1. /\ (Same(creating[c]))' <=> Same(creating[c])
      /\ (Same(resyncing[c]))' <=> Same(resyncing[c])
      /\ (Same(topics[c]))' <=> Same(topics[c])
  BY DEF Same
<1>2. (Told(queue[c]))' <=> Told(queue[c])
  BY DEF Told, Tells
<1>3. Owned(c)'
  BY DEF Owned
<1>4. ReadCurrent(c)'
  BY <1>1 DEF ReadCurrent
<1>5. Followed(c)'
  BY <1>1, <1>2 DEF Followed, Quiet
<1> QED
  BY <1>3, <1>4, <1>5

\* A step of the write side that publishes.
LEMMA PublishFollows ==
    ASSUME Types, OneOpen, NEW c \in Conn, Owned(c), ReadCurrent(c), Followed(c),
           NEW r \in Request, tx[r].step # "idle", Publish(r),
           UNCHANGED <<access, unannounced, connVars, known, before>>,
           \A q \in Request \ {r} : tx'[q] = tx[q]
    PROVE  (Owned(c) /\ ReadCurrent(c) /\ Followed(c))'
<1>0. UNCHANGED <<access, unannounced, conn, topics, subscribed, creating, resyncing>>
  BY DEF connVars
<1>1. pending \in [Request -> Pending] /\ pending' = [pending EXCEPT ![r] = NothingPending]
  BY DEF Types, TypeOK, Publish
<1>2. Announcing => Announcing' \/ pending[r].access
  BY <1>1 DEF Announcing
<1>3. missed'[c] <=> missed[c] \/ (pending[r].access /\ (conn[c] = "greeting" \/ creating[c] # None))
  BY DEF Publish
<1>4. /\ (Same(creating[c]))' <=> Same(creating[c])
      /\ (Same(resyncing[c]))' <=> Same(resyncing[c])
      /\ (Same(topics[c]))' <=> Same(topics[c])
  BY <1>0 DEF Same
<1>5. Owned(c)'
  BY <1>0 DEF Owned
<1>6. ReadCurrent(c)'
  BY <1>0, <1>2, <1>3, <1>4 DEF ReadCurrent
<1>7. ASSUME conn[c] = "attached", Quiet(c)'
      PROVE  Quiet(c)
  <2>1. ~overflowed'[c] /\ ~Announcing' /\ ~Told(queue'[c])
    BY <1>7 DEF Quiet, Told, Tells
  <2>2. ~overflowed[c] /\ ~Told(queue[c]) /\ ~pending[r].access
    BY <1>0, <1>7, <2>1, PublishTells
  <2> QED
    BY <1>2, <2>1, <2>2 DEF Quiet
<1>8. Followed(c)'
  BY <1>0, <1>3, <1>4, <1>7 DEF Followed
<1> QED
  BY <1>5, <1>6, <1>8

LEMMA FollowsStep ==
    ASSUME IInv, Follows, [Next]_vars
    PROVE  Follows'
<1> SUFFICES ASSUME NEW c \in Conn
             PROVE  (Owned(c) /\ ReadCurrent(c) /\ Followed(c))'
  BY DEF Follows
<1> DEFINE Kept == (Owned(c) /\ ReadCurrent(c) /\ Followed(c))'
<1>0. /\ Types /\ OneOpen /\ Noting
      /\ Owned(c) /\ ReadCurrent(c) /\ Followed(c)
  BY DEF IInv, Follows
<1>1. /\ tx \in [Request -> Transaction] /\ pending \in [Request -> Pending]
      /\ unannounced \subseteq access
      /\ conn \in [Conn -> {"closed", "greeting", "attached"}] /\ queue \in [Conn -> Seq(Event)]
      /\ topics \in [Conn -> SUBSET Library] /\ subscribed \in [Conn -> BOOLEAN]
      /\ creating \in [Conn -> (SUBSET Library) \cup {None}]
      /\ resyncing \in [Conn -> (SUBSET Library) \cup {None}]
      /\ overflowed \in [Conn -> BOOLEAN] /\ missed \in [Conn -> BOOLEAN]
      /\ access \in SUBSET Library
  BY <1>0 DEF Types, TypeOK
<1>2. ASSUME Announcing => Announcing',
             UNCHANGED <<access, unannounced, conn[c], queue[c], topics[c], subscribed[c],
                         creating[c], resyncing[c], overflowed[c], missed[c]>>
      PROVE  Kept
  BY <1>0, <1>2, FollowsFrame
<1>3. ASSUME NEW q \in Request, tx[q].step # "committed",
             \A r \in Request \ {q} : tx'[r] = tx[r] /\ pending'[r] = pending[r]
      PROVE  Announcing => Announcing'
  BY <1>3 DEF Announcing
<1>4. ASSUME NEW r \in Request, NEW l \in Library, NEW batch \in BOOLEAN,
             NEW toggles \in BOOLEAN, BumpLibraryVersion(r, l, batch, toggles)
      PROVE  Kept
  <2>1. /\ tx[r].step # "committed"
        /\ \A q \in Request \ {r} : tx'[q] = tx[q] /\ pending'[q] = pending[q]
    BY <1>1, <1>4 DEF BumpLibraryVersion
  <2> QED
    BY <1>2, <1>3, <1>4, <2>1 DEF BumpLibraryVersion, connVars
<1>5. ASSUME NEW r \in Request, NEW l \in Library, NoteAccessChange(r, l)
      PROVE  Kept
  <2>1. /\ tx[r].step # "committed"
        /\ \A q \in Request \ {r} : tx'[q] = tx[q] /\ pending'[q] = pending[q]
    BY <1>1, <1>5 DEF NoteAccessChange
  <2> QED
    BY <1>2, <1>3, <1>5, <2>1 DEF NoteAccessChange, connVars
<1>6. ASSUME NEW r \in Request, NEW l \in Library, AcceptInvitation(r, l)
      PROVE  Kept
  <2>1. /\ tx[r].step # "committed"
        /\ \A q \in Request \ {r} : tx'[q] = tx[q] /\ pending'[q] = pending[q]
    BY <1>1, <1>6 DEF AcceptInvitation
  <2> QED
    BY <1>2, <1>3, <1>6, <2>1 DEF AcceptInvitation, connVars
<1>7. ASSUME NEW r \in Request, RollbackTx(r)
      PROVE  Kept
  <2>1. /\ tx[r].step # "committed"
        /\ \A q \in Request \ {r} : tx'[q] = tx[q] /\ pending'[q] = pending[q]
    BY <1>1, <1>7 DEF RollbackTx
  <2> QED
    BY <1>2, <1>3, <1>7, <2>1 DEF RollbackTx, connVars
<1>8. ASSUME NEW r \in Request, ReleaseSavepoint(r)
      PROVE  Kept
  <2>1. /\ tx[r].step # "idle" /\ Publish(r) /\ tx' = tx
        /\ UNCHANGED <<access, unannounced, connVars, known, before>>
    BY <1>8 DEF ReleaseSavepoint
  <2> QED
    BY <1>0, <2>1, PublishFollows
<1>9. ASSUME NEW r \in Request, AfterCommit(r)
      PROVE  Kept
  <2>1. /\ tx[r].step # "idle" /\ Publish(r) /\ tx' = [tx EXCEPT ![r] = NoTx]
        /\ UNCHANGED <<access, unannounced, connVars, known, before>>
    BY <1>9 DEF AfterCommit
  <2>2. \A q \in Request \ {r} : tx'[q] = tx[q]
    BY <1>1, <2>1
  <2> QED
    BY <1>0, <2>1, <2>2, PublishFollows
\* A commit either is announced later or leaves Same as it was.
<1>10. ASSUME NEW r \in Request, CommitTx(r)
       PROVE  Kept
  <2>1. /\ tx[r].step = "open" /\ tx'[r].step = "committed" /\ tx'[r].toggles = tx[r].toggles
        /\ pending' = pending /\ \A q \in Request \ {r} : tx'[q] = tx[q]
    BY <1>1, <1>10 DEF CommitTx, Transaction
  <2>2. UNCHANGED <<conn, queue, topics, subscribed, creating, resyncing, overflowed, missed>>
    BY <1>10 DEF CommitTx, connVars
  <2>3. Announcing => Announcing'
    BY <1>3, <2>1
  <2>4. CASE ~tx[r].toggles
    <3>1. access' = access /\ unannounced' = unannounced
      BY <1>10, <2>4 DEF CommitTx
    <3> QED
      BY <1>2, <2>2, <2>3, <3>1
  <2>5. CASE tx[r].toggles /\ pending[r].access
    <3>1. Announcing'
      BY <2>1, <2>5 DEF Announcing
    <3>2. Owned(c)'
      BY <1>0, <2>2 DEF Owned
    <3> QED
      BY <3>1, <3>2 DEF ReadCurrent, Followed, Quiet
  <2>6. CASE tx[r].toggles /\ ~pending[r].access
    <3>1. tx[r].topic \notin access
      BY <1>0, <2>1, <2>6 DEF Noting
    <3>2. access' = access \cup {tx[r].topic} /\ unannounced' = unannounced \cup {tx[r].topic}
      BY <1>10, <2>6, <3>1 DEF CommitTx
    <3>3. /\ Same(creating[c]) => (Same(creating[c]))'
          /\ Same(resyncing[c]) => (Same(resyncing[c]))'
          /\ Same(topics[c]) => (Same(topics[c]))'
      BY <2>2, <3>2 DEF Same
    <3>4. Owned(c)'
      BY <1>0, <2>2 DEF Owned
    <3>5. ReadCurrent(c)'
      BY <1>0, <2>2, <2>3, <3>3 DEF ReadCurrent
    <3>6. Quiet(c)' => Quiet(c)
      BY <2>2, <2>3 DEF Quiet, Told, Tells
    <3>7. Followed(c)'
      BY <1>0, <2>2, <3>3, <3>6 DEF Followed
    <3> QED
      BY <3>4, <3>5, <3>7
  <2> QED
    BY <2>4, <2>5, <2>6
\* The steps of a socket, its own and another's.
<1>11. ASSUME UNCHANGED serverVars
       PROVE  /\ UNCHANGED <<access, unannounced, tx, pending>>
              /\ Announcing' <=> Announcing
  BY <1>11 DEF serverVars, Announcing
<1>12. ASSUME NEW d \in Conn, d # c,
              \/ Greet(d) \/ Attach(d) \/ ReadTopics(d) \/ Subscribe(d) \/ Unsubscribe(d)
              \/ Deliver(d) \/ ResyncStore(d) \/ Close(d)
       PROVE  Kept
  <2>1. UNCHANGED serverVars
    BY <1>12, SocketsLeaveTx
  <2>2. UNCHANGED <<conn[c], queue[c], topics[c], subscribed[c], creating[c], resyncing[c],
                    overflowed[c], missed[c]>>
    BY <1>1, <1>12
       DEF Greet, Attach, ReadTopics, Subscribe, Unsubscribe, Deliver, ResyncStore, Close
  <2> QED
    BY <1>2, <1>11, <2>1, <2>2
<1>13. ASSUME Greet(c)
       PROVE  Kept
  <2>1. /\ UNCHANGED serverVars /\ conn[c] = "closed" /\ conn'[c] = "greeting"
        /\ topics'[c] = access /\ subscribed'[c]
        /\ creating'[c] = creating[c] /\ resyncing'[c] = resyncing[c]
    BY <1>1, <1>13 DEF Greet
  <2> QED
    BY <1>0, <1>11, <2>1 DEF Owned, ReadCurrent, Followed, Same
<1>14. ASSUME Attach(c)
       PROVE  Kept
  <2>1. /\ UNCHANGED serverVars /\ conn[c] \in {"closed", "greeting"} /\ conn'[c] = "attached"
        /\ topics'[c] = topics[c] /\ subscribed'[c] = subscribed[c]
        /\ creating'[c] = creating[c] /\ resyncing'[c] = resyncing[c] /\ missed'[c] = missed[c]
    BY <1>1, <1>14 DEF Attach
  <2> QED
    BY <1>0, <1>11, <2>1 DEF Owned, ReadCurrent, Followed, Quiet, Same
<1>15. ASSUME ReadTopics(c)
       PROVE  Kept
  <2>1. /\ UNCHANGED <<serverVars, conn, queue, topics, subscribed, resyncing, overflowed, missed>>
        /\ conn[c] = "attached" /\ creating'[c] = access
    BY <1>1, <1>15 DEF ReadTopics
  <2>2. Quiet(c)' => Quiet(c)
    BY <1>11, <2>1 DEF Quiet, Told, Tells
  <2> QED
    BY <1>0, <1>11, <2>1, <2>2 DEF Owned, ReadCurrent, Followed, Same
<1>16. ASSUME Subscribe(c)
       PROVE  Kept
  <2>1. /\ UNCHANGED <<serverVars, conn, queue, resyncing, overflowed, missed>>
        /\ creating[c] # None /\ creating'[c] = None
        /\ topics'[c] = topics[c] \cup creating[c] /\ subscribed'[c]
    BY <1>1, <1>16 DEF Subscribe
  <2>2. Quiet(c)' => Quiet(c)
    BY <1>11, <2>1 DEF Quiet, Told, Tells
  <2>3. conn[c] = "attached"
    BY <1>0, <1>1, <2>1 DEF Owned
  <2>4. Owned(c)' /\ ReadCurrent(c)'
    BY <1>0, <1>11, <2>1, <2>3 DEF Owned, ReadCurrent
  <2>5. ASSUME Quiet(c)', resyncing[c] = None, ~missed[c]
        PROVE  (Same(topics[c]))'
    <3>1. Same(creating[c])
      BY <1>0, <2>1, <2>2, <2>5 DEF ReadCurrent, Quiet
    <3>2. topics[c] = {} \/ Same(topics[c])
      BY <1>0, <2>2, <2>3, <2>5 DEF Owned, Followed
    <3> QED
      BY <1>11, <2>1, <3>1, <3>2 DEF Same
  <2>6. Quiet(c)' /\ resyncing[c] # None => (Same(resyncing[c]))'
    BY <1>0, <1>11, <2>1, <2>2, <2>3 DEF Followed, Same
  <2> QED
    BY <2>1, <2>4, <2>5, <2>6 DEF Followed
<1>17. ASSUME Unsubscribe(c)
       PROVE  Kept
  <2>1. /\ UNCHANGED <<serverVars, conn, queue, creating, overflowed>>
        /\ conn[c] = "attached" /\ creating[c] = None
        /\ topics'[c] = {} /\ ~subscribed'[c] /\ resyncing'[c] = None
    BY <1>1, <1>17 DEF Unsubscribe
  <2> QED
    BY <1>0, <2>1 DEF Owned, ReadCurrent, Followed
<1>18. ASSUME Deliver(c)
       PROVE  Kept
  <2>1. /\ UNCHANGED <<serverVars, conn, topics, subscribed, creating, overflowed, missed>>
        /\ conn[c] = "attached" /\ resyncing[c] = None
        /\ queue[c] # <<>> /\ queue'[c] = Tail(queue[c])
        /\ resyncing'[c] = IF Head(queue[c]).topic = Account /\ subscribed[c] THEN access ELSE None
    BY <1>1, <1>18 DEF Deliver
  <2>2. Owned(c)' /\ ReadCurrent(c)'
    BY <1>0, <1>11, <2>1 DEF Owned, ReadCurrent, Same
  <2>3. ASSUME Quiet(c)', Head(queue[c]).topic # Account
        PROVE  Quiet(c)
    <3>1. queue[c] \in Seq(Event)
      BY <1>1
    <3>2. Told(queue[c]) => Told(Tail(queue[c]))
      BY <2>1, <2>3, <3>1, TailTells DEF Told
    <3> QED
      BY <1>11, <2>1, <2>3, <3>2 DEF Quiet, Told, Tells
  <2>4. Followed(c)'
    <3>1. access # None
      BY <1>1, StreamingAssumption
    <3>2. CASE Head(queue[c]).topic = Account /\ subscribed[c]
      BY <1>11, <2>1, <3>1, <3>2 DEF Followed, Same
    <3>3. CASE ~subscribed[c]
      BY <2>1, <3>3 DEF Followed
    <3>4. CASE Head(queue[c]).topic # Account
      BY <1>0, <1>11, <2>1, <2>3, <3>4 DEF Followed, Same
    <3> QED
      BY <3>2, <3>3, <3>4
  <2> QED
    BY <2>2, <2>4
<1>19. ASSUME ResyncStore(c)
       PROVE  Kept
  <2>1. /\ UNCHANGED <<serverVars, conn, queue, subscribed, creating, overflowed>>
        /\ resyncing[c] # None /\ resyncing'[c] = None /\ topics'[c] = resyncing[c]
        /\ missed'[c] <=> missed[c] /\ creating[c] # None
    BY <1>1, <1>19 DEF ResyncStore
  <2>2. Quiet(c)' => Quiet(c)
    BY <1>11, <2>1 DEF Quiet, Told, Tells
  <2>3. conn[c] = "attached" /\ subscribed[c]
    BY <1>0, <1>1, <2>1 DEF Owned
  <2> QED
    BY <1>0, <1>11, <2>1, <2>2, <2>3 DEF Owned, ReadCurrent, Followed, Same
<1>20. ASSUME Close(c)
       PROVE  Kept
  <2>1. /\ conn'[c] = "closed" /\ topics'[c] = {} /\ ~subscribed'[c]
        /\ creating'[c] = None /\ resyncing'[c] = None
    BY <1>1, <1>20 DEF Close
  <2> QED
    BY <2>1 DEF Owned, ReadCurrent, Followed
<1>21. ASSUME UNCHANGED vars
       PROVE  Kept
  BY <1>2, <1>21 DEF vars, Announcing
<1> HIDE DEF Kept
<1>22. Kept
  BY <1>4, <1>5, <1>6, <1>7, <1>8, <1>9, <1>10, <1>12, <1>13, <1>14, <1>15, <1>16, <1>17,
     <1>18, <1>19, <1>20, <1>21 DEF Next
<1> QED
  BY <1>22 DEF Kept

\* When nothing about the account is on its way to an attached socket, its
\* subscription watches what the account may read, but for the groups joined
\* by invitation and for changes between the reading of a subscription's
\* topics and the moment they take hold: resync catches all others up.
THEOREM SubscriptionsFollow == Spec => []SubscriptionFollowsAccess
<1>1. Init => Follows
  BY DEF Init, Follows, Owned, ReadCurrent, Followed
<1>2. IInv /\ Follows /\ [Next]_vars => Follows'
  BY FollowsStep
<1>3. IInv /\ Follows => SubscriptionFollowsAccess
  <2> SUFFICES ASSUME IInv, Follows, NEW c \in Conn, Settled(c), ~missed[c]
               PROVE  topics[c] \ unannounced = access \ unannounced
    BY DEF SubscriptionFollowsAccess
  <2>1. ~Announcing
    BY DEF Settled, PublishingAccess, Announcing
  <2>2. ~Told(queue[c])
    BY DEF Settled, AccessQueued, Told, Tells
  <2>3. Followed(c)
    BY DEF Follows
  <2> QED
    BY <2>1, <2>2, <2>3 DEF Settled, Followed, Quiet, Same
<1> QED
  BY <1>1, <1>2, <1>3, StreamingInvariance, PTL DEF Spec
=============================================================================
