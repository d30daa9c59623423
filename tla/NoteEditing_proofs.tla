-------------------------- MODULE NoteEditing_proofs --------------------------
(***************************************************************************)
(* Proofs about NoteEditing, for any notes, panes, marks, requests under   *)
(* way and failures: no draft is lost without a trace, no save replaces    *)
(* what the reader had not seen, a note that says it is saved is, and a    *)
(* pane with nothing of its own shows what the page holds.                 *)
(*                                                                         *)
(* None is inductive.  A save is right because of what it was sent with:   *)
(* every copy of a note anywhere -- a row, the open item, what a save is   *)
(* based on, an answer -- is of a version the server has had, and is the   *)
(* text as stored if it is of the version as stored (Copy).  So a save     *)
(* that is accepted replaces what it was based on (FlightFine), and that   *)
(* the draft takes in what it is based on is kept up by the pane on the    *)
(* screen, whatever comes in under it (Shows).                             *)
(*                                                                         *)
(* The definitions are of one pane, one save and one copy, given what the  *)
(* server stores and which marks were lost: what an action does to one     *)
(* pane is a lemma about records, and the steps put them together.         *)
(***************************************************************************)
EXTENDS NoteEditing, SequenceTheorems, FiniteSetTheorems, TLAPS

Maybe(S) == {{}} \union {{x} : x \in S}

Answers == [status : {"ok", "stale"}, item : Envelope]

Flights == [html : SUBSET Marks, target : Notes, base : Envelope, version : Nat,
            stage : {"patch", "read", "again"}, answer : Maybe(Answers)]

PaneType == [item : Notes, mounted : BOOLEAN, editor : SUBSET Marks,
             pending : Maybe(SUBSET Marks), written : SUBSET Marks, timer : BOOLEAN,
             flight : Maybe(Flights), waiting : BOOLEAN, state : States,
             theirs : SUBSET Marks]

Lost_ == unseen \union chosen \union strayed

\* e is what the server stores of its note, or what it stored once.
Copy(e, srv, lost) ==
    /\ e.version <= srv[e.key].version
    /\ e.version = srv[e.key].version => e.text = srv[e.key].text
    /\ e.text \subseteq srv[e.key].text \union lost

\* A save that is accepted replaces what it is based on, and what is not of
\* its own in that was lost knowingly; once it was accepted its text is stored.
FlightFine(f, srv, lost) ==
    /\ f.version <= srv[f.target].version
    /\ f.version = srv[f.target].version => f.base.text = srv[f.target].text
    /\ f.base.text \subseteq f.html \union lost
    /\ \A a \in f.answer :
        /\ Copy(a.item, srv, lost) /\ a.item.key = f.target
        /\ f.stage # "read" /\ a.status = "ok" => a.item.text = f.html

\* How the parts of a pane hang together.
PaneFine(x) ==
    /\ x.flight # {} <=> x.state = "saving"
    /\ x.state = "conflict" => x.pending # {}
    /\ x.theirs # {} => x.state = "conflict"
    /\ \A d \in x.pending : \A f \in x.flight : f.html \subseteq d
    /\ x.mounted =>
        /\ \A d \in x.pending : x.editor = d
        /\ \A f \in x.flight : f.target = x.item /\ (x.pending = {} => x.editor = f.html)
        /\ x.pending = {} /\ x.flight = {} => x.editor = x.written

\* The pane on the screen is of the open item; it shows what the page holds of
\* it, or has it lost knowingly.
Shows(x, open, lost) ==
    x.mounted => \E e \in Envelope :
        /\ open = {e} /\ e.key = x.item
        /\ e.text \subseteq x.editor \union x.theirs \union lost
        /\ x.pending = {} /\ x.flight = {} => x.editor = e.text

Fine(x, open, srv, lost) ==
    /\ x \in PaneType
    /\ PaneFine(x)
    /\ \A f \in x.flight : FlightFine(f, srv, lost)
    /\ Shows(x, open, lost)

Copies(s, srv, lost) == \A n \in Notes : s[n].key = n /\ Copy(s[n], srv, lost)

ReadTypes == [kind : {"list"}, upto : Nat, answer : {{s} : s \in [Notes -> Envelope]}]
    \union [kind : {"item"}, key : Notes, answer : Maybe(Envelope)]

ReadFine(r, srv, lost) ==
    /\ r.kind = "list" => \A s \in r.answer : Copies(s, srv, lost)
    /\ r.kind = "item" => \A e \in r.answer : e.key = r.key /\ Copy(e, srv, lost)

Stored ==
    /\ server \in [Notes -> Envelope] /\ version \in Nat
    /\ \A n \in Notes : server[n].key = n /\ server[n].version <= version
    /\ known \in 0..version /\ events \subseteq (known + 1)..version
    /\ \A r \in reads : r.kind = "list" => r.upto <= version
    /\ typedIn \in Seq(Notes) /\ Len(typedIn) <= MaxTyped
    /\ foreign \in Nat /\ failures \in Nat
    /\ unseen \subseteq Marks /\ chosen \subseteq Marks /\ strayed \subseteq Marks

Held ==
    /\ rows \in [Notes -> Envelope] /\ Copies(rows, server, Lost_)
    /\ selected \in Maybe(Envelope) /\ \A e \in selected : Copy(e, server, Lost_)
    /\ reads \subseteq ReadTypes /\ \A r \in reads : ReadFine(r, server, Lost_)

Drawn ==
    /\ panes \in Seq(PaneType) /\ Len(panes) \in DOMAIN panes
    /\ \A p \in DOMAIN panes :
        /\ Fine(panes[p], selected, server, Lost_)
        /\ panes[p].mounted => p = Len(panes)

\* Mark k of note n is stored, on its way, or in the draft of a pane that is on
\* the screen, waits to be sent, or could not be sent, on the screen or not.
Somewhere(k, n) ==
    \/ k \in server[n].text
    \/ \E p \in DOMAIN panes :
        /\ panes[p].item = n
        /\ \/ /\ k \in UNION panes[p].pending
              /\ panes[p].mounted \/ panes[p].waiting \/ panes[p].state \in {"failed", "conflict"}
           \/ \E f \in panes[p].flight : f.target = n /\ k \in f.html

NoneVanishes == \A k \in DOMAIN typedIn : k \in Lost_ \/ Somewhere(k, typedIn[k])

IInv == Stored /\ Held /\ Drawn /\ NoneVanishes

-----------------------------------------------------------------------------
(* Sequences, options and the larger of two. *)

\* What appending and changing in place do to a sequence.
LEMMA SequenceFacts ==
    ASSUME NEW S, NEW s \in Seq(S)
    PROVE  /\ Len(s) \in Nat /\ DOMAIN s = 1..Len(s)
           /\ \A p \in DOMAIN s : s[p] \in S
           /\ \A x \in S :
                /\ Append(s, x) \in Seq(S) /\ Len(Append(s, x)) = Len(s) + 1
                /\ \A p \in DOMAIN s : Append(s, x)[p] = s[p]
                /\ Append(s, x)[Len(s) + 1] = x
           /\ \A p \in DOMAIN s, x \in S :
                [s EXCEPT ![p] = x] \in Seq(S) /\ Len([s EXCEPT ![p] = x]) = Len(s)
OBVIOUS

\* A function on the positions of a sequence is a sequence of that length.
LEMMA SequenceOver ==
    ASSUME NEW S, NEW T, NEW s \in Seq(S), NEW t \in [DOMAIN s -> T]
    PROVE  t \in Seq(T) /\ Len(t) = Len(s)
<1>1. t \in [1..Len(s) -> T] /\ Len(s) \in Nat
  OBVIOUS
<1> QED BY <1>1

LEMMA TheFact ==
    ASSUME NEW x
    PROVE  The({x}) = x
BY DEF The

LEMMA MaybeFact ==
    ASSUME NEW S, NEW option \in Maybe(S)
    PROVE  /\ IsMaybe(option, S)
           /\ \A x \in option : x \in S /\ option = {x}
<1>1. CASE option = {}
  BY <1>1, FS_EmptySet DEF IsMaybe
<1>2. ASSUME NEW x \in S, option = {x}
      PROVE  IsMaybe(option, S)
  <2>1. Cardinality({x}) = 1
    BY FS_Singleton
  <2> QED BY <1>2, <2>1 DEF IsMaybe
<1> QED BY <1>1, <1>2 DEF Maybe

LEMMA LargerOfTwo ==
    ASSUME NEW a \in Nat, NEW b \in Nat
    PROVE  /\ Max({a, b}) \in {a, b}
           /\ a <= Max({a, b}) /\ b <= Max({a, b})
<1> DEFINE larger == IF a >= b THEN a ELSE b
<1>1. larger \in {a, b} /\ \A y \in {a, b} : larger >= y
  OBVIOUS
<1>2. Max({a, b}) \in {a, b} /\ \A y \in {a, b} : Max({a, b}) >= y
  BY <1>1 DEF Max
<1> QED BY <1>2

-----------------------------------------------------------------------------
(* What happens to the copies while notes are written. *)

\* A note is as it was or newer; what it loses is lost knowingly.
Grown(srv, srv2, lost, lost2) ==
    /\ lost \subseteq lost2
    /\ \A n \in Notes :
        /\ srv2[n] = srv[n] \/ srv[n].version < srv2[n].version
        /\ srv[n].text \subseteq srv2[n].text \union lost2

LEMMA CopyKept ==
    ASSUME NEW srv \in [Notes -> Envelope], NEW srv2 \in [Notes -> Envelope],
           NEW lost, NEW lost2, Grown(srv, srv2, lost, lost2),
           NEW e \in Envelope, Copy(e, srv, lost)
    PROVE  Copy(e, srv2, lost2)
<1>1. /\ e.key \in Notes /\ e.version \in Nat
      /\ srv[e.key].version \in Nat /\ srv2[e.key].version \in Nat
  BY DEF Envelope
<1> QED BY <1>1 DEF Copy, Grown

LEMMA FlightKept ==
    ASSUME NEW srv \in [Notes -> Envelope], NEW srv2 \in [Notes -> Envelope],
           NEW lost, NEW lost2, Grown(srv, srv2, lost, lost2),
           NEW f \in Flights, FlightFine(f, srv, lost)
    PROVE  FlightFine(f, srv2, lost2)
<1>1. /\ f.target \in Notes /\ f.version \in Nat
      /\ srv[f.target].version \in Nat /\ srv2[f.target].version \in Nat
  BY DEF Envelope, Flights
<1>2. /\ f.version <= srv2[f.target].version
      /\ f.version = srv2[f.target].version => f.base.text = srv2[f.target].text
      /\ f.base.text \subseteq f.html \union lost2
  BY <1>1 DEF FlightFine, Grown
<1>3. ASSUME NEW a \in f.answer
      PROVE  Copy(a.item, srv2, lost2)
  <2>1. f.answer \in Maybe(Answers)
    BY DEF Flights
  <2>2. a \in Answers
    BY <2>1, MaybeFact
  <2>3. a.item \in Envelope
    BY <2>2 DEF Answers
  <2> QED BY <2>3, CopyKept DEF FlightFine
<1> QED BY <1>2, <1>3 DEF FlightFine

\* A pane that is left alone while others write.
LEMMA FineKept ==
    ASSUME NEW srv \in [Notes -> Envelope], NEW srv2 \in [Notes -> Envelope],
           NEW lost, NEW lost2, Grown(srv, srv2, lost, lost2),
           NEW x, NEW open, Fine(x, open, srv, lost)
    PROVE  Fine(x, open, srv2, lost2)
<1>1. \A f \in x.flight : f \in Flights
  <2>1. x.flight \in Maybe(Flights)
    BY DEF Fine, PaneType
  <2> QED BY <2>1, MaybeFact
<1>2. \A f \in x.flight : FlightFine(f, srv2, lost2)
  BY <1>1, FlightKept DEF Fine
<1>3. Shows(x, open, lost2)
  BY DEF Fine, Shows, Grown
<1> QED BY <1>2, <1>3 DEF Fine

LEMMA CopiesKept ==
    ASSUME NEW srv \in [Notes -> Envelope], NEW srv2 \in [Notes -> Envelope],
           NEW lost, NEW lost2, Grown(srv, srv2, lost, lost2),
           NEW s \in [Notes -> Envelope], Copies(s, srv, lost)
    PROVE  Copies(s, srv2, lost2)
BY CopyKept DEF Copies

LEMMA ReadKept ==
    ASSUME NEW srv \in [Notes -> Envelope], NEW srv2 \in [Notes -> Envelope],
           NEW lost, NEW lost2, Grown(srv, srv2, lost, lost2),
           NEW r \in ReadTypes, ReadFine(r, srv, lost)
    PROVE  ReadFine(r, srv2, lost2)
<1>1. CASE r.kind = "list"
  <2>1. \A s \in r.answer : s \in [Notes -> Envelope]
    BY <1>1 DEF ReadTypes
  <2> QED BY <1>1, <2>1, CopiesKept DEF ReadFine
<1>2. CASE r.kind = "item"
  <2>1. r.answer \in Maybe(Envelope)
    BY <1>2 DEF ReadTypes
  <2>2. \A e \in r.answer : e \in Envelope
    BY <2>1, MaybeFact
  <2> QED BY <1>2, <2>2, CopyKept DEF ReadFine
<1> QED BY <1>1, <1>2 DEF ReadTypes, ReadFine

-----------------------------------------------------------------------------
(* What the operations do to one pane. *)

\* x has mark k for note n: in a draft on the screen, waiting to be sent, or
\* that could not be sent, or on its way.
Keeps(x, k, n) ==
    /\ x.item = n
    /\ \/ /\ k \in UNION x.pending
          /\ x.mounted \/ x.waiting \/ x.state \in {"failed", "conflict"}
       \/ \E f \in x.flight : f.target = n /\ k \in f.html

\* y is pane x later on: what x kept y keeps, or it is one of those marks.
Gives(x, y, marks) ==
    /\ y.item = x.item
    /\ \A k : Keeps(x, k, x.item) => Keeps(y, k, x.item) \/ k \in marks

\* The draft of a pane, its save, and what is open are one, if they are.
LEMMA PendingFact ==
    ASSUME NEW x \in PaneType, NEW d \in x.pending
    PROVE  x.pending = {d} /\ The(x.pending) = d /\ d \in SUBSET Marks
<1>1. x.pending \in Maybe(SUBSET Marks)
  BY DEF PaneType
<1>2. x.pending = {d} /\ d \in SUBSET Marks
  BY <1>1, MaybeFact
<1>3. The({d}) = d
  BY TheFact
<1> QED BY <1>2, <1>3

LEMMA FlightFact ==
    ASSUME NEW x \in PaneType, NEW f \in x.flight
    PROVE  x.flight = {f} /\ f \in Flights
<1>1. x.flight \in Maybe(Flights)
  BY DEF PaneType
<1> QED BY <1>1, MaybeFact

LEMMA OpenFact ==
    ASSUME NEW open \in Maybe(Envelope), NEW e \in open
    PROVE  /\ open = {e} /\ The(open) = e /\ {c.key : c \in open} = {e.key}
           /\ e \in Envelope /\ e.key \in Notes /\ e.version \in Nat /\ e.text \in SUBSET Marks
<1>1. open = {e} /\ e \in Envelope
  BY MaybeFact
<1>2. e.key \in Notes /\ e.version \in Nat /\ e.text \in SUBSET Marks
  BY <1>1 DEF Envelope
<1>3. The(open) = e
  BY <1>1, TheFact
<1>4. {c.key : c \in open} = {e.key}
  BY <1>1
<1> QED BY <1>1, <1>2, <1>3, <1>4

\* The pane that was sent with nothing open, and with something.
LEMMA SendNothing ==
    ASSUME NEW x \in PaneType, NEW d \in x.pending
    PROVE  /\ Send(x, {}) \in PaneType
           /\ Send(x, {}).item = x.item /\ Send(x, {}).mounted = x.mounted
           /\ Send(x, {}).theirs = x.theirs /\ Send(x, {}).pending = {}
           /\ Send(x, {}).state = "saved" /\ Send(x, {}).flight = x.flight
<1>1. The(x.pending) = d /\ d \in SUBSET Marks /\ {} \in Maybe(SUBSET Marks)
  BY PendingFact DEF Maybe
<1>2. Send(x, {}) = [x EXCEPT !.pending = {}, !.timer = FALSE, !.waiting = FALSE,
                              !.state = "saved", !.written = d]
  BY <1>1 DEF Send, PaneType
<1> QED BY <1>1, <1>2 DEF PaneType, States

\* The save of draft d, over what is open.
Sending(d, e) ==
    [html |-> d, target |-> e.key, base |-> e, version |-> e.version,
     stage |-> "patch", answer |-> {}]

LEMMA SendingType ==
    ASSUME NEW d \in SUBSET Marks, NEW e \in Envelope
    PROVE  {Sending(d, e)} \in Maybe(Flights)
<1>1. {} \in Maybe(Answers)
  BY DEF Maybe
<1>2. e.key \in Notes /\ e.version \in Nat
  BY DEF Envelope
<1>3. Sending(d, e) \in Flights
  BY <1>1, <1>2 DEF Flights, Sending
<1> QED BY <1>3 DEF Maybe

LEMMA SendOpen ==
    ASSUME NEW x \in PaneType, NEW d \in x.pending,
           NEW open \in Maybe(Envelope), NEW e \in open
    PROVE  /\ Send(x, open) \in PaneType
           /\ Send(x, open).item = x.item /\ Send(x, open).mounted = x.mounted
           /\ Send(x, open).editor = x.editor /\ Send(x, open).theirs = x.theirs
           /\ Send(x, open).pending = {} /\ Send(x, open).state = "saving"
           /\ Send(x, open).flight = {Sending(d, e)}
<1>1. The(x.pending) = d /\ d \in SUBSET Marks /\ {} \in Maybe(SUBSET Marks)
  BY PendingFact DEF Maybe
<1>2. The(open) = e /\ open # {} /\ e \in Envelope
  BY OpenFact
<1>3. Send(x, open) = [x EXCEPT !.pending = {}, !.timer = FALSE, !.waiting = FALSE,
                                !.state = "saving", !.flight = {Sending(d, e)}]
  BY <1>1, <1>2 DEF Send, Sending, PaneType
<1>4. {Sending(d, e)} \in Maybe(Flights)
  BY <1>1, <1>2, SendingType
<1> QED BY <1>1, <1>3, <1>4 DEF PaneType, States

\* A draft that is sent is based on what it was written over, and goes to its
\* note unless it strays.
LEMMA SendFine ==
    ASSUME NEW srv, NEW lost,
           NEW x \in PaneType, NEW d \in x.pending, x.flight = {}, x.theirs = {},
           NEW open \in Maybe(Envelope),
           \A e \in open : Copy(e, srv, lost) /\ e.text \subseteq d \union lost,
           x.mounted => x.editor = d /\ \E e \in open : e.key = x.item,
           ~x.mounted => {e.key : e \in open} = {x.item} \/ d \subseteq lost
    PROVE  /\ Fine(Send(x, open), open, srv, lost)
           /\ \A k \in d : Keeps(Send(x, open), k, x.item) \/ k \in lost
<1> DEFINE y == Send(x, open)
<1>1. CASE open = {}
  <2>1. /\ y \in PaneType /\ y.item = x.item /\ y.mounted = x.mounted /\ y.theirs = {}
        /\ y.pending = {} /\ y.flight = {} /\ y.state = "saved"
    BY <1>1, SendNothing
  <2>2. ~x.mounted /\ d \subseteq lost
    BY <1>1
  <2> HIDE DEF y
  <2>3. PaneFine(y)
    BY <2>1, <2>2 DEF PaneFine
  <2>4. Shows(y, open, lost)
    BY <2>1, <2>2 DEF Shows
  <2>5. Fine(y, open, srv, lost)
    BY <2>1, <2>3, <2>4 DEF Fine
  <2> QED BY <2>2, <2>5 DEF y
<1>2. ASSUME NEW e \in open
      PROVE  /\ Fine(y, open, srv, lost)
             /\ \A k \in d : Keeps(y, k, x.item) \/ k \in lost
  <2> DEFINE f == Sending(d, e)
  <2>1. /\ y \in PaneType /\ y.item = x.item /\ y.mounted = x.mounted /\ y.theirs = {}
        /\ y.editor = x.editor /\ y.pending = {} /\ y.flight = {f} /\ y.state = "saving"
    BY <1>2, SendOpen
  <2>2. /\ f.html = d /\ f.target = e.key /\ f.base = e /\ f.version = e.version
        /\ f.answer = {}
    BY DEF Sending
  <2> HIDE DEF y, f
  <2>3. /\ open = {e} /\ e \in Envelope /\ {c.key : c \in open} = {e.key}
        /\ Copy(e, srv, lost) /\ e.text \subseteq d \union lost
    BY <1>2, OpenFact
  <2>4. y.mounted => y.editor = d /\ e.key = y.item
    BY <2>1, <2>3
  <2>5. FlightFine(f, srv, lost)
    BY <2>2, <2>3 DEF FlightFine, Copy
  <2>6. PaneFine(y)
    BY <2>1, <2>2, <2>4 DEF PaneFine
  <2>7. Shows(y, open, lost)
    BY <2>1, <2>3, <2>4 DEF Shows
  <2>8. ASSUME NEW k \in d
        PROVE  Keeps(y, k, x.item) \/ k \in lost
    <3>1. CASE e.key = x.item
      BY <2>1, <2>2, <3>1 DEF Keeps
    <3>2. CASE e.key # x.item
      BY <2>1, <2>3, <2>4, <3>2
    <3> QED BY <3>1, <3>2
  <2> QED BY <2>1, <2>5, <2>6, <2>7, <2>8 DEF Fine
<1> QED BY <1>1, <1>2

\* Mark k is in the draft of x, or on its way to the note of x.
Holds(x, k) ==
    k \in UNION x.pending \/ \E f \in x.flight : f.target = x.item /\ k \in f.html

\* The timer and who waits say nothing of the text.
Quiet(x, timer, waiting) == [x EXCEPT !.timer = timer, !.waiting = waiting]

LEMMA QuietFields ==
    ASSUME NEW x \in PaneType, NEW timer \in BOOLEAN, NEW waiting \in BOOLEAN
    PROVE  /\ Quiet(x, timer, waiting) \in PaneType
           /\ Quiet(x, timer, waiting).item = x.item
           /\ Quiet(x, timer, waiting).mounted = x.mounted
           /\ Quiet(x, timer, waiting).editor = x.editor
           /\ Quiet(x, timer, waiting).pending = x.pending
           /\ Quiet(x, timer, waiting).written = x.written
           /\ Quiet(x, timer, waiting).flight = x.flight
           /\ Quiet(x, timer, waiting).state = x.state
           /\ Quiet(x, timer, waiting).theirs = x.theirs
           /\ Quiet(x, timer, waiting).waiting = waiting
BY DEF PaneType, Quiet

LEMMA QuietFine ==
    ASSUME NEW srv, NEW lost, NEW x, NEW open, Fine(x, open, srv, lost),
           NEW timer \in BOOLEAN, NEW waiting \in BOOLEAN
    PROVE  Fine(Quiet(x, timer, waiting), open, srv, lost)
<1> DEFINE y == Quiet(x, timer, waiting)
<1>1. /\ y \in PaneType /\ y.item = x.item /\ y.mounted = x.mounted /\ y.editor = x.editor
      /\ y.pending = x.pending /\ y.written = x.written /\ y.flight = x.flight
      /\ y.state = x.state /\ y.theirs = x.theirs
  BY QuietFields DEF Fine
<1> HIDE DEF y
<1>2. PaneFine(y)
  BY <1>1 DEF Fine, PaneFine
<1>3. Shows(y, open, lost)
  BY <1>1 DEF Fine, Shows
<1>4. Fine(y, open, srv, lost)
  BY <1>1, <1>2, <1>3 DEF Fine
<1> QED BY <1>4 DEF y

\* A pane that flushes: the draft goes out now, or waits for the save under
\* way, or for the reader to decide.
LEMMA FlushFine ==
    ASSUME NEW srv, NEW lost, NEW x, NEW open \in Maybe(Envelope), Fine(x, open, srv, lost),
           \A e \in open : Copy(e, srv, lost),
           \/ x.mounted
           \/ \A d \in x.pending : x.flight = {} /\ x.state # "conflict" =>
                /\ \A e \in open : e.text \subseteq d \union lost
                /\ {e.key : e \in open} = {x.item} \/ d \subseteq lost
    PROVE  /\ Fine(Flush(x, open), open, srv, lost)
           /\ Flush(x, open).item = x.item /\ Flush(x, open).mounted = x.mounted
           /\ \A k : Holds(x, k) => Keeps(Flush(x, open), k, x.item) \/ k \in lost
<1> DEFINE y == Flush(x, open)
<1>1. x \in PaneType /\ PaneFine(x) /\ Shows(x, open, lost)
  BY DEF Fine
<1>2. CASE x.flight # {}
  <2>1. y = Quiet(x, FALSE, TRUE)
    BY <1>1, <1>2 DEF Flush, Quiet
  <2>2. /\ Fine(y, open, srv, lost)
        /\ y.item = x.item /\ y.mounted = x.mounted /\ y.pending = x.pending
        /\ y.flight = x.flight /\ y.waiting = TRUE
    <3>1. Fine(Quiet(x, FALSE, TRUE), open, srv, lost)
      BY QuietFine
    <3>2. /\ Quiet(x, FALSE, TRUE).item = x.item
          /\ Quiet(x, FALSE, TRUE).mounted = x.mounted
          /\ Quiet(x, FALSE, TRUE).pending = x.pending
          /\ Quiet(x, FALSE, TRUE).flight = x.flight
          /\ Quiet(x, FALSE, TRUE).waiting = TRUE
      BY <1>1, QuietFields
    <3> QED BY <2>1, <3>1, <3>2
  <2> HIDE DEF y
  <2>3. \A k : Holds(x, k) => Keeps(y, k, x.item)
    BY <2>2 DEF Holds, Keeps
  <2> QED BY <2>2, <2>3 DEF y
<1>3. CASE x.flight = {} /\ (x.pending = {} \/ x.state = "conflict")
  <2>1. y = Quiet(x, FALSE, x.waiting)
    BY <1>1, <1>3 DEF Flush, Quiet, PaneType
  <2>2. x.waiting \in BOOLEAN
    BY <1>1 DEF PaneType
  <2>3. /\ Fine(y, open, srv, lost)
        /\ y.item = x.item /\ y.mounted = x.mounted /\ y.pending = x.pending
        /\ y.flight = x.flight /\ y.state = x.state
    <3>1. Fine(Quiet(x, FALSE, x.waiting), open, srv, lost)
      BY <2>2, QuietFine
    <3>2. /\ Quiet(x, FALSE, x.waiting).item = x.item
          /\ Quiet(x, FALSE, x.waiting).mounted = x.mounted
          /\ Quiet(x, FALSE, x.waiting).pending = x.pending
          /\ Quiet(x, FALSE, x.waiting).flight = x.flight
          /\ Quiet(x, FALSE, x.waiting).state = x.state
      BY <1>1, <2>2, QuietFields
    <3> QED BY <2>1, <3>1, <3>2
  <2> HIDE DEF y
  <2>4. \A k : Holds(x, k) => Keeps(y, k, x.item)
    BY <1>3, <2>3 DEF Holds, Keeps
  <2> QED BY <2>3, <2>4 DEF y
<1>4. CASE x.flight = {} /\ x.pending # {} /\ x.state # "conflict"
  <2>1. PICK d \in x.pending : TRUE
    BY <1>4
  <2>2. x.pending = {d} /\ x.theirs = {}
    BY <1>1, <1>4, <2>1, PendingFact DEF PaneFine
  <2>3. y = Send(x, open)
    BY <1>4 DEF Flush
  <2>4. x.mounted => /\ x.editor = d /\ \E e \in open : e.key = x.item
                     /\ \A e \in open : e.text \subseteq d \union lost
    BY <1>1, <2>2 DEF PaneFine, Shows
  <2>5. /\ \A e \in open : Copy(e, srv, lost) /\ e.text \subseteq d \union lost
        /\ ~x.mounted => {e.key : e \in open} = {x.item} \/ d \subseteq lost
    BY <1>4, <2>4
  <2>6. /\ Fine(Send(x, open), open, srv, lost)
        /\ \A k \in d : Keeps(Send(x, open), k, x.item) \/ k \in lost
    BY <1>1, <1>4, <2>2, <2>4, <2>5, SendFine
  <2>7. Send(x, open).item = x.item /\ Send(x, open).mounted = x.mounted
    <3>1. CASE open = {}
      BY <1>1, <2>1, <3>1, SendNothing
    <3>2. ASSUME NEW e \in open
          PROVE  Send(x, open).item = x.item /\ Send(x, open).mounted = x.mounted
      BY <1>1, <2>1, <3>2, SendOpen
    <3> QED BY <3>1, <3>2
  <2>8. \A k : Holds(x, k) => k \in d
    BY <1>4, <2>2 DEF Holds
  <2> QED BY <2>3, <2>6, <2>7, <2>8
<1> QED BY <1>2, <1>3, <1>4

LEMMA UnmountedFields ==
    ASSUME NEW x \in PaneType
    PROVE  /\ Unmounted(x) \in PaneType
           /\ Unmounted(x).item = x.item /\ ~Unmounted(x).mounted
           /\ Unmounted(x).pending = x.pending /\ Unmounted(x).flight = x.flight
           /\ Unmounted(x).state = x.state /\ Unmounted(x).theirs = {}
BY DEF PaneType, Unmounted

\* A pane that is left saves over what is open by then, and what that strays
\* is lost.
LEMMA LeaveFine ==
    ASSUME NEW srv, NEW lost, NEW x, NEW open, Fine(x, open, srv, lost),
           NEW next \in Maybe(Envelope), \A e \in next : Copy(e, srv, lost),
           Stray(x, Flush(Unmounted(x), next), next) \subseteq lost
    PROVE  /\ Fine(Flush(Unmounted(x), next), next, srv, lost)
           /\ Flush(Unmounted(x), next).item = x.item
           /\ ~Flush(Unmounted(x), next).mounted
           /\ \A k : Holds(x, k) =>
                Keeps(Flush(Unmounted(x), next), k, x.item) \/ k \in lost
<1> DEFINE u == Unmounted(x)
           left == Flush(u, next)
<1>1. x \in PaneType /\ PaneFine(x) /\ \A f \in x.flight : FlightFine(f, srv, lost)
  BY DEF Fine
<1>2. /\ u \in PaneType /\ u.item = x.item /\ ~u.mounted
      /\ u.pending = x.pending /\ u.flight = x.flight /\ u.state = x.state /\ u.theirs = {}
  BY <1>1, UnmountedFields
<1> HIDE DEF u
<1>3. Fine(u, next, srv, lost)
  <2>1. PaneFine(u)
    BY <1>1, <1>2 DEF PaneFine
  <2>2. Shows(u, next, lost)
    BY <1>2 DEF Shows
  <2> QED BY <1>1, <1>2, <2>1, <2>2 DEF Fine
<1>4. ASSUME NEW d \in u.pending, u.flight = {}, u.state # "conflict"
      PROVE  /\ \A e \in next : e.text \subseteq d \union lost
             /\ {e.key : e \in next} = {u.item} \/ d \subseteq lost
  <2>1. left = Send(u, next)
    BY <1>4 DEF Flush
  <2>2. left.pending = {} /\ ~left.mounted
    <3>1. CASE next = {}
      BY <1>2, <1>4, <2>1, <3>1, SendNothing
    <3>2. ASSUME NEW e \in next
          PROVE  left.pending = {} /\ ~left.mounted
      BY <1>2, <1>4, <2>1, <3>2, SendOpen
    <3> QED BY <3>1, <3>2
  <2>3. The(x.pending) = d /\ x.pending # {}
    BY <1>1, <1>2, <1>4, PendingFact
  <2> HIDE DEF left
  <2>4. Stray(x, left, next) =
          (IF {c.key : c \in next} = {x.item} THEN {} ELSE d)
            \union UNION {c.text \ d : c \in next}
    BY <2>2, <2>3 DEF Stray
  <2>5. Stray(x, left, next) \subseteq lost
    BY DEF left, u
  <2> QED BY <1>2, <2>4, <2>5
<1>5. /\ Fine(left, next, srv, lost)
      /\ left.item = u.item /\ left.mounted = u.mounted
      /\ \A k : Holds(u, k) => Keeps(left, k, u.item) \/ k \in lost
  BY <1>3, <1>4, FlushFine
<1>6. \A k : Holds(x, k) => Holds(u, k)
  BY <1>2 DEF Holds
<1> QED BY <1>2, <1>5, <1>6 DEF u

\* Trying again, as far as the flush.
Retried(x) == [x EXCEPT !.state = IF x.state = "failed" THEN "idle" ELSE x.state]

LEMMA RetriedFine ==
    ASSUME NEW srv, NEW lost, NEW x, NEW open, Fine(x, open, srv, lost), x.mounted
    PROVE  /\ Fine(Retried(x), open, srv, lost)
           /\ Retried(x).item = x.item /\ Retried(x).mounted
           /\ \A k : Holds(x, k) => Holds(Retried(x), k)
<1> DEFINE y == Retried(x)
<1>1. /\ y \in PaneType /\ y.item = x.item /\ y.mounted = x.mounted /\ y.editor = x.editor
      /\ y.pending = x.pending /\ y.written = x.written /\ y.flight = x.flight
      /\ y.state = (IF x.state = "failed" THEN "idle" ELSE x.state) /\ y.theirs = x.theirs
  BY DEF Fine, PaneType, Retried, States
<1> HIDE DEF y
<1>2. PaneFine(y)
  BY <1>1 DEF Fine, PaneFine
<1>3. Shows(y, open, lost)
  BY <1>1 DEF Fine, Shows
<1>4. Fine(y, open, srv, lost)
  BY <1>1, <1>2, <1>3 DEF Fine
<1>5. \A k : Holds(x, k) => Holds(y, k)
  BY <1>1 DEF Holds
<1> QED BY <1>1, <1>4, <1>5 DEF y

\* The pane with the draft one mark longer.
Extended(x, m) ==
    [x EXCEPT !.editor = x.editor \union {m}, !.pending = {x.editor \union {m}}, !.timer = TRUE,
              !.state = IF x.state = "saved" THEN "idle" ELSE x.state]

LEMMA ExtendedFine ==
    ASSUME NEW srv, NEW lost, NEW x, NEW open, Fine(x, open, srv, lost), x.mounted,
           NEW m \in Marks
    PROVE  /\ Fine(Extended(x, m), open, srv, lost)
           /\ Extended(x, m).mounted
           /\ Gives(x, Extended(x, m), {}) /\ Keeps(Extended(x, m), m, x.item)
<1> DEFINE text == x.editor \union {m}
           y == Extended(x, m)
<1>1. x \in PaneType /\ x.editor \in SUBSET Marks
  BY DEF Fine, PaneType
<1>2. {text} \in Maybe(SUBSET Marks)
  BY <1>1 DEF Maybe
<1>3. /\ y \in PaneType /\ y.item = x.item /\ y.mounted /\ y.editor = text
      /\ y.pending = {text} /\ y.flight = x.flight /\ y.theirs = x.theirs
      /\ y.state = (IF x.state = "saved" THEN "idle" ELSE x.state)
  BY <1>1, <1>2 DEF Extended, PaneType, States
<1> HIDE DEF y
<1>4. /\ \A d \in x.pending : d = x.editor
      /\ \A f \in x.flight : f.target = x.item /\ f.html \subseteq x.editor
  <2>1. \A d \in x.pending : d = x.editor
    BY DEF Fine, PaneFine
  <2>2. \A f \in x.flight : f.target = x.item /\ (x.pending = {} => x.editor = f.html)
    BY DEF Fine, PaneFine
  <2>3. \A d \in x.pending : \A f \in x.flight : f.html \subseteq d
    BY DEF Fine, PaneFine
  <2> QED BY <2>1, <2>2, <2>3
<1>5. PaneFine(y)
  BY <1>3, <1>4 DEF Fine, PaneFine
<1>6. Shows(y, open, lost)
  BY <1>3 DEF Fine, Shows
<1>7. Fine(y, open, srv, lost)
  BY <1>3, <1>5, <1>6 DEF Fine
<1>8. Gives(x, y, {}) /\ Keeps(y, m, x.item)
  BY <1>3, <1>4 DEF Gives, Keeps
<1> QED BY <1>3, <1>7, <1>8 DEF y

\* The pane whose conflict was decided for the draft, as far as the flush.
Mine(x) == [x EXCEPT !.state = "idle", !.theirs = {}]

LEMMA MineFine ==
    ASSUME NEW srv, NEW lost, NEW x, NEW open, Fine(x, open, srv, lost),
           x.mounted, x.state = "conflict", x.theirs \ The(x.pending) \subseteq lost
    PROVE  /\ Fine(Mine(x), open, srv, lost)
           /\ Mine(x).item = x.item /\ Mine(x).mounted
           /\ \A k : Holds(x, k) => Holds(Mine(x), k)
<1> DEFINE y == Mine(x)
<1>1. /\ x \in PaneType /\ y \in PaneType /\ y.item = x.item /\ y.mounted = x.mounted
      /\ y.editor = x.editor /\ y.pending = x.pending /\ y.written = x.written
      /\ y.flight = x.flight /\ y.state = "idle" /\ y.theirs = {}
  BY DEF Fine, PaneType, Mine, States
<1> HIDE DEF y
<1>2. x.flight = {} /\ \E d \in x.pending : x.editor = d
  BY DEF Fine, PaneFine
<1>3. PICK d \in x.pending : x.editor = d
  BY <1>2
<1>4. The(x.pending) = x.editor
  BY <1>1, <1>3, PendingFact
<1>5. PaneFine(y)
  BY <1>1, <1>2 DEF Fine, PaneFine
<1>6. Shows(y, open, lost)
  BY <1>1, <1>2, <1>4 DEF Fine, Shows
<1>7. Fine(y, open, srv, lost)
  BY <1>1, <1>2, <1>5, <1>6 DEF Fine
<1>8. \A k : Holds(x, k) => Holds(y, k)
  BY <1>1 DEF Holds
<1> QED BY <1>1, <1>7, <1>8 DEF y

\* The pane whose conflict was decided for the note as it is.
Theirs(x, text) ==
    [x EXCEPT !.state = "idle", !.theirs = {}, !.pending = {}, !.written = text, !.editor = text]

LEMMA TheirsFine ==
    ASSUME NEW srv, NEW lost, NEW x, NEW open \in Maybe(Envelope), Fine(x, open, srv, lost),
           x.mounted, x.state = "conflict", NEW e \in open, Copy(e, srv, lost),
           x.editor \ e.text \subseteq lost
    PROVE  /\ Fine(Theirs(x, e.text), open, srv, lost)
           /\ Theirs(x, e.text).mounted
           /\ Gives(x, Theirs(x, e.text), srv[x.item].text \union lost)
<1> DEFINE y == Theirs(x, e.text)
<1>1. open = {e} /\ e \in Envelope /\ e.text \in SUBSET Marks /\ e.key = x.item
  BY OpenFact DEF Fine, Shows
<1>2. {} \in Maybe(SUBSET Marks)
  BY DEF Maybe
<1>3. /\ y \in PaneType /\ y.item = x.item /\ y.mounted = x.mounted
      /\ y.editor = e.text /\ y.pending = {} /\ y.written = e.text
      /\ y.flight = x.flight /\ y.state = "idle" /\ y.theirs = {}
  BY <1>1, <1>2 DEF Fine, PaneType, Theirs, States
<1> HIDE DEF y
<1>4. x.flight = {} /\ \A d \in x.pending : x.editor = d
  BY DEF Fine, PaneFine
<1>5. PaneFine(y)
  BY <1>3, <1>4 DEF PaneFine
<1>6. Shows(y, open, lost)
  BY <1>1, <1>3 DEF Shows
<1>7. Fine(y, open, srv, lost)
  BY <1>3, <1>4, <1>5, <1>6 DEF Fine
<1>8. ASSUME NEW k, Keeps(x, k, x.item)
      PROVE  k \in srv[x.item].text \union lost
  <2>1. k \in x.editor
    BY <1>4, <1>8 DEF Keeps
  <2> QED BY <1>1, <2>1 DEF Copy
<1> QED BY <1>3, <1>7, <1>8 DEF y, Gives

LEMMA NewPaneFine ==
    ASSUME NEW srv, NEW lost, NEW e \in Envelope
    PROVE  Fine(NewPane(e), {e}, srv, lost) /\ NewPane(e).mounted
<1> DEFINE y == NewPane(e)
<1>1. e.key \in Notes /\ e.text \in SUBSET Marks
  BY DEF Envelope
<1>2. {} \in Maybe(SUBSET Marks) /\ {} \in Maybe(Flights)
  BY DEF Maybe
<1>3. /\ y \in PaneType /\ y.item = e.key /\ y.mounted
      /\ y.editor = e.text /\ y.pending = {} /\ y.written = e.text
      /\ y.flight = {} /\ y.state = "idle" /\ y.theirs = {}
  BY <1>1, <1>2 DEF NewPane, PaneType, States
<1> HIDE DEF y
<1>4. PaneFine(y) /\ Shows(y, {e}, lost)
  BY <1>3 DEF PaneFine, Shows
<1>5. Fine(y, {e}, srv, lost)
  BY <1>3, <1>4 DEF Fine
<1> QED BY <1>3, <1>5 DEF y
\* The watcher draws the note again, or leaves a pane that has text of its own
\* alone; what it then does not show is lost knowingly.
Redrawn(x, text) == [x EXCEPT !.written = text, !.editor = text]

LEMMA WatchFine ==
    ASSUME NEW srv, NEW lost, NEW x, NEW open \in Maybe(Envelope), Fine(x, open, srv, lost),
           x.mounted, NEW was \in open, NEW is \in Envelope, is.key = x.item,
           is.text \subseteq Watch(x, was, is).editor \union x.theirs \union lost
    PROVE  /\ Fine(Watch(x, was, is), {is}, srv, lost)
           /\ Watch(x, was, is).mounted /\ Watch(x, was, is).theirs = x.theirs
           /\ Gives(x, Watch(x, was, is), {})
<1>1. open = {was} /\ was.key = x.item /\ is.text \in SUBSET Marks
  BY OpenFact DEF Fine, Shows, Envelope
<1>2. CASE Watch(x, was, is) = x
  <2>1. x.pending = {} /\ x.flight = {} => x.editor = is.text
    <3>1. SUFFICES ASSUME x.pending = {}, x.flight = {}
                   PROVE  x.editor = is.text
      OBVIOUS
    <3>2. x.state # "conflict" /\ x.editor = x.written
      BY <3>1 DEF Fine, PaneFine
    <3>3. x.editor = was.text
      BY <1>1, <3>1 DEF Fine, Shows
    <3>4. CASE was.text = is.text \/ is.text = x.written
      BY <3>2, <3>3, <3>4
    <3>5. CASE ~(was.text = is.text \/ is.text = x.written)
      <4>1. x = Redrawn(x, is.text)
        BY <1>2, <3>1, <3>2, <3>5 DEF Watch, Redrawn
      <4>2. Redrawn(x, is.text).editor = is.text
        BY DEF Fine, PaneType, Redrawn
      <4> QED BY <4>1, <4>2
    <3> QED BY <3>4, <3>5
  <2>2. Shows(x, {is}, lost)
    BY <1>2, <2>1 DEF Shows
  <2> QED BY <1>2, <2>2 DEF Fine, Gives
<1>3. CASE Watch(x, was, is) # x
  <2> DEFINE y == Redrawn(x, is.text)
  <2>1. Watch(x, was, is) = y /\ x.pending = {} /\ x.flight = {} /\ x.state # "conflict"
    BY <1>3 DEF Watch, Redrawn
  <2>2. /\ y \in PaneType /\ y.item = x.item /\ y.mounted = x.mounted
        /\ y.editor = is.text /\ y.written = is.text /\ y.pending = x.pending
        /\ y.flight = x.flight /\ y.state = x.state /\ y.theirs = x.theirs
        /\ y.waiting = x.waiting
    BY <1>1 DEF Fine, PaneType, Redrawn
  <2> HIDE DEF y
  <2>3. PaneFine(y)
    BY <2>1, <2>2 DEF Fine, PaneFine
  <2>4. Shows(y, {is}, lost)
    BY <2>1, <2>2 DEF Shows
  <2>5. Fine(y, {is}, srv, lost)
    BY <2>1, <2>2, <2>3, <2>4 DEF Fine
  <2>6. Gives(x, y, {})
    BY <2>2 DEF Gives, Keeps
  <2> QED BY <2>1, <2>2, <2>5, <2>6
<1> QED BY <1>2, <1>3

\* A pane whose flight has ended sends what was typed meanwhile, or says that
\* the text was not taken.
LEMMA LandedFine ==
    ASSUME NEW srv, NEW lost, NEW x \in PaneType, NEW open \in Maybe(Envelope),
           \A e \in open : Copy(e, srv, lost),
           x.flight = {},
           x.state = "saved" => x.pending = {},
           x.state \in {"failed", "conflict", "saving"} => x.pending # {},
           x.state # "idle",
           x.theirs # {} => x.state = "conflict",
           x.mounted => /\ \A d \in x.pending : x.editor = d
                        /\ x.pending = {} => x.editor = x.written,
           Shows(x, open, lost),
           Stray(x, Landed(x, open), open) \subseteq lost
    PROVE  /\ Fine(Landed(x, open), open, srv, lost)
           /\ Landed(x, open).item = x.item /\ Landed(x, open).mounted = x.mounted
           /\ \A k \in UNION x.pending : Keeps(Landed(x, open), k, x.item) \/ k \in lost
<1> DEFINE y == Landed(x, open)
           sends == x.state = "saving" \/ (x.waiting /\ x.state # "conflict")
<1>1. ASSUME NEW d \in x.pending, sends
      PROVE  /\ Fine(y, open, srv, lost)
             /\ y.item = x.item /\ y.mounted = x.mounted
             /\ \A k \in UNION x.pending : Keeps(y, k, x.item) \/ k \in lost
  <2>1. y = Send(x, open)
    BY <1>1 DEF Landed
  <2>2. x.pending = {d} /\ The(x.pending) = d /\ x.theirs = {}
    BY <1>1, PendingFact
  <2>3. y.item = x.item /\ y.mounted = x.mounted /\ y.pending = {}
    <3>1. CASE open = {}
      BY <1>1, <2>1, <3>1, SendNothing
    <3>2. ASSUME NEW e \in open
          PROVE  y.item = x.item /\ y.mounted = x.mounted /\ y.pending = {}
      BY <1>1, <2>1, <3>2, SendOpen
    <3> QED BY <3>1, <3>2
  <2>4. /\ Stray(x, y, open) \subseteq lost
    OBVIOUS
  <2> HIDE DEF y
  <2>5. ~x.mounted => Stray(x, y, open) =
          (IF {c.key : c \in open} = {x.item} THEN {} ELSE d)
            \union UNION {c.text \ d : c \in open}
    BY <2>2, <2>3 DEF Stray
  <2>6. ~x.mounted => /\ \A e \in open : e.text \subseteq d \union lost
                      /\ {e.key : e \in open} = {x.item} \/ d \subseteq lost
    BY <2>4, <2>5
  <2>7. x.mounted => /\ x.editor = d /\ \E e \in open : e.key = x.item
                     /\ \A e \in open : e.text \subseteq d \union lost
    BY <2>2 DEF Shows
  <2>8. \A e \in open : Copy(e, srv, lost) /\ e.text \subseteq d \union lost
    BY <2>6, <2>7
  <2>9. /\ Fine(Send(x, open), open, srv, lost)
        /\ \A k \in d : Keeps(Send(x, open), k, x.item) \/ k \in lost
    BY <1>1, <2>2, <2>6, <2>7, <2>8, SendFine
  <2> QED BY <2>1, <2>2, <2>3, <2>9
<1>2. CASE x.pending = {} \/ ~sends
  <2>1. y = Quiet(x, x.timer, FALSE)
    BY <1>2 DEF Landed, Quiet, PaneType
  <2>2. x.timer \in BOOLEAN
    BY DEF PaneType
  <2>3. /\ y \in PaneType /\ y.item = x.item /\ y.mounted = x.mounted /\ y.editor = x.editor
        /\ y.pending = x.pending /\ y.written = x.written /\ y.flight = x.flight
        /\ y.state = x.state /\ y.theirs = x.theirs
    <3> DEFINE z == Quiet(x, x.timer, FALSE)
    <3>1. /\ z \in PaneType /\ z.item = x.item /\ z.mounted = x.mounted /\ z.editor = x.editor
          /\ z.pending = x.pending /\ z.written = x.written /\ z.flight = x.flight
          /\ z.state = x.state /\ z.theirs = x.theirs
      BY <2>2, QuietFields
    <3> QED BY <2>1, <3>1
  <2> HIDE DEF y
  <2>4. x.state # "saving" /\ (x.pending # {} => x.state \in {"failed", "conflict"})
    BY <1>2 DEF PaneType, States
  <2>5. PaneFine(y)
    BY <2>3, <2>4 DEF PaneFine
  <2>6. Shows(y, open, lost)
    BY <2>3 DEF Shows
  <2>7. Fine(y, open, srv, lost)
    BY <2>3, <2>5, <2>6 DEF Fine
  <2>8. \A k \in UNION x.pending : Keeps(y, k, x.item)
    BY <2>3, <2>4 DEF Keeps
  <2> QED BY <2>3, <2>7, <2>8 DEF y
<1> QED BY <1>1, <1>2
\* The flight of a pane goes another leg, with the same text for the same note.
Routed(x, g) == [x EXCEPT !.flight = {g}]

LEMMA RoutedFine ==
    ASSUME NEW srv, NEW lost, NEW x, NEW open, Fine(x, open, srv, lost),
           NEW next, Shows(x, next, lost),
           NEW f \in x.flight, NEW g \in Flights, FlightFine(g, srv, lost),
           g.html = f.html, g.target = f.target
    PROVE  /\ Fine(Routed(x, g), next, srv, lost)
           /\ Routed(x, g).mounted = x.mounted
           /\ Gives(x, Routed(x, g), {})
<1> DEFINE y == Routed(x, g)
<1>1. x \in PaneType /\ x.flight = {f}
  BY FlightFact DEF Fine
<1>2. {g} \in Maybe(Flights)
  BY DEF Maybe
<1>3. /\ y \in PaneType /\ y.item = x.item /\ y.mounted = x.mounted /\ y.editor = x.editor
      /\ y.pending = x.pending /\ y.written = x.written /\ y.flight = {g}
      /\ y.waiting = x.waiting /\ y.state = x.state /\ y.theirs = x.theirs
  BY <1>1, <1>2 DEF PaneType, Routed
<1> HIDE DEF y
<1>4. PaneFine(y)
  BY <1>1, <1>3 DEF Fine, PaneFine
<1>5. Shows(y, next, lost)
  BY <1>1, <1>3 DEF Shows
<1>6. Fine(y, next, srv, lost)
  BY <1>3, <1>4, <1>5 DEF Fine
<1>7. Gives(x, y, {})
  BY <1>1, <1>3 DEF Gives, Keeps
<1> QED BY <1>3, <1>6, <1>7 DEF y

\* The pane whose save was accepted, before what was typed meanwhile is sent.
Accepted(x, f) ==
    [x EXCEPT !.written = f.html, !.state = IF x.pending = {} THEN "saved" ELSE x.state,
              !.flight = {}]

LEMMA AcceptedFields ==
    ASSUME NEW x \in PaneType, NEW f \in x.flight
    PROVE  /\ Accepted(x, f) \in PaneType
           /\ Accepted(x, f).item = x.item /\ Accepted(x, f).mounted = x.mounted
           /\ Accepted(x, f).editor = x.editor /\ Accepted(x, f).pending = x.pending
           /\ Accepted(x, f).written = f.html /\ Accepted(x, f).flight = {}
           /\ Accepted(x, f).state = (IF x.pending = {} THEN "saved" ELSE x.state)
           /\ Accepted(x, f).theirs = x.theirs
<1>1. f \in Flights /\ {} \in Maybe(Flights)
  BY FlightFact DEF Maybe
<1>2. f.html \in SUBSET Marks
  BY <1>1 DEF Flights
<1> QED BY <1>1, <1>2 DEF Accepted, PaneType, States

LEMMA AcceptedFine ==
    ASSUME NEW srv, NEW lost, NEW x, NEW open, Fine(x, open, srv, lost),
           NEW f \in x.flight, NEW e \in Envelope, Copy(e, srv, lost),
           e.key = f.target, e.text = f.html,
           NEW next \in Maybe(Envelope), \A c \in next : Copy(c, srv, lost),
           x.mounted => e \in next,
           Stray(Accepted(x, f), Landed(Accepted(x, f), next), next) \subseteq lost
    PROVE  /\ Fine(Landed(Accepted(x, f), next), next, srv, lost)
           /\ Landed(Accepted(x, f), next).mounted = x.mounted
           /\ Gives(x, Landed(Accepted(x, f), next), srv[x.item].text \union lost)
<1> DEFINE z == Accepted(x, f)
           y == Landed(z, next)
<1>1. /\ x \in PaneType /\ x.flight = {f} /\ PaneFine(x)
      /\ x.state = "saving" /\ x.theirs = {}
  BY FlightFact DEF Fine, PaneFine
<1>2. /\ z \in PaneType /\ z.item = x.item /\ z.mounted = x.mounted /\ z.editor = x.editor
      /\ z.pending = x.pending /\ z.written = f.html /\ z.flight = {} /\ z.theirs = {}
      /\ z.state = (IF x.pending = {} THEN "saved" ELSE "saving")
  <2>1. x \in PaneType
    BY <1>1
  <2>2. /\ z \in PaneType /\ z.item = x.item /\ z.mounted = x.mounted /\ z.editor = x.editor
        /\ z.pending = x.pending /\ z.written = f.html /\ z.flight = {}
        /\ z.theirs = x.theirs
        /\ z.state = (IF x.pending = {} THEN "saved" ELSE x.state)
    BY <2>1, AcceptedFields
  <2> HIDE DEF z
  <2> QED BY <1>1, <2>2
<1>3. Stray(z, y, next) \subseteq lost
  OBVIOUS
<1> HIDE DEF z
<1>4. /\ \A d \in x.pending : f.html \subseteq d
      /\ x.mounted => /\ \A d \in x.pending : x.editor = d
                      /\ f.target = x.item /\ (x.pending = {} => x.editor = f.html)
  BY <1>1 DEF PaneFine
<1>5. Shows(z, next, lost)
  <2>1. x.mounted => f.html \subseteq x.editor
    BY <1>4
  <2>2. x.mounted => next = {e}
    BY OpenFact
  <2> QED BY <1>2, <1>4, <2>1, <2>2 DEF Shows
<1>6. /\ Fine(y, next, srv, lost) /\ y.item = z.item /\ y.mounted = z.mounted
      /\ \A k \in UNION z.pending : Keeps(y, k, z.item) \/ k \in lost
  <2>1. /\ z.state = "saved" => z.pending = {}
        /\ z.state \in {"failed", "conflict", "saving"} => z.pending # {}
        /\ z.state # "idle"
        /\ z.theirs # {} => z.state = "conflict"
        /\ z.mounted => /\ \A d \in z.pending : z.editor = d
                        /\ z.pending = {} => z.editor = z.written
    <3>1. CASE x.pending = {}
      BY <1>2, <1>4, <3>1
    <3>2. CASE x.pending # {}
      <4>1. z.state = "saving" /\ z.pending # {} /\ z.theirs = {}
        BY <1>2, <3>2
      <4>2. z.mounted => \A d \in z.pending : z.editor = d
        BY <1>2, <1>4
      <4> QED BY <4>1, <4>2
    <3> QED BY <3>1, <3>2
  <2>2. z \in PaneType /\ z.flight = {}
    BY <1>2
  <2> QED BY <1>3, <1>5, <2>1, <2>2, LandedFine
<1> HIDE DEF y
<1>7. ASSUME NEW k, Keeps(x, k, x.item)
      PROVE  Keeps(y, k, x.item) \/ k \in srv[x.item].text \union lost
  <2>1. CASE k \in UNION x.pending
    BY <1>2, <1>6, <2>1
  <2>2. CASE f.target = x.item /\ k \in f.html
    BY <2>2 DEF Copy
  <2> QED BY <1>1, <1>7, <2>1, <2>2 DEF Keeps
<1>8. Gives(x, y, srv[x.item].text \union lost)
  BY <1>2, <1>6, <1>7 DEF Gives
<1> QED BY <1>2, <1>6, <1>8 DEF y, z

\* The pane whose save came to nothing: the text is a draft again.
GaveUp(x, f, state, theirs) ==
    [x EXCEPT !.state = state, !.pending = IF x.pending = {} THEN {f.html} ELSE x.pending,
              !.theirs = theirs, !.flight = {}]

\* z is x after that.
IsGivenUp(z, x, f, state, theirs) ==
    /\ z \in PaneType
    /\ z.item = x.item /\ z.mounted = x.mounted /\ z.editor = x.editor
    /\ z.pending = (IF x.pending = {} THEN {f.html} ELSE x.pending)
    /\ z.flight = {} /\ z.state = state /\ z.theirs = theirs

LEMMA GaveUpFields ==
    ASSUME NEW x \in PaneType, NEW f \in x.flight,
           NEW state \in States, NEW theirs \in SUBSET Marks
    PROVE  IsGivenUp(GaveUp(x, f, state, theirs), x, f, state, theirs)
<1>1. f \in Flights /\ {} \in Maybe(Flights)
  BY FlightFact DEF Maybe
<1>2. {f.html} \in Maybe(SUBSET Marks)
  BY <1>1 DEF Flights, Maybe
<1> DEFINE z == GaveUp(x, f, state, theirs)
<1>3. /\ z \in PaneType
      /\ z.item = x.item /\ z.mounted = x.mounted /\ z.editor = x.editor
      /\ z.pending = (IF x.pending = {} THEN {f.html} ELSE x.pending)
      /\ z.flight = {} /\ z.state = state /\ z.theirs = theirs
  <2> DEFINE d == IF x.pending = {} THEN {f.html} ELSE x.pending
  <2>1. d \in Maybe(SUBSET Marks)
    BY <1>2 DEF PaneType
  <2>2. z = [x EXCEPT !.state = state, !.pending = d, !.theirs = theirs, !.flight = {}]
    BY DEF GaveUp
  <2> HIDE DEF d, z
  <2>3. /\ z \in PaneType
        /\ z.item = x.item /\ z.mounted = x.mounted /\ z.editor = x.editor
        /\ z.pending = d /\ z.flight = {} /\ z.state = state /\ z.theirs = theirs
    BY <1>1, <2>1, <2>2 DEF PaneType
  <2> QED BY <2>3 DEF d
<1> HIDE DEF z
<1>4. IsGivenUp(z, x, f, state, theirs)
  BY <1>3 DEF IsGivenUp
<1> QED BY <1>4 DEF z

LEMMA GaveUpFine ==
    ASSUME NEW srv, NEW lost, NEW x, NEW open, Fine(x, open, srv, lost),
           NEW f \in x.flight, NEW state \in {"failed", "conflict"},
           NEW theirs \in SUBSET Marks, theirs # {} => state = "conflict",
           NEW next \in Maybe(Envelope), \A c \in next : Copy(c, srv, lost),
           x.mounted => \E e \in Envelope : /\ next = {e} /\ e.key = x.item
                                            /\ e.text \subseteq x.editor \union theirs \union lost,
           Stray(GaveUp(x, f, state, theirs),
                 Landed(GaveUp(x, f, state, theirs), next), next) \subseteq lost
    PROVE  /\ Fine(Landed(GaveUp(x, f, state, theirs), next), next, srv, lost)
           /\ Landed(GaveUp(x, f, state, theirs), next).mounted = x.mounted
           /\ Gives(x, Landed(GaveUp(x, f, state, theirs), next), lost)
<1>1. x \in PaneType /\ x.flight = {f} /\ PaneFine(x) /\ state \in States
  BY FlightFact DEF Fine, States
<1> DEFINE z == GaveUp(x, f, state, theirs)
<1>2. /\ z \in PaneType /\ z.item = x.item /\ z.mounted = x.mounted /\ z.editor = x.editor
      /\ z.pending = (IF x.pending = {} THEN {f.html} ELSE x.pending)
      /\ z.flight = {} /\ z.state = state /\ z.theirs = theirs
  <2>1. IsGivenUp(z, x, f, state, theirs)
    BY <1>1, GaveUpFields
  <2> HIDE DEF z
  <2> QED BY <2>1 DEF IsGivenUp
<1> DEFINE y == Landed(z, next)
<1>3. Stray(z, y, next) \subseteq lost
  OBVIOUS
<1> HIDE DEF z
<1>4. /\ \A d \in x.pending : f.html \subseteq d
      /\ x.mounted => /\ \A d \in x.pending : x.editor = d
                      /\ f.target = x.item /\ (x.pending = {} => x.editor = f.html)
  BY <1>1 DEF PaneFine
<1>5. Shows(z, next, lost)
  BY <1>2 DEF Shows
<1>6. /\ Fine(y, next, srv, lost) /\ y.item = z.item /\ y.mounted = z.mounted
      /\ \A k \in UNION z.pending : Keeps(y, k, z.item) \/ k \in lost
  <2>1. /\ z.state = "saved" => z.pending = {}
        /\ z.state \in {"failed", "conflict", "saving"} => z.pending # {}
        /\ z.state # "idle"
        /\ z.theirs # {} => z.state = "conflict"
        /\ z.mounted => /\ \A d \in z.pending : z.editor = d
                        /\ z.pending = {} => z.editor = z.written
    BY <1>2, <1>4
  <2>2. z \in PaneType /\ z.flight = {}
    BY <1>2
  <2> QED BY <1>3, <1>5, <2>1, <2>2, LandedFine
<1> HIDE DEF y
<1>7. ASSUME NEW k, Keeps(x, k, x.item)
      PROVE  k \in UNION z.pending
  BY <1>1, <1>2, <1>4, <1>7 DEF Keeps
<1>8. Gives(x, y, lost)
  BY <1>2, <1>6, <1>7 DEF Gives
<1> QED BY <1>2, <1>6, <1>8 DEF y, z

-----------------------------------------------------------------------------
(* The steps, from what they do to each pane. *)

\* The version and the page's copies stay where they are.
LEMMA StoredNext ==
    ASSUME Stored,
           UNCHANGED <<server, version, known, events, reads, typedIn>>,
           foreign' \in Nat, failures' \in Nat,
           unseen' \subseteq Marks, chosen' \subseteq Marks, strayed' \subseteq Marks
    PROVE  Stored'
BY DEF Stored

LEMMA HeldNext ==
    ASSUME IInv, server' \in [Notes -> Envelope], Grown(server, server', Lost_, Lost_'),
           UNCHANGED <<rows, selected, reads>>
    PROVE  Held'
<1>1. server \in [Notes -> Envelope]
  BY DEF IInv, Stored
<1>2. rows' \in [Notes -> Envelope] /\ Copies(rows', server', Lost_')
  BY <1>1, CopiesKept DEF IInv, Held
<1>3. selected \in Maybe(Envelope) /\ \A e \in selected : e \in Envelope
  BY MaybeFact DEF IInv, Held
<1>4. \A e \in selected : Copy(e, server', Lost_')
  BY <1>1, <1>3, CopyKept DEF IInv, Held
<1>5. \A r \in reads : ReadFine(r, server', Lost_')
  BY <1>1, ReadKept DEF IInv, Held
<1> QED BY <1>2, <1>3, <1>4, <1>5 DEF IInv, Held

\* A mark is kept by the pane it was typed in, stored or lost knowingly; what
\* pane by pane is kept on stays kept.
LEMMA SomewhereNext ==
    ASSUME IInv, Grown(server, server', Lost_, Lost_'),
           DOMAIN panes \subseteq DOMAIN panes',
           \A q \in DOMAIN panes :
                Gives(panes[q], panes'[q], server'[panes[q].item].text \union Lost_')
    PROVE  \A k \in DOMAIN typedIn, n \in Notes :
                typedIn[k] = n => k \in Lost_' \/ Somewhere(k, n)'
<1> SUFFICES ASSUME NEW k \in DOMAIN typedIn, NEW n \in Notes, typedIn[k] = n, k \notin Lost_'
             PROVE  Somewhere(k, n)'
  OBVIOUS
<1>1. k \notin Lost_
  BY DEF Grown
<1>2. Somewhere(k, n)
  BY <1>1 DEF IInv, NoneVanishes, Lost_
<1>3. CASE k \in server[n].text
  BY <1>1, <1>3 DEF Grown, Somewhere
<1>4. ASSUME NEW q \in DOMAIN panes, Keeps(panes[q], k, n)
      PROVE  Somewhere(k, n)'
  <2>1. panes[q].item = n
    BY <1>4 DEF Keeps
  <2>2. Gives(panes[q], panes'[q], server'[n].text \union Lost_')
    BY <2>1
  <2>3. Keeps(panes'[q], k, n) \/ k \in server'[n].text
    BY <1>4, <2>1, <2>2 DEF Gives
  <2>4. ASSUME Keeps(panes'[q], k, n)
        PROVE  Somewhere(k, n)'
    BY <2>4 DEF Keeps, Somewhere
  <2> QED BY <2>3, <2>4 DEF Somewhere
<1> QED BY <1>2, <1>3, <1>4 DEF Somewhere, Keeps

LEMMA DrawnNext ==
    ASSUME IInv, server' \in [Notes -> Envelope], Grown(server, server', Lost_, Lost_'),
           panes' = [q \in DOMAIN panes |-> panes'[q]],
           \A q \in DOMAIN panes : Fine(panes[q], selected, server', Lost_') =>
                /\ Fine(panes'[q], selected', server', Lost_')
                /\ panes'[q].mounted => panes[q].mounted
                /\ Gives(panes[q], panes'[q], server'[panes[q].item].text \union Lost_')
    PROVE  /\ Drawn' /\ Len(panes') = Len(panes)
           /\ \A k \in DOMAIN typedIn, n \in Notes :
                typedIn[k] = n => k \in Lost_' \/ Somewhere(k, n)'
           /\ typedIn' = typedIn => NoneVanishes'
<1>1. server \in [Notes -> Envelope] /\ panes \in Seq(PaneType)
  BY DEF IInv, Stored, Drawn
<1>2. \A q \in DOMAIN panes : Fine(panes[q], selected, server', Lost_')
  BY <1>1, FineKept DEF IInv, Drawn
<1>3. \A q \in DOMAIN panes : Fine(panes'[q], selected', server', Lost_')
  BY <1>2
<1>4. panes' \in [DOMAIN panes -> PaneType]
  BY <1>3 DEF Fine
<1>5. panes' \in Seq(PaneType) /\ Len(panes') = Len(panes) /\ DOMAIN panes' = DOMAIN panes
  BY <1>1, <1>4, SequenceOver
<1>6. Drawn'
  <2>1. \A q \in DOMAIN panes : panes'[q].mounted => q = Len(panes')
    BY <1>2, <1>5 DEF IInv, Drawn
  <2> QED BY <1>3, <1>5, <2>1 DEF IInv, Drawn
<1>7. \A k \in DOMAIN typedIn, n \in Notes :
         typedIn[k] = n => k \in Lost_' \/ Somewhere(k, n)'
  BY <1>2, <1>5, SomewhereNext
<1>8. ASSUME typedIn' = typedIn
      PROVE  NoneVanishes'
  <2>1. \A k \in DOMAIN typedIn' : typedIn'[k] \in Notes
    BY <1>8 DEF IInv, Stored
  <2> QED BY <1>7, <1>8, <2>1 DEF NoneVanishes, Lost_
<1> QED BY <1>5, <1>6, <1>7, <1>8

LEMMA GivesSame ==
    ASSUME NEW x, NEW marks
    PROVE  Gives(x, x, marks)
BY DEF Gives

LEMMA StrayMarks ==
    ASSUME NEW x \in PaneType, NEW y, NEW open \in Maybe(Envelope)
    PROVE  Stray(x, y, open) \subseteq Marks
<1>1. \A d \in x.pending : The(x.pending) \in SUBSET Marks
  BY PendingFact
<1>2. \A e \in open : e.text \in SUBSET Marks
  BY OpenFact
<1>3. \A d : UNION {e.text \ d : e \in open} \subseteq Marks
  BY <1>2
<1> QED BY <1>1, <1>3 DEF Stray

\* What `put` makes of the open item, and of the panes.
LEMMA PutSelectedFact ==
    ASSUME selected \in Maybe(Envelope), NEW fresh \in Envelope
    PROVE  /\ PutSelected(fresh) \in Maybe(Envelope)
           /\ \A e \in PutSelected(fresh) : e = fresh \/ e \in selected
           /\ \A e \in selected : IF e.key = fresh.key THEN PutSelected(fresh) = {fresh}
                                  ELSE PutSelected(fresh) = selected
<1>1. PutSelected(fresh) \in {selected, {fresh}}
  BY DEF PutSelected
<1>2. {fresh} \in Maybe(Envelope)
  BY DEF Maybe
<1>3. ASSUME NEW e \in selected
      PROVE  IF e.key = fresh.key THEN PutSelected(fresh) = {fresh}
             ELSE PutSelected(fresh) = selected
  <2>1. {x.key : x \in selected} = {e.key}
    BY OpenFact
  <2> QED BY <2>1 DEF PutSelected
<1> QED BY <1>1, <1>2, <1>3

LEMMA WatchedFine ==
    ASSUME selected \in Maybe(Envelope), NEW lost, NEW fresh \in Envelope,
           NEW q \in DOMAIN panes, Fine(panes[q], selected, server, lost),
           panes[q].mounted => q = Len(panes),
           panes[q].mounted =>
                Undrawn(Watched(PutSelected(fresh))[q], fresh) \subseteq lost
    PROVE  /\ Fine(Watched(PutSelected(fresh))[q], PutSelected(fresh), server, lost)
           /\ Watched(PutSelected(fresh))[q].mounted = panes[q].mounted
           /\ Gives(panes[q], Watched(PutSelected(fresh))[q], {})
<1> DEFINE x == panes[q]
           open == PutSelected(fresh)
           y == Watched(open)[q]
<1>1. CASE ~x.mounted
  <2>1. y = x
    BY <1>1 DEF Watched, IsMounted
  <2>2. Shows(x, open, lost)
    BY <1>1 DEF Shows
  <2> HIDE DEF y
  <2>3. Fine(y, open, server, lost) /\ y.mounted = x.mounted /\ Gives(x, y, {})
    BY <2>1, <2>2, GivesSame DEF Fine
  <2> QED BY <2>3 DEF y
<1>2. CASE x.mounted
  <2>1. PICK was \in selected : was.key = x.item
    BY <1>2 DEF Fine, Shows
  <2>2. /\ selected = {was} /\ The(selected) = was /\ was \in Envelope
    BY OpenFact
  <2>3. ASSUME NEW is \in open, is.key = x.item, open = {is}, is \in Envelope
        PROVE  y = Watch(x, was, is)
    <3>1. The(open) = is /\ {c.key : c \in open} = {x.item}
      BY <2>3, TheFact
    <3> HIDE DEF open
    <3> QED BY <1>2, <2>2, <3>1 DEF Watched, IsMounted
  <2>4. CASE was.key = fresh.key
    <3>1. open = {fresh} /\ y = Watch(x, was, fresh)
      BY <2>1, <2>3, <2>4, PutSelectedFact
    <3>2. y.mounted /\ y.item = x.item /\ y.theirs = x.theirs
      <4>1. x \in PaneType
        BY DEF Fine
      <4>2. Watch(x, was, fresh) = x \/ Watch(x, was, fresh) = Redrawn(x, fresh.text)
        BY DEF Watch, Redrawn
      <4>3. /\ Redrawn(x, fresh.text).mounted = x.mounted
            /\ Redrawn(x, fresh.text).item = x.item
            /\ Redrawn(x, fresh.text).theirs = x.theirs
        BY <4>1 DEF PaneType, Redrawn
      <4> HIDE DEF y, open, x
      <4> QED BY <1>2, <3>1, <4>2, <4>3
    <3>3. Undrawn(y, fresh) \subseteq lost
      BY <1>2
    <3> HIDE DEF y, open
    <3>4. fresh.text \subseteq y.editor \union x.theirs \union lost
      BY <2>1, <2>4, <3>2, <3>3 DEF Undrawn
    <3>5. /\ Fine(Watch(x, was, fresh), {fresh}, server, lost)
          /\ Gives(x, Watch(x, was, fresh), {})
      BY <1>2, <2>1, <2>4, <3>1, <3>4, WatchFine
    <3>6. Fine(y, open, server, lost) /\ y.mounted = x.mounted /\ Gives(x, y, {})
      BY <1>2, <3>1, <3>2, <3>5
    <3> QED BY <3>6 DEF y, open
  <2>5. CASE was.key # fresh.key
    <3>1. open = selected
      BY <2>5, PutSelectedFact
    <3>2. y = Watch(x, was, was)
      BY <2>1, <2>2, <2>3, <3>1
    <3>3. Watch(x, was, was) = x
      BY DEF Watch
    <3> HIDE DEF y, open
    <3>4. Fine(y, open, server, lost) /\ y.mounted = x.mounted /\ Gives(x, y, {})
      BY <3>1, <3>2, <3>3, GivesSame
    <3> QED BY <3>4 DEF y, open
  <2> QED BY <2>4, <2>5
<1> QED BY <1>1, <1>2
\* One pane changes, and nothing but which marks are lost.
LEMMA PaneStep ==
    ASSUME IInv, NEW p \in DOMAIN panes, NEW y, panes' = [panes EXCEPT ![p] = y],
           UNCHANGED <<server, version, rows, selected, known, events, reads, typedIn>>,
           foreign' \in Nat, failures' \in Nat, Lost_ \subseteq Lost_',
           unseen' \subseteq Marks, chosen' \subseteq Marks, strayed' \subseteq Marks,
           Fine(panes[p], selected, server, Lost_') =>
                /\ Fine(y, selected, server, Lost_')
                /\ y.mounted => panes[p].mounted
                /\ Gives(panes[p], y, server[panes[p].item].text \union Lost_')
    PROVE  IInv'
<1>1. Stored'
  BY StoredNext DEF IInv
<1>2. server' \in [Notes -> Envelope] /\ server' = server
  BY <1>1 DEF Stored
<1>3. Grown(server, server', Lost_, Lost_')
  BY <1>2 DEF Grown
<1>4. Held'
  BY <1>2, <1>3, HeldNext
<1>5. panes' = [q \in DOMAIN panes |-> panes'[q]] /\ panes \in Seq(PaneType)
  BY DEF IInv, Drawn
<1>6. ASSUME NEW q \in DOMAIN panes, Fine(panes[q], selected, server', Lost_')
      PROVE  /\ Fine(panes'[q], selected', server', Lost_')
             /\ panes'[q].mounted => panes[q].mounted
             /\ Gives(panes[q], panes'[q], server'[panes[q].item].text \union Lost_')
  <2>1. CASE q = p
    <3>1. panes'[q] = y
      BY <2>1
    <3> QED BY <1>2, <1>6, <2>1, <3>1
  <2>2. CASE q # p
    <3>1. panes'[q] = panes[q]
      BY <2>2
    <3> QED BY <1>2, <1>6, <3>1, GivesSame
  <2> QED BY <2>1, <2>2
<1>7. Drawn' /\ NoneVanishes'
  BY <1>2, <1>3, <1>5, <1>6, DrawnNext
<1> QED BY <1>1, <1>4, <1>7 DEF IInv

LEMMA OnScreen ==
    ASSUME Drawn, IsMounted(Len(panes))
    PROVE  Len(panes) \in DOMAIN panes /\ panes[Len(panes)].mounted
BY DEF Drawn, IsMounted

LEMMA CopiesFact ==
    ASSUME IInv, NEW lost, Lost_ \subseteq lost
    PROVE  selected \in Maybe(Envelope) /\ \A e \in selected : Copy(e, server, lost)
BY DEF IInv, Held, Copy

LEMMA FlushNowInv ==
    ASSUME IInv, IsMounted(Len(panes)), FlushNow
    PROVE  IInv'
<1> DEFINE p == Len(panes)
           x == panes[p]
           y == Flush(Retried(x), selected)
<1>1. p \in DOMAIN panes /\ x.mounted
  BY OnScreen DEF IInv
<1>2. panes' = [panes EXCEPT ![p] = y]
  BY DEF FlushNow, Retried
<1>3. UNCHANGED <<server, version, rows, selected, known, events, reads, typedIn,
                  foreign, failures, unseen, chosen, strayed>>
  BY DEF FlushNow, feed, losses
<1>4. Lost_' = Lost_
  BY <1>3 DEF Lost_
<1>5. ASSUME Fine(x, selected, server, Lost_)
      PROVE  /\ Fine(y, selected, server, Lost_)
             /\ y.mounted => x.mounted
             /\ Gives(x, y, server[x.item].text \union Lost_)
  <2>1. /\ Fine(Retried(x), selected, server, Lost_)
        /\ Retried(x).item = x.item /\ Retried(x).mounted
        /\ \A k : Holds(x, k) => Holds(Retried(x), k)
    BY <1>1, <1>5, RetriedFine
  <2>2. selected \in Maybe(Envelope) /\ \A e \in selected : Copy(e, server, Lost_)
    BY CopiesFact
  <2>3. /\ Fine(y, selected, server, Lost_) /\ y.item = Retried(x).item
        /\ \A k : Holds(Retried(x), k) => Keeps(y, k, Retried(x).item) \/ k \in Lost_
    BY <2>1, <2>2, FlushFine
  <2> HIDE DEF y, x
  <2>4. Gives(x, y, server[x.item].text \union Lost_)
    BY <2>1, <2>3 DEF Gives, Keeps, Holds
  <2> QED BY <1>1, <2>3, <2>4
<1> HIDE DEF y
<1>6. /\ foreign' \in Nat /\ failures' \in Nat
      /\ unseen' \subseteq Marks /\ chosen' \subseteq Marks /\ strayed' \subseteq Marks
  BY <1>3 DEF IInv, Stored
<1> QED BY <1>1, <1>2, <1>3, <1>4, <1>5, <1>6, PaneStep

LEMMA KeepMineInv ==
    ASSUME IInv, KeepMine
    PROVE  IInv'
<1> DEFINE p == Len(panes)
           x == panes[p]
           y == Flush(Mine(x), selected)
<1>1. p \in DOMAIN panes /\ x.mounted /\ x.state = "conflict"
  BY OnScreen DEF IInv, KeepMine
<1>2. panes' = [panes EXCEPT ![p] = y]
  BY DEF KeepMine, Mine
<1>3. UNCHANGED <<server, version, rows, selected, known, events, reads, typedIn,
                  foreign, failures, unseen, strayed>>
  BY DEF KeepMine, feed
<1>4. chosen' = chosen \union (x.theirs \ The(x.pending))
  BY DEF KeepMine
<1>5. Lost_ \subseteq Lost_' /\ x.theirs \ The(x.pending) \subseteq Lost_'
  BY <1>3, <1>4 DEF Lost_
<1>6. ASSUME Fine(x, selected, server, Lost_')
      PROVE  /\ Fine(y, selected, server, Lost_')
             /\ y.mounted => x.mounted
             /\ Gives(x, y, server[x.item].text \union Lost_')
  <2>1. /\ Fine(Mine(x), selected, server, Lost_')
        /\ Mine(x).item = x.item /\ Mine(x).mounted
        /\ \A k : Holds(x, k) => Holds(Mine(x), k)
    BY <1>1, <1>5, <1>6, MineFine
  <2>2. selected \in Maybe(Envelope) /\ \A e \in selected : Copy(e, server, Lost_')
    BY <1>5, CopiesFact
  <2>3. /\ Fine(y, selected, server, Lost_') /\ y.item = Mine(x).item
        /\ \A k : Holds(Mine(x), k) => Keeps(y, k, Mine(x).item) \/ k \in Lost_'
    BY <2>1, <2>2, FlushFine
  <2> HIDE DEF y, x
  <2>4. Gives(x, y, server[x.item].text \union Lost_')
    BY <2>1, <2>3 DEF Gives, Keeps, Holds
  <2> QED BY <1>1, <2>3, <2>4
<1> HIDE DEF y
<1>7. /\ foreign' \in Nat /\ failures' \in Nat
      /\ unseen' \subseteq Marks /\ strayed' \subseteq Marks
  BY <1>3 DEF IInv, Stored
<1>8. chosen' \subseteq Marks
  <2>1. x.theirs \in SUBSET Marks
    BY <1>1 DEF IInv, Drawn, Fine, PaneType
  <2> QED BY <1>4, <2>1 DEF IInv, Stored
<1> QED BY <1>1, <1>2, <1>3, <1>5, <1>6, <1>7, <1>8, PaneStep

LEMMA KeepTheirsInv ==
    ASSUME IInv, KeepTheirs
    PROVE  IInv'
<1> DEFINE p == Len(panes)
           x == panes[p]
<1>1. p \in DOMAIN panes /\ x.mounted /\ x.state = "conflict"
  BY OnScreen DEF IInv, KeepTheirs
<1>2. Fine(x, selected, server, Lost_)
  BY <1>1 DEF IInv, Drawn
<1>3. PICK e \in selected : TRUE
  BY <1>1, <1>2 DEF Fine, Shows
<1>4. The(selected) = e /\ selected \in Maybe(Envelope)
  BY <1>3, OpenFact DEF IInv, Held
<1> DEFINE y == Theirs(x, e.text)
<1>5. panes' = [panes EXCEPT ![p] = y]
  BY <1>4 DEF KeepTheirs, Theirs
<1>6. UNCHANGED <<server, version, rows, selected, known, events, reads, typedIn,
                  foreign, failures, unseen, strayed>>
  BY DEF KeepTheirs, feed
<1>7. chosen' = chosen \union (x.editor \ e.text)
  BY <1>4 DEF KeepTheirs
<1>8. Lost_ \subseteq Lost_' /\ x.editor \ e.text \subseteq Lost_'
  BY <1>6, <1>7 DEF Lost_
<1>9. ASSUME Fine(x, selected, server, Lost_')
      PROVE  /\ Fine(y, selected, server, Lost_')
             /\ y.mounted => x.mounted
             /\ Gives(x, y, server[x.item].text \union Lost_')
  <2>1. Copy(e, server, Lost_')
    BY <1>3, <1>8, CopiesFact
  <2> QED BY <1>1, <1>3, <1>4, <1>8, <1>9, <2>1, TheirsFine
<1> HIDE DEF y
<1>10. /\ foreign' \in Nat /\ failures' \in Nat
       /\ unseen' \subseteq Marks /\ strayed' \subseteq Marks
  BY <1>6 DEF IInv, Stored
<1>11. chosen' \subseteq Marks
  <2>1. x.editor \in SUBSET Marks
    BY <1>2 DEF Fine, PaneType
  <2> QED BY <1>7, <2>1 DEF IInv, Stored
<1> QED BY <1>1, <1>5, <1>6, <1>8, <1>9, <1>10, <1>11, PaneStep
LEMMA RefusedInv ==
    ASSUME IInv, NEW p \in DOMAIN panes, Refused(p)
    PROVE  IInv'
<1> DEFINE x == panes[p]
<1>1. PICK f \in x.flight : panes' = [panes EXCEPT ![p].flight =
                                        {[f EXCEPT !.stage = "read", !.answer = {}]}]
  BY DEF Refused
<1> DEFINE g == [f EXCEPT !.stage = "read", !.answer = {}]
           y == Routed(x, g)
<1>2. panes' = [panes EXCEPT ![p] = y]
  BY <1>1 DEF Routed
<1>3. UNCHANGED <<server, version, rows, selected, known, events, reads, typedIn,
                  foreign, failures, unseen, chosen, strayed>>
  BY DEF Refused, feed, losses
<1>4. Lost_' = Lost_
  BY <1>3 DEF Lost_
<1>5. ASSUME Fine(x, selected, server, Lost_)
      PROVE  /\ Fine(y, selected, server, Lost_)
             /\ y.mounted => x.mounted
             /\ Gives(x, y, server[x.item].text \union Lost_)
  <2>1. x \in PaneType /\ Shows(x, selected, Lost_) /\ FlightFine(f, server, Lost_)
    BY <1>5 DEF Fine
  <2>2. f \in Flights /\ {} \in Maybe(Answers)
    BY <2>1, FlightFact DEF Maybe
  <2>3. /\ g \in Flights /\ g.html = f.html /\ g.target = f.target
        /\ g.base = f.base /\ g.version = f.version /\ g.answer = {}
    BY <2>2 DEF Flights
  <2> HIDE DEF g, x
  <2>4. FlightFine(g, server, Lost_)
    BY <2>1, <2>3 DEF FlightFine
  <2>5. /\ Fine(y, selected, server, Lost_) /\ y.mounted = x.mounted /\ Gives(x, y, {})
    BY <1>5, <2>1, <2>3, <2>4, RoutedFine
  <2> QED BY <2>5 DEF Gives
<1> HIDE DEF y
<1>6. /\ foreign' \in Nat /\ failures' \in Nat
      /\ unseen' \subseteq Marks /\ chosen' \subseteq Marks /\ strayed' \subseteq Marks
  BY <1>3 DEF IInv, Stored
<1> QED BY <1>2, <1>3, <1>4, <1>5, <1>6, PaneStep

\* Nothing is drawn again while the open item stays.
LEMMA WatchedSame ==
    ASSUME IInv
    PROVE  Watched(selected) = panes
<1>1. panes \in Seq(PaneType)
  BY DEF IInv, Drawn
<1>2. \A x, e : Watch(x, e, e) = x
  BY DEF Watch
<1> QED BY <1>1, <1>2 DEF Watched

\* A save that came to nothing, refused twice or lost on the way.
LEMMA GivesUpInv ==
    ASSUME IInv, NEW p \in DOMAIN panes, NEW f \in panes[p].flight,
           Ends(p, GivesUp(panes[p], "failed", f.html), selected),
           UNCHANGED <<server, version, rows, selected, known, feed, typedIn, foreign,
                       unseen, chosen>>,
           failures' \in Nat
    PROVE  IInv'
<1> DEFINE x == panes[p]
           z == GaveUp(x, f, "failed", {})
           y == Landed(z, selected)
<1>1. Fine(x, selected, server, Lost_)
  BY DEF IInv, Drawn
<1>2. x \in PaneType /\ x.theirs = {}
  BY <1>1 DEF Fine, PaneFine
<1>3. [GivesUp(x, "failed", f.html) EXCEPT !.flight = {}] = z
  <2> HIDE DEF x
  <2> QED BY <1>2 DEF GivesUp, GaveUp, PaneType
<1>4. panes' = [panes EXCEPT ![p] = y]
  BY <1>3, WatchedSame DEF Ends
<1>5. strayed' = strayed \union Stray(z, y, selected)
  BY <1>3 DEF Ends
<1>6. UNCHANGED <<server, version, rows, selected, known, events, reads, typedIn, foreign,
                  unseen, chosen>>
  BY DEF feed
<1> HIDE DEF y, z
<1>7. Lost_ \subseteq Lost_' /\ Stray(z, y, selected) \subseteq Lost_'
  BY <1>5, <1>6 DEF Lost_
<1>8. ASSUME Fine(x, selected, server, Lost_')
      PROVE  /\ Fine(y, selected, server, Lost_')
             /\ y.mounted => x.mounted
             /\ Gives(x, y, server[x.item].text \union Lost_')
  <2>1. selected \in Maybe(Envelope) /\ \A e \in selected : Copy(e, server, Lost_')
    BY <1>7, CopiesFact
  <2>2. x.mounted => \E e \in Envelope : /\ selected = {e} /\ e.key = x.item
                                         /\ e.text \subseteq x.editor \union {} \union Lost_'
    BY <1>2, <1>8 DEF Fine, Shows
  <2>3. /\ Fine(y, selected, server, Lost_') /\ y.mounted = x.mounted
        /\ Gives(x, y, Lost_')
    <3> HIDE DEF x
    <3>1. Stray(z, Landed(z, selected), selected) \subseteq Lost_'
      BY <1>7 DEF y
    <3> QED BY <1>8, <2>1, <2>2, <3>1, GaveUpFine DEF y, z, x
  <2> QED BY <2>3 DEF Gives
<1>9. foreign' \in Nat /\ unseen' \subseteq Marks /\ chosen' \subseteq Marks
  BY <1>6 DEF IInv, Stored
<1>10. strayed' \subseteq Marks
  <2>1. selected \in Maybe(Envelope) /\ {} \in SUBSET Marks /\ "failed" \in States
    BY DEF IInv, Held, States
  <2>2. z \in PaneType
    <3> HIDE DEF x
    <3> QED BY <1>2, <2>1, GaveUpFields DEF IsGivenUp, z, x
  <2>3. Stray(z, y, selected) \subseteq Marks
    BY <2>1, <2>2, StrayMarks
  <2> QED BY <1>5, <2>3 DEF IInv, Stored
<1> QED BY <1>4, <1>6, <1>7, <1>8, <1>9, <1>10, PaneStep

LEMMA FailedInv ==
    ASSUME IInv, NEW p \in DOMAIN panes, Failed(p)
    PROVE  IInv'
<1>1. failures' \in Nat
  BY DEF Failed, IInv, Stored
<1> QED BY <1>1, GivesUpInv DEF Failed

LEMMA LostInv ==
    ASSUME IInv, NEW p \in DOMAIN panes, Lost(p)
    PROVE  IInv'
<1>1. failures' \in Nat
  BY DEF Lost, IInv, Stored
<1> QED BY <1>1, GivesUpInv DEF Lost
\* The next mark is in the draft of the pane on the screen.
LEMMA TypeInv ==
    ASSUME IInv, Type
    PROVE  IInv'
<1> DEFINE p == Len(panes)
           x == panes[p]
           m == Len(typedIn) + 1
           y == Extended(x, m)
<1>1. p \in DOMAIN panes /\ x.mounted /\ Fine(x, selected, server, Lost_)
  <2>1. p \in DOMAIN panes /\ x.mounted
    BY OnScreen DEF IInv, Type
  <2> QED BY <2>1 DEF IInv, Drawn
<1>2. panes' = [panes EXCEPT ![p] = y] /\ typedIn' = Append(typedIn, x.item)
  BY DEF Type, Extended
<1>3. x.item \in Notes
  BY <1>1 DEF Fine, PaneType
<1>4. m \in Marks /\ m \in Nat
  <2>1. Len(typedIn) \in Nat /\ Len(typedIn) < MaxTyped
    BY DEF IInv, Stored, Type
  <2> QED BY <2>1, NoteEditingAssumption DEF Marks
<1>5. UNCHANGED <<server, version, rows, selected, known, events, reads,
                  foreign, failures, unseen, chosen, strayed>>
  BY DEF Type, feed, losses
<1>6. server \in [Notes -> Envelope] /\ Lost_' = Lost_ /\ Grown(server, server', Lost_, Lost_')
  BY <1>5 DEF IInv, Stored, Lost_, Grown
<1>7. Stored'
  <2>1. /\ typedIn' \in Seq(Notes) /\ Len(typedIn') = Len(typedIn) + 1
        /\ Len(typedIn) < MaxTyped
    BY <1>2, <1>3 DEF IInv, Stored, Type
  <2>2. Len(typedIn') <= MaxTyped
    BY <2>1, NoteEditingAssumption DEF IInv, Stored
  <2> QED BY <1>5, <2>1, <2>2 DEF IInv, Stored
<1>8. Held'
  BY <1>5, <1>6, HeldNext
<1>9. /\ Fine(y, selected, server, Lost_) /\ Gives(x, y, {}) /\ Keeps(y, m, x.item)
  BY <1>1, <1>4, ExtendedFine
<1> HIDE DEF y
<1>10. panes \in Seq(PaneType) /\ panes' = [q \in DOMAIN panes |-> panes'[q]]
  BY <1>2 DEF IInv, Drawn
<1>11. ASSUME NEW q \in DOMAIN panes, Fine(panes[q], selected, server', Lost_')
       PROVE  /\ Fine(panes'[q], selected', server', Lost_')
              /\ panes'[q].mounted => panes[q].mounted
              /\ Gives(panes[q], panes'[q], server'[panes[q].item].text \union Lost_')
  <2>1. CASE q = p
    <3>1. panes'[q] = y
      BY <1>2, <2>1
    <3>2. Gives(panes[q], y, server'[panes[q].item].text \union Lost_')
      BY <1>9, <2>1 DEF Gives
    <3> QED BY <1>1, <1>5, <1>6, <1>9, <2>1, <3>1, <3>2
  <2>2. CASE q # p
    <3>1. panes'[q] = panes[q]
      BY <1>2, <2>2
    <3> QED BY <1>5, <1>11, <3>1, GivesSame
  <2> QED BY <2>1, <2>2
<1>12. /\ Drawn'
       /\ \A k \in DOMAIN typedIn, n \in Notes : typedIn[k] = n => k \in Lost_' \/ Somewhere(k, n)'
  <2>1. server' \in [Notes -> Envelope]
    BY <1>5, <1>6
  <2> QED BY <1>6, <1>10, <1>11, <2>1, DrawnNext
<1>13. NoneVanishes'
  <2>1. ASSUME NEW k \in DOMAIN typedIn'
        PROVE  k \in Lost_' \/ Somewhere(k, typedIn[k])'
    <3>1. CASE k \in DOMAIN typedIn
      <4>1. typedIn'[k] = typedIn[k] /\ typedIn[k] \in Notes
        BY <1>2, <1>3, <3>1 DEF IInv, Stored
      <4> QED BY <1>12, <3>1, <4>1 DEF Somewhere
    <3>2. CASE k \notin DOMAIN typedIn
      <4>1. k = m /\ typedIn'[k] = x.item
        BY <1>2, <1>3, <2>1, <3>2 DEF IInv, Stored
      <4>2. p \in DOMAIN panes' /\ panes'[p] = y
        BY <1>1, <1>2
      <4> QED BY <1>9, <4>1, <4>2 DEF Somewhere, Keeps
    <3> QED BY <3>1, <3>2
  <2> QED BY <2>1 DEF NoneVanishes, Lost_
<1> QED BY <1>7, <1>8, <1>12, <1>13 DEF IInv
\* The page and the panes are left alone.
LEMMA PanesSame ==
    ASSUME IInv, server' \in [Notes -> Envelope], Grown(server, server', Lost_, Lost_'),
           UNCHANGED <<selected, panes, typedIn>>
    PROVE  Drawn' /\ NoneVanishes'
<1>1. panes' = [q \in DOMAIN panes |-> panes'[q]]
  BY DEF IInv, Drawn
<1>2. ASSUME NEW q \in DOMAIN panes, Fine(panes[q], selected, server', Lost_')
      PROVE  /\ Fine(panes'[q], selected', server', Lost_')
             /\ panes'[q].mounted => panes[q].mounted
             /\ Gives(panes[q], panes'[q], server'[panes[q].item].text \union Lost_')
  BY <1>2, GivesSame
<1> QED BY <1>1, <1>2, DrawnNext

LEMMA GrownSame ==
    ASSUME UNCHANGED server, Lost_ \subseteq Lost_'
    PROVE  Grown(server, server', Lost_, Lost_')
BY DEF Grown

LEMMA ForeignWriteInv ==
    ASSUME IInv, NEW n \in Notes, NEW marks \in {{}, {MaxTyped + foreign + 1}},
           ForeignWrite(n, marks)
    PROVE  IInv'
<1> DEFINE now == [server[n] EXCEPT !.version = version + 1, !.text = @ \union marks]
<1>1. /\ foreign \in Nat /\ foreign < MaxForeign /\ version \in Nat
      /\ server \in [Notes -> Envelope] /\ server[n].version <= version /\ server[n].key = n
  BY DEF IInv, Stored, ForeignWrite
<1>2. marks \subseteq Marks
  BY <1>1, NoteEditingAssumption DEF Marks
<1>3. /\ server' = [server EXCEPT ![n] = now]
      /\ foreign' = foreign + 1 /\ version' = version + 1
      /\ events' = events \union {version + 1}
  BY DEF ForeignWrite
<1>4. UNCHANGED <<rows, selected, known, panes, reads, typedIn, failures,
                  unseen, chosen, strayed>>
  BY DEF ForeignWrite, web, losses
<1>5. /\ now \in Envelope /\ now.key = n /\ now.version = version + 1
      /\ now.text = server[n].text \union marks /\ server[n].version \in Nat
  <2>1. /\ server[n] \in Envelope /\ version + 1 \in Nat
        /\ server[n].text \union marks \in SUBSET Marks
    <3>1. server[n] \in Envelope
      BY <1>1
    <3> QED BY <1>1, <1>2, <3>1 DEF Envelope
  <2> QED BY <1>1, <2>1 DEF Envelope
<1> HIDE DEF now
<1>6. server' \in [Notes -> Envelope]
  BY <1>1, <1>3, <1>5
<1>7. \A c \in Notes : IF c = n THEN server'[c] = now ELSE server'[c] = server[c]
  BY <1>1, <1>3
<1>8. Lost_' = Lost_
  BY <1>4 DEF Lost_
<1>9. Grown(server, server', Lost_, Lost_')
  BY <1>1, <1>5, <1>7, <1>8 DEF Grown
<1>10. Stored'
  <2>1. version' \in Nat /\ foreign' \in Nat /\ failures' \in Nat
    BY <1>1, <1>3, <1>4 DEF IInv, Stored
  <2>2. \A c \in Notes : server'[c].key = c /\ server'[c].version <= version'
    <3>1. \A c \in Notes : /\ server[c].key = c /\ server[c].version <= version
                           /\ server[c].version \in Nat
      BY DEF IInv, Stored, Envelope
    <3> QED BY <1>1, <1>3, <1>5, <1>7, <3>1
  <2>3. events' \subseteq (known' + 1)..version'
    <3>1. known \in 0..version /\ events \subseteq (known + 1)..version
      BY DEF IInv, Stored
    <3> QED BY <1>1, <1>3, <1>4, <3>1
  <2>4. known' \in 0..version'
    BY <1>1, <1>3, <1>4 DEF IInv, Stored
  <2>5. \A r \in reads' : r.kind = "list" => r.upto <= version'
    <3>1. \A r \in reads : r.kind = "list" => r.upto \in Nat
      BY DEF IInv, Held, ReadTypes
    <3> QED BY <1>1, <1>3, <1>4, <3>1 DEF IInv, Stored
  <2> QED BY <1>4, <1>6, <2>1, <2>2, <2>3, <2>4, <2>5 DEF IInv, Stored
<1>11. Held'
  BY <1>4, <1>6, <1>9, HeldNext
<1>12. Drawn' /\ NoneVanishes'
  BY <1>4, <1>6, <1>9, PanesSame
<1> QED BY <1>10, <1>11, <1>12 DEF IInv
\* The server answers: g is the flight with its answer.
LEMMA AnswerInv ==
    ASSUME IInv, NEW p \in DOMAIN panes, NEW f \in panes[p].flight,
           NEW status \in {"ok", "stale"}, NEW item \in Envelope,
           panes' = [panes EXCEPT ![p].flight =
                        {[f EXCEPT !.answer = {[status |-> status, item |-> item]}]}],
           Stored', Grown(server, server', Lost_, Lost_'),
           Copy(item, server', Lost_'), item.key = f.target,
           f.stage # "read" /\ status = "ok" => item.text = f.html,
           UNCHANGED <<rows, selected, reads, typedIn>>
    PROVE  IInv'
<1> DEFINE x == panes[p]
           a == [status |-> status, item |-> item]
           g == [f EXCEPT !.answer = {a}]
           y == Routed(x, g)
<1>1. panes' = [panes EXCEPT ![p] = y]
  BY DEF Routed
<1>2. server' \in [Notes -> Envelope]
  BY DEF Stored
<1>3. Held'
  BY <1>2, HeldNext
<1>4. ASSUME Fine(x, selected, server', Lost_')
      PROVE  /\ Fine(y, selected, server', Lost_')
             /\ y.mounted = x.mounted /\ Gives(x, y, {})
  <2>1. /\ x \in PaneType /\ Shows(x, selected, Lost_') /\ FlightFine(f, server', Lost_')
        /\ f \in x.flight
    BY <1>4 DEF Fine
  <2>2. f \in Flights
    BY <2>1, FlightFact
  <2>3. a.status = status /\ a.item = item /\ {a} \in Maybe(Answers)
    BY DEF Answers, Maybe
  <2> HIDE DEF a
  <2>4. /\ g \in Flights /\ g.html = f.html /\ g.target = f.target /\ g.stage = f.stage
        /\ g.base = f.base /\ g.version = f.version /\ g.answer = {a}
    BY <2>2, <2>3 DEF Flights
  <2> HIDE DEF g, x
  <2>5. FlightFine(g, server', Lost_')
    BY <2>1, <2>3, <2>4 DEF FlightFine
  <2> QED BY <1>4, <2>1, <2>4, <2>5, RoutedFine
<1> HIDE DEF y
<1>5. panes \in Seq(PaneType) /\ panes' = [q \in DOMAIN panes |-> panes'[q]]
  BY <1>1 DEF IInv, Drawn
<1>6. ASSUME NEW q \in DOMAIN panes, Fine(panes[q], selected, server', Lost_')
      PROVE  /\ Fine(panes'[q], selected', server', Lost_')
             /\ panes'[q].mounted => panes[q].mounted
             /\ Gives(panes[q], panes'[q], server'[panes[q].item].text \union Lost_')
  <2>1. CASE q = p
    <3>1. panes'[q] = y
      BY <1>1, <2>1
    <3>2. Gives(x, y, {}) /\ Fine(y, selected, server', Lost_') /\ y.mounted = x.mounted
      BY <1>4, <1>6, <2>1
    <3>3. Gives(x, y, server'[panes[q].item].text \union Lost_')
      BY <3>2 DEF Gives
    <3> QED BY <2>1, <3>1, <3>2, <3>3
  <2>2. CASE q # p
    <3>1. panes'[q] = panes[q]
      BY <1>1, <2>2
    <3> QED BY <1>6, <3>1, GivesSame
  <2> QED BY <2>1, <2>2
<1>7. Drawn' /\ NoneVanishes'
  BY <1>2, <1>5, <1>6, DrawnNext
<1> QED BY <1>3, <1>7 DEF IInv

\* A save that is accepted replaces what it was based on.
LEMMA ServeInv ==
    ASSUME IInv, NEW p \in DOMAIN panes, Serve(p)
    PROVE  IInv' /\ Grown(server, server', Lost_, Lost_')
<1> DEFINE Answer(f, status, item) ==
        panes' = [panes EXCEPT ![p].flight =
                    {[f EXCEPT !.answer = {[status |-> status, item |-> item]}]}]
<1>1. PICK f \in panes[p].flight :
        LET stored == server[f.target]
            now == [stored EXCEPT !.version = version + 1, !.text = f.html]
        IN  \/ /\ f.stage = "read" /\ Answer(f, "ok", stored)
               /\ UNCHANGED <<server, version, events>>
            \/ /\ f.stage # "read" /\ Answer(f, "stale", stored)
               /\ UNCHANGED <<server, version, events>>
            \/ /\ f.html = stored.text /\ Answer(f, "ok", stored)
               /\ UNCHANGED <<server, version, events>>
            \/ /\ f.version = stored.version
               /\ server' = [server EXCEPT ![f.target] = now]
               /\ version' = version + 1
               /\ events' = events \union {version + 1}
               /\ Answer(f, "ok", now)
  BY DEF Serve
<1> DEFINE stored == server[f.target]
           now == [stored EXCEPT !.version = version + 1, !.text = f.html]
<1>2. UNCHANGED <<rows, selected, known, reads, typedIn, foreign, failures,
                  unseen, chosen, strayed>>
  BY DEF Serve, losses
<1>3. Lost_' = Lost_
  BY <1>2 DEF Lost_
<1>4. panes[p] \in PaneType /\ FlightFine(f, server, Lost_)
  BY DEF IInv, Drawn, Fine
<1>5. f \in Flights
  BY <1>4, FlightFact
<1>6. f.target \in Notes /\ f.html \in SUBSET Marks
  BY <1>5 DEF Flights
<1>7. /\ server \in [Notes -> Envelope] /\ version \in Nat
      /\ stored \in Envelope /\ stored.key = f.target /\ stored.version <= version
      /\ stored.version \in Nat
  BY <1>6 DEF IInv, Stored, Envelope
<1>8. CASE UNCHANGED <<server, version, events>>
  <2>1. Stored' /\ Grown(server, server', Lost_, Lost_')
    <3>1. Stored'
      BY <1>2, <1>8, StoredNext DEF IInv, Stored
    <3> QED BY <1>3, <1>8, <3>1, GrownSame
  <2>2. Copy(stored, server', Lost_')
    BY <1>7, <1>8 DEF Copy
  <2>3. ASSUME NEW status \in {"ok", "stale"}, Answer(f, status, stored),
               f.stage # "read" /\ status = "ok" => stored.text = f.html
        PROVE  IInv'
    <3> HIDE DEF stored
    <3> QED BY <1>2, <1>7, <2>1, <2>2, <2>3, AnswerInv
  <2>4. CASE f.stage = "read" /\ Answer(f, "ok", stored)
    BY <2>1, <2>3, <2>4
  <2>5. CASE f.stage # "read" /\ Answer(f, "stale", stored)
    BY <2>1, <2>3, <2>5
  <2>6. CASE f.html = stored.text /\ Answer(f, "ok", stored)
    BY <2>1, <2>3, <2>6
  <2>7. CASE version' = version + 1
    BY <1>7, <1>8, <2>7
  <2> QED BY <1>1, <2>4, <2>5, <2>6, <2>7
<1>9. CASE /\ f.version = stored.version
           /\ server' = [server EXCEPT ![f.target] = now]
           /\ version' = version + 1
           /\ events' = events \union {version + 1}
           /\ Answer(f, "ok", now)
  <2>1. /\ now \in Envelope /\ now.key = f.target /\ now.version = version + 1
        /\ now.text = f.html
    <3>1. stored \in Envelope /\ stored.key = f.target /\ version + 1 \in Nat
      BY <1>7
    <3> HIDE DEF stored
    <3> QED BY <1>6, <3>1 DEF Envelope
  <2>2. Answer(f, "ok", now)
    BY <1>9
  <2> HIDE DEF now
  <2>3. /\ server' \in [Notes -> Envelope]
        /\ \A c \in Notes : IF c = f.target THEN server'[c] = now ELSE server'[c] = server[c]
    BY <1>6, <1>7, <1>9, <2>1
  <2>4. Grown(server, server', Lost_, Lost_')
    <3>1. stored.text \subseteq f.html \union Lost_
      BY <1>4, <1>9 DEF FlightFine
    <3> QED BY <1>3, <1>7, <2>1, <2>3, <3>1 DEF Grown
  <2>5. Copy(now, server', Lost_')
    BY <1>6, <1>7, <2>1, <2>3 DEF Copy
  <2>6. Stored'
    <3>1. version' \in Nat /\ foreign' \in Nat /\ failures' \in Nat
      BY <1>2, <1>7, <1>9 DEF IInv, Stored
    <3>2. \A c \in Notes : server'[c].key = c /\ server'[c].version <= version'
      <4>1. \A c \in Notes : /\ server[c].key = c /\ server[c].version <= version
                             /\ server[c].version \in Nat
        BY DEF IInv, Stored, Envelope
      <4> QED BY <1>7, <1>9, <2>1, <2>3, <4>1
    <3>3. known' \in 0..version' /\ events' \subseteq (known' + 1)..version'
      <4>1. known \in 0..version /\ events \subseteq (known + 1)..version
        BY DEF IInv, Stored
      <4> QED BY <1>2, <1>7, <1>9, <4>1
    <3>4. \A r \in reads' : r.kind = "list" => r.upto <= version'
      <4>1. \A r \in reads : r.kind = "list" => r.upto \in Nat
        BY DEF IInv, Held, ReadTypes
      <4> QED BY <1>2, <1>7, <1>9, <4>1 DEF IInv, Stored
    <3> QED BY <1>2, <2>3, <3>1, <3>2, <3>3, <3>4 DEF IInv, Stored
  <2>7. IInv'
    BY <1>2, <2>1, <2>2, <2>4, <2>5, <2>6, AnswerInv
  <2> QED BY <2>4, <2>7
<1>10. Grown(server, server', Lost_, Lost_') \/ ~UNCHANGED server
  BY <1>3, GrownSame
<1> QED BY <1>1, <1>8, <1>9, <1>10
\* What `seen` leaves announced is newer than what the page knows.
LEMMA SeenFact ==
    ASSUME IInv, NEW v \in Nat, v <= version, Seen(v), UNCHANGED version
    PROVE  known' \in 0..version' /\ events' \subseteq (known' + 1)..version'
<1>1. known \in 0..version /\ events \subseteq (known + 1)..version /\ version \in Nat
  BY DEF IInv, Stored
<1>2. known' = Max({known, v}) /\ events' = {e \in events : e > known'}
  BY DEF Seen
<1>3. known' \in {known, v}
  BY <1>1, <1>2, LargerOfTwo
<1>4. known' \in Nat /\ known' <= version
  BY <1>1, <1>3
<1>5. ASSUME NEW e \in events'
      PROVE  e \in (known' + 1)..version
  BY <1>1, <1>2, <1>4
<1> QED BY <1>1, <1>4, <1>5

LEMMA PutFact ==
    ASSUME IInv, NEW fresh \in Envelope, Copy(fresh, server, Lost_), Put(fresh),
           UNCHANGED <<server, version>>, Lost_ \subseteq Lost_'
    PROVE  /\ known' \in 0..version' /\ events' \subseteq (known' + 1)..version'
           /\ rows' \in [Notes -> Envelope] /\ Copies(rows', server', Lost_')
           /\ selected' = PutSelected(fresh)
           /\ selected' \in Maybe(Envelope) /\ \A e \in selected' : Copy(e, server', Lost_')
<1>1. fresh.key \in Notes /\ fresh.version \in Nat
  BY DEF Envelope
<1>2. fresh.version <= version
  <2>1. /\ server[fresh.key].version \in Nat /\ server[fresh.key].version <= version
        /\ fresh.version <= server[fresh.key].version /\ version \in Nat
    BY <1>1 DEF IInv, Stored, Copy, Envelope
  <2> QED BY <1>1, <2>1
<1>3. known' \in 0..version' /\ events' \subseteq (known' + 1)..version'
  BY <1>1, <1>2, SeenFact DEF Put
<1>4. server \in [Notes -> Envelope] /\ Grown(server, server', Lost_, Lost_')
  BY GrownSame DEF IInv, Stored
<1>5. /\ server' \in [Notes -> Envelope] /\ Copy(fresh, server', Lost_')
      /\ \A e \in selected : Copy(e, server', Lost_')
  BY DEF IInv, Stored, Held, Copy
<1>6. rows' \in [Notes -> Envelope] /\ Copies(rows', server', Lost_')
  <2>1. rows \in [Notes -> Envelope] /\ Copies(rows, server', Lost_')
    BY <1>4, <1>5, CopiesKept DEF IInv, Held
  <2>2. rows' = [rows EXCEPT ![fresh.key] = fresh]
    BY DEF Put
  <2> QED BY <1>1, <1>5, <2>1, <2>2 DEF Copies
<1>7. selected' = PutSelected(fresh) /\ selected \in Maybe(Envelope)
  BY DEF Put, IInv, Held
<1>8. selected' \in Maybe(Envelope) /\ \A e \in selected' : Copy(e, server', Lost_')
  BY <1>5, <1>7, PutSelectedFact
<1> QED BY <1>3, <1>6, <1>7, <1>8

\* An item is taken in, and the save that asked for it lands or goes on.
LEMMA PutAndEnds ==
    ASSUME IInv, NEW p \in DOMAIN panes, NEW y,
           NEW fresh \in Envelope, Copy(fresh, server, Lost_), Put(fresh),
           panes' = [Watched(PutSelected(fresh)) EXCEPT ![p] = y],
           UNCHANGED <<server, version, reads, typedIn, foreign, failures>>,
           Lost_ \subseteq Lost_',
           unseen' = unseen \union
                UNION {Undrawn(Watched(PutSelected(fresh))[q], fresh) : q \in DOMAIN panes \ {p}},
           chosen' \subseteq Marks, strayed' \subseteq Marks,
           Fine(panes[p], selected, server, Lost_') =>
                /\ Fine(y, PutSelected(fresh), server, Lost_')
                /\ y.mounted => panes[p].mounted
                /\ Gives(panes[p], y, server[panes[p].item].text \union Lost_')
    PROVE  IInv'
<1>1. /\ known' \in 0..version' /\ events' \subseteq (known' + 1)..version'
      /\ rows' \in [Notes -> Envelope] /\ Copies(rows', server', Lost_')
      /\ selected' = PutSelected(fresh)
      /\ selected' \in Maybe(Envelope) /\ \A e \in selected' : Copy(e, server', Lost_')
  BY PutFact
<1>2. Stored'
  <2>1. fresh.text \subseteq Marks
    BY DEF Envelope
  <2>2. \A x : Undrawn(x, fresh) \subseteq Marks
    BY <2>1 DEF Undrawn
  <2>3. unseen' \subseteq Marks
    BY <2>2 DEF IInv, Stored
  <2> QED BY <1>1, <2>3 DEF IInv, Stored
<1>3. server' \in [Notes -> Envelope] /\ Grown(server, server', Lost_, Lost_')
  BY <1>2, GrownSame DEF Stored
<1>4. Held'
  <2>1. server \in [Notes -> Envelope] /\ reads' = reads /\ reads \subseteq ReadTypes
    BY DEF IInv, Stored, Held
  <2>2. \A r \in reads : ReadFine(r, server', Lost_')
    BY <1>3, <2>1, ReadKept DEF IInv, Held
  <2> QED BY <1>1, <2>1, <2>2 DEF Held
<1>5. panes \in Seq(PaneType) /\ panes' = [q \in DOMAIN panes |-> panes'[q]]
  BY DEF IInv, Drawn, Watched
<1>6. ASSUME NEW q \in DOMAIN panes, Fine(panes[q], selected, server', Lost_')
      PROVE  /\ Fine(panes'[q], selected', server', Lost_')
             /\ panes'[q].mounted => panes[q].mounted
             /\ Gives(panes[q], panes'[q], server'[panes[q].item].text \union Lost_')
  <2>1. CASE q = p
    <3>1. panes'[q] = y
      BY <2>1 DEF Watched
    <3>2. Fine(panes[p], selected, server, Lost_')
      BY <1>6, <2>1
    <3> QED BY <1>1, <2>1, <3>1, <3>2
  <2>2. CASE q # p
    <3> DEFINE z == Watched(PutSelected(fresh))[q]
    <3>1. panes'[q] = z
      BY <2>2 DEF Watched
    <3>2. Undrawn(z, fresh) \subseteq Lost_'
      BY <2>2 DEF Lost_
    <3>3. /\ selected \in Maybe(Envelope) /\ Fine(panes[q], selected, server, Lost_')
          /\ panes[q].mounted => q = Len(panes)
      BY <1>6 DEF IInv, Held, Drawn
    <3>4. /\ Fine(z, PutSelected(fresh), server, Lost_')
          /\ z.mounted = panes[q].mounted /\ Gives(panes[q], z, {})
      BY <3>2, <3>3, WatchedFine
    <3> HIDE DEF z
    <3>5. Gives(panes[q], z, server'[panes[q].item].text \union Lost_')
      BY <3>4 DEF Gives
    <3> QED BY <1>1, <3>1, <3>4, <3>5
  <2> QED BY <2>1, <2>2
<1>7. Drawn' /\ NoneVanishes'
  BY <1>3, <1>5, <1>6, DrawnNext
<1> QED BY <1>2, <1>4, <1>7 DEF IInv
\* An answer of a save is a copy of the note it is for.
LEMMA AnswerFact ==
    ASSUME IInv, NEW p \in DOMAIN panes, NEW f \in panes[p].flight, NEW a \in f.answer
    PROVE  /\ f \in Flights /\ a.item \in Envelope
           /\ Copy(a.item, server, Lost_) /\ a.item.key = f.target
           /\ f.stage # "read" /\ a.status = "ok" => a.item.text = f.html
<1>1. panes[p] \in PaneType /\ FlightFine(f, server, Lost_)
  BY DEF IInv, Drawn, Fine
<1>2. f \in Flights
  BY <1>1, FlightFact
<1>3. f.answer \in Maybe(Answers)
  BY <1>2 DEF Flights
<1>4. a \in Answers
  BY <1>3, MaybeFact
<1>5. a.item \in Envelope
  BY <1>4 DEF Answers
<1> QED BY <1>1, <1>2, <1>5 DEF FlightFine

\* The pane on the screen is of the item that is open.
LEMMA TargetOpen ==
    ASSUME NEW lost, NEW x, Fine(x, selected, server, lost), x.mounted,
           selected \in Maybe(Envelope),
           NEW f \in x.flight, NEW fresh \in Envelope, fresh.key = f.target
    PROVE  PutSelected(fresh) = {fresh} /\ fresh.key = x.item
<1>1. f.target = x.item
  BY DEF Fine, PaneFine
<1>2. PICK e \in selected : e.key = x.item
  BY DEF Fine, Shows
<1> QED BY <1>1, <1>2, PutSelectedFact

LEMMA SavedInv ==
    ASSUME IInv, NEW p \in DOMAIN panes, Saved(p)
    PROVE  IInv'
<1> DEFINE x == panes[p]
           Early(f) == [x EXCEPT !.written = f.html,
                                 !.state = IF x.pending = {} THEN "saved" ELSE @]
<1> DEFINE Ended(f, a) ==
        /\ f.stage # "read" /\ a.status = "ok"
        /\ Put(a.item)
        /\ Ends(p, Early(f), PutSelected(a.item))
        /\ unseen' = unseen \union
             UNION {Undrawn(Watched(PutSelected(a.item))[q], a.item) : q \in DOMAIN panes \ {p}}
        /\ UNCHANGED <<server, version, reads, typedIn, foreign, failures, chosen>>
<1>0. PICK f \in x.flight : \E a \in f.answer : Ended(f, a)
  BY DEF Saved
<1>1. PICK a \in f.answer : Ended(f, a)
  BY <1>0
<1> DEFINE fresh == a.item
           next == PutSelected(fresh)
           z == Accepted(x, f)
           y == Landed(z, next)
<1>2. /\ f \in Flights /\ fresh \in Envelope
      /\ Copy(fresh, server, Lost_) /\ fresh.key = f.target /\ fresh.text = f.html
  BY <1>1, AnswerFact
<1>3. x \in PaneType /\ z \in PaneType
  <2>1. x \in PaneType
    BY DEF IInv, Drawn, Fine
  <2> QED BY <2>1, AcceptedFields
<1>4. [Early(f) EXCEPT !.flight = {}] = z
  <2> HIDE DEF x
  <2> QED BY <1>3 DEF Accepted, PaneType
<1>5. /\ panes' = [Watched(next) EXCEPT ![p] = y]
      /\ strayed' = strayed \union Stray(z, y, next)
  BY <1>1, <1>4 DEF Ends
<1>6. Lost_ \subseteq Lost_' /\ Stray(z, y, next) \subseteq Lost_'
  <2> HIDE DEF next, z, y
  <2> QED BY <1>1, <1>5 DEF Lost_
<1>7. next \in Maybe(Envelope) /\ \A c \in next : c = fresh \/ c \in selected
  <2> HIDE DEF fresh
  <2> QED BY <1>2, PutSelectedFact DEF IInv, Held
<1>8. ASSUME Fine(x, selected, server, Lost_')
      PROVE  /\ Fine(y, next, server, Lost_')
             /\ y.mounted = x.mounted
             /\ Gives(x, y, server[x.item].text \union Lost_')
  <2>1. /\ Copy(fresh, server, Lost_')
        /\ selected \in Maybe(Envelope) /\ \A c \in selected : Copy(c, server, Lost_')
    BY <1>2, <1>6, CopiesFact DEF Copy
  <2> HIDE DEF x, fresh
  <2>2. x.mounted => fresh \in next
    BY <1>2, <1>8, <2>1, TargetOpen
  <2> HIDE DEF next
  <2>3. \A c \in next : Copy(c, server, Lost_')
    BY <1>7, <2>1
  <2>4. Stray(Accepted(x, f), Landed(Accepted(x, f), next), next) \subseteq Lost_'
    BY <1>6
  <2> QED BY <1>2, <1>7, <1>8, <2>1, <2>2, <2>3, <2>4, AcceptedFine
<1>9. chosen' \subseteq Marks /\ strayed' \subseteq Marks
  <2>1. Stray(z, y, next) \subseteq Marks
    <3> HIDE DEF z, y, next
    <3> QED BY <1>3, <1>7, StrayMarks
  <2> QED BY <1>1, <1>5, <2>1 DEF IInv, Stored
<1> HIDE DEF y
<1> QED BY <1>1, <1>2, <1>5, <1>6, <1>8, <1>9, PutAndEnds

LEMMA LookedAgainInv ==
    ASSUME IInv, NEW p \in DOMAIN panes, LookedAgain(p)
    PROVE  IInv'
<1> DEFINE x == panes[p]
           On(f, fresh) == [f EXCEPT !.stage = "again", !.version = fresh.version, !.answer = {}]
           Back(f, fresh) == [GivesUp(x, "conflict", f.html) EXCEPT !.theirs = fresh.text]
<1> DEFINE Ended(f, a) ==
        /\ Put(a.item)
        /\ unseen' = unseen \union
             UNION {Undrawn(Watched(PutSelected(a.item))[q], a.item) : q \in DOMAIN panes \ {p}}
        /\ IF Untouched(f.base, a.item)
           THEN /\ panes' = [Watched(PutSelected(a.item)) EXCEPT ![p].flight = {On(f, a.item)}]
                /\ UNCHANGED strayed
           ELSE Ends(p, Back(f, a.item), PutSelected(a.item))
        /\ UNCHANGED <<server, version, reads, typedIn, foreign, failures, chosen>>
<1>0. PICK f \in x.flight : \E a \in f.answer : Ended(f, a)
  BY DEF LookedAgain
<1>1. PICK a \in f.answer : Ended(f, a)
  BY <1>0
<1> DEFINE fresh == a.item
           next == PutSelected(fresh)
<1>2. /\ f \in Flights /\ fresh \in Envelope
      /\ Copy(fresh, server, Lost_) /\ fresh.key = f.target
  BY <1>1, AnswerFact
<1>3. x \in PaneType /\ Fine(x, selected, server, Lost_)
  BY DEF IInv, Drawn, Fine
<1>4. next \in Maybe(Envelope) /\ \A c \in next : c = fresh \/ c \in selected
  <2> HIDE DEF fresh
  <2> QED BY <1>2, PutSelectedFact DEF IInv, Held
<1>5. unseen \subseteq unseen' /\ chosen' = chosen
  BY <1>1
<1>6. CASE Untouched(f.base, fresh)
  <2> DEFINE g == On(f, fresh)
             y == Routed(x, g)
  <2>1. Lost_ \subseteq Lost_' /\ chosen' \subseteq Marks /\ strayed' \subseteq Marks
    BY <1>1, <1>5, <1>6 DEF Lost_, IInv, Stored
  <2>2. panes' = [Watched(next) EXCEPT ![p] = y]
    <3>1. Watched(next)[p] = x
      <4> HIDE DEF next
      <4>1. \A was, is : Watch(x, was, is) = x
        BY DEF Watch
      <4> QED BY <4>1 DEF Watched
    <3>2. panes' = [Watched(next) EXCEPT ![p].flight = {g}]
      BY <1>1, <1>6
    <3> HIDE DEF next, g
    <3> QED BY <3>1, <3>2 DEF Routed
  <2>3. ASSUME Fine(x, selected, server, Lost_')
        PROVE  /\ Fine(y, next, server, Lost_')
               /\ y.mounted = x.mounted
               /\ Gives(x, y, {})
    <3>1. /\ Shows(x, selected, Lost_') /\ PaneFine(x) /\ FlightFine(f, server, Lost_')
      BY <2>3 DEF Fine
    <3>2. /\ fresh.version \in Nat /\ {} \in Maybe(Answers) /\ "again" \in {"patch", "read", "again"}
          /\ fresh.text = f.base.text
      BY <1>2, <1>6 DEF Envelope, Maybe, Untouched
    <3>3. Copy(fresh, server, Lost_') /\ selected \in Maybe(Envelope)
      BY <1>2, <2>1 DEF Copy, IInv, Held
    <3> HIDE DEF fresh, x
    <3>4. /\ g \in Flights /\ g.html = f.html /\ g.target = f.target
          /\ g.base = f.base /\ g.version = fresh.version /\ g.answer = {}
      BY <1>2, <3>2 DEF Flights
    <3> HIDE DEF g
    <3>5. FlightFine(g, server, Lost_')
      BY <1>2, <3>1, <3>2, <3>3, <3>4 DEF FlightFine, Copy
    <3>6. Shows(x, next, Lost_')
      <4>1. SUFFICES ASSUME x.mounted
                     PROVE  Shows(x, next, Lost_')
        BY DEF Shows
      <4>2. next = {fresh} /\ fresh.key = x.item
        BY <1>2, <2>3, <3>3, <4>1, TargetOpen
      <4>3. f.html \subseteq x.editor
        BY <3>1, <4>1 DEF PaneFine
      <4>4. fresh.text \subseteq x.editor \union x.theirs \union Lost_'
        BY <3>1, <3>2, <4>3 DEF FlightFine
      <4> HIDE DEF next
      <4> QED BY <1>2, <4>2, <4>4 DEF Shows
    <3> HIDE DEF next
    <3> QED BY <2>3, <3>4, <3>5, <3>6, RoutedFine
  <2> HIDE DEF y
  <2>4. Gives(x, y, {}) => Gives(x, y, server[x.item].text \union Lost_')
    BY DEF Gives
  <2> QED BY <1>1, <1>2, <2>1, <2>2, <2>3, <2>4, PutAndEnds
<1>7. CASE ~Untouched(f.base, fresh)
  <2> DEFINE z == GaveUp(x, f, "conflict", fresh.text)
             y == Landed(z, next)
  <2>1. [Back(f, fresh) EXCEPT !.flight = {}] = z
    <3> HIDE DEF x
    <3> QED BY <1>3 DEF GivesUp, GaveUp, PaneType
  <2>2. /\ panes' = [Watched(next) EXCEPT ![p] = y]
        /\ strayed' = strayed \union Stray(z, y, next)
    BY <1>1, <1>7, <2>1 DEF Ends
  <2>3. Lost_ \subseteq Lost_' /\ Stray(z, y, next) \subseteq Lost_'
    <3> HIDE DEF next, z, y
    <3> QED BY <1>5, <2>2 DEF Lost_
  <2>4. fresh.text \in SUBSET Marks /\ "conflict" \in States
    BY <1>2 DEF Envelope, States
  <2>5. ASSUME Fine(x, selected, server, Lost_')
        PROVE  /\ Fine(y, next, server, Lost_')
               /\ y.mounted = x.mounted
               /\ Gives(x, y, Lost_')
    <3>1. /\ Copy(fresh, server, Lost_')
          /\ selected \in Maybe(Envelope) /\ \A c \in selected : Copy(c, server, Lost_')
      BY <1>2, <2>3, CopiesFact DEF Copy
    <3> HIDE DEF x, fresh
    <3>2. x.mounted => next = {fresh} /\ fresh.key = x.item
      BY <1>2, <2>5, <3>1, TargetOpen
    <3> HIDE DEF next
    <3>3. \A c \in next : Copy(c, server, Lost_')
      BY <1>4, <3>1
    <3>4. x.mounted => \E e \in Envelope :
                /\ next = {e} /\ e.key = x.item
                /\ e.text \subseteq x.editor \union fresh.text \union Lost_'
      BY <1>2, <3>2
    <3>5. Stray(GaveUp(x, f, "conflict", fresh.text),
                Landed(GaveUp(x, f, "conflict", fresh.text), next), next) \subseteq Lost_'
      BY <2>3
    <3> QED BY <1>4, <2>4, <2>5, <3>3, <3>4, <3>5, GaveUpFine
  <2>6. chosen' \subseteq Marks /\ strayed' \subseteq Marks
    <3>1. z \in PaneType
      <4> HIDE DEF x, fresh
      <4> QED BY <1>3, <2>4, GaveUpFields DEF IsGivenUp
    <3>2. Stray(z, y, next) \subseteq Marks
      <4> HIDE DEF z, y, next
      <4> QED BY <1>4, <3>1, StrayMarks
    <3> QED BY <1>1, <2>2, <3>2 DEF IInv, Stored
  <2> HIDE DEF y
  <2>7. Gives(x, y, Lost_') => Gives(x, y, server[x.item].text \union Lost_')
    BY DEF Gives
  <2> QED BY <1>1, <1>2, <2>2, <2>3, <2>5, <2>6, <2>7, PutAndEnds
<1> QED BY <1>6, <1>7
-----------------------------------------------------------------------------
(* The feed. *)

\* The requests under way change, and what was announced is acted on.
LEMMA ReadsNext ==
    ASSUME IInv, reads' \subseteq ReadTypes, \A r \in reads' : ReadFine(r, server, Lost_),
           \A r \in reads' : r.kind = "list" => r.upto <= version,
           UNCHANGED <<server, version, rows, selected, known, panes, typedIn,
                       unseen, chosen, strayed>>,
           foreign' \in Nat, failures' \in Nat, events' \subseteq events
    PROVE  IInv'
<1>1. Lost_' = Lost_
  BY DEF Lost_
<1>2. server' \in [Notes -> Envelope] /\ Grown(server, server', Lost_, Lost_')
  BY <1>1, GrownSame DEF IInv, Stored
<1>3. Stored'
  BY DEF IInv, Stored
<1>4. Held'
  BY <1>1 DEF IInv, Held
<1>5. Drawn' /\ NoneVanishes'
  BY <1>2, PanesSame
<1> QED BY <1>3, <1>4, <1>5 DEF IInv

LEMMA CatchUpInv ==
    ASSUME IInv, CatchUp
    PROVE  IInv'
<1>1. PICK v \in events :
        /\ events' = {e \in events : e > v}
        /\ reads' = reads \union {[kind |-> "list", upto |-> v, answer |-> {server}]}
  BY DEF CatchUp
<1> DEFINE r == [kind |-> "list", upto |-> v, answer |-> {server}]
<1>2. UNCHANGED <<server, version, rows, selected, known, panes, typedIn, foreign, failures,
                  unseen, chosen, strayed>>
  BY DEF CatchUp, web, losses
<1>3. /\ server \in [Notes -> Envelope] /\ version \in Nat /\ known \in Nat
      /\ v \in (known + 1)..version
  BY DEF IInv, Stored
<1>4. v \in Nat /\ v <= version
  BY <1>3
<1>5. r \in [kind : {"list"}, upto : Nat, answer : {{s} : s \in [Notes -> Envelope]}]
  BY <1>3, <1>4
<1>6. Copies(server, server, Lost_)
  <2>1. \A n \in Notes : server[n].key = n /\ server[n].version \in Nat
    BY <1>3 DEF IInv, Stored, Envelope
  <2> QED BY <2>1 DEF Copies, Copy
<1>7. ReadFine(r, server, Lost_) /\ r.kind = "list" /\ r.upto = v
  BY <1>6 DEF ReadFine
<1>8. r \in ReadTypes
  BY <1>5 DEF ReadTypes
<1>9. reads' = reads \union {r}
  BY <1>1
<1> HIDE DEF r
<1>10. /\ reads' \subseteq ReadTypes /\ \A c \in reads' : ReadFine(c, server, Lost_)
       /\ \A c \in reads' : c.kind = "list" => c.upto <= version
  BY <1>4, <1>7, <1>8, <1>9 DEF IInv, Stored, Held
<1>11. events' \subseteq events /\ foreign' \in Nat /\ failures' \in Nat
  BY <1>1, <1>2 DEF IInv, Stored
<1> QED BY <1>2, <1>10, <1>11, ReadsNext

\* The item read again is as it is stored when the request is answered.
LEMMA ItemAnsweredInv ==
    ASSUME IInv, NEW r \in reads, ItemAnswered(r)
    PROVE  IInv'
<1>1. /\ r.kind = "item" /\ reads' = (reads \ {r}) \union {[r EXCEPT !.answer = {server[r.key]}]}
      /\ UNCHANGED <<server, version, rows, selected, known, panes, events, typedIn, foreign,
                     failures, unseen, chosen, strayed>>
  BY DEF ItemAnswered, web, losses
<1> DEFINE q == [r EXCEPT !.answer = {server[r.key]}]
<1>2. r \in [kind : {"item"}, key : Notes, answer : Maybe(Envelope)]
  BY <1>1 DEF IInv, Held, ReadTypes
<1>3. /\ server[r.key] \in Envelope /\ server[r.key].key = r.key
      /\ server[r.key].version \in Nat
  BY <1>2 DEF IInv, Stored, Envelope
<1>4. {server[r.key]} \in Maybe(Envelope) /\ Copy(server[r.key], server, Lost_)
  BY <1>3 DEF Maybe, Copy
<1>5. /\ q \in [kind : {"item"}, key : Notes, answer : Maybe(Envelope)]
      /\ q.kind = "item" /\ q.key = r.key /\ q.answer = {server[r.key]}
  BY <1>2, <1>4
<1> HIDE DEF q
<1>6. q \in ReadTypes /\ ReadFine(q, server, Lost_)
  BY <1>3, <1>4, <1>5 DEF ReadTypes, ReadFine
<1>7. reads' = (reads \ {r}) \union {q}
  BY <1>1 DEF q
<1>8. /\ reads' \subseteq ReadTypes /\ \A c \in reads' : ReadFine(c, server, Lost_)
      /\ \A c \in reads' : c.kind = "list" => c.upto <= version
  BY <1>5, <1>6, <1>7 DEF IInv, Stored, Held
<1>9. foreign' \in Nat /\ failures' \in Nat
  BY <1>1 DEF IInv, Stored
<1> QED BY <1>1, <1>8, <1>9, ReadsNext

LEMMA ReadFailedInv ==
    ASSUME IInv, NEW r \in reads, ReadFailed(r)
    PROVE  IInv'
<1>1. /\ reads' \subseteq reads
      /\ UNCHANGED <<server, version, rows, selected, known, panes, events, typedIn, foreign,
                     failures, unseen, chosen, strayed>>
  BY DEF ReadFailed, web, losses
<1>2. /\ reads' \subseteq ReadTypes /\ \A c \in reads' : ReadFine(c, server, Lost_)
      /\ \A c \in reads' : c.kind = "list" => c.upto <= version
      /\ foreign' \in Nat /\ failures' \in Nat
  BY <1>1 DEF IInv, Stored, Held
<1> QED BY <1>1, <1>2, ReadsNext

\* The rows are those of the answer; the open item is asked for.
LEMMA ListReadInv ==
    ASSUME IInv, NEW r \in reads, ListRead(r)
    PROVE  IInv'
<1>1. /\ r.kind = "list" /\ Seen(r.upto) /\ rows' = The(r.answer)
      /\ reads' = (reads \ {r}) \union
            {[kind |-> "item", key |-> x.key, answer |-> {}] : x \in selected}
      /\ UNCHANGED <<server, version, selected, panes, typedIn, foreign, failures,
                     unseen, chosen, strayed>>
  BY DEF ListRead, losses
<1>2. /\ r \in [kind : {"list"}, upto : Nat, answer : {{s} : s \in [Notes -> Envelope]}]
      /\ ReadFine(r, server, Lost_) /\ r.upto <= version
  BY <1>1 DEF IInv, Stored, Held, ReadTypes
<1>3. PICK s \in [Notes -> Envelope] : r.answer = {s}
  BY <1>2
<1>4. rows' = s /\ Copies(s, server, Lost_)
  <2>1. The({s}) = s
    BY TheFact
  <2> QED BY <1>1, <1>2, <1>3, <2>1 DEF ReadFine
<1>5. known' \in 0..version' /\ events' \subseteq (known' + 1)..version'
  BY <1>1, <1>2, SeenFact
<1>6. Lost_' = Lost_
  BY <1>1 DEF Lost_
<1>7. server' \in [Notes -> Envelope] /\ Grown(server, server', Lost_, Lost_')
  BY <1>1, <1>6, GrownSame DEF IInv, Stored
<1>8. ASSUME NEW c \in reads'
      PROVE  /\ c \in ReadTypes /\ ReadFine(c, server, Lost_)
             /\ c.kind = "list" => c.upto <= version
  <2>1. CASE c \in reads
    BY <2>1 DEF IInv, Stored, Held
  <2>2. ASSUME NEW x \in selected, c = [kind |-> "item", key |-> x.key, answer |-> {}]
        PROVE  /\ c \in ReadTypes /\ ReadFine(c, server, Lost_)
               /\ c.kind = "list" => c.upto <= version
    <3>1. x.key \in Notes
      BY OpenFact DEF IInv, Held
    <3>2. {} \in Maybe(Envelope)
      BY DEF Maybe
    <3>3. c.kind = "item" /\ c.answer = {}
      BY <2>2
    <3>4. c \in [kind : {"item"}, key : Notes, answer : Maybe(Envelope)]
      BY <2>2, <3>1, <3>2
    <3> QED BY <3>3, <3>4 DEF ReadTypes, ReadFine
  <2> QED BY <1>1, <2>1, <2>2
<1>9. Stored'
  BY <1>1, <1>5, <1>8 DEF IInv, Stored
<1>10. Held'
  BY <1>1, <1>4, <1>6, <1>8 DEF IInv, Held
<1>11. Drawn' /\ NoneVanishes'
  BY <1>1, <1>7, PanesSame
<1> QED BY <1>9, <1>10, <1>11 DEF IInv
-----------------------------------------------------------------------------
(* What is opened, closed and drawn again. *)

LEMMA RedrawNext ==
    ASSUME IInv, NEW fresh \in Envelope, UNCHANGED <<server, typedIn>>, Lost_ \subseteq Lost_',
           selected' = PutSelected(fresh), panes' = Watched(PutSelected(fresh)),
           Undrawn(panes'[Len(panes)], fresh) \subseteq Lost_'
    PROVE  Drawn' /\ NoneVanishes'
<1>1. server' \in [Notes -> Envelope] /\ Grown(server, server', Lost_, Lost_')
  BY GrownSame DEF IInv, Stored
<1>2. panes' = [q \in DOMAIN panes |-> panes'[q]]
  BY DEF Watched
<1>3. ASSUME NEW q \in DOMAIN panes, Fine(panes[q], selected, server', Lost_')
      PROVE  /\ Fine(panes'[q], selected', server', Lost_')
             /\ panes'[q].mounted => panes[q].mounted
             /\ Gives(panes[q], panes'[q], server'[panes[q].item].text \union Lost_')
  <2> DEFINE z == Watched(PutSelected(fresh))[q]
  <2>1. /\ selected \in Maybe(Envelope) /\ Fine(panes[q], selected, server, Lost_')
        /\ panes[q].mounted => q = Len(panes)
    BY <1>3 DEF IInv, Held, Drawn
  <2>2. panes[q].mounted => Undrawn(z, fresh) \subseteq Lost_'
    BY <2>1
  <2>3. /\ Fine(z, PutSelected(fresh), server, Lost_')
        /\ z.mounted = panes[q].mounted /\ Gives(panes[q], z, {})
    BY <2>1, <2>2, WatchedFine
  <2>4. panes'[q] = z
    OBVIOUS
  <2> HIDE DEF z
  <2>5. Gives(panes[q], z, server'[panes[q].item].text \union Lost_')
    BY <2>3 DEF Gives
  <2> QED BY <2>3, <2>4, <2>5
<1> QED BY <1>1, <1>2, <1>3, DrawnNext

LEMMA ItemReadInv ==
    ASSUME IInv, NEW r \in reads, ItemRead(r)
    PROVE  IInv'
<1>1. r.kind = "item" /\ r.answer # {}
  BY DEF ItemRead
<1>2. /\ r \in [kind : {"item"}, key : Notes, answer : Maybe(Envelope)]
      /\ ReadFine(r, server, Lost_)
  BY <1>1 DEF IInv, Held, ReadTypes
<1>3. r.answer \in Maybe(Envelope)
  BY <1>2
<1>4. PICK fresh \in r.answer : TRUE
  BY <1>1
<1>5. /\ The(r.answer) = fresh /\ fresh \in Envelope
      /\ fresh.key = r.key /\ Copy(fresh, server, Lost_)
  BY <1>1, <1>2, <1>3, <1>4, OpenFact DEF ReadFine
<1>6. /\ reads' = reads \ {r}
      /\ UNCHANGED <<server, version, typedIn, foreign, failures, chosen, strayed>>
  BY DEF ItemRead
<1>7. CASE {x.key : x \in selected} = {r.key}
  <2>1. PutSelected(fresh) = {fresh}
    BY <1>5, <1>7 DEF PutSelected
  <2>2. /\ Put(fresh) /\ panes' = Watched(PutSelected(fresh))
        /\ unseen' = unseen \union Undrawn(panes'[Len(panes)], fresh)
    BY <1>5, <1>7, <2>1 DEF ItemRead
  <2>3. Lost_ \subseteq Lost_' /\ Undrawn(panes'[Len(panes)], fresh) \subseteq Lost_'
    BY <1>6, <2>2 DEF Lost_
  <2>4. /\ known' \in 0..version' /\ events' \subseteq (known' + 1)..version'
        /\ rows' \in [Notes -> Envelope] /\ Copies(rows', server', Lost_')
        /\ selected' = PutSelected(fresh)
        /\ selected' \in Maybe(Envelope) /\ \A e \in selected' : Copy(e, server', Lost_')
    BY <1>5, <1>6, <2>2, <2>3, PutFact
  <2>5. unseen' \subseteq Marks
    <3>1. fresh.text \subseteq Marks
      BY <1>5 DEF Envelope
    <3> QED BY <2>2, <3>1 DEF IInv, Stored, Undrawn
  <2>6. Stored'
    BY <1>6, <2>4, <2>5 DEF IInv, Stored
  <2>7. Held'
    <3>1. server \in [Notes -> Envelope] /\ Grown(server, server', Lost_, Lost_')
      BY <1>6, <2>3, GrownSame DEF IInv, Stored
    <3>2. server' \in [Notes -> Envelope] /\ reads \subseteq ReadTypes
      BY <2>6 DEF IInv, Held, Stored
    <3>3. \A c \in reads : ReadFine(c, server', Lost_')
      BY <3>1, <3>2, ReadKept DEF IInv, Held
    <3> QED BY <1>6, <2>4, <3>2, <3>3 DEF Held
  <2>8. Drawn' /\ NoneVanishes'
    BY <1>5, <1>6, <2>2, <2>3, <2>4, RedrawNext
  <2> QED BY <2>6, <2>7, <2>8 DEF IInv
<1>8. CASE {x.key : x \in selected} # {r.key}
  <2>1. UNCHANGED <<rows, selected, known, panes, events, unseen>>
    BY <1>8 DEF ItemRead, web
  <2>2. /\ reads' \subseteq ReadTypes /\ \A c \in reads' : ReadFine(c, server, Lost_)
        /\ \A c \in reads' : c.kind = "list" => c.upto <= version
        /\ foreign' \in Nat /\ failures' \in Nat
    BY <1>6 DEF IInv, Stored, Held
  <2> QED BY <1>6, <2>1, <2>2, ReadsNext
<1> QED BY <1>7, <1>8

\* A pane that is off the screen does not mind what is open.
LEMMA OffScreen ==
    ASSUME NEW srv, NEW lost, NEW x, NEW open, Fine(x, open, srv, lost), ~x.mounted, NEW next
    PROVE  Fine(x, next, srv, lost)
BY DEF Fine, Shows

LEMMA CloseInv ==
    ASSUME IInv, Close
    PROVE  IInv'
<1> DEFINE p == Len(panes)
           x == panes[p]
           left == Flush(Unmounted(x), {})
<1>1. /\ selected' = {} /\ panes' = [panes EXCEPT ![p] = left]
      /\ strayed' = strayed \union Stray(x, left, {})
      /\ UNCHANGED <<server, version, rows, known, events, reads, typedIn, foreign, failures,
                     unseen, chosen>>
  BY DEF Close, feed
<1>2. p \in DOMAIN panes /\ x \in PaneType
  BY DEF IInv, Drawn, Fine
<1> HIDE DEF left
<1>3. Lost_ \subseteq Lost_' /\ Stray(x, left, {}) \subseteq Lost_'
  BY <1>1 DEF Lost_
<1>4. {} \in Maybe(Envelope)
  BY DEF Maybe
<1>5. Stored'
  <2>1. Stray(x, left, {}) \subseteq Marks
    BY <1>2, <1>4, StrayMarks
  <2> QED BY <1>1, <2>1 DEF IInv, Stored
<1>6. /\ server' \in [Notes -> Envelope] /\ server \in [Notes -> Envelope]
      /\ Grown(server, server', Lost_, Lost_')
  BY <1>1, <1>3, GrownSame DEF IInv, Stored
<1>7. Held'
  <2>1. rows' \in [Notes -> Envelope] /\ Copies(rows', server', Lost_')
    BY <1>1, <1>6, CopiesKept DEF IInv, Held
  <2>2. reads' \subseteq ReadTypes /\ \A c \in reads' : ReadFine(c, server', Lost_')
    BY <1>1, <1>6, ReadKept DEF IInv, Held
  <2> QED BY <1>1, <1>4, <2>1, <2>2 DEF Held
<1>8. panes' = [q \in DOMAIN panes |-> panes'[q]]
  BY <1>1 DEF IInv, Drawn
<1>9. ASSUME NEW q \in DOMAIN panes, Fine(panes[q], selected, server', Lost_')
      PROVE  /\ Fine(panes'[q], selected', server', Lost_')
             /\ panes'[q].mounted => panes[q].mounted
             /\ Gives(panes[q], panes'[q], server'[panes[q].item].text \union Lost_')
  <2>1. CASE q = p
    <3>1. panes'[q] = left
      BY <1>1, <2>1
    <3>2. Fine(x, selected, server, Lost_')
      BY <1>1, <1>9, <2>1
    <3>3. /\ Fine(left, {}, server, Lost_') /\ left.item = x.item /\ ~left.mounted
          /\ \A k : Holds(x, k) => Keeps(left, k, x.item) \/ k \in Lost_'
      <4> HIDE DEF x
      <4>1. Stray(x, Flush(Unmounted(x), {}), {}) \subseteq Lost_'
        BY <1>3 DEF left
      <4> QED BY <1>4, <3>2, <4>1, LeaveFine DEF left
    <3>4. Gives(x, left, server'[x.item].text \union Lost_')
      BY <3>3 DEF Gives, Keeps, Holds
    <3> QED BY <1>1, <2>1, <3>1, <3>3, <3>4
  <2>2. CASE q # p
    <3>1. panes'[q] = panes[q] /\ ~panes[q].mounted
      BY <1>1, <2>2 DEF IInv, Drawn
    <3> QED BY <1>9, <3>1, GivesSame, OffScreen
  <2> QED BY <2>1, <2>2
<1>10. Drawn' /\ NoneVanishes'
  <2>1. typedIn' = typedIn
    BY <1>1
  <2> QED BY <1>6, <1>8, <1>9, <2>1, DrawnNext
<1> QED BY <1>5, <1>7, <1>10 DEF IInv
\* The panes drawn so far have been left, and one more is drawn.
LEMMA NewPaneNext ==
    ASSUME IInv, NEW e \in Envelope, UNCHANGED <<server, typedIn>>, Lost_ \subseteq Lost_',
           selected' = {e},
           NEW olds \in Seq(PaneType), Len(olds) = Len(panes),
           panes' = Append(olds, NewPane(e)),
           \A q \in DOMAIN panes : /\ Fine(olds[q], {e}, server, Lost_') /\ ~olds[q].mounted
                                   /\ Gives(panes[q], olds[q], Lost_')
    PROVE  Drawn' /\ NoneVanishes'
<1>1. Fine(NewPane(e), {e}, server, Lost_') /\ NewPane(e).mounted
  BY NewPaneFine
<1>2. NewPane(e) \in PaneType
  BY <1>1 DEF Fine
<1>3. /\ panes \in Seq(PaneType) /\ DOMAIN olds = DOMAIN panes
      /\ Len(panes) \in Nat /\ DOMAIN panes = 1..Len(panes)
  BY DEF IInv, Drawn
<1>4. /\ panes' \in Seq(PaneType) /\ Len(panes') = Len(panes) + 1
      /\ \A q \in DOMAIN panes : panes'[q] = olds[q]
      /\ panes'[Len(panes) + 1] = NewPane(e)
  BY <1>2, <1>3, SequenceFacts
<1>5. DOMAIN panes' = DOMAIN panes \union {Len(panes')} /\ Len(panes') \in DOMAIN panes'
  <2>1. DOMAIN panes' = 1..(Len(panes) + 1)
    BY <1>4
  <2> QED BY <1>3, <1>4, <2>1
<1>6. \A q \in DOMAIN panes' : /\ Fine(panes'[q], selected', server', Lost_')
                               /\ panes'[q].mounted => q = Len(panes')
  BY <1>1, <1>4, <1>5
<1>7. Drawn'
  BY <1>4, <1>5, <1>6 DEF Drawn
<1>8. Grown(server, server', Lost_, Lost_')
  BY GrownSame
<1>9. \A q \in DOMAIN panes :
        Gives(panes[q], panes'[q], server'[panes[q].item].text \union Lost_')
  BY <1>4 DEF Gives
<1>10. \A k \in DOMAIN typedIn, n \in Notes : typedIn[k] = n => k \in Lost_' \/ Somewhere(k, n)'
  BY <1>5, <1>8, <1>9, SomewhereNext
<1>11. NoneVanishes'
  <2>1. \A k \in DOMAIN typedIn' : typedIn'[k] \in Notes
    BY DEF IInv, Stored
  <2> QED BY <1>10, <2>1 DEF NoneVanishes, Lost_
<1> QED BY <1>7, <1>11

LEMMA WatchTheirs ==
    ASSUME NEW x \in PaneType, NEW was, NEW is
    PROVE  Watch(x, was, is).theirs = x.theirs
<1>1. Watch(x, was, is) = x \/ Watch(x, was, is) = Redrawn(x, is.text)
  BY DEF Watch, Redrawn
<1>2. Redrawn(x, is.text).theirs = x.theirs
  BY DEF PaneType, Redrawn
<1> QED BY <1>1, <1>2

LEMMA OpenInv ==
    ASSUME IInv, NEW n \in Notes, Open(n)
    PROVE  IInv'
<1> DEFINE p == Len(panes)
           x == panes[p]
           e == rows[n]
           left == Flush(Unmounted(x), {e})
<1>1. /\ selected' = {e}
      /\ UNCHANGED <<server, version, rows, known, events, reads, typedIn, foreign, failures,
                     chosen>>
  BY DEF Open, feed
<1>2. /\ e \in Envelope /\ e.key = n /\ Copy(e, server, Lost_) /\ e.text \subseteq Marks
  BY DEF IInv, Held, Copies, Envelope
<1>3. /\ p \in DOMAIN panes /\ x \in PaneType /\ panes \in Seq(PaneType)
      /\ Fine(x, selected, server, Lost_)
  BY DEF IInv, Drawn
<1>4. ASSUME Lost_ \subseteq Lost_', unseen' \subseteq Marks, strayed' \subseteq Marks
      PROVE  Stored' /\ Held'
  <2>1. Stored'
    BY <1>1, <1>4 DEF IInv, Stored
  <2>2. /\ server \in [Notes -> Envelope] /\ server' \in [Notes -> Envelope]
        /\ Grown(server, server', Lost_, Lost_')
    BY <1>1, <1>4, GrownSame DEF IInv, Stored
  <2>3. rows' \in [Notes -> Envelope] /\ Copies(rows', server', Lost_')
    BY <1>1, <2>2, CopiesKept DEF IInv, Held
  <2>4. \A r \in reads : ReadFine(r, server', Lost_')
    BY <2>2, ReadKept DEF IInv, Held
  <2>5. {e} \in Maybe(Envelope) /\ Copy(e, server', Lost_')
    BY <1>2, <2>2, CopyKept DEF Maybe
  <2> HIDE DEF e
  <2> QED BY <1>1, <2>1, <2>3, <2>4, <2>5 DEF IInv, Held
<1>5. CASE IsMounted(p) /\ x.item = n
  <2>1. /\ panes' = Watched({e}) /\ strayed' = strayed
        /\ unseen' = unseen \union (e.text \ (panes'[p].editor \union x.theirs))
    BY <1>1, <1>5 DEF Open
  <2>2. PutSelected(e) = {e}
    <3>1. PICK c \in selected : c.key = n
      BY <1>3, <1>5 DEF Fine, Shows, IsMounted
    <3> HIDE DEF e
    <3> QED BY <1>2, <3>1, PutSelectedFact DEF IInv, Held
  <2> HIDE DEF e
  <2>3. panes'[p].theirs = x.theirs
    <3>1. panes'[p] = x \/ panes'[p] = Watch(x, The(selected), The({e}))
      BY <1>3, <2>1 DEF Watched
    <3> QED BY <1>3, <3>1, WatchTheirs
  <2>4. Undrawn(panes'[p], e) \subseteq unseen'
    BY <2>1, <2>3 DEF Undrawn
  <2>5. Lost_ \subseteq Lost_' /\ Undrawn(panes'[p], e) \subseteq Lost_'
    BY <1>1, <2>1, <2>4 DEF Lost_
  <2>6. unseen' \subseteq Marks /\ strayed' \subseteq Marks
    BY <1>2, <2>1 DEF IInv, Stored
  <2>7. Drawn' /\ NoneVanishes'
    BY <1>1, <1>2, <2>1, <2>2, <2>5, RedrawNext
  <2> QED BY <1>4, <2>5, <2>6, <2>7 DEF IInv
<1>6. CASE ~(IsMounted(p) /\ x.item = n)
  <2>1. unseen' = unseen
    BY <1>6 DEF Open
  <2>2. CASE IsMounted(p)
    <3> DEFINE olds == [panes EXCEPT ![p] = left]
    <3>1. /\ panes' = Append(olds, NewPane(e))
          /\ strayed' = strayed \union Stray(x, left, {e})
      BY <1>1, <1>6, <2>2 DEF Open
    <3>2. Lost_ \subseteq Lost_' /\ Stray(x, left, {e}) \subseteq Lost_'
      BY <1>1, <2>1, <3>1 DEF Lost_
    <3>3. {e} \in Maybe(Envelope) /\ \A c \in {e} : Copy(c, server, Lost_')
      BY <1>2, <3>2 DEF Maybe, Copy
    <3>4. unseen' \subseteq Marks /\ strayed' \subseteq Marks
      <4>1. Stray(x, left, {e}) \subseteq Marks
        BY <1>3, <3>3, StrayMarks
      <4> QED BY <2>1, <3>1, <4>1 DEF IInv, Stored
    <3>5. /\ server \in [Notes -> Envelope] /\ Grown(server, server, Lost_, Lost_')
      BY <3>2 DEF IInv, Stored, Grown
    <3>6. \A q \in DOMAIN panes : Fine(panes[q], selected, server, Lost_')
      BY <3>5, FineKept DEF IInv, Drawn
    <3>7. /\ Fine(left, {e}, server, Lost_') /\ left.item = x.item /\ ~left.mounted
          /\ Gives(x, left, Lost_')
      <4>1. Fine(x, selected, server, Lost_')
        BY <1>3, <3>6
      <4> DEFINE next == {e}
      <4>2. /\ next \in Maybe(Envelope) /\ \A c \in next : Copy(c, server, Lost_')
            /\ Stray(x, Flush(Unmounted(x), next), next) \subseteq Lost_'
            /\ left = Flush(Unmounted(x), next)
        BY <3>2, <3>3
      <4> HIDE DEF x, next, left
      <4>3. /\ Fine(left, next, server, Lost_') /\ left.item = x.item /\ ~left.mounted
            /\ \A k : Holds(x, k) => Keeps(left, k, x.item) \/ k \in Lost_'
        BY <4>1, <4>2, LeaveFine
      <4> QED BY <4>3 DEF Gives, Keeps, Holds, next
    <3> HIDE DEF left, e
    <3>8. olds \in Seq(PaneType) /\ Len(olds) = Len(panes)
      <4>1. left \in PaneType
        BY <3>7 DEF Fine
      <4> QED BY <1>3, <4>1, SequenceFacts
    <3>9. ASSUME NEW q \in DOMAIN panes
          PROVE  /\ Fine(olds[q], {e}, server, Lost_') /\ ~olds[q].mounted
                 /\ Gives(panes[q], olds[q], Lost_')
      <4>1. CASE q = p
        BY <3>7, <4>1
      <4>2. CASE q # p
        <5>1. olds[q] = panes[q] /\ ~panes[q].mounted
          BY <4>2 DEF IInv, Drawn
        <5> QED BY <3>6, <5>1, GivesSame, OffScreen
      <4> QED BY <4>1, <4>2
    <3> HIDE DEF olds
    <3>10. Drawn' /\ NoneVanishes'
      BY <1>1, <1>2, <3>1, <3>2, <3>8, <3>9, NewPaneNext
    <3> QED BY <1>4, <3>2, <3>4, <3>10 DEF IInv
  <2>3. CASE ~IsMounted(p)
    <3>1. panes' = Append(panes, NewPane(e)) /\ strayed' = strayed
      BY <1>1, <1>6, <2>3 DEF Open
    <3>2. Lost_' = Lost_ /\ unseen' \subseteq Marks /\ strayed' \subseteq Marks
      BY <1>1, <2>1, <3>1 DEF Lost_, IInv, Stored
    <3> HIDE DEF e
    <3>3. ASSUME NEW q \in DOMAIN panes
          PROVE  /\ Fine(panes[q], {e}, server, Lost_') /\ ~panes[q].mounted
                 /\ Gives(panes[q], panes[q], Lost_')
      <4>1. ~panes[q].mounted
        BY <2>3 DEF IInv, Drawn, IsMounted
      <4>2. Fine(panes[q], selected, server, Lost_)
        BY DEF IInv, Drawn
      <4> QED BY <3>2, <4>1, <4>2, GivesSame, OffScreen
    <3>4. Drawn' /\ NoneVanishes'
      BY <1>1, <1>2, <1>3, <3>1, <3>2, <3>3, NewPaneNext
    <3> QED BY <1>4, <3>2, <3>4 DEF IInv
  <2> QED BY <2>2, <2>3
<1> QED BY <1>5, <1>6

-----------------------------------------------------------------------------
(* The theorems. *)

LEMMA InitInv == Init => IInv
<1> SUFFICES ASSUME Init
             PROVE  IInv
  OBVIOUS
<1> DEFINE e == rows[Opened]
<1>1. /\ server = [n \in Notes |-> [key |-> n, version |-> 1, text |-> {}]]
      /\ version = 1 /\ rows = server /\ selected = {e} /\ known = 1
      /\ events = {} /\ reads = {} /\ panes = <<NewPane(e)>> /\ typedIn = <<>>
      /\ foreign = 0 /\ failures = 0
      /\ unseen = {} /\ chosen = {} /\ strayed = {}
  BY DEF Init
<1>2. \A n \in Notes : [key |-> n, version |-> 1, text |-> {}] \in Envelope
  BY DEF Envelope
<1>3. /\ server \in [Notes -> Envelope]
      /\ \A n \in Notes : server[n].key = n /\ server[n].version = 1
  BY <1>1, <1>2
<1>4. Copies(server, server, Lost_)
  BY <1>3 DEF Copies, Copy
<1>5. e \in Envelope /\ Copy(e, server, Lost_)
  BY <1>1, <1>3, <1>4, NoteEditingAssumption DEF Copies
<1>6. Stored
  BY <1>1, <1>3, NoteEditingAssumption DEF Stored
<1> HIDE DEF e
<1>7. Held
  <2>1. {e} \in Maybe(Envelope)
    BY <1>5 DEF Maybe
  <2> QED BY <1>1, <1>3, <1>4, <1>5, <2>1 DEF Held
<1>8. Drawn
  <2>1. Fine(NewPane(e), {e}, server, Lost_)
    BY <1>5, NewPaneFine
  <2>2. NewPane(e) \in PaneType
    BY <2>1 DEF Fine
  <2>3. panes \in Seq(PaneType) /\ Len(panes) = 1 /\ DOMAIN panes = {1} /\ panes[1] = NewPane(e)
    BY <1>1, <2>2
  <2> QED BY <1>1, <2>1, <2>3 DEF Drawn
<1>9. NoneVanishes
  BY <1>1 DEF NoneVanishes
<1> QED BY <1>6, <1>7, <1>8, <1>9 DEF IInv

LEMMA NextInv == IInv /\ [Next]_vars => IInv'
<1> SUFFICES ASSUME IInv, [Next]_vars
             PROVE  IInv'
  OBVIOUS
<1>1. CASE UNCHANGED vars
  <2>1. UNCHANGED <<server, version, rows, selected, known, panes, events, reads, typedIn,
                    foreign, failures, unseen, chosen, strayed>>
    BY <1>1 DEF vars, web, feed, losses
  <2>2. Lost_' = Lost_ /\ NoneVanishes'
    BY <2>1 DEF Lost_, IInv, NoneVanishes, Somewhere
  <2>3. Stored' /\ Held'
    BY <2>1, <2>2 DEF IInv, Stored, Held
  <2>4. Drawn'
    BY <2>1, <2>2 DEF IInv, Drawn
  <2> QED BY <2>2, <2>3, <2>4 DEF IInv
<1>2. ASSUME NEW n \in Notes, Open(n)
      PROVE  IInv'
  BY <1>2, OpenInv
<1>3. CASE Close
  BY <1>3, CloseInv
<1>4. CASE Type
  BY <1>4, TypeInv
<1>5. CASE HiddenOrRetried \/ TimerOut
  BY <1>5, FlushNowInv DEF HiddenOrRetried, TimerOut
<1>6. CASE KeepMine
  BY <1>6, KeepMineInv
<1>7. CASE KeepTheirs
  BY <1>7, KeepTheirsInv
<1>8. ASSUME NEW p \in DOMAIN panes, Serve(p) \/ Saved(p) \/ Refused(p) \/ LookedAgain(p)
                                       \/ Failed(p) \/ Lost(p)
      PROVE  IInv'
  BY <1>8, ServeInv, SavedInv, RefusedInv, LookedAgainInv, FailedInv, LostInv
<1>9. ASSUME NEW n \in Notes, ForeignWrite(n, {}) \/ ForeignWrite(n, {MaxTyped + foreign + 1})
      PROVE  IInv'
  BY <1>9, ForeignWriteInv
<1>10. CASE CatchUp
  BY <1>10, CatchUpInv
<1>11. ASSUME NEW r \in reads, ItemAnswered(r) \/ ListRead(r) \/ ItemRead(r) \/ ReadFailed(r)
       PROVE  IInv'
  BY <1>11, ItemAnsweredInv, ListReadInv, ItemReadInv, ReadFailedInv
<1> QED BY <1>1, <1>2, <1>3, <1>4, <1>5, <1>6, <1>7, <1>8, <1>9, <1>10, <1>11
        DEF Next, Reader, Save, Others, Feed, Faults

\* The invariant that every theorem below rests on.
THEOREM Invariance == Spec => []IInv
<1>1. Init => IInv
  BY InitInv
<1>2. IInv /\ [Next]_vars => IInv'
  BY NextInv
<1> QED BY <1>1, <1>2, PTL DEF Spec

\* Every variable has its type: what a pane sends, what is on its way and what
\* the page holds are what the code takes them for (`NotePane`, `library`).
THEOREM TypeCorrect == Spec => []TypeOK
<1>1. IInv => TypeOK
  <2> SUFFICES ASSUME IInv
               PROVE  TypeOK
    OBVIOUS
  <2>1. /\ server \in [Notes -> Envelope] /\ version \in Nat
        /\ rows \in [Notes -> Envelope]
        /\ events \subseteq (known + 1)..version
        /\ foreign \in Nat /\ failures \in Nat
        /\ {unseen, chosen, strayed} \subseteq SUBSET Marks
    BY DEF IInv, Stored, Held
  <2>2. IsMaybe(selected, Envelope)
    BY MaybeFact DEF IInv, Held
  <2>3. known \in Nat
    BY DEF IInv, Stored
  <2>4. \A r \in reads : r.kind \in {"list", "item"}
    BY DEF IInv, Held, ReadTypes
  <2>5. ASSUME NEW p \in DOMAIN panes
        PROVE  /\ panes[p].item \in Notes
               /\ panes[p].state \in States
               /\ IsMaybe(panes[p].pending, SUBSET Marks)
               /\ {panes[p].editor, panes[p].written} \subseteq SUBSET Marks
               /\ panes[p].mounted =>
                    p = Len(panes) /\ {x.key : x \in selected} = {panes[p].item}
               /\ \A f \in panes[p].flight : f.stage \in {"patch", "read", "again"}
    <3>1. /\ panes[p] \in PaneType /\ Shows(panes[p], selected, Lost_)
          /\ panes[p].mounted => p = Len(panes)
      BY DEF IInv, Drawn, Fine
    <3>2. /\ panes[p].item \in Notes /\ panes[p].state \in States
          /\ panes[p].editor \in SUBSET Marks /\ panes[p].written \in SUBSET Marks
          /\ panes[p].pending \in Maybe(SUBSET Marks)
      BY <3>1 DEF PaneType
    <3>3. IsMaybe(panes[p].pending, SUBSET Marks)
      BY <3>2, MaybeFact
    <3>4. \A f \in panes[p].flight : f.stage \in {"patch", "read", "again"}
      <4>1. \A f \in panes[p].flight : f \in Flights
        BY <3>1, FlightFact
      <4> QED BY <4>1 DEF Flights
    <3>5. panes[p].mounted => {x.key : x \in selected} = {panes[p].item}
      BY <3>1 DEF Shows
    <3> QED BY <3>1, <3>2, <3>3, <3>4, <3>5
  <2>6. typedIn \in UNION {[1..k -> Notes] : k \in 0..MaxTyped}
    <3>1. /\ typedIn \in [1..Len(typedIn) -> Notes]
          /\ Len(typedIn) \in Nat /\ Len(typedIn) <= MaxTyped
      BY DEF IInv, Stored
    <3>2. Len(typedIn) \in 0..MaxTyped
      BY <3>1, NoteEditingAssumption
    <3> QED BY <3>1, <3>2
  <2> QED BY <2>1, <2>2, <2>3, <2>4, <2>5, <2>6 DEF TypeOK
<1> QED BY <1>1, Invariance, PTL

\* What is typed is stored, or seen as a draft, or on its way to its note,
\* whatever order the saves, their failures, the refusals and the changes of the
\* selection come in (NotePane.vue, `flush`), or else lost in one of three ways,
\* or given up: its pane was left and its save failed or was refused.
THEOREM TypedIsKept == Spec => []DraftKept
<1>1. IInv => DraftKept
  <2> SUFFICES ASSUME IInv, NEW k \in DOMAIN typedIn, k \notin Lost_, ~Kept(k, typedIn[k])
               PROVE  \E p \in DOMAIN panes :
                         panes[p].item = typedIn[k] /\ GivenUp(p) /\ k \in UNION panes[p].pending
    BY DEF DraftKept, Lost_
  <2>1. Somewhere(k, typedIn[k])
    BY DEF IInv, NoneVanishes
  <2>2. PICK p \in DOMAIN panes :
            /\ panes[p].item = typedIn[k] /\ k \in UNION panes[p].pending
            /\ ~panes[p].mounted /\ ~panes[p].waiting /\ panes[p].state \in {"failed", "conflict"}
    BY <2>1 DEF Somewhere, Kept
  <2>3. panes[p].flight = {}
    BY <2>2 DEF IInv, Drawn, Fine, PaneFine
  <2> QED BY <2>2, <2>3 DEF GivenUp
<1> QED BY <1>1, Invariance, PTL

\* A pane with nothing of its own shows the note as the page holds it (the
\* watcher of NotePane.vue, against `put` and the panes that are saving).
THEOREM IdleIsHeld == Spec => []IdleShowsHeld
<1>1. IInv => IdleShowsHeld
  <2> SUFFICES ASSUME IInv, NEW p \in DOMAIN panes, panes[p].mounted,
                      panes[p].pending = {}, panes[p].flight = {}
               PROVE  panes[p].editor = The(selected).text
    BY DEF IdleShowsHeld, IsMounted
  <2>1. Shows(panes[p], selected, Lost_)
    BY DEF IInv, Drawn, Fine
  <2>2. PICK e \in selected : panes[p].editor = e.text
    BY <2>1 DEF Shows
  <2>3. The(selected) = e
    BY OpenFact DEF IInv, Held
  <2> QED BY <2>2, <2>3
<1> QED BY <1>1, Invariance, PTL

\* No save takes out of a note what the reader had not seen or decided against:
\* the version it is sent with (`saveItem`) vouches for the text it is based on,
\* and the draft takes that in.
THEOREM SavesReplaceKnowingly == Spec => ReplacesKnowingly
<1> DEFINE Knowingly == \A n \in Notes :
        server[n].text \ server'[n].text \subseteq unseen \union chosen \union strayed
<1>1. IInv /\ [Next]_vars => Knowingly
  <2> SUFFICES ASSUME IInv, [Next]_vars
               PROVE  Knowingly
    OBVIOUS
  <2>1. ASSUME NEW p \in DOMAIN panes, Serve(p)
        PROVE  Knowingly
    <3>1. Grown(server, server', Lost_, Lost_')
      BY <2>1, ServeInv
    <3>2. Lost_' = unseen \union chosen \union strayed
      BY <2>1 DEF Serve, losses, Lost_
    <3> QED BY <3>1, <3>2 DEF Grown
  <2>2. ASSUME NEW n \in Notes, NEW marks, ForeignWrite(n, marks)
        PROVE  Knowingly
    <3>1. server' = [server EXCEPT ![n].version = version + 1, ![n].text = @ \union marks]
      BY <2>2 DEF ForeignWrite
    <3>2. /\ server \in [Notes -> Envelope]
      BY DEF IInv, Stored
    <3>3. \A c \in Notes : server[c].text \subseteq server'[c].text
      BY <3>1, <3>2 DEF Envelope
    <3> QED BY <3>3
  <2>3. CASE server' = server
    BY <2>3
  <2> QED BY <2>1, <2>2, <2>3
          DEF Next, Reader, Save, Others, Feed, Faults, Open, Close, Type, TimerOut,
              HiddenOrRetried, FlushNow, KeepMine, KeepTheirs, Saved, Refused, LookedAgain,
              Failed, Lost, CatchUp, ItemAnswered, ListRead, ItemRead, ReadFailed, vars
<1> QED BY <1>1, Invariance, PTL DEF Spec, ReplacesKnowingly
\* Flushing and landing over an open item never say "Saved.".
LEMMA FlushState ==
    ASSUME NEW x \in PaneType, NEW open \in Maybe(Envelope), NEW e \in open
    PROVE  Flush(x, open).state \in {x.state, "saving"}
<1>1. x.timer \in BOOLEAN /\ x.waiting \in BOOLEAN
  BY DEF PaneType
<1>2. CASE x.flight = {} /\ x.pending # {} /\ x.state # "conflict"
  <2>1. PICK d \in x.pending : TRUE
    BY <1>2
  <2>2. Flush(x, open) = Send(x, open) /\ Send(x, open).state = "saving"
    BY <1>2, <2>1, SendOpen DEF Flush
  <2> QED BY <2>2
<1>3. CASE ~(x.flight = {} /\ x.pending # {} /\ x.state # "conflict")
  <2>1. Flush(x, open) \in {Quiet(x, FALSE, TRUE), Quiet(x, FALSE, x.waiting)}
    BY <1>3 DEF Flush, Quiet, PaneType
  <2>2. Quiet(x, FALSE, TRUE).state = x.state /\ Quiet(x, FALSE, x.waiting).state = x.state
    BY <1>1, QuietFields
  <2> QED BY <2>1, <2>2
<1> QED BY <1>2, <1>3

LEMMA LandedState ==
    ASSUME NEW x \in PaneType, NEW open \in Maybe(Envelope), NEW e \in open
    PROVE  /\ Landed(x, open).state \in {x.state, "saving"}
           /\ Landed(x, open).editor = x.editor
<1>1. x.timer \in BOOLEAN
  BY DEF PaneType
<1>2. ASSUME NEW d \in x.pending, Landed(x, open) = Send(x, open)
      PROVE  /\ Landed(x, open).state \in {x.state, "saving"}
             /\ Landed(x, open).editor = x.editor
  <2>1. Send(x, open).state = "saving" /\ Send(x, open).editor = x.editor
    BY SendOpen
  <2> QED BY <1>2, <2>1
<1>3. CASE Landed(x, open) = Quiet(x, x.timer, FALSE)
  <2>1. /\ Quiet(x, x.timer, FALSE).state = x.state
        /\ Quiet(x, x.timer, FALSE).editor = x.editor
    BY <1>1, QuietFields
  <2> QED BY <1>3, <2>1
<1>4. \/ x.pending # {} /\ Landed(x, open) = Send(x, open)
      \/ Landed(x, open) = Quiet(x, x.timer, FALSE)
  BY DEF Landed, Quiet, PaneType
<1> QED BY <1>2, <1>3, <1>4

LEMMA WatchedState ==
    ASSUME panes \in Seq(PaneType), NEW open, NEW q \in DOMAIN panes
    PROVE  Watched(open)[q].state = panes[q].state
<1> DEFINE x == panes[q]
<1>1. x \in PaneType
  OBVIOUS
<1>2. \/ Watched(open)[q] = x
      \/ Watched(open)[q] = Redrawn(x, The(open).text)
  BY DEF Watched, Watch, Redrawn
<1> HIDE DEF x
<1>3. \A text : Redrawn(x, text).state = x.state
  BY <1>1 DEF PaneType, Redrawn
<1> QED BY <1>2, <1>3 DEF x

\* Pane q comes to say "Saved." in this step.
Says(q) == panes'[q].mounted /\ panes[q].state # "saved" /\ panes'[q].state = "saved"

LEMMA SaysOnScreen ==
    ASSUME IInv, NEW q \in DOMAIN panes, NEW y,
           panes' = [panes EXCEPT ![Len(panes)] = y],
           y.state = "saved" => ~y.mounted \/ panes[Len(panes)].state = "saved"
    PROVE  ~Says(q)
<1>1. CASE q = Len(panes)
  BY <1>1 DEF Says, IInv, Drawn
<1>2. CASE q # Len(panes)
  BY <1>2 DEF Says, IInv, Drawn
<1> QED BY <1>1, <1>2

\* Nothing but the end of a save says "Saved." on the screen.
LEMMA ReaderSays ==
    ASSUME IInv, Reader \/ TimerOut, NEW q \in DOMAIN panes
    PROVE  ~Says(q)
<1> DEFINE p == Len(panes)
           x == panes[p]
<1>1. /\ p \in DOMAIN panes /\ x \in PaneType /\ panes \in Seq(PaneType)
      /\ Fine(x, selected, server, Lost_) /\ selected \in Maybe(Envelope)
      /\ DOMAIN panes = 1..Len(panes) /\ Len(panes) \in Nat
  BY DEF IInv, Drawn, Held, Fine
<1>2. IsMounted(p) => \E e \in selected : TRUE
  BY <1>1 DEF Fine, Shows, IsMounted
<1>3. ASSUME NEW n \in Notes, Open(n)
      PROVE  ~Says(q)
  <2>1. CASE panes' = Watched(selected')
    <3>1. panes'[q].state = panes[q].state
      BY <1>1, <2>1, WatchedState
    <3> QED BY <3>1 DEF Says
  <2>2. CASE panes' # Watched(selected')
    <3> DEFINE left == Flush(Unmounted(x), {rows[n]})
               next == NewPane(rows[n])
    <3>1. rows[n] \in Envelope
      BY DEF IInv, Held
    <3>2. left \in PaneType /\ ~left.mounted
      <4> DEFINE e == rows[n]
      <4>1. Unmounted(x) \in PaneType /\ ~Unmounted(x).mounted
        BY <1>1, UnmountedFields
      <4>2. {e} \in Maybe(Envelope) /\ e \in {e}
        BY <3>1 DEF Maybe
      <4> HIDE DEF x, e
      <4>3. ASSUME NEW u \in PaneType, ~u.mounted
            PROVE  Flush(u, {e}) \in PaneType /\ ~Flush(u, {e}).mounted
        <5>1. u.waiting \in BOOLEAN
          BY <4>3 DEF PaneType
        <5>2. CASE u.flight = {} /\ u.pending # {} /\ u.state # "conflict"
          <6>1. PICK d \in u.pending : TRUE
            BY <5>2
          <6>2. Send(u, {e}) \in PaneType /\ Send(u, {e}).mounted = u.mounted
            BY <4>2, <6>1, SendOpen
          <6>3. Flush(u, {e}) = Send(u, {e})
            BY <5>2 DEF Flush
          <6> QED BY <4>3, <6>2, <6>3
        <5>3. CASE ~(u.flight = {} /\ u.pending # {} /\ u.state # "conflict")
          <6>1. Flush(u, {e}) \in {Quiet(u, FALSE, TRUE), Quiet(u, FALSE, u.waiting)}
            BY <5>3 DEF Flush, Quiet, PaneType
          <6>2. /\ Quiet(u, FALSE, TRUE) \in PaneType
                /\ Quiet(u, FALSE, TRUE).mounted = u.mounted
                /\ Quiet(u, FALSE, u.waiting) \in PaneType
                /\ Quiet(u, FALSE, u.waiting).mounted = u.mounted
            BY <5>1, QuietFields
          <6> QED BY <4>3, <6>1, <6>2
        <5> QED BY <5>2, <5>3
      <4> QED BY <4>1, <4>3 DEF e
    <3>3. next \in PaneType
      <4>1. Fine(next, {rows[n]}, server, Lost_)
        BY <3>1, NewPaneFine
      <4> QED BY <4>1 DEF Fine
    <3>4. \/ panes' = Append([panes EXCEPT ![p] = left], next)
          \/ panes' = Append(panes, next) /\ ~IsMounted(p)
      BY <1>3, <2>2 DEF Open
    <3> HIDE DEF left, next
    <3>5. CASE panes' = Append([panes EXCEPT ![p] = left], next)
      <4>1. [panes EXCEPT ![p] = left] \in Seq(PaneType)
        BY <1>1, <3>2
      <4>2. panes'[q] = [panes EXCEPT ![p] = left][q]
        BY <1>1, <3>3, <3>5, <4>1
      <4>3. CASE q = p
        BY <3>2, <4>2, <4>3 DEF Says
      <4>4. CASE q # p
        BY <4>2, <4>4 DEF Says
      <4> QED BY <4>3, <4>4
    <3>6. CASE panes' = Append(panes, next)
      BY <1>1, <3>3, <3>6 DEF Says
    <3> QED BY <3>4, <3>5, <3>6
  <2> QED BY <2>1, <2>2
<1>4. CASE Close
  <2> DEFINE left == Flush(Unmounted(x), {})
  <2>1. panes' = [panes EXCEPT ![p] = left]
    BY <1>4 DEF Close
  <2>2. ~left.mounted
    <3>1. {} \in Maybe(Envelope) /\ \A e \in {} : Copy(e, server, Lost_ \union Stray(x, left, {}))
      BY DEF Maybe
    <3>2. Fine(x, selected, server, Lost_ \union Stray(x, left, {}))
      <4>1. /\ server \in [Notes -> Envelope]
            /\ Grown(server, server, Lost_, Lost_ \union Stray(x, left, {}))
        BY DEF IInv, Stored, Grown
      <4> HIDE DEF x, left
      <4> QED BY <1>1, <4>1, FineKept
    <3> HIDE DEF x
    <3> QED BY <3>1, <3>2, LeaveFine
  <2> HIDE DEF left
  <2> QED BY <2>1, <2>2, SaysOnScreen
<1>5. CASE Type
  <2> DEFINE y == Extended(x, Len(typedIn) + 1)
  <2>1. panes' = [panes EXCEPT ![p] = y]
    BY <1>5 DEF Type, Extended
  <2>2. y.state # "saved" \/ x.state = "saved"
    <3> HIDE DEF x
    <3> QED BY <1>1 DEF Extended, PaneType
  <2> HIDE DEF y
  <2> QED BY <2>1, <2>2, SaysOnScreen
<1>6. CASE TimerOut \/ HiddenOrRetried
  <2> DEFINE y == Flush(Retried(x), selected)
  <2>1. panes' = [panes EXCEPT ![p] = y]
    BY <1>6 DEF TimerOut, HiddenOrRetried, FlushNow, Retried
  <2>2. Retried(x) \in PaneType /\ Retried(x).state \in {x.state, "idle"}
    <3> HIDE DEF x
    <3> QED BY <1>1 DEF Retried, PaneType, States
  <2>3. y.state \in {Retried(x).state, "saving"}
    BY <1>1, <1>2, <1>6, <2>2, FlushState DEF TimerOut, HiddenOrRetried
  <2> HIDE DEF y
  <2>4. y.state = "saved" => x.state = "saved"
    BY <2>2, <2>3
  <2> QED BY <2>1, <2>4, SaysOnScreen
<1>7. CASE KeepMine
  <2> DEFINE y == Flush(Mine(x), selected)
  <2>1. panes' = [panes EXCEPT ![p] = y]
    BY <1>7 DEF KeepMine, Mine
  <2>2. Mine(x) \in PaneType /\ Mine(x).state = "idle"
    <3> HIDE DEF x
    <3> QED BY <1>1 DEF Mine, PaneType, States
  <2>3. y.state \in {Mine(x).state, "saving"}
    BY <1>1, <1>2, <1>7, <2>2, FlushState DEF KeepMine
  <2> HIDE DEF y
  <2> QED BY <2>1, <2>2, <2>3, SaysOnScreen
<1>8. CASE KeepTheirs
  <2> DEFINE y == Theirs(x, The(selected).text)
  <2>1. panes' = [panes EXCEPT ![p] = y]
    BY <1>8 DEF KeepTheirs, Theirs
  <2>2. y.state = "idle"
    <3> HIDE DEF x
    <3> QED BY <1>1 DEF Theirs, PaneType
  <2> HIDE DEF y
  <2> QED BY <2>1, <2>2, SaysOnScreen
<1> QED BY <1>3, <1>4, <1>5, <1>6, <1>7, <1>8 DEF Reader
LEMMA LandedMounted ==
    ASSUME NEW x \in PaneType, NEW open \in Maybe(Envelope)
    PROVE  Landed(x, open).mounted = x.mounted
<1>1. x.timer \in BOOLEAN
  BY DEF PaneType
<1>2. ASSUME NEW d \in x.pending, Landed(x, open) = Send(x, open)
      PROVE  Landed(x, open).mounted = x.mounted
  <2>1. CASE open = {}
    BY <1>2, <2>1, SendNothing
  <2>2. ASSUME NEW e \in open
        PROVE  Landed(x, open).mounted = x.mounted
    BY <1>2, <2>2, SendOpen
  <2> QED BY <2>1, <2>2
<1>3. CASE Landed(x, open) = Quiet(x, x.timer, FALSE)
  <2>1. Quiet(x, x.timer, FALSE).mounted = x.mounted
    BY <1>1, QuietFields
  <2> QED BY <1>3, <2>1
<1>4. \/ x.pending # {} /\ Landed(x, open) = Send(x, open)
      \/ Landed(x, open) = Quiet(x, x.timer, FALSE)
  BY DEF Landed, Quiet, PaneType
<1> QED BY <1>2, <1>3, <1>4

\* A save that ended says so of its own pane only, and only when it said so as
\* it landed.
LEMMA EndsSays ==
    ASSUME IInv, NEW p \in DOMAIN panes, NEW z \in PaneType, NEW open \in Maybe(Envelope),
           z.mounted = panes[p].mounted,
           panes[p].mounted => open # {},
           panes' = [Watched(open) EXCEPT ![p] = Landed(z, open)],
           NEW q \in DOMAIN panes, Says(q)
    PROVE  q = p /\ panes[p].mounted /\ z.state = "saved" /\ panes'[p].editor = z.editor
<1> DEFINE y == Landed(z, open)
<1>1. panes \in Seq(PaneType) /\ DOMAIN Watched(open) = DOMAIN panes
  BY DEF IInv, Drawn, Watched
<1>2. q = p
  <2>1. SUFFICES ASSUME q # p
                 PROVE  FALSE
    OBVIOUS
  <2>2. panes'[q] = Watched(open)[q]
    BY <1>1, <2>1
  <2>3. panes'[q].state = panes[q].state
    BY <1>1, <2>2, WatchedState
  <2> QED BY <2>3 DEF Says
<1>3. panes'[p] = y
  BY <1>1
<1>4. y.mounted = z.mounted
  BY LandedMounted
<1>5. panes[p].mounted
  BY <1>2, <1>3, <1>4 DEF Says
<1>6. PICK e \in open : TRUE
  BY <1>5
<1>7. y.state \in {z.state, "saving"} /\ y.editor = z.editor
  BY <1>6, LandedState
<1> HIDE DEF y
<1> QED BY <1>2, <1>3, <1>5, <1>7 DEF Says

\* The pane on the screen has its item open, whatever is put.
LEMMA MountedOpen ==
    ASSUME IInv, NEW p \in DOMAIN panes, panes[p].mounted, NEW fresh \in Envelope
    PROVE  selected # {} /\ PutSelected(fresh) # {}
<1>1. Shows(panes[p], selected, Lost_)
  BY DEF IInv, Drawn, Fine
<1>2. selected # {}
  BY <1>1 DEF Shows
<1> QED BY <1>2 DEF PutSelected

LEMMA GivesUpSays ==
    ASSUME IInv, NEW p \in DOMAIN panes, NEW f \in panes[p].flight,
           NEW state \in {"failed", "conflict"}, NEW theirs \in SUBSET Marks,
           NEW open \in Maybe(Envelope), panes[p].mounted => open # {},
           panes' = [Watched(open) EXCEPT ![p] =
                        Landed(GaveUp(panes[p], f, state, theirs), open)],
           NEW q \in DOMAIN panes
    PROVE  ~Says(q)
<1> DEFINE z == GaveUp(panes[p], f, state, theirs)
<1>1. panes[p] \in PaneType /\ state \in States
  BY DEF IInv, Drawn, Fine, States
<1>2. z \in PaneType /\ z.mounted = panes[p].mounted /\ z.state = state
  <2> DEFINE x == panes[p]
  <2>1. x \in PaneType /\ f \in x.flight /\ state \in States /\ theirs \in SUBSET Marks
    BY <1>1
  <2> HIDE DEF x
  <2>2. GaveUp(x, f, state, theirs) \in PaneType
    BY <2>1, GaveUpFields DEF IsGivenUp
  <2>3. /\ GaveUp(x, f, state, theirs).mounted = x.mounted
        /\ GaveUp(x, f, state, theirs).state = state
    BY <2>1 DEF GaveUp, PaneType
  <2> QED BY <2>2, <2>3 DEF x
<1> HIDE DEF z
<1>3. panes' = [Watched(open) EXCEPT ![p] = Landed(z, open)]
  BY DEF z
<1> QED BY <1>2, <1>3, EndsSays

LEMMA SaveSays ==
    ASSUME IInv, NEW p \in DOMAIN panes, NEW q \in DOMAIN panes,
           Serve(p) \/ Refused(p) \/ LookedAgain(p) \/ Failed(p) \/ Lost(p)
    PROVE  ~Says(q)
<1> DEFINE x == panes[p]
<1>1. /\ x \in PaneType /\ Fine(x, selected, server, Lost_)
      /\ selected \in Maybe(Envelope) /\ panes \in Seq(PaneType)
  BY DEF IInv, Drawn, Held, Fine
<1>2. ASSUME NEW flight, panes' = [panes EXCEPT ![p].flight = flight]
      PROVE  ~Says(q)
  <2>1. panes'[q].state = panes[q].state
    BY <1>1, <1>2 DEF PaneType
  <2> QED BY <2>1 DEF Says
<1>3. CASE Serve(p)
  BY <1>2, <1>3 DEF Serve
<1>4. CASE Refused(p)
  BY <1>2, <1>4 DEF Refused
<1>5. ASSUME NEW f \in x.flight, Ends(p, GivesUp(x, "failed", f.html), selected)
      PROVE  ~Says(q)
  <2> DEFINE z == GaveUp(x, f, "failed", x.theirs)
  <2>1. [GivesUp(x, "failed", f.html) EXCEPT !.flight = {}] = z
    <3> HIDE DEF x
    <3> QED BY <1>1 DEF GivesUp, GaveUp, PaneType
  <2>2. panes' = [Watched(selected) EXCEPT ![p] = Landed(z, selected)]
    BY <1>5, <2>1 DEF Ends
  <2>3. x.theirs \in SUBSET Marks
    BY <1>1 DEF PaneType
  <2>4. x.mounted => selected # {}
    BY <1>1 DEF Fine, Shows
  <2> QED BY <1>1, <1>5, <2>2, <2>3, <2>4, GivesUpSays
<1>6. CASE Failed(p) \/ Lost(p)
  BY <1>5, <1>6 DEF Failed, Lost
<1>7. CASE LookedAgain(p)
  <2> DEFINE Looked(f, a) ==
        IF Untouched(f.base, a.item)
        THEN \E flight : panes' = [Watched(PutSelected(a.item)) EXCEPT ![p].flight = flight]
        ELSE Ends(p, [GivesUp(x, "conflict", f.html) EXCEPT !.theirs = a.item.text],
                  PutSelected(a.item))
  <2>0. PICK f \in x.flight : \E a \in f.answer : Looked(f, a)
    BY <1>7 DEF LookedAgain
  <2>1. PICK a \in f.answer : Looked(f, a)
    BY <2>0
  <2> DEFINE fresh == a.item
             open == PutSelected(fresh)
  <2>2. fresh \in Envelope /\ fresh.text \in SUBSET Marks
    <3>1. fresh \in Envelope
      BY AnswerFact
    <3> HIDE DEF fresh
    <3> QED BY <3>1 DEF Envelope
  <2>3. open \in Maybe(Envelope) /\ (x.mounted => open # {})
    BY <1>1, <2>2, PutSelectedFact, MountedOpen
  <2>4. CASE Untouched(f.base, fresh)
    <3>1. PICK flight : panes' = [Watched(open) EXCEPT ![p].flight = flight]
      BY <2>1, <2>4
    <3> HIDE DEF open
    <3>2. Watched(open)[p] = x
      <4>1. \A was, is : Watch(x, was, is) = x
        BY <1>1, <2>0 DEF Watch
      <4> QED BY <4>1 DEF Watched
    <3>3. DOMAIN Watched(open) = DOMAIN panes
      BY DEF Watched
    <3>4. CASE q = p
      <4>1. panes'[p] = [x EXCEPT !.flight = flight]
        BY <3>1, <3>2, <3>3
      <4>2. [x EXCEPT !.flight = flight].state = x.state
        BY <1>1 DEF PaneType
      <4> QED BY <3>4, <4>1, <4>2 DEF Says
    <3>5. CASE q # p
      <4>1. panes'[q] = Watched(open)[q]
        BY <3>1, <3>3, <3>5
      <4>2. panes'[q].state = panes[q].state
        BY <1>1, <4>1, WatchedState
      <4> QED BY <4>2 DEF Says
    <3> QED BY <3>4, <3>5
  <2>5. CASE ~Untouched(f.base, fresh)
    <3> DEFINE z == GaveUp(x, f, "conflict", fresh.text)
    <3>1. [[GivesUp(x, "conflict", f.html) EXCEPT !.theirs = fresh.text] EXCEPT !.flight = {}] = z
      <4> HIDE DEF x, fresh
      <4> QED BY <1>1 DEF GivesUp, GaveUp, PaneType
    <3>2. panes' = [Watched(open) EXCEPT ![p] = Landed(z, open)]
      BY <2>1, <2>5, <3>1 DEF Ends
    <3> HIDE DEF fresh, open
    <3> QED BY <2>0, <2>2, <2>3, <3>2, GivesUpSays
  <2> QED BY <2>4, <2>5
<1> QED BY <1>3, <1>4, <1>6, <1>7

\* The marks of a note that comes to say "Saved." are stored, or lost knowingly:
\* the text shown is the one its save carried, and the answer brings it back.
LEMMA SavedSays ==
    ASSUME IInv, NEW p \in DOMAIN panes, NEW q \in DOMAIN panes, Saved(p), Says(q)
    PROVE  panes'[q].editor \subseteq server'[panes[q].item].text \union Lost_
<1> DEFINE x == panes[p]
           Early(f) == [x EXCEPT !.written = f.html,
                                 !.state = IF x.pending = {} THEN "saved" ELSE @]
           Ended(f, a) == /\ f.stage # "read" /\ a.status = "ok"
                          /\ Ends(p, Early(f), PutSelected(a.item))
<1>0. PICK f \in x.flight : \E a \in f.answer : Ended(f, a)
  BY DEF Saved
<1>1. PICK a \in f.answer : Ended(f, a)
  BY <1>0
<1> DEFINE fresh == a.item
           open == PutSelected(fresh)
           z == Accepted(x, f)
<1>2. /\ fresh \in Envelope /\ Copy(fresh, server, Lost_)
      /\ fresh.key = f.target /\ fresh.text = f.html
  BY <1>1, AnswerFact
<1>3. x \in PaneType /\ PaneFine(x) /\ selected \in Maybe(Envelope)
  BY DEF IInv, Drawn, Held, Fine
<1>4. open \in Maybe(Envelope) /\ (x.mounted => open # {})
  BY <1>2, <1>3, PutSelectedFact, MountedOpen
<1>5. [Early(f) EXCEPT !.flight = {}] = z
  <2> HIDE DEF x
  <2> QED BY <1>3 DEF Accepted, PaneType
<1>6. panes' = [Watched(open) EXCEPT ![p] = Landed(z, open)]
  BY <1>1, <1>5 DEF Ends
<1>7. /\ z \in PaneType /\ z.mounted = x.mounted /\ z.editor = x.editor
      /\ z.state = (IF x.pending = {} THEN "saved" ELSE x.state)
  BY <1>3, AcceptedFields
<1> HIDE DEF z, open
<1>8. q = p /\ x.mounted /\ z.state = "saved" /\ panes'[p].editor = z.editor
  BY <1>4, <1>6, <1>7, EndsSays
<1>9. x.state = "saving"
  BY <1>0, <1>3 DEF PaneFine
<1>10. x.pending = {}
  BY <1>7, <1>8, <1>9
<1>11. x.editor = f.html /\ f.target = x.item
  BY <1>3, <1>8, <1>10 DEF PaneFine
<1>12. server' = server
  BY DEF Saved
<1> HIDE DEF x, fresh
<1>13. f.html \subseteq server[f.target].text \union Lost_
  BY <1>2 DEF Copy
<1> QED BY <1>7, <1>8, <1>11, <1>12, <1>13 DEF x

\* A note that says "Saved." is (the `saved` state of `flush`): against typing,
\* refusals and saves that overlap, whoever else writes, but for what the reader
\* decided against in a pane of it that is saving still.
THEOREM SavedMeansStored == Spec => SavedIsStored
<1> DEFINE Stored_(q) ==
        Says(q) => panes'[q].editor \intersect Typed \subseteq
                    server'[panes[q].item].text \union unseen \union chosen \union strayed
<1>1. ASSUME IInv, [Next]_vars, NEW q \in DOMAIN panes
      PROVE  Stored_(q)
  <2>1. CASE Reader \/ TimerOut
    BY <1>1, <2>1, ReaderSays
  <2>2. ASSUME NEW p \in DOMAIN panes,
               Serve(p) \/ Refused(p) \/ LookedAgain(p) \/ Failed(p) \/ Lost(p)
        PROVE  Stored_(q)
    BY <1>1, <2>2, SaveSays
  <2>3. ASSUME NEW p \in DOMAIN panes, Saved(p), Says(q)
        PROVE  panes'[q].editor \intersect Typed \subseteq
                  server'[panes[q].item].text \union unseen \union chosen \union strayed
    <3>1. panes'[q].editor \subseteq server'[panes[q].item].text \union Lost_
      BY <1>1, <2>3, SavedSays
    <3> QED BY <3>1 DEF Lost_
  <2>4. ASSUME NEW r \in reads, ItemRead(r)
        PROVE  Stored_(q)
    <3>1. panes' = panes \/ \E open : panes' = Watched(open)
      BY <2>4 DEF ItemRead, web
    <3>2. panes'[q].state = panes[q].state
      BY <1>1, <3>1, WatchedState DEF IInv, Drawn
    <3> QED BY <3>2 DEF Says
  <2>5. CASE panes' = panes
    BY <2>5 DEF Says
  <2> QED BY <1>1, <2>1, <2>2, <2>3, <2>4, <2>5
          DEF Next, Save, Others, Feed, Faults, ForeignWrite, CatchUp, ItemAnswered, ListRead,
              ReadFailed, vars, web
<1>2. ASSUME IInv, [Next]_vars
      PROVE  \A p \in DOMAIN panes :
                panes'[p].mounted /\ panes[p].state # "saved" /\ panes'[p].state = "saved"
                    => panes'[p].editor \intersect Typed \subseteq
                        server'[panes[p].item].text \union unseen \union chosen \union strayed
  BY <1>1, <1>2 DEF Says
<1> QED BY <1>2, Invariance, PTL DEF Spec, SavedIsStored
=============================================================================
