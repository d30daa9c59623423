----------------------------- MODULE NoteEditing -----------------------------
(***************************************************************************)
(* A note written in the browser while somebody else writes it too.        *)
(*                                                                         *)
(* The parts are the note pane (NotePane.vue), which saves a draft some    *)
(* time after the last keystroke and on the way out; the view that tells   *)
(* it how to save (LibraryView.vue); the store's save, which sends the     *)
(* version the page holds and looks again when it is refused              *)
(* (stores/library.ts); the live feed, which reads again what others       *)
(* changed; and the server, which compares the version (webitems.py).      *)
(*                                                                         *)
(* A text is the set of the marks somebody put in it, so that what a save  *)
(* loses can be told.  A value that may be missing is a set of one or none.*)
(***************************************************************************)
EXTENDS Integers, Sequences, FiniteSets, FiniteSetsExt

CONSTANTS
    Notes,        \* the notes listed on the page
    Opened,       \* the one the reader opened first
    MaxTyped,     \* bound: marks the reader types
    MaxForeign,   \* bound: writes by other clients
    MaxPanes,     \* bound: panes drawn, the last of which stays
    MaxReads,     \* bound: catching-up requests under way at a time
    MaxFailures   \* bound: saves that fail

ASSUME NoteEditingAssumption ==
    /\ Opened \in Notes
    /\ {MaxTyped, MaxForeign, MaxPanes, MaxReads, MaxFailures} \subseteq Nat

VARIABLES
    server,    \* the notes as stored
    version,   \* the library's version
    rows,      \* `items`: the notes as the page lists them
    selected,  \* `selected`: the open item
    known,     \* `knownVersion`
    events,    \* versions announced by the feed and neither read nor acted on
    reads,     \* the requests of `catchUp` under way
    panes,     \* every NotePane drawn so far; only the last can be mounted
    typedIn,   \* history: the note each mark was typed in
    foreign,   \* history: writes by others
    failures,  \* history: failed saves
    unseen,    \* history: marks the page took in without drawing them
    chosen,    \* history: marks the reader decided against
    strayed    \* history: marks of drafts sent elsewhere, or written over by them

web == <<rows, selected, known, panes>>
feed == <<events, reads>>
losses == <<unseen, chosen, strayed>>
vars == <<server, version, web, feed, typedIn, foreign, failures, losses>>

Typed == 1..MaxTyped
Marks == 1..(MaxTyped + MaxForeign)
Envelope == [key: Notes, version: Nat, text: SUBSET Marks]
States == {"idle", "saving", "saved", "failed", "conflict"}

IsMaybe(option, S) == option \subseteq S /\ Cardinality(option) <= 1
The(option) == CHOOSE x \in option : TRUE

-----------------------------------------------------------------------------
(* The pane *)

NewPane(item) ==
    [item |-> item.key, mounted |-> TRUE, editor |-> item.text, pending |-> {},
     written |-> item.text, timer |-> FALSE, flight |-> {}, waiting |-> FALSE,
     state |-> "idle", theirs |-> {}]

IsMounted(p) == p = Len(panes) /\ panes[p].mounted

\* `saveSelected`: the save is of whatever item is open when it is called.
\* With none open it answers at once, having sent nothing.
Send(pane, open) ==
    LET html == The(pane.pending)
        sent == [pane EXCEPT !.pending = {}, !.timer = FALSE, !.waiting = FALSE]
    IN  IF open = {}
        THEN [sent EXCEPT !.state = "saved", !.written = html]
        ELSE [sent EXCEPT !.state = "saving",
                          !.flight = {[html |-> html, target |-> The(open).key,
                                       base |-> The(open),
                                       version |-> The(open).version,
                                       stage |-> "patch", answer |-> {}]}]

\* `flush`
Flush(pane, open) ==
    IF pane.flight # {} THEN [pane EXCEPT !.timer = FALSE, !.waiting = TRUE]
    ELSE IF pane.pending = {} \/ pane.state = "conflict"
         THEN [pane EXCEPT !.timer = FALSE]
         ELSE Send(pane, open)

\* Mutant of Unmounted: the pane stays on the screen.
StillMounted(pane) == [pane EXCEPT !.editor = {}, !.theirs = {}]

\* A pane that was left draws nothing; its draft and its saves go on.
Unmounted(pane) == [pane EXCEPT !.mounted = FALSE, !.editor = {}, !.theirs = {}]

\* A pane that was left saves over what is open by then: the marks of the draft
\* that its note does not get, and those of the text it buries.
Stray(before, after, open) ==
    IF before.pending # {} /\ after.pending = {} /\ ~after.mounted
    THEN LET draft == The(before.pending)
         IN  (IF {x.key : x \in open} = {before.item} THEN {} ELSE draft)
                \union UNION {x.text \ draft : x \in open}
    ELSE {}

\* Mutant of Watch: what the pane shows is always taken for written.
WatchWritten(pane, was, is) ==
    IF pane.pending # {} \/ pane.flight # {} \/ pane.state = "conflict" THEN pane
    ELSE [pane EXCEPT !.written = is.text]

\* The watcher of the open item's note: drawn again only when nothing typed
\* here is waiting.
Watch(pane, was, is) ==
    IF \/ was.text = is.text \/ is.text = pane.written
       \/ pane.pending # {} \/ pane.flight # {} \/ pane.state = "conflict"
    THEN pane
    ELSE [pane EXCEPT !.written = is.text, !.editor = is.text]

\* What the page comes to hold of the note and the pane does not show.
Undrawn(pane, is) ==
    IF pane.mounted /\ pane.item = is.key THEN is.text \ (pane.editor \union pane.theirs) ELSE {}

-----------------------------------------------------------------------------
(* The store *)

\* `put`: every copy of an item the page holds is replaced, whatever it held.
PutSelected(fresh) ==
    IF {x.key : x \in selected} = {fresh.key} THEN {fresh} ELSE selected

\* The panes once the open item has become `open`.
Watched(open) ==
    [p \in DOMAIN panes |->
        IF IsMounted(p) /\ {x.key : x \in open} = {panes[p].item}
        THEN Watch(panes[p], The(selected), The(open)) ELSE panes[p]]

\* `seen`.  `follow` passes over the announcement of a version the page has
\* read, when it comes and when its timer runs out: such a one is dropped here.
Seen(v) ==
    /\ known' = Max({known, v})
    /\ events' = {e \in events : e > known'}

Put(fresh) ==
    /\ Seen(fresh.version)
    /\ rows' = [rows EXCEPT ![fresh.key] = fresh]
    /\ selected' = PutSelected(fresh)

\* Mutant of Untouched: the second save goes out whatever was read.
Whatever(before, after) == TRUE

\* `untouched`, for an edit of the note
Untouched(before, after) == before.text = after.text

TypeOK ==
    /\ server \in [Notes -> Envelope]
    /\ version \in Nat
    /\ rows \in [Notes -> Envelope]
    /\ IsMaybe(selected, Envelope)
    /\ known \in Nat
    /\ events \subseteq (known + 1)..version
    /\ \A r \in reads : r.kind \in {"list", "item"}
    /\ \A p \in DOMAIN panes :
        /\ panes[p].item \in Notes
        /\ panes[p].state \in States
        /\ IsMaybe(panes[p].pending, SUBSET Marks)
        /\ {panes[p].editor, panes[p].written} \subseteq SUBSET Marks
        /\ panes[p].mounted => p = Len(panes) /\ {x.key : x \in selected} = {panes[p].item}
        /\ \A f \in panes[p].flight : f.stage \in {"patch", "read", "again"}
    /\ typedIn \in UNION {[1..k -> Notes] : k \in 0..MaxTyped}
    /\ foreign \in Nat /\ failures \in Nat
    /\ {unseen, chosen, strayed} \subseteq SUBSET Marks

Init ==
    /\ server = [n \in Notes |-> [key |-> n, version |-> 1, text |-> {}]]
    /\ version = 1
    /\ rows = server
    /\ selected = {rows[Opened]} /\ known = 1
    /\ events = {} /\ reads = {}
    /\ panes = <<NewPane(rows[Opened])>> /\ typedIn = <<>>
    /\ foreign = 0 /\ failures = 0
    /\ unseen = {} /\ chosen = {} /\ strayed = {}

-----------------------------------------------------------------------------
(* The reader *)

\* A row is clicked: `inspectItem`, `open`.  The pane of the same note stays,
\* any other is unmounted after the selection has moved, and flushes then.
Open(n) ==
    /\ selected' = {rows[n]}
    /\ LET p == Len(panes)
           old == panes[p]
           left == Flush(Unmounted(old), selected')
       IN  IF IsMounted(p) /\ old.item = n
           THEN /\ panes' = Watched(selected')
                /\ unseen' = unseen \union (rows[n].text \ (panes'[p].editor \union old.theirs))
                /\ UNCHANGED strayed
           ELSE /\ p < MaxPanes
                /\ UNCHANGED unseen
                /\ IF IsMounted(p)
                   THEN /\ panes' = Append([panes EXCEPT ![p] = left], NewPane(rows[n]))
                        /\ strayed' = strayed \union Stray(old, left, selected')
                   ELSE /\ panes' = Append(panes, NewPane(rows[n]))
                        /\ UNCHANGED strayed
    /\ UNCHANGED <<server, version, rows, known, feed, typedIn, foreign, failures, chosen>>

\* The selection is cleared: `clearSelection`, another scope or collection.
Close ==
    /\ selected # {} /\ Len(panes) < MaxPanes
    /\ selected' = {}
    /\ LET p == Len(panes)
           left == Flush(Unmounted(panes[p]), {})
       IN  /\ panes' = [panes EXCEPT ![p] = left]
           /\ strayed' = strayed \union Stray(panes[p], left, {})
    /\ UNCHANGED <<server, version, rows, known, feed, typedIn, foreign, failures,
                   unseen, chosen>>

\* `change`
Type ==
    LET p == Len(panes)
        pane == panes[p]
        text == pane.editor \union {Len(typedIn) + 1}
    IN  /\ IsMounted(p)
        /\ Len(typedIn) < MaxTyped
        /\ typedIn' = Append(typedIn, pane.item)
        /\ panes' = [panes EXCEPT ![p] =
                        [pane EXCEPT !.editor = text, !.pending = {text}, !.timer = TRUE,
                             !.state = IF @ = "saved" THEN "idle" ELSE @]]
        /\ UNCHANGED <<server, version, rows, selected, known, feed, foreign, failures, losses>>

\* `flush`, or `retry`, of the pane on the screen
FlushNow ==
    LET p == Len(panes)
        retried == IF panes[p].state = "failed" THEN "idle" ELSE panes[p].state
    IN  /\ panes' = [panes EXCEPT ![p] = Flush([panes[p] EXCEPT !.state = retried], selected)]
        /\ UNCHANGED <<server, version, rows, selected, known, feed, typedIn, foreign,
                       failures, losses>>

\* The timer of `change` runs out.
TimerOut == IsMounted(Len(panes)) /\ panes[Len(panes)].timer /\ FlushNow

\* The tab is hidden, or Try Again is pressed.
HiddenOrRetried == IsMounted(Len(panes)) /\ panes[Len(panes)].pending # {} /\ FlushNow

KeepMine ==
    LET p == Len(panes)
    IN  /\ IsMounted(p) /\ panes[p].state = "conflict"
        /\ panes' = [panes EXCEPT ![p] =
                        Flush([panes[p] EXCEPT !.state = "idle", !.theirs = {}], selected)]
        /\ chosen' = chosen \union (panes[p].theirs \ The(panes[p].pending))
        /\ UNCHANGED <<server, version, rows, selected, known, feed, typedIn, foreign,
                       failures, unseen, strayed>>

KeepTheirs ==
    LET p == Len(panes)
        text == The(selected).text
    IN  /\ IsMounted(p) /\ panes[p].state = "conflict"
        /\ panes' = [panes EXCEPT ![p] =
                        [@ EXCEPT !.state = "idle", !.theirs = {}, !.pending = {},
                                  !.written = text, !.editor = text]]
        /\ chosen' = chosen \union (panes[p].editor \ text)
        /\ UNCHANGED <<server, version, rows, selected, known, feed, typedIn, foreign,
                       failures, unseen, strayed>>

-----------------------------------------------------------------------------
(* A save under way *)

\* `update_item`: compares the version, and takes none for an edit that
\* changes nothing.
Serve(p) ==
    \E f \in panes[p].flight :
        LET stored == server[f.target]
            now == [stored EXCEPT !.version = version + 1, !.text = f.html]
            Answer(status, item) ==
                panes' = [panes EXCEPT ![p].flight =
                            {[f EXCEPT !.answer = {[status |-> status, item |-> item]}]}]
        IN  /\ f.answer = {}
            /\ \/ /\ f.stage = "read"
                  /\ Answer("ok", stored)
                  /\ UNCHANGED <<server, version, events>>
               \/ /\ f.stage # "read" /\ f.version # stored.version
                  /\ Answer("stale", stored)
                  /\ UNCHANGED <<server, version, events>>
               \/ /\ f.stage # "read" /\ f.version = stored.version /\ f.html = stored.text
                  /\ Answer("ok", stored)
                  /\ UNCHANGED <<server, version, events>>
               \/ /\ f.stage # "read" /\ f.version = stored.version /\ f.html # stored.text
                  /\ server' = [server EXCEPT ![f.target] = now]
                  /\ version' = version + 1
                  /\ events' = events \union {version + 1}
                  /\ Answer("ok", now)
            /\ UNCHANGED <<rows, selected, known, reads, typedIn, foreign, failures, losses>>

\* Mutant of Landed: what was typed meanwhile goes on waiting.
LandedUnheard(pane, open) == pane

\* Mutant of Landed: "Saved." is said with the second save under way.
LandedEarly(pane, open) ==
    IF pane.pending # {} /\ (pane.state = "saving" \/ (pane.waiting /\ pane.state # "conflict"))
    THEN [Send(pane, open) EXCEPT !.state = "saved"]
    ELSE [pane EXCEPT !.waiting = FALSE]

\* The rest of `flush` once its flight has ended: what was typed meanwhile is
\* sent, by the flush that waited or by the one that flew.
Landed(pane, open) ==
    IF pane.pending # {} /\ (pane.state = "saving" \/ (pane.waiting /\ pane.state # "conflict"))
    THEN Send(pane, open)
    ELSE [pane EXCEPT !.waiting = FALSE]

Ends(p, pane, open) ==
    LET after == Landed([pane EXCEPT !.flight = {}], open)
    IN  /\ panes' = [Watched(open) EXCEPT ![p] = after]
        /\ strayed' = strayed \union Stray([pane EXCEPT !.flight = {}], after, open)

\* Mutant of GivesUp: the text is not taken back.
GivesUpDraft(pane, state, html) == [pane EXCEPT !.state = state]

\* The pane as its flight's failure leaves it: the text is a draft again.
GivesUp(pane, state, html) ==
    [pane EXCEPT !.state = state, !.pending = IF @ = {} THEN {html} ELSE @]

\* The answer of a save that was accepted.
Saved(p) ==
    \E f \in panes[p].flight : \E a \in f.answer :
        LET pane == panes[p]
        IN  /\ f.stage # "read" /\ a.status = "ok"
            /\ Put(a.item)
            /\ Ends(p, [pane EXCEPT !.written = f.html,
                                    !.state = IF pane.pending = {} THEN "saved" ELSE @],
                    PutSelected(a.item))
            /\ unseen' = unseen \union
                UNION {Undrawn(Watched(PutSelected(a.item))[q], a.item) : q \in DOMAIN panes \ {p}}
            /\ UNCHANGED <<server, version, reads, typedIn, foreign, failures, chosen>>

\* Refused for its version: the item is read again.
Refused(p) ==
    \E f \in panes[p].flight : \E a \in f.answer :
        /\ f.stage = "patch" /\ a.status = "stale"
        /\ panes' = [panes EXCEPT ![p].flight = {[f EXCEPT !.stage = "read", !.answer = {}]}]
        /\ UNCHANGED <<server, version, rows, selected, known, feed, typedIn, foreign,
                       failures, losses>>

\* The item as it stands came back: sent again if what it writes is as it was,
\* a conflict otherwise.
LookedAgain(p) ==
    \E f \in panes[p].flight : \E a \in f.answer :
        LET pane == panes[p]
            fresh == a.item
            open == PutSelected(fresh)
        IN  /\ f.stage = "read" /\ a.status = "ok"
            /\ Put(fresh)
            /\ unseen' = unseen \union
                UNION {Undrawn(Watched(open)[q], fresh) : q \in DOMAIN panes \ {p}}
            /\ IF Untouched(f.base, fresh)
               THEN /\ panes' = [Watched(open) EXCEPT ![p].flight =
                            {[f EXCEPT !.stage = "again", !.version = fresh.version,
                                       !.answer = {}]}]
                    /\ UNCHANGED strayed
               ELSE Ends(p, [GivesUp(pane, "conflict", f.html) EXCEPT !.theirs = fresh.text], open)
            /\ UNCHANGED <<server, version, reads, typedIn, foreign, failures, chosen>>

\* A second refusal is a failure, and says so.
Failed(p) ==
    \E f \in panes[p].flight : \E a \in f.answer :
        /\ f.stage = "again" /\ a.status = "stale"
        /\ Ends(p, GivesUp(panes[p], "failed", f.html), selected)
        /\ UNCHANGED <<server, version, rows, selected, known, feed, typedIn, foreign,
                       failures, unseen, chosen>>

\* The request or its answer is lost, whatever the server has done.
Lost(p) ==
    \E f \in panes[p].flight :
        /\ failures < MaxFailures
        /\ failures' = failures + 1
        /\ Ends(p, GivesUp(panes[p], "failed", f.html), selected)
        /\ UNCHANGED <<server, version, rows, selected, known, feed, typedIn, foreign,
                       unseen, chosen>>

-----------------------------------------------------------------------------
(* Other clients, and the feed *)

\* Another client adds to a note, or changes something else of the item.
ForeignWrite(n, marks) ==
    /\ foreign < MaxForeign
    /\ foreign' = foreign + 1
    /\ version' = version + 1
    /\ server' = [server EXCEPT ![n].version = version + 1, ![n].text = @ \union marks]
    /\ events' = events \union {version + 1}
    /\ UNCHANGED <<web, reads, typedIn, failures, losses>>

\* `follow`: the timer of the last announcement runs out, those before it
\* having been put off; `catchUp` asks for the rows, as they are when it is
\* answered.
CatchUp ==
    /\ Cardinality(reads) < MaxReads
    /\ \E v \in events :
        /\ events' = {e \in events : e > v}
        /\ reads' = reads \union {[kind |-> "list", upto |-> v, answer |-> {server}]}
    /\ UNCHANGED <<server, version, web, typedIn, foreign, failures, losses>>

ItemAnswered(r) ==
    /\ r.kind = "item" /\ r.answer = {}
    /\ reads' = (reads \ {r}) \union {[r EXCEPT !.answer = {server[r.key]}]}
    /\ UNCHANGED <<server, version, web, events, typedIn, foreign, failures, losses>>

\* The rows are taken in, and the open item is read again: `catchUpSelected`.
ListRead(r) ==
    /\ r.kind = "list"
    /\ Seen(r.upto)
    /\ rows' = The(r.answer)
    /\ reads' = (reads \ {r}) \union
        {[kind |-> "item", key |-> x.key, answer |-> {}] : x \in selected}
    /\ UNCHANGED <<server, version, selected, panes, typedIn, foreign, failures, losses>>

ItemRead(r) ==
    /\ r.kind = "item" /\ r.answer # {}
    /\ reads' = reads \ {r}
    /\ LET fresh == The(r.answer)
       IN  IF {x.key : x \in selected} = {r.key}
           THEN /\ Put(fresh)
                /\ panes' = Watched({fresh})
                /\ unseen' = unseen \union Undrawn(panes'[Len(panes)], fresh)
           ELSE UNCHANGED <<web, events, unseen>>
    /\ UNCHANGED <<server, version, typedIn, foreign, failures, chosen, strayed>>

ReadFailed(r) ==
    /\ reads' = reads \ {r}
    /\ UNCHANGED <<server, version, web, events, typedIn, foreign, failures, losses>>

-----------------------------------------------------------------------------
Reader ==
    \/ \E n \in Notes : Open(n)
    \/ Close \/ Type \/ HiddenOrRetried \/ KeepMine \/ KeepTheirs

Save == \E p \in DOMAIN panes :
    Serve(p) \/ Saved(p) \/ Refused(p) \/ LookedAgain(p) \/ Failed(p)

Others ==
    \E n \in Notes : ForeignWrite(n, {}) \/ ForeignWrite(n, {MaxTyped + foreign + 1})

Feed ==
    \/ CatchUp
    \/ \E r \in reads : ItemAnswered(r) \/ ListRead(r) \/ ItemRead(r)

Faults == (\E p \in DOMAIN panes : Lost(p)) \/ (\E r \in reads : ReadFailed(r))

Next == Reader \/ TimerOut \/ Save \/ Others \/ Feed \/ Faults

\* A timer runs out and a request is answered; nobody has to type, choose or
\* press anything, and no other client has to write.
Spec == Init /\ [][Next]_vars /\ WF_vars(Save) /\ WF_vars(TimerOut) /\ WF_vars(Feed)

-----------------------------------------------------------------------------
(* Properties *)

\* Mark k of note n is stored, is in a draft that is on the screen or waits to
\* be sent, or is on its way to its note.
Kept(k, n) ==
    \/ k \in server[n].text
    \/ \E p \in DOMAIN panes :
        /\ panes[p].item = n
        /\ \/ k \in UNION panes[p].pending /\ (panes[p].mounted \/ panes[p].waiting)
           \/ \E f \in panes[p].flight : f.target = n /\ k \in f.html

\* The save of pane p failed or was refused, and the pane is not on the screen
\* any more: nothing draws the draft, its notice or the failure.
GivenUp(p) ==
    /\ ~panes[p].mounted /\ ~panes[p].waiting /\ panes[p].flight = {}
    /\ panes[p].pending # {} /\ panes[p].state \in {"failed", "conflict"}

\* What is typed is kept until it is stored (NotePane.vue, `flush`: whatever
\* order saves, failures, refusals and changes of the selection come in),
\* unless the reader decides otherwise -- or the draft strayed on the way out,
\* or was written over by a text the page took in without drawing it, or was
\* given up: left, and then failed or refused with nobody told.
DraftKept ==
    \A k \in DOMAIN typedIn :
        \/ k \in unseen \union chosen \union strayed
        \/ Kept(k, typedIn[k])
        \/ \E p \in DOMAIN panes :
             panes[p].item = typedIn[k] /\ GivenUp(p) /\ k \in UNION panes[p].pending

\* "A note that could not be saved is announced": no draft is given up.
FailureAnnounced == \A p \in DOMAIN panes : ~GivenUp(p)

\* The comment over NotePane.vue: a note left before it is saved, another item
\* picked, is saved on the way out.
LeftIsSaved ==
    \A k \in DOMAIN typedIn : k \in unseen \union chosen \/ Kept(k, typedIn[k])

\* A save never removes from a note what the reader has not seen or decided
\* against (`saveItem`: the version, `untouched`, the conflict), but for what
\* was taken in under a draft and what a stray draft buries.
ReplacesKnowingly ==
    [][\A n \in Notes :
        server[n].text \ server'[n].text \subseteq unseen \union chosen \union strayed]_vars

\* The comment over the pane's watcher: with something typed here waiting, the
\* save that follows finds the conflict, so that what another client wrote is
\* not lost.
ConflictFound ==
    [][\A n \in Notes :
        server[n].text \ server'[n].text \subseteq Typed \union chosen \union strayed]_vars

\* When a note says "Saved.", all that was typed in it is stored (the `saved`
\* state of `flush`, against typing, refusals and saves that overlap), but for
\* what the reader decided against in a pane of it that is saving still.
SavedIsStored ==
    [][\A p \in DOMAIN panes :
        panes'[p].mounted /\ panes[p].state # "saved" /\ panes'[p].state = "saved"
            => panes'[p].editor \intersect Typed \subseteq
                server'[panes[p].item].text \union unseen \union chosen \union strayed]_vars

\* A pane with nothing of its own shows the note as the page holds it: no
\* redraw is missed (the watcher and `written`), so that the next draft starts
\* from the text whose version it is sent with.
IdleShowsHeld ==
    \A p \in DOMAIN panes :
        IsMounted(p) /\ panes[p].pending = {} /\ panes[p].flight = {} /\ panes[p].state # "conflict"
            => panes[p].editor = The(selected).text

\* The pane says on the screen that its draft could not be saved.
Told(p) == panes[p].mounted /\ panes[p].state \in {"failed", "conflict"}

Unsettled(p) ==
    panes[p].flight # {} \/ (panes[p].pending # {} /\ ~Told(p) /\ ~GivenUp(p))

\* No draft is left hanging: every one is saved in the end, or its pane, on the
\* screen, says that it is not, or it was left and has been given up (`flush`
\* after a flight, with the timers and the network answering).
DraftSettles ==
    (\E p \in DOMAIN panes : Unsettled(p)) ~> (\A p \in DOMAIN panes : ~Unsettled(p))

=============================================================================
