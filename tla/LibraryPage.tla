----------------------------- MODULE LibraryPage -----------------------------
(***************************************************************************)
(* The library open in the browser (stores/library.ts): a list of rows, a  *)
(* selection in it and the pane of the open item, each filled by requests  *)
(* whose answers come back in any order while the reader moves on, runs    *)
(* errands on the selection and undoes them, and other clients change the  *)
(* libraries.                                                              *)
(*                                                                         *)
(* A request that was answered carries its answer until it arrives.  An    *)
(* edit of the open item is NoteEditing's subject: here it is its version  *)
(* that counts.  One write of the reader's, one catching-up and one        *)
(* re-reading of the open item are under way at a time, which is a bound.  *)
(***************************************************************************)
EXTENDS Integers, FiniteSets, FiniteSetsExt

CONSTANTS
    Libs,        \* the libraries of the account
    First,       \* the one the page opens with
    Items,       \* the items of all the libraries
    Home,        \* the library of each item
    MaxForeign,  \* bound: writes by other clients
    MaxMoves     \* bound: clicks of the reader

ASSUME LibraryPageAssumption ==
    /\ First \in Libs
    /\ IsFiniteSet(Items)
    /\ Home \in [Items -> Libs]
    /\ MaxForeign \in Nat /\ MaxMoves \in Nat

VARIABLES
    version,    \* the version of each library
    items,      \* the items as stored: their version, and whether they are in the trash
    lib,        \* `libraryId`
    view,       \* `scope`: the library's items or its trash
    rows,       \* `items` of the page, and the listing they are of
    failure,    \* `failure`: the last listing failed
    selection, selected, children,
    known,      \* `knownVersion`
    heard,      \* the last version announced, if the page has neither read nor acted on it
    req,        \* `itemsRequest`
    kids,       \* `childrenRequest`
    catching,   \* the request of `catchUp` under way
    reload,     \* the request of `reloadSelected` under way
    errand,     \* the write under way
    after,      \* `afterItemWrite` waiting for its rows and its collections
    offers,     \* the undo toasts
    moves,      \* history: clicks
    foreign,    \* history: writes by other clients
    jumped,     \* history: the pane went back to an item the reader had left
    lost        \* history: the version of the last catching-up that failed

stored == <<version, items>>
place == <<lib, view>>
pick == <<selection, selected, children>>
feed == <<known, heard>>
requests == <<req, kids, catching, reload, errand, after>>
history == <<moves, foreign, jumped, lost>>
vars == <<stored, place, rows, failure, pick, feed, requests, offers, history>>

Views == {"top", "trash"}
Errands == {"trash", "restore", "edit", "undo"}
Nothing == [k \in {} |-> 0]
The(option) == CHOOSE x \in option : TRUE
IsMaybe(option, S) == option \subseteq S /\ Cardinality(option) <= 1
Shown == DOMAIN rows.keys

\* What the server lists.
Listing(l, v) ==
    [lib |-> l, view |-> v, at |-> version[l],
     keys |-> [k \in {i \in Items : Home[i] = l /\ items[i].trashed = (v = "trash")}
                   |-> items[k].version]]

TypeOK ==
    /\ version \in [Libs -> Nat]
    /\ items \in [Items -> [version : Nat, trashed : BOOLEAN]]
    /\ lib \in Libs /\ view \in Views
    /\ Shown \subseteq Items
    /\ failure \in BOOLEAN
    /\ selection \subseteq Items
    /\ IsMaybe(selected, Items) /\ IsMaybe(children, Items)
    /\ known \in Nat /\ IsMaybe(heard, (known + 1)..version[lib])
    /\ \A q \in req : q.lib = lib /\ q.view = view
    /\ IsMaybe(kids, Items) /\ IsMaybe({r.key : r \in reload}, Items)
    /\ \A w \in errand : w.kind \in Errands /\ w.lib \in Libs
    /\ Cardinality(req) <= 1 /\ Cardinality(catching) <= 1 /\ Cardinality(after) <= 1
    /\ moves \in 0..MaxMoves /\ foreign \in 0..MaxForeign /\ jumped \in BOOLEAN
    /\ lost \in Nat

-----------------------------------------------------------------------------
(* Parts of the store *)

\* Mutant of Seen: a timer that was set runs out all the same.
SeenTooLate(v) == known' = Max({known, v}) /\ UNCHANGED heard

\* Mutant of Seen: whatever is read puts the timer off for good.
SeenForGood(v) == known' = Max({known, v}) /\ heard' = {}

\* `seen`.  `follow` passes over the announcement of a version the page has
\* read, when it comes and when its timer runs out: such a one is dropped here.
Seen(v) ==
    /\ known' = Max({known, v})
    /\ heard' = {e \in heard : e > known'}

\* One row is replaced by what was read of its item, older or newer.  `at`, the
\* version the rows are known to show, follows an own edit of what they show,
\* and falls back with a row that does.
Row(k, v, own) ==
    IF k \in Shown
    THEN [rows EXCEPT !.keys[k] = v,
                      !.at = IF v < rows.keys[k] THEN Min({@, v})
                             ELSE IF own /\ @ = v - 1 THEN v ELSE @]
    ELSE IF own /\ rows.at = v - 1 THEN [rows EXCEPT !.at = v] ELSE rows

\* Mutant of Aborted: nobody tells the one who waits.
AbortedSilently ==
    IF req # {} /\ (\E q \in req : q.answer = {}) THEN after
    ELSE {IF \E q \in req : q.after THEN [a EXCEPT !.items = TRUE] ELSE a : a \in after}

\* `loadItems`: the listing asked for before is aborted, which ends the refresh
\* that `afterItemWrite` waits for as an answer would.
Ask(l, v, isAfter) == req' = {[lib |-> l, view |-> v, after |-> isAfter, answer |-> {}]}
Aborted == {IF \E q \in req : q.after THEN [a EXCEPT !.items = TRUE] ELSE a : a \in after}

\* Mutant of OpenItem: the children shown are left.
OpenUncleared(option) ==
    /\ selected' = option
    /\ kids' = IF option = {} THEN kids ELSE option
    /\ UNCHANGED children

\* `open`: asks for the children, the ones asked for before being aborted.
OpenItem(option) ==
    /\ selected' = option
    /\ children' = {}
    /\ kids' = IF option = {} THEN kids ELSE option

\* `afterItemWrite`, as far as its first wait
Refresh ==
    /\ Ask(lib, view, TRUE)
    /\ after' = {[items |-> FALSE, collections |-> FALSE]}

Init ==
    /\ version = [l \in Libs |-> 1]
    /\ items = [k \in Items |-> [version |-> 1, trashed |-> FALSE]]
    /\ lib = First /\ view = "top"
    /\ rows = Listing(First, "top") /\ failure = FALSE
    /\ selection = {} /\ selected = {} /\ children = {}
    /\ known = 1 /\ heard = {}
    /\ req = {} /\ kids = {} /\ catching = {} /\ reload = {}
    /\ errand = {} /\ after = {} /\ offers = {}
    /\ moves = 0 /\ foreign = 0 /\ jumped = FALSE /\ lost = 0

-----------------------------------------------------------------------------
(* The reader moves on *)

Moves == moves < MaxMoves /\ moves' = moves + 1

\* `openLibrary`, and `follow`, whose first event is the library's version
OpenLibrary(l) ==
    /\ Moves /\ l # lib
    /\ lib' = l /\ view' = "top"
    /\ rows' = [lib |-> l, view |-> "top", at |-> 0, keys |-> Nothing]
    /\ selection' = {} /\ selected' = {} /\ children' = {}
    /\ known' = 0 /\ heard' = {version[l]}
    /\ Ask(l, "top", FALSE)
    /\ after' = Aborted
    /\ lost' = 0
    /\ UNCHANGED <<stored, failure, kids, catching, reload, errand, offers, foreign, jumped>>

\* `selectScope`
SelectScope(v) ==
    /\ Moves /\ v # view
    /\ view' = v
    /\ selection' = {} /\ selected' = {}
    /\ Ask(lib, v, FALSE)
    /\ after' = Aborted
    /\ UNCHANGED <<stored, lib, rows, failure, children, feed, kids, catching,
                   reload, errand, offers, foreign, jumped, lost>>

\* `inspectItem` with the `toggleSelected` and `extendSelection` that follow, and
\* `selectAll`: the reader ends up with any of the rows selected, and the pane
\* is of the one when it is only one (`followSelection`).
Pick(keys) ==
    /\ Moves
    /\ selection' = keys
    /\ OpenItem(IF Cardinality(keys) = 1 THEN keys ELSE {})
    /\ UNCHANGED <<stored, place, rows, failure, feed, req, catching, reload,
                   errand, after, offers, foreign, jumped, lost>>

-----------------------------------------------------------------------------
(* Errands *)

\* `trashItems`, of the rows selected that are on the screen
Errand(kind) ==
    LET keys == selection \intersect Shown
    IN  /\ Moves /\ errand = {} /\ after = {} /\ keys # {}
        /\ errand' = {[kind |-> kind, lib |-> lib, keys |-> keys, answer |-> {}]}
        /\ UNCHANGED <<stored, place, rows, failure, pick, feed, req, kids,
                       catching, reload, after, offers, foreign, jumped, lost>>

\* `saveItem`, of the open item
Edit ==
    /\ Moves /\ errand = {} /\ after = {} /\ selected # {}
    /\ errand' = {[kind |-> "edit", lib |-> lib, keys |-> selected, answer |-> {}]}
    /\ UNCHANGED <<stored, place, rows, failure, pick, feed, req, kids,
                   catching, reload, after, offers, foreign, jumped, lost>>

\* The toast's Undo, which takes the toast away
Undo(o) ==
    /\ Moves /\ errand = {} /\ after = {}
    /\ offers' = offers \ {o}
    /\ errand' = {[kind |-> "undo", lib |-> o.lib, keys |-> o.trashed \union o.live,
                   offer |-> o, answer |-> {}]}
    /\ UNCHANGED <<stored, place, rows, failure, pick, feed, req, kids,
                   catching, reload, after, foreign, jumped, lost>>

\* A committed write: a version for all the items it names, announced to the
\* page if it follows the library.
Write(l, now) ==
    /\ version' = [version EXCEPT ![l] = @ + 1]
    /\ items' = [k \in Items |-> IF k \in DOMAIN now
                                 THEN [version |-> version[l] + 1, trashed |-> now[k]]
                                 ELSE items[k]]
    /\ heard' = IF l = lib /\ version'[l] > known THEN {version'[l]} ELSE heard

\* `update_items`: the undo names the items the errand changed, as they were.
UndoOf(w) ==
    LET changed == {k \in w.keys : items[k].trashed # (w.kind = "trash")}
    IN  [lib |-> w.lib, version |-> version[w.lib] + 1,
         trashed |-> {k \in changed : items[k].trashed},
         live |-> {k \in changed : ~items[k].trashed},
         was |-> {k \in Items : items[k].trashed}]

\* Mutant of MayUndo: any later version will do.
MayUndoLater(o) == version[o.lib] >= o.version

\* `undo_items` goes by the exact version of the library after the errand.
MayUndo(o) == version[o.lib] = o.version

\* `update_item` knows the items of the library that are not in its trash.  An
\* edit it refuses as stale is read over and sent again, or given up with what
\* was read: which of them, is NoteEditing's matter.
MayEdit(k, l) == Home[k] = l /\ ~items[k].trashed

Serve ==
    \E w \in errand :
        /\ w.answer = {}
        /\ \/ /\ w.kind \in {"trash", "restore"}
              /\ Write(w.lib, [k \in w.keys |-> w.kind = "trash"])
              /\ errand' = {[w EXCEPT !.answer = {[ok |-> TRUE, undo |-> UndoOf(w)]}]}
           \/ /\ w.kind = "edit" /\ \A k \in w.keys : MayEdit(k, w.lib)
              /\ Write(w.lib, [k \in w.keys |-> FALSE])
              /\ errand' = {[w EXCEPT !.answer = {[ok |-> TRUE, own |-> TRUE, version |-> version[w.lib] + 1]}]}
           \/ /\ w.kind = "edit" /\ \E k \in w.keys :
                    /\ Home[k] = w.lib
                    /\ errand' = {[w EXCEPT !.answer = {[ok |-> TRUE, own |-> FALSE, version |-> items[k].version]}]}
              /\ UNCHANGED <<version, items, heard>>
           \/ /\ w.kind = "undo" /\ MayUndo(w.offer)
              /\ Write(w.lib, [k \in w.keys |-> k \in w.offer.trashed])
              /\ errand' = {[w EXCEPT !.answer = {[ok |-> TRUE]}]}
           \/ /\ \/ w.kind = "undo" /\ ~MayUndo(w.offer)
                 \/ w.kind = "edit" /\ \E k \in w.keys : ~MayEdit(k, w.lib)
              /\ errand' = {[w EXCEPT !.answer = {[ok |-> FALSE]}]}
              /\ UNCHANGED <<version, items, heard>>
        /\ UNCHANGED <<place, rows, failure, pick, known, req, kids, catching,
                       reload, after, offers, history>>

\* The answer of an errand or of its undo: the page is read again if it still
\* shows the library.
ErrandDone ==
    \E w \in errand : \E a \in w.answer :
        /\ w.kind # "edit"
        /\ errand' = {}
        /\ offers' = IF a.ok /\ w.kind # "undo" /\ a.undo.trashed \union a.undo.live # {}
                     THEN offers \union {a.undo} ELSE offers
        /\ IF a.ok /\ w.lib = lib THEN Refresh ELSE UNCHANGED <<req, after>>
        /\ UNCHANGED <<stored, place, rows, failure, pick, feed, kids, catching, reload,
                       history>>

\* The answer of an edit is put in the place of every copy, in whichever
\* library the page is by then.
EditDone ==
    \E w \in errand : \E a \in w.answer :
        /\ w.kind = "edit"
        /\ errand' = {}
        /\ IF a.ok THEN Seen(a.version) /\ rows' = Row(The(w.keys), a.version, a.own /\ w.lib = lib)
           ELSE UNCHANGED <<rows, feed>>
        /\ UNCHANGED <<stored, place, failure, pick, req, kids, catching, reload,
                       after, offers, history>>

\* The rest of `afterItemWrite`: what left the list leaves the selection, and
\* the pane closes or is read again.
Settle ==
    /\ \E a \in after : a.items /\ a.collections
    /\ after' = {}
    /\ selection' = selection \intersect Shown
    /\ IF selected \subseteq Shown
       THEN /\ reload' = IF selected = {} THEN reload
                         ELSE {[key |-> The(selected), answer |-> {}]}
            /\ UNCHANGED <<selected, children>>
       ELSE /\ selected' = {} /\ children' = {}
            /\ UNCHANGED reload
    /\ UNCHANGED <<stored, place, rows, failure, feed, req, kids, catching,
                   errand, offers, history>>

-----------------------------------------------------------------------------
(* Answers *)

ListServed ==
    \E q \in req :
        /\ q.answer = {}
        /\ req' = {[q EXCEPT !.answer = {Listing(q.lib, q.view)}]}
        /\ UNCHANGED <<stored, place, rows, failure, pick, feed, kids, catching,
                       reload, errand, after, offers, history>>

ListArrives ==
    \E q \in req : \E a \in q.answer :
        /\ req' = {} /\ after' = Aborted
        /\ rows' = a /\ failure' = FALSE
        /\ Seen(a.at)
        /\ UNCHANGED <<stored, place, pick, kids, catching, reload, errand, offers,
                       history>>

ListFails ==
    /\ req # {}
    /\ req' = {} /\ after' = Aborted
    /\ failure' = TRUE
    /\ UNCHANGED <<stored, place, rows, pick, feed, kids, catching, reload, errand,
                   offers, history>>

\* The collections that `afterItemWrite` waits for come in; without them the
\* rest of it is not run.
CollectionsArrive ==
    \E a \in after :
        /\ ~a.collections
        /\ after' = {[a EXCEPT !.collections = TRUE]}
        /\ UNCHANGED <<stored, place, rows, failure, pick, feed, req, kids, catching, reload,
                       errand, offers, history>>

CollectionsFail ==
    /\ \E a \in after : ~a.collections
    /\ after' = {}
    /\ UNCHANGED <<stored, place, rows, failure, pick, feed, req, kids, catching, reload,
                   errand, offers, history>>

KidsArrive ==
    \E k \in kids :
        /\ kids' = {}
        /\ children' = IF selected = {k} THEN {k} ELSE children
        /\ UNCHANGED <<stored, place, rows, failure, selection, selected, feed,
                       req, catching, reload, errand, after, offers, history>>

\* `reloadSelected` opens what it read, whatever is open by then.
ReloadServed ==
    \E r \in reload :
        /\ r.answer = {}
        /\ reload' = {[r EXCEPT !.answer = {items[r.key].version}]}
        /\ UNCHANGED <<stored, place, rows, failure, pick, feed, req, kids,
                       catching, errand, after, offers, history>>

ReloadArrives ==
    \E r \in reload : \E v \in r.answer :
        /\ reload' = {}
        /\ selected' = {r.key}
        /\ jumped' = (jumped \/ selected # {r.key})
        /\ rows' = Row(r.key, v, FALSE)
        /\ UNCHANGED <<stored, place, failure, selection, children, feed, req,
                       kids, catching, errand, after, offers, moves, foreign, lost>>

-----------------------------------------------------------------------------
(* Other clients, and the feed *)

\* Another client edits an item, or moves it to the trash or out of it.
ForeignWrite(k, trashed) ==
    /\ foreign < MaxForeign /\ foreign' = foreign + 1
    /\ Write(Home[k], [i \in {k} |-> trashed])
    /\ UNCHANGED <<place, rows, failure, pick, known, requests, offers, moves,
                   jumped, lost>>

\* `catchUp`, when the timer of the last announcement runs out; a connection
\* that dropped announces the version again.
CatchUp ==
    /\ catching = {}
    /\ \E v \in heard :
        /\ heard' = {}
        /\ catching' = {[stage |-> "list", upto |-> v, answer |-> {Listing(lib, view)}]}
    /\ UNCHANGED <<stored, place, rows, failure, pick, known, req, kids, reload,
                   errand, after, offers, history>>

\* Mutant of StillShown: the scope is not looked at.
StillInLibrary(listing) == listing.lib = lib

\* The reader has not moved on from what a listing is of.
StillShown(listing) == listing.lib = lib /\ listing.view = view

\* The rows come in, unless the reader has moved on; then the open item is read
\* again.
CaughtUp ==
    \E c \in catching :
        /\ c.stage = "list"
        /\ LET a == The(c.answer)
           IN  IF StillShown(a)
               THEN /\ Seen(c.upto)
                    /\ rows' = a
                    /\ selection' = selection \intersect DOMAIN a.keys
                    /\ catching' = {[stage |-> "item", lib |-> lib, key |-> k, answer |-> {}] : k \in selected}
               ELSE /\ catching' = {}
                    /\ UNCHANGED <<feed, rows, selection>>
        /\ UNCHANGED <<stored, place, failure, selected, children, req, kids,
                       reload, errand, after, offers, history>>

ItemServed ==
    \E c \in catching :
        /\ c.stage = "item" /\ c.answer = {}
        /\ catching' = {[c EXCEPT !.answer = {[found |-> Home[c.key] = c.lib,
                                               version |-> items[c.key].version]}]}
        /\ UNCHANGED <<stored, place, rows, failure, pick, feed, req, kids, reload,
                       errand, after, offers, history>>

\* `catchUpSelected`: the open item is replaced, or closed if the library has
\* no such item.
ItemCaughtUp ==
    \E c \in catching : \E a \in c.answer :
        /\ c.stage = "item"
        /\ catching' = {}
        /\ \/ /\ selected = {c.key} /\ a.found
              /\ Seen(a.version)
              /\ rows' = Row(c.key, a.version, FALSE)
              /\ children' = selected
              /\ UNCHANGED selected
           \/ /\ selected = {c.key} /\ ~a.found
              /\ selected' = {} /\ children' = {}
              /\ UNCHANGED <<rows, feed>>
           \/ /\ selected # {c.key}
              /\ UNCHANGED <<rows, feed, selected, children>>
        /\ UNCHANGED <<stored, place, failure, selection, req, kids, reload, errand, after,
                       offers, history>>

CatchUpFails ==
    /\ catching # {}
    /\ catching' = {}
    /\ lost' = IF \E c \in catching : c.stage = "list" THEN The(catching).upto ELSE lost
    /\ UNCHANGED <<stored, place, rows, failure, pick, feed, req, kids, reload,
                   errand, after, offers, moves, foreign, jumped>>

-----------------------------------------------------------------------------
Reader ==
    \/ \E l \in Libs : OpenLibrary(l)
    \/ \E v \in Views : SelectScope(v)
    \/ \E keys \in SUBSET Shown : Pick(keys)
    \/ Errand(IF view = "top" THEN "trash" ELSE "restore")
    \/ Edit
    \/ \E o \in offers : Undo(o)

Others == \E k \in Items, t \in BOOLEAN : ForeignWrite(k, t)

Answers ==
    \/ Serve \/ ErrandDone \/ EditDone \/ Settle
    \/ ListServed \/ ListArrives
    \/ CollectionsArrive \/ KidsArrive \/ ReloadServed \/ ReloadArrives
    \/ CatchUp \/ CaughtUp \/ ItemServed \/ ItemCaughtUp

Faults == ListFails \/ CollectionsFail \/ CatchUpFails

Next == Reader \/ Others \/ Answers \/ Faults

\* What is asked is answered, and timers run out; nobody has to click or write.
Spec == Init /\ [][Next]_vars /\ WF_vars(Answers)

-----------------------------------------------------------------------------
(* Properties *)

\* The rows are those of the library and the scope the reader chose last, or
\* the page says it is loading or has failed (`loadItems`, `catchUp`: answers
\* that come in after the reader has moved on, in any order).
RowsOfTheView == (rows.lib = lib /\ rows.view = view) \/ req # {} \/ failure

\* The children under the open item are its own (`open`, `catchUpSelected`),
\* but for a reload that came in late.
ChildrenOfTheOpenItem == selected = {} \/ children \subseteq selected \/ jumped

\* Nothing is under way, and nothing failed that leaves the page behind.
Quiet ==
    /\ req = {} /\ catching = {} /\ heard = {} /\ reload = {} /\ errand = {} /\ after = {}
    /\ ~failure /\ rows.at >= lost

\* A page at rest shows the library as it is (`follow`, `catchUp`, `loadItems`,
\* `afterItemWrite`: announcements and answers that pass each other), unless
\* it knows of a newer version than its rows show: a version read with one
\* item, or rows read before that came in after it.
QuietIsCurrent ==
    Quiet => rows.keys = Listing(lib, view).keys \/ rows.at < known

\* The comment over `follow`: a change made elsewhere reaches the library open
\* on the page.
ElsewhereReachesThePage == Quiet => rows.keys = Listing(lib, view).keys

\* An undo puts back the trash as it was before the errand it undoes, whoever
\* wrote meanwhile (`update_items`, `undo_items`, `offerUndo`).
UndoRestores ==
    [][\A w \in errand : w.kind = "undo" /\ w.answer = {} /\ (\E v \in errand' : \E a \in v.answer : a.ok)
        => \A k \in Items : Home[k] = w.lib => items'[k].trashed = (k \in w.offer.was)]_vars

\* Once the reader leaves it alone, the page is done with what it asked for
\* (`afterItemWrite` waits for a refresh that another can abort).
PageSettles == (req # {} \/ errand # {} \/ after # {}) ~> (req = {} /\ errand = {} /\ after = {})

=============================================================================
