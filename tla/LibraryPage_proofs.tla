-------------------------- MODULE LibraryPage_proofs --------------------------
(***************************************************************************)
(* Proofs about LibraryPage: whatever order answers come in, the rows are  *)
(* of the place the reader is at, the children are the open item's, an     *)
(* undo that is taken puts back what its errand changed, and a page at     *)
(* rest shows the library as it is or knows that it does not.              *)
(*                                                                         *)
(* The last says nothing of a page that waits for something, so it is far  *)
(* from inductive.  Two things are kept up by every step.  The version the *)
(* rows are known to show is true of them, and of every listing on its way *)
(* (Truth): each item that was not written since is rightly there or not.  *)
(* And the last version of the library is not forgotten (Aware): it is     *)
(* known, announced, being caught up with, or covered by the listing asked *)
(* for -- or catching up with it failed.  At rest only the first and the   *)
(* last are left.                                                          *)
(***************************************************************************)
EXTENDS LibraryPage, FiniteSetTheorems, TLAPS

\* What a listing is: its fields, and rows of its library only.
IsListing(a) ==
    /\ DOMAIN a = {"lib", "view", "at", "keys"}
    /\ a.keys = [k \in DOMAIN a.keys |-> a.keys[k]]
    /\ DOMAIN a.keys \subseteq {k \in Items : Home[k] = a.lib}

\* The rows, and the requests that may become the rows.
RowsInv ==
    /\ lib \in Libs
    /\ IsListing(rows) /\ rows.lib = lib
    /\ \A q \in req :
        /\ DOMAIN q = {"lib", "view", "after", "answer"}
        /\ q.lib = lib /\ q.view = view
        /\ \A a \in q.answer : IsListing(a) /\ a.lib = lib /\ a.view = view
    /\ \A c \in catching :
        /\ "stage" \in DOMAIN c
        /\ c.stage = "list" => c.answer # {} /\ \A a \in c.answer : IsListing(a)
    /\ RowsOfTheView

\* A listing as the server makes it is one.
LEMMA ListingFacts ==
    ASSUME NEW l, NEW v
    PROVE  /\ IsListing(Listing(l, v))
           /\ Listing(l, v).lib = l /\ Listing(l, v).view = v
BY DEF Listing, IsListing

\* A row replaced leaves the listing what it is of.
LEMMA RowFacts ==
    ASSUME IsListing(rows), NEW k, NEW v, NEW own \in BOOLEAN
    PROVE  /\ IsListing(Row(k, v, own))
           /\ Row(k, v, own).lib = rows.lib /\ Row(k, v, own).view = rows.view
<1> DEFINE Where(r) ==
             /\ DOMAIN r = DOMAIN rows /\ r.lib = rows.lib /\ r.view = rows.view
             /\ DOMAIN r.keys = DOMAIN rows.keys
             /\ r.keys = [j \in DOMAIN r.keys |-> r.keys[j]]
<1>1. ASSUME NEW at PROVE Where([rows EXCEPT !.keys[k] = v, !.at = at])
  <2> PICK r : r = [rows EXCEPT !.keys[k] = v, !.at = at]
    OBVIOUS
  <2>1. /\ DOMAIN r = DOMAIN rows /\ r.lib = rows.lib /\ r.view = rows.view
        /\ r.keys = [rows.keys EXCEPT ![k] = v]
    BY DEF IsListing
  <2> QED BY <2>1
<1>2. ASSUME NEW at PROVE Where([rows EXCEPT !.at = at])
  BY DEF IsListing
<1>3. Where(Row(k, v, own))
  <2>1. CASE k \in Shown
    BY <1>1, <2>1 DEF Row
  <2>2. CASE k \notin Shown
    BY <1>2, <2>2 DEF Row
  <2> QED BY <2>1, <2>2
<1> QED BY <1>3 DEF IsListing

\* The rows stay where they are with the place and the requests unchanged.
LEMMA RowsKept ==
    ASSUME RowsInv, UNCHANGED <<lib, view, failure, req, catching>>,
           \/ UNCHANGED rows
           \/ \E k, v : \E own \in BOOLEAN : rows' = Row(k, v, own)
    PROVE  RowsInv'
<1>1. IsListing(rows)' /\ rows'.lib = rows.lib /\ rows'.view = rows.view
  BY RowFacts DEF RowsInv
<1> QED BY <1>1 DEF RowsInv, RowsOfTheView, IsListing

-----------------------------------------------------------------------------
(* The rows *)

\* Moving on asks for what the rows will be.
LEMMA MovesKeepRows ==
    ASSUME RowsInv, NEW l \in Libs, NEW v \in Views, OpenLibrary(l) \/ SelectScope(v)
    PROVE  RowsInv'
<1>1. CASE OpenLibrary(l)
  <2>1. IsListing(rows)' /\ rows'.lib = l
    BY <1>1 DEF OpenLibrary, IsListing, Nothing
  <2>2. req' # {} /\ \A q \in req' :
            /\ DOMAIN q = {"lib", "view", "after", "answer"}
            /\ q.lib = lib' /\ q.view = view' /\ q.answer = {}
    BY <1>1 DEF OpenLibrary, Ask
  <2>3. lib' = l /\ catching' = catching
    BY <1>1 DEF OpenLibrary
  <2> QED BY <2>1, <2>2, <2>3 DEF RowsInv, RowsOfTheView, IsListing
<1>2. CASE SelectScope(v)
  <2>1. req' # {} /\ \A q \in req' :
            /\ DOMAIN q = {"lib", "view", "after", "answer"}
            /\ q.lib = lib' /\ q.view = view' /\ q.answer = {}
    BY <1>2 DEF SelectScope, Ask
  <2>2. UNCHANGED <<lib, rows, catching>>
    BY <1>2 DEF SelectScope
  <2> QED BY <2>1, <2>2 DEF RowsInv, RowsOfTheView, IsListing
<1> QED BY <1>1, <1>2

\* An errand that is done asks for the rows again, where the page is.
LEMMA ErrandDoneKeepsRows ==
    ASSUME RowsInv, ErrandDone
    PROVE  RowsInv'
<1>1. UNCHANGED <<lib, view, rows, failure, catching>>
  BY DEF ErrandDone, place
<1>2. CASE req' = req
  BY <1>1, <1>2 DEF RowsInv, RowsOfTheView, IsListing
<1>3. CASE Refresh
  <2>1. req' # {} /\ \A q \in req' :
            /\ DOMAIN q = {"lib", "view", "after", "answer"}
            /\ q.lib = lib /\ q.view = view /\ q.answer = {}
    BY <1>3 DEF Refresh, Ask
  <2> QED BY <1>1, <2>1 DEF RowsInv, RowsOfTheView, IsListing
<1> QED BY <1>2, <1>3 DEF ErrandDone

\* A listing is answered for what it was asked for, and becomes the rows.
LEMMA ListKeepsRows ==
    ASSUME RowsInv, ListServed \/ ListArrives \/ ListFails
    PROVE  RowsInv'
<1>1. CASE ListServed
  <2>1. PICK q \in req : req' = {[q EXCEPT !.answer = {Listing(q.lib, q.view)}]}
    BY <1>1 DEF ListServed
  <2>2. DOMAIN q = {"lib", "view", "after", "answer"} /\ q.lib = lib /\ q.view = view
    BY DEF RowsInv
  <2> DEFINE served == [q EXCEPT !.answer = {Listing(q.lib, q.view)}]
  <2>3. /\ DOMAIN served = {"lib", "view", "after", "answer"}
        /\ served.lib = lib /\ served.view = view /\ served.answer = {Listing(lib, view)}
    BY <2>2
  <2>4. UNCHANGED <<lib, view, rows, failure, catching>>
    BY <1>1 DEF ListServed, place
  <2>5. /\ IsListing(Listing(lib, view))
        /\ Listing(lib, view).lib = lib /\ Listing(lib, view).view = view
    BY ListingFacts
  <2> HIDE DEF served
  <2>6. req' = {served}
    BY <2>1 DEF served
  <2> QED BY <2>3, <2>4, <2>5, <2>6 DEF RowsInv, RowsOfTheView, IsListing
<1>2. CASE ListArrives
  <2>1. PICK q \in req : \E a \in q.answer : req' = {} /\ rows' = a
    BY <1>2 DEF ListArrives
  <2>2. IsListing(rows') /\ rows'.lib = lib /\ rows'.view = view /\ req' = {}
    BY <2>1 DEF RowsInv
  <2>3. UNCHANGED <<lib, view, catching>>
    BY <1>2 DEF ListArrives, place
  <2> QED BY <2>2, <2>3 DEF RowsInv, RowsOfTheView, IsListing
<1>3. CASE ListFails
  BY <1>3 DEF ListFails, place, RowsInv, RowsOfTheView, IsListing
<1> QED BY <1>1, <1>2, <1>3

\* Catching up takes the place of the rows only where they still are.
LEMMA CatchUpKeepsRows ==
    ASSUME RowsInv, CatchUp \/ CaughtUp \/ ItemServed \/ ItemCaughtUp \/ CatchUpFails
    PROVE  RowsInv'
<1>1. CASE CatchUp
  <2>1. PICK v \in heard :
            catching' = {[stage |-> "list", upto |-> v, answer |-> {Listing(lib, view)}]}
    BY <1>1 DEF CatchUp
  <2>2. UNCHANGED <<lib, view, rows, failure, req>>
    BY <1>1 DEF CatchUp, place
  <2>3. \A c \in catching' : "stage" \in DOMAIN c /\ c.answer = {Listing(lib, view)}
    BY <2>1
  <2>4. IsListing(Listing(lib, view))
    BY ListingFacts
  <2> QED BY <2>2, <2>3, <2>4 DEF RowsInv, RowsOfTheView, IsListing
<1>2. CASE CaughtUp
  <2>1. UNCHANGED <<lib, view, failure, req>>
    BY <1>2 DEF CaughtUp, place
  <2>2. PICK c \in catching :
            /\ c.stage = "list"
            /\ IF StillShown(The(c.answer))
               THEN /\ rows' = The(c.answer)
                    /\ catching' = {[stage |-> "item", lib |-> lib, key |-> k, answer |-> {}]
                                        : k \in selected}
               ELSE catching' = {} /\ rows' = rows
    BY <1>2 DEF CaughtUp
  <2>3. The(c.answer) \in c.answer
    BY <2>2 DEF RowsInv, The
  <2>4. IsListing(The(c.answer))
    BY <2>2, <2>3 DEF RowsInv
  <2>5. \A d \in catching' : "stage" \in DOMAIN d /\ d.stage = "item"
    BY <2>2
  <2>6. IsListing(rows') /\ rows'.lib = lib /\ (rows'.view = view \/ rows' = rows)
    BY <2>2, <2>4 DEF StillShown, RowsInv
  <2> QED BY <2>1, <2>5, <2>6 DEF RowsInv, RowsOfTheView, IsListing
<1>3. CASE ItemServed
  <2>1. PICK c \in catching :
            /\ c.stage = "item"
            /\ catching' = {[c EXCEPT !.answer = {[found |-> Home[c.key] = c.lib,
                                                   version |-> items[c.key].version]}]}
    BY <1>3 DEF ItemServed
  <2>2. \A d \in catching' : "stage" \in DOMAIN d /\ d.stage = "item"
    BY <2>1 DEF RowsInv
  <2>3. UNCHANGED <<lib, view, rows, failure, req>>
    BY <1>3 DEF ItemServed, place
  <2> QED BY <2>2, <2>3 DEF RowsInv, RowsOfTheView, IsListing
<1>4. CASE ItemCaughtUp
  <2>1. /\ UNCHANGED <<lib, view, failure, req>> /\ catching' = {}
        /\ \/ UNCHANGED rows
           \/ \E k, v : rows' = Row(k, v, FALSE)
    BY <1>4 DEF ItemCaughtUp, place
  <2>2. IsListing(rows)' /\ rows'.lib = rows.lib /\ rows'.view = rows.view
    BY <2>1, RowFacts DEF RowsInv
  <2> QED BY <2>1, <2>2 DEF RowsInv, RowsOfTheView, IsListing
<1>5. CASE CatchUpFails
  BY <1>5 DEF CatchUpFails, place, RowsInv, RowsOfTheView, IsListing
<1> QED BY <1>1, <1>2, <1>3, <1>4, <1>5

\* One row is replaced by an edit, or by the open item read again.
LEMMA PutKeepsRows ==
    ASSUME RowsInv, EditDone \/ ReloadArrives
    PROVE  RowsInv'
<1>1. UNCHANGED <<lib, view, failure, req, catching>>
  BY DEF EditDone, ReloadArrives, place
<1>2. UNCHANGED rows \/ \E k, v : \E own \in BOOLEAN : rows' = Row(k, v, own)
  <2>1. (lib = lib) \in BOOLEAN /\ \A w : (w.lib = lib) \in BOOLEAN
    OBVIOUS
  <2> QED BY <2>1 DEF EditDone, ReloadArrives
<1> QED BY <1>1, <1>2, RowsKept

\* What is left alone by all that does not touch the rows or their requests.
LEMMA OthersKeepRows ==
    ASSUME RowsInv, UNCHANGED <<lib, view, rows, failure, req, catching>>
    PROVE  RowsInv'
BY RowsKept

\* The page begins with the rows of its first library.
LEMMA InitRows == Init => RowsInv
<1> SUFFICES ASSUME Init PROVE RowsInv
  OBVIOUS
<1>1. /\ IsListing(Listing(First, "top"))
      /\ Listing(First, "top").lib = First /\ Listing(First, "top").view = "top"
  BY ListingFacts
<1> QED BY <1>1, LibraryPageAssumption DEF Init, RowsInv, RowsOfTheView

\* RowsInv is inductive.
LEMMA NextRows == RowsInv /\ [Next]_vars => RowsInv'
<1> SUFFICES ASSUME RowsInv, [Next]_vars PROVE RowsInv'
  OBVIOUS
<1>1. CASE \E l \in Libs : OpenLibrary(l)
  BY <1>1, MovesKeepRows DEF Views
<1>2. CASE \E v \in Views : SelectScope(v)
  BY <1>2, MovesKeepRows DEF RowsInv
<1>3. CASE ErrandDone
  BY <1>3, ErrandDoneKeepsRows
<1>4. CASE ListServed \/ ListArrives \/ ListFails
  BY <1>4, ListKeepsRows
<1>5. CASE CatchUp \/ CaughtUp \/ ItemServed \/ ItemCaughtUp \/ CatchUpFails
  BY <1>5, CatchUpKeepsRows
<1>6. CASE EditDone \/ ReloadArrives
  BY <1>6, PutKeepsRows
<1>7. CASE \/ \E keys \in SUBSET Shown : Pick(keys)
           \/ \E kind \in Errands : Errand(kind)
           \/ Edit \/ \E o \in offers : Undo(o)
  BY <1>7, OthersKeepRows DEF Pick, Errand, Edit, Undo, place
<1>8. CASE Serve \/ Settle \/ CollectionsArrive \/ CollectionsFail \/ KidsArrive \/ ReloadServed
  BY <1>8, OthersKeepRows DEF Serve, Settle, CollectionsArrive, CollectionsFail, KidsArrive,
                              ReloadServed, place
<1>9. CASE Others \/ UNCHANGED vars
  BY <1>9, OthersKeepRows DEF Others, ForeignWrite, vars, place, requests
<1>10. Errand(IF view = "top" THEN "trash" ELSE "restore") => \E kind \in Errands : Errand(kind)
  BY DEF Errands
<1> QED BY <1>1, <1>2, <1>3, <1>4, <1>5, <1>6, <1>7, <1>8, <1>9, <1>10
        DEF Next, Reader, Answers, Faults

\* RowsInv always holds.
LEMMA RowsAlways == Spec => []RowsInv
<1> QED BY InitRows, NextRows, PTL DEF Spec

\* The rows are those of the library and scope chosen last, or the page is
\* loading or has failed, whatever answers come in late (`loadItems`, `catchUp`).
THEOREM RowsFollowTheView == Spec => []RowsOfTheView
<1>1. RowsInv => RowsOfTheView
  BY DEF RowsInv
<1> QED BY <1>1, RowsAlways, PTL

-----------------------------------------------------------------------------
(* The children *)

\* The children under the open item are its own, but for a reload that came in
\* late, in whatever order children, reloads and catching-up arrive (`open`,
\* `catchUpSelected`, `reloadSelected`).
THEOREM ChildrenFollowTheItem == Spec => []ChildrenOfTheOpenItem
<1>1. Init => ChildrenOfTheOpenItem
  BY DEF Init, ChildrenOfTheOpenItem
<1>2. ChildrenOfTheOpenItem /\ [Next]_vars => ChildrenOfTheOpenItem'
  <2> SUFFICES ASSUME ChildrenOfTheOpenItem, [Next]_vars PROVE ChildrenOfTheOpenItem'
    OBVIOUS
  <2>1. CASE UNCHANGED <<selected, children, jumped>>
    BY <2>1 DEF ChildrenOfTheOpenItem
  <2>2. CASE selected' = {} \/ children' = {}
    BY <2>2 DEF ChildrenOfTheOpenItem
  <2>3. CASE KidsArrive
    BY <2>3 DEF KidsArrive, ChildrenOfTheOpenItem, history
  <2>4. CASE ReloadArrives
    BY <2>4 DEF ReloadArrives, ChildrenOfTheOpenItem
  <2>5. CASE ItemCaughtUp
    <3>1. \/ selected' = {}
          \/ children' = selected /\ selected' = selected
          \/ UNCHANGED <<selected, children, jumped>>
      BY <2>5 DEF ItemCaughtUp, history
    <3>2. CASE children' = selected /\ selected' = selected
      BY <3>2 DEF ChildrenOfTheOpenItem
    <3> QED BY <3>1, <3>2, <2>1, <2>2
  <2>6. ASSUME NEW l, OpenLibrary(l) PROVE selected' = {}
    BY <2>6 DEF OpenLibrary
  <2>7. ASSUME NEW v, SelectScope(v) PROVE selected' = {}
    BY <2>7 DEF SelectScope
  <2>8. ASSUME NEW keys, Pick(keys) PROVE children' = {}
    BY <2>8 DEF Pick, OpenItem
  <2>9. CASE Settle
    BY <2>9, <2>1, <2>2 DEF Settle, history
  <2>10. CASE \/ \E kind \in Errands : Errand(kind)
              \/ Edit \/ \E o \in offers : Undo(o)
    BY <2>10, <2>1 DEF Errand, Edit, Undo, pick
  <2>11. CASE Serve \/ ErrandDone \/ EditDone \/ CollectionsArrive \/ CollectionsFail \/ ReloadServed
    BY <2>11, <2>1 DEF Serve, ErrandDone, EditDone, CollectionsArrive, CollectionsFail,
                       ReloadServed, pick, history
  <2>12. CASE ListServed \/ ListArrives \/ ListFails
    BY <2>12, <2>1 DEF ListServed, ListArrives, ListFails, pick, history
  <2>13. CASE CatchUp \/ CaughtUp \/ ItemServed \/ CatchUpFails
    BY <2>13, <2>1 DEF CatchUp, CaughtUp, ItemServed, CatchUpFails, pick, history
  <2>14. CASE Others \/ UNCHANGED vars
    BY <2>14, <2>1 DEF Others, ForeignWrite, vars, pick, history
  <2>15. Errand(IF view = "top" THEN "trash" ELSE "restore") => \E kind \in Errands : Errand(kind)
    BY DEF Errands
  <2> QED BY <2>2, <2>3, <2>4, <2>5, <2>6, <2>7, <2>8, <2>9, <2>10, <2>11, <2>12, <2>13, <2>14,
             <2>15 DEF Next, Reader, Answers, Faults
<1> QED BY <1>1, <1>2, PTL DEF Spec

-----------------------------------------------------------------------------
(* Undo *)

Offer == [lib : Libs, version : Nat, trashed : SUBSET Items, live : SUBSET Items,
          was : SUBSET Items]

Of(l) == {k \in Items : Home[k] = l}

\* An offer describes the library's trash before the errand, and after it as
\* long as the library has the version of the errand.
Stands(o) ==
    /\ o.version <= version[o.lib]
    /\ o.trashed \subseteq o.was /\ o.live \intersect o.was = {}
    /\ o.trashed \union o.live \subseteq Of(o.lib)
    /\ o.version = version[o.lib] =>
        \A k \in Of(o.lib) \ (o.trashed \union o.live) : items[k].trashed = (k \in o.was)

StoredTyped ==
    /\ version \in [Libs -> Nat]
    /\ items \in [Items -> [version : Nat, trashed : BOOLEAN]]

\* The write under way, and the offer it undoes or is answered with.
Consistent(w) ==
    /\ {"kind", "lib", "keys", "answer"} \subseteq DOMAIN w
    /\ w.kind \in Errands /\ w.lib \in Libs /\ w.keys \subseteq Items
    /\ w.kind \in {"trash", "restore"} =>
        /\ w.keys \subseteq Of(w.lib)
        /\ \A a \in w.answer : a.ok => a.undo \in Offer /\ Stands(a.undo)
    /\ w.kind = "undo" =>
        /\ "offer" \in DOMAIN w
        /\ w.offer \in Offer /\ Stands(w.offer)
        /\ w.lib = w.offer.lib /\ w.keys = w.offer.trashed \union w.offer.live

UndoInv ==
    /\ StoredTyped
    /\ offers \subseteq Offer /\ \A o \in offers : Stands(o)
    /\ \A w \in errand : Consistent(w)
    /\ \A v, w \in errand : v = w
    /\ selected \subseteq Items
    /\ \A r \in reload : "key" \in DOMAIN r /\ r.key \in Items

\* What a committed write does to versions and items.
LEMMA WriteFacts ==
    ASSUME StoredTyped, NEW l \in Libs, NEW S \in SUBSET Items, NEW now \in [S -> BOOLEAN],
           Write(l, now)
    PROVE  /\ StoredTyped'
           /\ version'[l] = version[l] + 1
           /\ \A m \in Libs : m # l => version'[m] = version[m]
           /\ \A k \in S : items'[k].trashed = now[k]
           /\ \A k \in Items \ S : items'[k] = items[k]
<1>1. version' = [version EXCEPT ![l] = @ + 1]
  BY DEF Write
<1>2. version[l] \in Nat /\ version[l] + 1 \in Nat
  BY DEF StoredTyped
<1>3. items' = [k \in Items |-> IF k \in S THEN [version |-> version[l] + 1, trashed |-> now[k]]
                                ELSE items[k]]
  BY DEF Write
<1>4. \A k \in S : now[k] \in BOOLEAN
  OBVIOUS
<1>5. items' \in [Items -> [version : Nat, trashed : BOOLEAN]]
  BY <1>2, <1>3, <1>4 DEF StoredTyped
<1>6. version' \in [Libs -> Nat]
  BY <1>1, <1>2 DEF StoredTyped
<1>7. \A k \in S : items'[k].trashed = now[k]
  BY <1>3
<1> QED BY <1>1, <1>2, <1>3, <1>5, <1>6, <1>7 DEF StoredTyped

\* An offer stands through a write: of another library because nothing of its
\* own changed, of its own because its version is past.
LEMMA OfferStands ==
    ASSUME StoredTyped, NEW l \in Libs, NEW o \in Offer, Stands(o),
           version'[l] = version[l] + 1,
           \A m \in Libs : m # l => version'[m] = version[m],
           \A k \in Items : Home[k] # l => items'[k] = items[k]
    PROVE  Stands(o)'
<1>1. o.lib \in Libs /\ o.version \in Nat /\ version[l] \in Nat
  BY DEF Offer, StoredTyped
<1>2. CASE o.lib = l
  BY <1>1, <1>2 DEF Stands, Of
<1>3. CASE o.lib # l
  BY <1>1, <1>3 DEF Stands, Of
<1> QED BY <1>2, <1>3

\* The answer of an errand is an offer that stands.
LEMMA AnswerStands ==
    ASSUME StoredTyped, NEW w, Consistent(w), w.kind \in {"trash", "restore"},
           Write(w.lib, [k \in w.keys |-> w.kind = "trash"]),
           NEW o, o = UndoOf(w)
    PROVE  o \in Offer /\ Stands(o)'
<1> DEFINE changed == {k \in w.keys : items[k].trashed # (w.kind = "trash")}
<1>1. w.lib \in Libs /\ w.keys \subseteq Of(w.lib) /\ w.keys \in SUBSET Items
  BY DEF Consistent, Of
<1>2. [k \in w.keys |-> w.kind = "trash"] \in [w.keys -> BOOLEAN]
  OBVIOUS
<1>3. /\ version'[w.lib] = version[w.lib] + 1
      /\ \A k \in w.keys : items'[k].trashed = (w.kind = "trash")
      /\ \A k \in Items \ w.keys : items'[k] = items[k]
  BY <1>1, <1>2, WriteFacts
<1>4. /\ o.lib = w.lib /\ o.version = version[w.lib] + 1
      /\ o.trashed = {k \in changed : items[k].trashed}
      /\ o.live = {k \in changed : ~items[k].trashed}
      /\ o.was = {k \in Items : items[k].trashed}
  BY DEF UndoOf
<1>5. o \in Offer
  <2>1. version[w.lib] + 1 \in Nat
    BY <1>1 DEF StoredTyped
  <2>2. /\ {k \in changed : items[k].trashed} \in SUBSET Items
        /\ {k \in changed : ~items[k].trashed} \in SUBSET Items
        /\ {k \in Items : items[k].trashed} \in SUBSET Items
    BY <1>1
  <2> QED BY <1>1, <2>1, <2>2 DEF UndoOf, Offer
<1>6. \A k \in Items : items[k].trashed \in BOOLEAN
  BY DEF StoredTyped
<1>7. \A k \in Of(w.lib) \ changed : items'[k].trashed = (k \in o.was)
  <2> TAKE k \in Of(w.lib) \ changed
  <2>1. k \in Items
    BY DEF Of
  <2>2. items[k].trashed = (k \in o.was)
    BY <1>4, <1>6, <2>1
  <2>3. CASE k \in w.keys
    <3>1. items[k].trashed = (w.kind = "trash")
      BY <2>3
    <3> QED BY <1>3, <2>2, <2>3, <3>1
  <2>4. CASE k \notin w.keys
    BY <1>3, <2>1, <2>2, <2>4
  <2> QED BY <2>3, <2>4
<1>8. o.trashed \union o.live = changed
  BY <1>4
<1>9. Stands(o)'
  <2>1. o.version \in Nat /\ version'[o.lib] = o.version
    BY <1>3, <1>4, <1>5 DEF Offer
  <2>2. o.trashed \subseteq o.was /\ o.live \intersect o.was = {}
    BY <1>1, <1>4
  <2>3. o.trashed \union o.live \subseteq Of(o.lib)
    BY <1>1, <1>4, <1>8
  <2>4. \A k \in Of(o.lib) \ (o.trashed \union o.live) : items'[k].trashed = (k \in o.was)
    BY <1>4, <1>7, <1>8
  <2> QED BY <2>1, <2>2, <2>3, <2>4 DEF Stands, Of
<1> QED BY <1>5, <1>9

\* What stands goes on standing, and what is consistent goes on being so,
\* through a write of one library's items.
LEMMA WriteKeeps ==
    ASSUME StoredTyped, NEW l \in Libs, NEW S \in SUBSET Of(l), NEW now \in [S -> BOOLEAN],
           Write(l, now)
    PROVE  /\ StoredTyped'
           /\ \A o \in Offer : Stands(o) => Stands(o)'
           /\ \A w : Consistent(w) => Consistent(w)'
<1>1. S \in SUBSET Items
  BY DEF Of
<1>2. /\ StoredTyped'
      /\ version'[l] = version[l] + 1
      /\ \A m \in Libs : m # l => version'[m] = version[m]
      /\ \A k \in Items : Home[k] # l => items'[k] = items[k]
  BY <1>1, WriteFacts DEF Of
<1>3. ASSUME NEW o \in Offer, Stands(o) PROVE Stands(o)'
  BY <1>2, <1>3, OfferStands
<1>4. ASSUME NEW w, Consistent(w) PROVE Consistent(w)'
  BY <1>3, <1>4 DEF Consistent
<1> QED BY <1>2, <1>3, <1>4

\* The same of a step that writes nothing.
LEMMA NoWriteKeeps ==
    ASSUME StoredTyped, UNCHANGED stored
    PROVE  /\ StoredTyped'
           /\ \A o : Stands(o) => Stands(o)'
           /\ \A w : Consistent(w) => Consistent(w)'
<1>1. UNCHANGED <<version, items>>
  BY DEF stored
<1>2. ASSUME NEW o, Stands(o) PROVE Stands(o)'
  BY <1>1, <1>2 DEF Stands
<1>3. ASSUME NEW w, Consistent(w) PROVE Consistent(w)'
  BY <1>2, <1>3 DEF Consistent
<1> QED BY <1>1, <1>2, <1>3 DEF StoredTyped

\* What Serve writes for each kind of write, and what it answers.
LEMMA ServeKeepsUndo ==
    ASSUME UndoInv, Serve
    PROVE  UndoInv'
<1> PICK w \in errand : Serve!(w)
  BY DEF Serve
<1>1. Consistent(w) /\ w.lib \in Libs /\ w.keys \subseteq Items /\ StoredTyped
  BY DEF UndoInv, Consistent
<1>2. UNCHANGED <<offers, selected, reload>>
  BY DEF Serve, pick
<1>3. SUFFICES /\ StoredTyped'
               /\ \A o \in Offer : Stands(o) => Stands(o)'
               /\ \E a : errand' = {[w EXCEPT !.answer = {a}]}
                        /\ Consistent([w EXCEPT !.answer = {a}])'
  BY <1>2 DEF UndoInv
<1>4. ASSUME NEW a, Consistent(w)', w.kind \in {"trash", "restore"} =>
                (a.ok => a.undo \in Offer /\ Stands(a.undo)')
      PROVE  Consistent([w EXCEPT !.answer = {a}])'
  BY <1>4 DEF Consistent
<1>5. CASE /\ w.kind \in {"trash", "restore"}
           /\ Write(w.lib, [k \in w.keys |-> w.kind = "trash"])
           /\ errand' = {[w EXCEPT !.answer = {[ok |-> TRUE, undo |-> UndoOf(w)]}]}
  <2> DEFINE now == [k \in w.keys |-> w.kind = "trash"]
  <2>1. w.keys \in SUBSET Of(w.lib) /\ now \in [w.keys -> BOOLEAN]
    BY <1>1, <1>5 DEF Consistent
  <2>2. Write(w.lib, now)
    BY <1>5
  <2> HIDE DEF now
  <2>3. /\ StoredTyped'
        /\ \A o \in Offer : Stands(o) => Stands(o)'
        /\ Consistent(w)'
    BY <1>1, <2>1, <2>2, WriteKeeps
  <2> PICK a : a = [ok |-> TRUE, undo |-> UndoOf(w)]
    OBVIOUS
  <2>4. ASSUME NEW o, o = UndoOf(w) PROVE o \in Offer /\ Stands(o)'
    BY <1>1, <1>5, <2>4, AnswerStands
  <2>5. a.undo = UndoOf(w) /\ errand' = {[w EXCEPT !.answer = {a}]}
    BY <1>5
  <2>6. a.undo \in Offer /\ Stands(a.undo)'
    BY <2>4, <2>5
  <2> QED BY <1>4, <2>3, <2>5, <2>6
<1>6. CASE /\ w.kind = "edit" /\ \A k \in w.keys : MayEdit(k, w.lib)
           /\ Write(w.lib, [k \in w.keys |-> FALSE])
           /\ errand' = {[w EXCEPT !.answer = {[ok |-> TRUE, own |-> TRUE, version |-> version[w.lib] + 1]}]}
  <2> DEFINE now == [k \in w.keys |-> FALSE]
  <2>1. w.keys \in SUBSET Of(w.lib) /\ now \in [w.keys -> BOOLEAN]
    BY <1>1, <1>6 DEF MayEdit, Of
  <2>2. Write(w.lib, now)
    BY <1>6
  <2> HIDE DEF now
  <2>3. /\ StoredTyped'
        /\ \A o \in Offer : Stands(o) => Stands(o)'
        /\ Consistent(w)'
    BY <1>1, <2>1, <2>2, WriteKeeps
  <2> QED BY <1>4, <1>6, <2>3
<1>7. CASE /\ w.kind = "undo"
           /\ Write(w.lib, [k \in w.keys |-> k \in w.offer.trashed])
           /\ errand' = {[w EXCEPT !.answer = {[ok |-> TRUE]}]}
  <2> DEFINE now == [k \in w.keys |-> k \in w.offer.trashed]
  <2>1. w.keys \in SUBSET Of(w.lib) /\ now \in [w.keys -> BOOLEAN]
    BY <1>1, <1>7 DEF Consistent, Stands
  <2>2. Write(w.lib, now)
    BY <1>7
  <2> HIDE DEF now
  <2>3. /\ StoredTyped'
        /\ \A o \in Offer : Stands(o) => Stands(o)'
        /\ Consistent(w)'
    BY <1>1, <2>1, <2>2, WriteKeeps
  <2> QED BY <1>4, <1>7, <2>3
<1>8. CASE /\ errand' = {[w EXCEPT !.answer = {[ok |-> FALSE]}]}
           /\ UNCHANGED <<version, items, heard>>
  BY <1>1, <1>4, <1>8, NoWriteKeeps DEF stored
<1>9. CASE /\ w.kind = "edit"
           /\ \E k \in w.keys :
                /\ Home[k] = w.lib
                /\ errand' = {[w EXCEPT !.answer = {[ok |-> TRUE, own |-> FALSE, version |-> items[k].version]}]}
           /\ UNCHANGED <<version, items, heard>>
  <2>1. PICK k \in w.keys :
          errand' = {[w EXCEPT !.answer = {[ok |-> TRUE, own |-> FALSE, version |-> items[k].version]}]}
    BY <1>9
  <2> QED BY <1>1, <1>4, <1>9, <2>1, NoWriteKeeps DEF stored
<1> QED BY <1>5, <1>6, <1>7, <1>8, <1>9

\* The reader's write is begun: the rows are of the library, and an offer
\* taken stands.
LEMMA WritesBeginConsistent ==
    ASSUME RowsInv, UndoInv,
           (\E kind \in {"trash", "restore"} : Errand(kind)) \/ Edit \/ (\E o \in offers : Undo(o))
    PROVE  UndoInv'
<1>1. UNCHANGED <<version, items, selected, reload>> /\ offers' \subseteq offers
  BY DEF Errand, Edit, Undo, stored, pick
<1>2. SUFFICES \E w : errand' = {w} /\ Consistent(w)
  BY <1>1, NoWriteKeeps DEF UndoInv, stored
<1>3. ASSUME NEW kind \in {"trash", "restore"}, Errand(kind)
      PROVE  \E w : errand' = {w} /\ Consistent(w)
  <2> DEFINE w == [kind |-> kind, lib |-> lib, keys |-> selection \intersect Shown, answer |-> {}]
  <2>1. errand' = {w}
    BY <1>3 DEF Errand
  <2>2. Shown \subseteq Of(lib) /\ lib \in Libs /\ Of(lib) \subseteq Items
    BY DEF RowsInv, IsListing, Of, Shown
  <2>3. Consistent(w)
    BY <2>2 DEF Consistent, Errands
  <2> QED BY <2>1, <2>3
<1>4. CASE Edit
  <2> DEFINE w == [kind |-> "edit", lib |-> lib, keys |-> selected, answer |-> {}]
  <2>1. errand' = {w}
    BY <1>4 DEF Edit
  <2>2. Consistent(w)
    BY DEF RowsInv, UndoInv, Consistent, Errands
  <2> QED BY <2>1, <2>2
<1>5. ASSUME NEW o \in offers, Undo(o)
      PROVE  \E w : errand' = {w} /\ Consistent(w)
  <2> DEFINE w == [kind |-> "undo", lib |-> o.lib, keys |-> o.trashed \union o.live,
                   offer |-> o, answer |-> {}]
  <2>1. errand' = {w}
    BY <1>5 DEF Undo
  <2>2. o \in Offer /\ Stands(o)
    BY DEF UndoInv
  <2>3. Consistent(w)
    BY <2>2 DEF Consistent, Errands, Offer
  <2> QED BY <2>1, <2>3
<1> QED BY <1>3, <1>4, <1>5

\* The steps that leave libraries, writes and offers alone, and open nothing
\* but an item.
LEMMA OthersKeepUndo ==
    ASSUME UndoInv, UNCHANGED <<stored, offers>>, errand' = errand \/ errand' = {},
           selected' \subseteq Items,
           \A r \in reload' : "key" \in DOMAIN r /\ r.key \in Items
    PROVE  UndoInv'
BY NoWriteKeeps DEF UndoInv

\* An errand that is answered offers an undo that stands.
LEMMA ErrandDoneKeepsUndo ==
    ASSUME UndoInv, ErrandDone
    PROVE  UndoInv'
<1> PICK w \in errand : \E a \in w.answer : ErrandDone!(w)!(a)
  BY DEF ErrandDone
<1> PICK a \in w.answer : ErrandDone!(w)!(a)
  OBVIOUS
<1>1. /\ UNCHANGED stored /\ errand' = {} /\ UNCHANGED <<selected, reload>>
      /\ w.kind # "edit"
      /\ \/ UNCHANGED offers
         \/ a.ok /\ w.kind # "undo" /\ offers' = offers \union {a.undo}
  BY DEF ErrandDone, pick
<1>2. CASE UNCHANGED offers
  BY <1>1, <1>2, NoWriteKeeps DEF UndoInv
<1>3. CASE a.ok /\ w.kind # "undo" /\ offers' = offers \union {a.undo}
  <2>1. a.undo \in Offer /\ Stands(a.undo)
    BY <1>1, <1>3 DEF UndoInv, Consistent, Errands
  <2> QED BY <1>1, <1>3, <2>1, NoWriteKeeps DEF UndoInv
<1> QED BY <1>1, <1>2, <1>3

\* Other clients' writes, of one item.
LEMMA OthersWriteKeepsUndo ==
    ASSUME UndoInv, NEW k \in Items, NEW t \in BOOLEAN, ForeignWrite(k, t)
    PROVE  UndoInv'
<1> DEFINE now == [i \in {k} |-> t]
<1>1. Home[k] \in Libs /\ {k} \in SUBSET Of(Home[k]) /\ now \in [{k} -> BOOLEAN]
  BY LibraryPageAssumption DEF Of
<1>2. /\ Write(Home[k], now)
      /\ UNCHANGED <<errand, offers, selected, reload>>
  BY DEF ForeignWrite, pick, requests
<1> HIDE DEF now
<1>3. /\ StoredTyped'
      /\ \A o \in Offer : Stands(o) => Stands(o)'
      /\ \A w : Consistent(w) => Consistent(w)'
  BY <1>1, <1>2, WriteKeeps DEF UndoInv
<1> QED BY <1>2, <1>3 DEF UndoInv

\* What the page opens are items.
LEMMA OpeningKeepsUndo ==
    ASSUME RowsInv, UndoInv,
           \/ \E l : OpenLibrary(l)
           \/ \E v : SelectScope(v)
           \/ \E keys \in SUBSET Shown : Pick(keys)
           \/ Settle \/ ReloadServed \/ ReloadArrives \/ ItemCaughtUp
    PROVE  UndoInv'
<1>1. selected \subseteq Items /\ \A r \in reload : "key" \in DOMAIN r /\ r.key \in Items
  BY DEF UndoInv
<1>2. ASSUME NEW l, OpenLibrary(l) PROVE UndoInv'
  BY <1>1, <1>2, OthersKeepUndo DEF OpenLibrary
<1>3. ASSUME NEW v, SelectScope(v) PROVE UndoInv'
  BY <1>1, <1>3, OthersKeepUndo DEF SelectScope
<1>4. ASSUME NEW keys \in SUBSET Shown, Pick(keys) PROVE UndoInv'
  <2>1. Shown \subseteq Items
    BY DEF RowsInv, IsListing, Shown
  <2>2. selected' \subseteq Items
    BY <1>4, <2>1 DEF Pick, OpenItem
  <2> QED BY <1>1, <1>4, <2>2, OthersKeepUndo DEF Pick
<1>5. CASE Settle
  <2>1. selected' = selected \/ selected' = {}
    BY <1>5 DEF Settle
  <2>2. \/ reload' = reload
        \/ selected # {} /\ reload' = {[key |-> The(selected), answer |-> {}]}
    BY <1>5 DEF Settle
  <2>3. selected # {} => The(selected) \in Items
    BY <1>1 DEF The
  <2>4. \A r \in reload' : "key" \in DOMAIN r /\ r.key \in Items
    BY <1>1, <2>2, <2>3
  <2> QED BY <1>1, <1>5, <2>1, <2>4, OthersKeepUndo DEF Settle
<1>6. CASE ReloadServed
  <2>1. \A r \in reload' : "key" \in DOMAIN r /\ r.key \in Items
    BY <1>1, <1>6 DEF ReloadServed
  <2> QED BY <1>1, <1>6, <2>1, OthersKeepUndo DEF ReloadServed, pick
<1>7. CASE ReloadArrives
  BY <1>1, <1>7, OthersKeepUndo DEF ReloadArrives
<1>8. CASE ItemCaughtUp
  <2>1. selected' = selected \/ selected' = {}
    BY <1>8 DEF ItemCaughtUp
  <2> QED BY <1>1, <1>8, <2>1, OthersKeepUndo DEF ItemCaughtUp
<1> QED BY <1>2, <1>3, <1>4, <1>5, <1>6, <1>7, <1>8

\* The steps that touch neither writes nor what is open.
LEMMA RestKeepsUndo ==
    ASSUME UndoInv,
           \/ EditDone \/ CollectionsArrive \/ CollectionsFail \/ KidsArrive
           \/ ListServed \/ ListArrives \/ ListFails
           \/ CatchUp \/ CaughtUp \/ ItemServed \/ CatchUpFails
           \/ UNCHANGED vars
    PROVE  UndoInv'
<1>1. selected \subseteq Items /\ \A r \in reload : "key" \in DOMAIN r /\ r.key \in Items
  BY DEF UndoInv
<1>2. UNCHANGED <<stored, offers, selected, reload>> /\ (errand' = errand \/ errand' = {})
  <2>1. CASE EditDone \/ CollectionsArrive \/ CollectionsFail \/ KidsArrive
    BY <2>1 DEF EditDone, CollectionsArrive, CollectionsFail, KidsArrive, pick
  <2>2. CASE ListServed \/ ListArrives \/ ListFails
    BY <2>2 DEF ListServed, ListArrives, ListFails, pick
  <2>3. CASE CatchUp \/ CaughtUp \/ ItemServed \/ CatchUpFails
    BY <2>3 DEF CatchUp, CaughtUp, ItemServed, CatchUpFails, pick
  <2>4. CASE UNCHANGED vars
    BY <2>4 DEF vars, pick, requests
  <2> QED BY <2>1, <2>2, <2>3, <2>4
<1> QED BY <1>1, <1>2, OthersKeepUndo

\* The invariants hold together.
LEMMA UndoAlways == Spec => [](RowsInv /\ UndoInv)
<1>1. Init => UndoInv
  BY LibraryPageAssumption DEF Init, UndoInv, StoredTyped
<1>2. RowsInv /\ UndoInv /\ [Next]_vars => UndoInv'
  <2> SUFFICES ASSUME RowsInv, UndoInv, [Next]_vars PROVE UndoInv'
    OBVIOUS
  <2>1. CASE Reader
    <3>1. Errand(IF view = "top" THEN "trash" ELSE "restore")
            => \E kind \in {"trash", "restore"} : Errand(kind)
      OBVIOUS
    <3> QED BY <2>1, <3>1, OpeningKeepsUndo, WritesBeginConsistent DEF Reader
  <2>2. CASE Others
    BY <2>2, OthersWriteKeepsUndo DEF Others
  <2>3. CASE Answers
    BY <2>3, ServeKeepsUndo, ErrandDoneKeepsUndo, OpeningKeepsUndo, RestKeepsUndo DEF Answers
  <2>4. CASE Faults \/ UNCHANGED vars
    BY <2>4, RestKeepsUndo DEF Faults
  <2> QED BY <2>1, <2>2, <2>3, <2>4 DEF Next
<1> QED BY <1>1, <1>2, InitRows, NextRows, PTL DEF Spec

\* An undo that the server takes leaves in the trash of its library what was in
\* it before the errand, whoever wrote to any library meanwhile (`update_items`,
\* `undo_items`, `offerUndo`).
THEOREM UndoIsExact == Spec => UndoRestores
<1> DEFINE Restores ==
             \A w \in errand :
                 w.kind = "undo" /\ w.answer = {} /\ (\E v \in errand' : \E a \in v.answer : a.ok)
                     => \A k \in Items : Home[k] = w.lib => items'[k].trashed = (k \in w.offer.was)
<1>1. UndoInv /\ [Next]_vars => Restores
  <2> SUFFICES ASSUME UndoInv, [Next]_vars, NEW w \in errand, w.kind = "undo", w.answer = {},
                      NEW v \in errand', NEW a \in v.answer, a.ok,
                      NEW k \in Items, Home[k] = w.lib
               PROVE  items'[k].trashed = (k \in w.offer.was)
    OBVIOUS
  <2>1. Consistent(w) /\ StoredTyped /\ \A u \in errand : u = w
    BY DEF UndoInv
  <2>2. errand' # errand /\ errand' # {}
    BY <2>1
  <2>3. Serve
    <3>1. CASE Reader
      BY <2>2, <3>1 DEF Reader, OpenLibrary, SelectScope, Pick, Errand, Edit, Undo
    <3>2. CASE Others
      BY <2>2, <3>2 DEF Others, ForeignWrite, requests
    <3>3. CASE Answers
      <4>1. CASE ErrandDone \/ EditDone \/ Settle \/ CollectionsArrive
        BY <2>2, <4>1 DEF ErrandDone, EditDone, Settle, CollectionsArrive
      <4>2. CASE ListServed \/ ListArrives \/ KidsArrive \/ ReloadServed \/ ReloadArrives
        BY <2>2, <4>2 DEF ListServed, ListArrives, KidsArrive, ReloadServed, ReloadArrives
      <4>3. CASE CatchUp \/ CaughtUp \/ ItemServed \/ ItemCaughtUp
        BY <2>2, <4>3 DEF CatchUp, CaughtUp, ItemServed, ItemCaughtUp
      <4> QED BY <3>3, <4>1, <4>2, <4>3 DEF Answers
    <3>4. CASE Faults \/ UNCHANGED vars
      BY <2>2, <3>4 DEF Faults, ListFails, CollectionsFail, CatchUpFails, vars, requests
    <3> QED BY <3>1, <3>2, <3>3, <3>4 DEF Next
  <2>4. \/ /\ MayUndo(w.offer)
           /\ Write(w.lib, [i \in w.keys |-> i \in w.offer.trashed])
        \/ errand' = {[w EXCEPT !.answer = {[ok |-> FALSE]}]}
    BY <2>1, <2>3 DEF Serve
  <2>5. errand' # {[w EXCEPT !.answer = {[ok |-> FALSE]}]}
    <3> SUFFICES ASSUME errand' = {[w EXCEPT !.answer = {[ok |-> FALSE]}]} PROVE FALSE
      OBVIOUS
    <3>1. v.answer = {[ok |-> FALSE]}
      BY <2>1 DEF Consistent
    <3> QED BY <3>1
  <2> DEFINE o == w.offer
             now == [i \in w.keys |-> i \in o.trashed]
  <2>6. /\ o.version = version[o.lib] /\ w.lib = o.lib /\ o.lib \in Libs
        /\ w.keys = o.trashed \union o.live
        /\ o.trashed \subseteq o.was /\ o.live \intersect o.was = {}
        /\ w.keys \in SUBSET Items /\ now \in [w.keys -> BOOLEAN]
        /\ \A i \in Of(o.lib) \ w.keys : items[i].trashed = (i \in o.was)
    BY <2>1, <2>4, <2>5 DEF Consistent, Stands, MayUndo
  <2>7. Write(w.lib, now)
    BY <2>4, <2>5
  <2>8. /\ \A i \in w.keys : items'[i].trashed = now[i]
        /\ \A i \in Items \ w.keys : items'[i] = items[i]
    <3> HIDE DEF now, o
    <3> QED BY <2>1, <2>6, <2>7, WriteFacts
  <2>9. CASE k \in w.keys
    <3>1. items'[k].trashed = (k \in o.trashed)
      BY <2>8, <2>9
    <3>2. (k \in o.trashed) = (k \in o.was)
      BY <2>6, <2>9
    <3> QED BY <3>1, <3>2
  <2>10. CASE k \notin w.keys
    <3>1. k \in Of(o.lib)
      BY <2>6 DEF Of
    <3> QED BY <2>6, <2>8, <2>10, <3>1
  <2> QED BY <2>9, <2>10
<1> QED BY <1>1, UndoAlways, PTL DEF UndoRestores, Spec

-----------------------------------------------------------------------------
(* One at a time *)

AtMostOne(S) == \A x, y \in S : x = y

\* What is open is one item, and one request of each sort is under way.
Alone ==
    /\ AtMostOne(selected) /\ AtMostOne(children) /\ AtMostOne(kids)
    /\ AtMostOne(req) /\ AtMostOne(catching) /\ AtMostOne(reload) /\ AtMostOne(after)
    /\ selection \subseteq Items /\ selected \subseteq Items
    /\ children \subseteq Items /\ kids \subseteq Items
    /\ view \in Views /\ failure \in BOOLEAN /\ jumped \in BOOLEAN
    /\ moves \in 0..MaxMoves /\ foreign \in 0..MaxForeign

\* A finite set with at most one member, and the other way round.
LEMMA OneFacts ==
    /\ AtMostOne({})
    /\ \A x : AtMostOne({x})
    /\ \A S : AtMostOne(S) => IsFiniteSet(S) /\ Cardinality(S) <= 1
<1>1. ASSUME NEW S, AtMostOne(S)
      PROVE  IsFiniteSet(S) /\ Cardinality(S) <= 1
  <2>1. S = {} \/ \E x : S = {x}
    BY <1>1 DEF AtMostOne
  <2>2. CASE S = {}
    BY <2>2, FS_EmptySet
  <2>3. CASE \E x : S = {x}
    <3>1. PICK x : S = {x}
      BY <2>3
    <3>2. IsFiniteSet({x}) /\ Cardinality({x}) = 1
      BY FS_Singleton
    <3> QED BY <3>1, <3>2
  <2> QED BY <2>1, <2>2, <2>3
<1> QED BY <1>1 DEF AtMostOne

\* What is waited for is one, whoever is told.
LEMMA AbortedOne ==
    ASSUME AtMostOne(after)
    PROVE  AtMostOne(Aborted)
BY DEF AtMostOne, Aborted

\* The reader's clicks open one item and ask for one listing.
LEMMA ReaderAlone ==
    ASSUME RowsInv, Alone, Reader
    PROVE  Alone'
<1>0. moves < MaxMoves /\ moves' = moves + 1 => moves' \in 0..MaxMoves
  BY LibraryPageAssumption DEF Alone
<1>1. ASSUME NEW l \in Libs, OpenLibrary(l) PROVE Alone'
  BY <1>0, <1>1, AbortedOne, OneFacts DEF OpenLibrary, Moves, Ask, Alone, Views
<1>2. ASSUME NEW v \in Views, SelectScope(v) PROVE Alone'
  BY <1>0, <1>2, AbortedOne, OneFacts DEF SelectScope, Moves, Ask, Alone
<1>3. ASSUME NEW keys \in SUBSET Shown, Pick(keys) PROVE Alone'
  <2>1. Shown \subseteq Items
    BY DEF RowsInv, IsListing, Shown
  <2>2. IsFiniteSet(keys)
    BY <2>1, FS_Subset, LibraryPageAssumption
  <2> DEFINE option == IF Cardinality(keys) = 1 THEN keys ELSE {}
  <2>3. AtMostOne(option) /\ option \subseteq Items
    BY <2>1, <2>2, FS_Singleton, OneFacts DEF AtMostOne
  <2>4. /\ selection' = keys /\ selected' = option /\ children' = {}
        /\ kids' = (IF option = {} THEN kids ELSE option)
    BY <1>3 DEF Pick, OpenItem
  <2> HIDE DEF option
  <2>5. AtMostOne(kids') /\ kids' \subseteq Items
    BY <2>3, <2>4 DEF Alone
  <2>6. UNCHANGED <<view, failure, req, catching, reload, after, foreign, jumped>>
        /\ moves' \in 0..MaxMoves
    BY <1>0, <1>3 DEF Pick, Moves, place
  <2> QED BY <2>1, <2>3, <2>4, <2>5, <2>6, OneFacts DEF Alone
<1>4. CASE \/ \E kind : Errand(kind)
           \/ Edit \/ \E o \in offers : Undo(o)
  <2>1. /\ UNCHANGED <<view, failure, selection, selected, children, kids, req, catching, reload,
                       after, foreign, jumped>>
        /\ moves' \in 0..MaxMoves
    BY <1>0, <1>4 DEF Errand, Edit, Undo, Moves, place, pick
  <2> QED BY <2>1 DEF Alone
<1> QED BY <1>1, <1>2, <1>3, <1>4 DEF Reader

\* Other clients open nothing.
LEMMA OthersAlone ==
    ASSUME Alone, Others \/ Serve \/ EditDone \/ UNCHANGED vars
    PROVE  Alone'
<1>1. UNCHANGED <<view, failure, selection, selected, children, kids, req, catching, reload,
                  after, jumped, moves>>
  BY DEF Others, ForeignWrite, Serve, EditDone, vars, place, pick, requests, history
<1>2. foreign' \in 0..MaxForeign
  <2>1. foreign' = foreign \/ (foreign < MaxForeign /\ foreign' = foreign + 1)
    BY DEF Others, ForeignWrite, Serve, EditDone, vars, history
  <2> QED BY <2>1, LibraryPageAssumption DEF Alone
<1> QED BY <1>1, <1>2 DEF Alone

\* What is answered, or fails, is done with; what follows it is one.
LEMMA AnswersAlone ==
    ASSUME Alone,
           \/ ErrandDone \/ Settle \/ ListServed \/ ListArrives \/ ListFails
           \/ CollectionsArrive \/ CollectionsFail
    PROVE  Alone'
<1>1. CASE ErrandDone
  BY <1>1, OneFacts DEF ErrandDone, Refresh, Ask, Alone, place, pick, history
<1>2. CASE Settle
  BY <1>2, OneFacts DEF Settle, Alone, place, history
<1>3. CASE ListServed
  BY <1>3, OneFacts DEF ListServed, Alone, place, pick, history
<1>4. CASE ListArrives \/ ListFails
  BY <1>4, OneFacts, AbortedOne DEF ListArrives, ListFails, Alone, place, pick, history
<1>5. CASE CollectionsArrive \/ CollectionsFail
  BY <1>5, OneFacts DEF CollectionsArrive, CollectionsFail, Alone, place, pick, history
<1> QED BY <1>1, <1>2, <1>3, <1>4, <1>5

\* The same of children, reloads and catching-up.
LEMMA ReadingsAlone ==
    ASSUME UndoInv, Alone,
           \/ KidsArrive \/ ReloadServed \/ ReloadArrives
           \/ CatchUp \/ CaughtUp \/ ItemServed \/ ItemCaughtUp \/ CatchUpFails
    PROVE  Alone'
<1>1. CASE KidsArrive
  BY <1>1, OneFacts DEF KidsArrive, Alone, place, history
<1>2. CASE ReloadServed
  BY <1>2, OneFacts DEF ReloadServed, Alone, place, pick, history
<1>3. CASE ReloadArrives
  BY <1>3, OneFacts DEF ReloadArrives, Alone, UndoInv, place
<1>4. CASE CatchUp
  BY <1>4, OneFacts DEF CatchUp, Alone, place, pick, history
<1>5. CASE CaughtUp
  <2>1. AtMostOne({[stage |-> "item", lib |-> lib, key |-> k, answer |-> {}] : k \in selected})
    BY DEF Alone, AtMostOne
  <2>2. /\ catching' = {} \/ catching' = {[stage |-> "item", lib |-> lib, key |-> k, answer |-> {}]
                                              : k \in selected}
        /\ selection' \subseteq selection
        /\ UNCHANGED <<view, failure, selected, children, kids, req, reload, after, foreign, jumped,
                       moves>>
    BY <1>5 DEF CaughtUp, place, history
  <2>3. AtMostOne(catching')
    BY <2>1, <2>2, OneFacts
  <2> QED BY <2>2, <2>3 DEF Alone
<1>6. CASE ItemServed
  <2>1. \E c : catching' = {c}
    BY <1>6 DEF ItemServed
  <2>2. AtMostOne(catching')
    BY <2>1, OneFacts
  <2> QED BY <1>6, <2>2 DEF ItemServed, Alone, place, pick, history
<1>7. CASE ItemCaughtUp
  BY <1>7, OneFacts DEF ItemCaughtUp, Alone, place, history
<1>8. CASE CatchUpFails
  BY <1>8, OneFacts DEF CatchUpFails, Alone, place, pick
<1> QED BY <1>1, <1>2, <1>3, <1>4, <1>5, <1>6, <1>7, <1>8

\* Alone is inductive, with what the others say.
LEMMA NextAlone ==
    ASSUME RowsInv, UndoInv, Alone, [Next]_vars
    PROVE  Alone'
BY ReaderAlone, OthersAlone, AnswersAlone, ReadingsAlone DEF Next, Answers, Faults

-----------------------------------------------------------------------------
(* What listings show *)

Versions ==
    /\ \A l \in Libs : version[l] >= 1
    /\ \A k \in Items : items[k].version \in 1..version[Home[k]]

\* A listing shows rightly each item that was not written since: whether it is
\* there, and its version.  Of the others it shows an earlier version, or none.
Shows(a) ==
    /\ a.lib \in Libs /\ a.view \in Views /\ a.at \in 0..version[a.lib]
    /\ \A k \in DOMAIN a.keys : k \in Of(a.lib) /\ a.keys[k] \in 1..items[k].version
    /\ \A k \in Of(a.lib) : items[k].version <= a.at =>
        /\ k \in DOMAIN a.keys <=> items[k].trashed = (a.view = "trash")
        /\ k \in DOMAIN a.keys => a.keys[k] = items[k].version

\* An edit that was made moves its item neither into a listing nor out of it,
\* so that the listing of the version before it is good once its row is.
Edited(a) ==
    \A w \in errand : \A e \in w.answer :
        w.kind = "edit" /\ e.ok /\ e.own /\ w.lib = a.lib /\ a.at + 1 >= e.version =>
            \A k \in w.keys :
                items[k].version = e.version => (k \in DOMAIN a.keys <=> a.view = "top")

Told(a) == Shows(a) /\ Edited(a)

\* The answer of an edit is a version its item had; of the reader's own edit, one
\* that no other item of the library has.
EditTrue(w) ==
    w.kind = "edit" =>
        /\ \E k \in Items : w.keys = {k}
        /\ \A e \in w.answer : e.ok =>
            /\ e.own \in BOOLEAN
            /\ \A k \in w.keys : Home[k] = w.lib /\ e.version \in 1..items[k].version
            /\ e.own =>
                /\ 1 < e.version /\ e.version <= version[w.lib]
                /\ \A k \in Of(w.lib) :
                    items[k].version = e.version => k \in w.keys /\ ~items[k].trashed

\* What catching up has read.
Caught(c) ==
    \/ /\ c.stage = "list"
       /\ \E a \in c.answer : c.answer = {a} /\ Told(a) /\ a.at = c.upto
    \/ /\ c.stage = "item" /\ DOMAIN c = {"stage", "lib", "key", "answer"}
       /\ c.key \in Items
       /\ \A a \in c.answer : a.version \in 1..items[c.key].version

\* What was read of the open item.
Reread(r) ==
    /\ DOMAIN r = {"key", "answer"} /\ r.key \in Items
    /\ \A v \in r.answer : v \in 1..items[r.key].version

\* A write that is no edit of the reader's, as far as it was answered.
Silent(w) == w.kind = "edit" => \A e \in w.answer : e.ok => e.own = FALSE

Truth ==
    /\ Versions
    /\ Told(rows)
    /\ \A q \in req : \A a \in q.answer : Told(a)
    /\ \A c \in catching : Caught(c)
    /\ \A r \in reload : Reread(r)
    /\ \A w \in errand : EditTrue(w)

\* The lesser of two numbers.
LEMMA MinOfTwo ==
    ASSUME NEW m \in Nat, NEW n \in Nat
    PROVE  Min({m, n}) \in Nat /\ Min({m, n}) <= m /\ Min({m, n}) <= n
<1>1. \E x \in {m, n} : \A y \in {m, n} : x =< y
  OBVIOUS
<1>2. Min({m, n}) \in {m, n} /\ \A y \in {m, n} : Min({m, n}) =< y
  BY <1>1 DEF Min
<1> QED BY <1>2

\* The greater of two numbers.
LEMMA MaxOfTwo ==
    ASSUME NEW m \in Nat, NEW n \in Nat
    PROVE  Max({m, n}) \in {m, n} /\ m <= Max({m, n}) /\ n <= Max({m, n})
<1>1. \E x \in {m, n} : \A y \in {m, n} : x >= y
  OBVIOUS
<1>2. Max({m, n}) \in {m, n} /\ \A y \in {m, n} : Max({m, n}) >= y
  BY <1>1 DEF Max
<1> QED BY <1>2

\* The types of what is stored.
LEMMA StoredFacts ==
    ASSUME StoredTyped, Versions
    PROVE  /\ \A l \in Libs : version[l] \in Nat /\ version[l] >= 1
           /\ \A k \in Items :
                /\ Home[k] \in Libs
                /\ items[k].version \in Nat /\ items[k].version >= 1
                /\ items[k].version <= version[Home[k]]
                /\ items[k].trashed \in BOOLEAN
BY LibraryPageAssumption DEF StoredTyped, Versions

\* A listing just made shows what there is.
LEMMA ListingTold ==
    ASSUME StoredTyped, Versions, \A w \in errand : EditTrue(w), NEW l \in Libs, NEW v \in Views
    PROVE  Told(Listing(l, v)) /\ Listing(l, v).at = version[l]
<1> DEFINE shown == {k \in Items : Home[k] = l /\ items[k].trashed = (v = "trash")}
           keys == [k \in shown |-> items[k].version]
<1>1. /\ Listing(l, v).lib = l /\ Listing(l, v).view = v
      /\ Listing(l, v).at = version[l] /\ Listing(l, v).keys = keys
  BY DEF Listing
<1>2. DOMAIN keys = shown /\ \A k \in shown : keys[k] = items[k].version
  OBVIOUS
<1> HIDE DEF keys
<1>3. Shows(Listing(l, v))
  BY <1>1, <1>2, StoredFacts DEF Shows, Of
<1>4. Edited(Listing(l, v))
  <2> SUFFICES ASSUME NEW w \in errand, NEW e \in w.answer, w.kind = "edit", e.ok, e.own,
                      w.lib = l, NEW k \in w.keys, items[k].version = e.version
               PROVE  k \in shown <=> v = "top"
      BY <1>1, <1>2 DEF Edited
  <2>1. k \in Items /\ Home[k] = l /\ items[k].trashed = FALSE
    BY StoredFacts DEF EditTrue, Of
  <2> QED BY <2>1 DEF Views
<1> QED BY <1>1, <1>3, <1>4 DEF Told

\* What a listing shows, it goes on showing while nothing is written.
LEMMA NoWriteTold ==
    ASSUME UNCHANGED stored, \A w \in errand' : w \in errand \/ Silent(w)
    PROVE  /\ Versions => Versions'
           /\ \A a : Told(a) => Told(a)'
           /\ \A c : Caught(c) => Caught(c)'
           /\ \A r : Reread(r) => Reread(r)'
           /\ \A w : EditTrue(w) => EditTrue(w)'
<1>1. version' = version /\ items' = items
  BY DEF stored
<1>2. ASSUME NEW a, Told(a) PROVE Told(a)'
  <2>1. Shows(a)'
    BY <1>1, <1>2 DEF Told, Shows
  <2>2. Edited(a)'
    BY <1>1, <1>2 DEF Told, Edited, Silent
  <2> QED BY <2>1, <2>2 DEF Told
<1>3. ASSUME NEW c, Caught(c) PROVE Caught(c)'
  BY <1>1, <1>2, <1>3 DEF Caught
<1> QED BY <1>1, <1>2, <1>3 DEF Versions, Reread, EditTrue

\* Versions only grow, and a listing shows rightly what a write leaves alone.
LEMMA WriteShows ==
    ASSUME StoredTyped, Versions, NEW l \in Libs, NEW S \in SUBSET Of(l), NEW now \in [S -> BOOLEAN],
           Write(l, now)
    PROVE  /\ Versions'
           /\ version'[l] = version[l] + 1 /\ \A m \in Libs : version[m] <= version'[m]
           /\ \A k \in Items : items[k].version <= items'[k].version
           /\ \A k \in S : items'[k].version = version[l] + 1 /\ items'[k].trashed = now[k]
           /\ \A k \in Items \ S : items'[k] = items[k]
           /\ \A a : Shows(a) => Shows(a)'
<1>0. S \in SUBSET Items
  BY DEF Of
<1>1. /\ StoredTyped'
      /\ version'[l] = version[l] + 1
      /\ \A m \in Libs : m # l => version'[m] = version[m]
      /\ \A k \in S : items'[k].trashed = now[k]
      /\ \A k \in Items \ S : items'[k] = items[k]
  BY <1>0, WriteFacts
<1>2. \A k \in S : items'[k].version = version[l] + 1
  BY <1>0 DEF Write
<1>3. \A m \in Libs : version[m] \in Nat /\ version[m] >= 1 /\ version'[m] \in Nat
                        /\ version[m] <= version'[m]
  BY <1>1, StoredFacts DEF StoredTyped
<1>4. \A k \in S : Home[k] = l
  BY DEF Of
<1>5. \A k \in Items :
        /\ items[k].version \in Nat /\ items'[k].version \in Nat
        /\ 1 <= items[k].version /\ items[k].version <= items'[k].version
        /\ items'[k].version <= version'[Home[k]] /\ Home[k] \in Libs
  <2> TAKE k \in Items
  <2>1. /\ items[k].version \in Nat /\ 1 <= items[k].version /\ Home[k] \in Libs
        /\ items[k].version <= version[Home[k]]
    BY StoredFacts
  <2>2. CASE k \in S
    BY <1>1, <1>2, <1>3, <1>4, <2>1, <2>2
  <2>3. CASE k \notin S
    <3>1. items'[k].version = items[k].version
      BY <1>1, <2>3
    <3> QED BY <1>3, <2>1, <3>1
  <2> QED BY <2>2, <2>3
<1>6. Versions'
  BY <1>3, <1>5 DEF Versions
<1>7. ASSUME NEW a, Shows(a) PROVE Shows(a)'
  <2>1. a.lib \in Libs /\ a.view \in Views /\ a.at \in 0..version'[a.lib] /\ a.at \in Nat
        /\ a.at <= version[a.lib]
    BY <1>3, <1>7 DEF Shows
  <2>2. \A k \in DOMAIN a.keys : k \in Of(a.lib) /\ a.keys[k] \in 1..items'[k].version
    BY <1>5, <1>7 DEF Shows, Of
  <2>3. ASSUME NEW k \in Of(a.lib), items'[k].version <= a.at
        PROVE  items'[k] = items[k]
    <3>1. k \in Items /\ Home[k] = a.lib
      BY DEF Of
    <3>2. k \notin S
      BY <1>2, <1>3, <1>4, <2>1, <2>3, <3>1
    <3> QED BY <1>1, <3>1, <3>2
  <2>4. \A k \in Of(a.lib) : items'[k].version <= a.at =>
          /\ k \in DOMAIN a.keys <=> items'[k].trashed = (a.view = "trash")
          /\ k \in DOMAIN a.keys => a.keys[k] = items'[k].version
    BY <1>7, <2>3 DEF Shows
  <2> QED BY <2>1, <2>2, <2>4 DEF Shows, Of
<1> QED BY <1>1, <1>2, <1>3, <1>5, <1>6, <1>7

\* A row replaced by what was read of its item, if it is no edit of the reader's.
LEMMA RowTold ==
    ASSUME StoredTyped, Versions, \A w \in errand : EditTrue(w), IsListing(rows), Told(rows),
           NEW k \in Items, NEW v \in 1..items[k].version
    PROVE  /\ Told(Row(k, v, FALSE))
           /\ Row(k, v, FALSE).at <= rows.at
<1> DEFINE r == Row(k, v, FALSE)
<1>1. CASE k \notin Shown
  BY <1>1 DEF Row, Told, Shows
<1>2. CASE k \in Shown
  <2> DEFINE at == IF v < rows.keys[k] THEN Min({rows.at, v}) ELSE rows.at
  <2>0. rows.at \in Nat /\ rows.keys[k] \in 1..items[k].version
    BY <1>2, StoredFacts DEF Told, Shows, Shown, StoredTyped
  <2>1. r = [rows EXCEPT !.keys[k] = v, !.at = at]
    BY <1>2 DEF Row
  <2>2. at \in Nat /\ at <= rows.at /\ (v < rows.keys[k] => at <= v)
    BY <2>0, MinOfTwo, StoredFacts
  <2> HIDE DEF at
  <2>3. /\ r.lib = rows.lib /\ r.view = rows.view /\ r.at = at
        /\ DOMAIN r.keys = Shown
        /\ \A j \in Shown : r.keys[j] = IF j = k THEN v ELSE rows.keys[j]
    BY <1>2, <2>1 DEF IsListing, Shown
  <2> HIDE DEF r
  <2>4. Edited(r)
    <3> SUFFICES ASSUME NEW w \in errand, NEW e \in w.answer, w.kind = "edit", e.ok, e.own,
                        w.lib = rows.lib, at + 1 >= e.version, NEW j \in w.keys,
                        items[j].version = e.version
                 PROVE  j \in Shown <=> rows.view = "top"
        BY <2>3 DEF Edited
    <3>1. e.version \in Nat
      BY StoredFacts DEF EditTrue
    <3>2. rows.at + 1 >= e.version
      BY <2>0, <2>2, <3>1
    <3> QED BY <3>2 DEF Told, Edited, Shown
  <2>5. Shows(r)
    <3>1. r.lib \in Libs /\ r.view \in Views /\ r.at \in 0..version[r.lib]
      BY <2>0, <2>2, <2>3, StoredFacts DEF Told, Shows
    <3>2. \A j \in DOMAIN r.keys : j \in Of(r.lib) /\ r.keys[j] \in 1..items[j].version
      BY <2>3 DEF Told, Shows, Shown
    <3>3. ASSUME NEW j \in Of(r.lib), items[j].version <= r.at
          PROVE  /\ j \in DOMAIN r.keys <=> items[j].trashed = (r.view = "trash")
                 /\ j \in DOMAIN r.keys => r.keys[j] = items[j].version
      <4>1. j \in Items /\ items[j].version \in Nat
        BY StoredFacts DEF Of
      <4>2. items[j].version <= rows.at
        BY <2>0, <2>2, <2>3, <3>3, <4>1
      <4>3. /\ j \in Shown <=> items[j].trashed = (rows.view = "trash")
            /\ j \in Shown => rows.keys[j] = items[j].version
        BY <2>3, <4>2 DEF Told, Shows, Shown
      <4>4. j = k => v = items[k].version
        <5> SUFFICES ASSUME j = k PROVE v = items[k].version
            OBVIOUS
        <5>1. rows.keys[k] = items[k].version
          BY <1>2, <4>3
        <5>2. ~(v < rows.keys[k])
          BY <2>0, <2>2, <2>3, <3>3, <4>1, <5>1
        <5> QED BY <4>1, <5>1, <5>2
      <4> QED BY <2>3, <4>3, <4>4
    <3> QED BY <3>1, <3>2, <3>3 DEF Shows
  <2> QED BY <2>0, <2>2, <2>3, <2>4, <2>5 DEF Told, r
<1> QED BY <1>1, <1>2

\* A row replaced by an edit of the reader's: the rows that were of the version
\* before it are of its version.
LEMMA OwnRowShows ==
    ASSUME StoredTyped, Versions, \A w \in errand : EditTrue(w), IsListing(rows), Told(rows),
           NEW w \in errand, NEW e \in w.answer, w.kind = "edit", e.ok, e.own, w.lib = rows.lib,
           NEW k \in w.keys
    PROVE  /\ Shows(Row(k, e.version, TRUE))
           /\ Row(k, e.version, TRUE).at <= rows.at \/ Row(k, e.version, TRUE).at = e.version
<1> DEFINE v == e.version
           r == Row(k, v, TRUE)
<1>1. /\ k \in Items /\ k \in Of(rows.lib) /\ v \in 1..items[k].version /\ v <= version[rows.lib]
      /\ \A j \in Of(rows.lib) : items[j].version = v => j = k /\ ~items[j].trashed
      /\ rows.lib \in Libs /\ rows.view \in Views /\ rows.at \in Nat
  BY StoredFacts DEF EditTrue, Told, Shows, Of
<1>2. v \in Nat
  BY <1>1, StoredFacts
<1>3. rows.at + 1 >= v => (items[k].version = v => (k \in Shown <=> rows.view = "top"))
  BY DEF Told, Edited, Shown
<1> HIDE DEF v
<1>4. CASE rows.at # v - 1
  <2>1. r = Row(k, v, FALSE)
    BY <1>4 DEF Row
  <2> QED BY <1>1, <2>1, RowTold DEF Told, v
<1>5. CASE k \in Shown /\ v < rows.keys[k]
  <2>1. r = Row(k, v, FALSE)
    BY <1>5 DEF Row
  <2> QED BY <1>1, <2>1, RowTold DEF Told, v
<1>6. CASE rows.at = v - 1 /\ ~(k \in Shown /\ v < rows.keys[k])
  <2>1. \/ k \in Shown /\ r = [rows EXCEPT !.keys[k] = v, !.at = v]
        \/ k \notin Shown /\ r = [rows EXCEPT !.at = v]
    BY <1>6 DEF Row
  <2>2. /\ r.lib = rows.lib /\ r.view = rows.view /\ r.at = v
        /\ DOMAIN r.keys = Shown
        /\ \A j \in Shown : r.keys[j] = IF j = k THEN v ELSE rows.keys[j]
    <3>1. CASE k \in Shown /\ r = [rows EXCEPT !.keys[k] = v, !.at = v]
      <4> HIDE DEF r
      <4> QED BY <3>1 DEF IsListing, Shown
    <3>2. CASE k \notin Shown /\ r = [rows EXCEPT !.at = v]
      <4> HIDE DEF r
      <4> QED BY <3>2 DEF IsListing, Shown
    <3> QED BY <2>1, <3>1, <3>2
  <2> HIDE DEF r
  <2>3. r.lib \in Libs /\ r.view \in Views /\ r.at \in 0..version[r.lib]
    BY <1>1, <1>2, <2>2, StoredFacts
  <2>4. \A j \in DOMAIN r.keys : j \in Of(r.lib) /\ r.keys[j] \in 1..items[j].version
    BY <1>1, <2>2 DEF Told, Shows, Shown
  <2>5. ASSUME NEW j \in Of(r.lib), items[j].version <= r.at
        PROVE  /\ j \in DOMAIN r.keys <=> items[j].trashed = (r.view = "trash")
               /\ j \in DOMAIN r.keys => r.keys[j] = items[j].version
    <3>1. j \in Items /\ items[j].version \in Nat /\ items[j].trashed \in BOOLEAN
      BY StoredFacts DEF Of
    <3>2. CASE items[j].version = v
      <4>1. j = k /\ items[j].trashed = FALSE
        BY <1>1, <2>2, <3>1, <3>2
      <4>2. k \in Shown <=> rows.view = "top"
        BY <1>1, <1>2, <1>3, <1>6, <3>2, <4>1
      <4> QED BY <1>1, <2>2, <3>2, <4>1, <4>2 DEF Views
    <3>3. CASE items[j].version # v
      <4>1. items[j].version <= rows.at
        BY <1>1, <1>2, <1>6, <2>2, <2>5, <3>1, <3>3
      <4>2. j # k
        BY <1>1, <1>2, <1>6, <3>1, <4>1
      <4>3. /\ j \in Shown <=> items[j].trashed = (rows.view = "trash")
            /\ j \in Shown => rows.keys[j] = items[j].version
        BY <2>2, <4>1 DEF Told, Shows, Shown
      <4> QED BY <2>2, <4>2, <4>3
    <3> QED BY <3>2, <3>3
  <2>6. Shows(r)
    BY <2>3, <2>4, <2>5 DEF Shows
  <2> QED BY <2>2, <2>6 DEF r, v
<1> QED BY <1>4, <1>5, <1>6

-----------------------------------------------------------------------------
(* What the page knows of, and waits for *)

\* What is known is never behind the rows, and what is heard is the last version.
Known ==
    /\ known \in Nat /\ lost \in Nat /\ rows.at <= known
    /\ \A e \in heard : e = version[lib] /\ e > known

\* The listing that is asked for will be of version u or later, if it comes.
Asked(u) == IF req = {} THEN failure ELSE \A q \in req : \A a \in q.answer : a.at >= u

\* The library's version is known, was announced, or is about to be: a catching-up
\* that is under way reads as far, or one that failed would have, or the reader
\* moved on after it and what was asked for then will be as new.
Aware ==
    /\ \/ known >= version[lib] \/ version[lib] \in heard
       \/ lost >= version[lib] \/ Asked(version[lib])
       \/ \E c \in catching : \E a \in c.answer :
            c.stage = "list" /\ a.lib = lib /\ c.upto >= version[lib]
    /\ \A c \in catching : \A a \in c.answer : c.stage = "list" =>
        /\ \/ a.lib = lib /\ c.upto >= version[lib]
           \/ known >= version[lib] \/ version[lib] \in heard
        /\ a.lib = lib /\ a.view # view => known >= c.upto \/ Asked(c.upto)

\* More is known than before, and of what was heard only what is known is dropped.
Further ==
    /\ known' \in Nat /\ known <= known'
    /\ heard' \subseteq heard
    /\ \A e \in heard : e \in heard' \/ e <= known'
    /\ \A e \in heard' : e > known'

-----------------------------------------------------------------------------
(* What is shown, step by step *)

\* A step that writes nothing keeps the truth of what it leaves alone.
LEMMA TruthStays ==
    ASSUME Truth, UNCHANGED stored,
           \A w \in errand' : w \in errand \/ (Silent(w) /\ EditTrue(w)'),
           rows' = rows \/ Told(rows)',
           \A q \in req' : q \in req \/ \A a \in q.answer : Told(a)',
           \A c \in catching' : c \in catching \/ Caught(c)',
           \A r \in reload' : r \in reload \/ Reread(r)'
    PROVE  Truth'
<1>1. /\ Versions'
      /\ \A a : Told(a) => Told(a)'
      /\ \A c : Caught(c) => Caught(c)'
      /\ \A r : Reread(r) => Reread(r)'
      /\ \A w : EditTrue(w) => EditTrue(w)'
  BY NoWriteTold DEF Truth
<1>2. Told(rows)'
  BY <1>1 DEF Truth
<1>3. (\A q \in req : \A a \in q.answer : Told(a))'
  BY <1>1 DEF Truth
<1>4. (\A c \in catching : Caught(c))'
  BY <1>1 DEF Truth
<1>5. (\A r \in reload : Reread(r))'
  BY <1>1 DEF Truth
<1>6. (\A w \in errand : EditTrue(w))'
  BY <1>1 DEF Truth
<1> QED BY <1>1, <1>2, <1>3, <1>4, <1>5, <1>6 DEF Truth

\* A write leaves the listings true, but for what they say of the edit it is.
LEMMA WriteKeepsTruth ==
    ASSUME StoredTyped, Truth, NEW l \in Libs, NEW S \in SUBSET Of(l), NEW now \in [S -> BOOLEAN],
           Write(l, now), UNCHANGED <<rows, req, catching, reload>>,
           \A w \in errand' : EditTrue(w)',
           \A a : Told(a) => Edited(a)'
    PROVE  Truth'
<1>1. /\ Versions'
      /\ \A k \in Items : items[k].version <= items'[k].version
      /\ \A a : Shows(a) => Shows(a)'
  BY WriteShows DEF Truth
<1>2. \A a : Told(a) => Told(a)'
  BY <1>1 DEF Told
<1>3. \A k \in Items : items[k].version \in Nat /\ items'[k].version \in Nat
  <2>1. StoredTyped'
    BY WriteFacts DEF Of
  <2> QED BY <2>1 DEF StoredTyped
<1>4. \A k \in Items : 1..items[k].version \subseteq 1..items'[k].version
  BY <1>1, <1>3
<1>5. (\A c \in catching : Caught(c))'
  BY <1>2, <1>4 DEF Truth, Caught
<1>6. (\A r \in reload : Reread(r))'
  BY <1>4 DEF Truth, Reread
<1>7. Told(rows)' /\ (\A q \in req : \A a \in q.answer : Told(a))'
  BY <1>2 DEF Truth
<1> QED BY <1>1, <1>5, <1>6, <1>7 DEF Truth

\* What is true of an edit is so after a write that is not it.
LEMMA WriteKeepsEdits ==
    ASSUME StoredTyped, Versions, NEW l \in Libs, NEW S \in SUBSET Of(l), NEW now \in [S -> BOOLEAN],
           Write(l, now), NEW w, w.lib \in Libs, EditTrue(w)
    PROVE  /\ EditTrue(w)'
           /\ w.kind = "edit" => \A e \in w.answer : e.ok /\ e.own =>
                \A k \in w.keys : items'[k].version = e.version => items'[k] = items[k]
<1>1. /\ \A m \in Libs : version[m] <= version'[m]
      /\ \A k \in Items : items[k].version <= items'[k].version
      /\ \A k \in S : items'[k].version = version[l] + 1
      /\ \A k \in Items \ S : items'[k] = items[k]
      /\ S \subseteq Items /\ \A k \in S : Home[k] = l
  BY WriteShows DEF Of
<1>2. /\ \A k \in Items : items[k].version \in Nat /\ items'[k].version \in Nat
      /\ \A m \in Libs : version[m] \in Nat /\ version'[m] \in Nat
  <2>1. StoredTyped'
    BY WriteFacts DEF Of
  <2> QED BY <2>1 DEF StoredTyped
<1>3. ASSUME w.kind = "edit", NEW e \in w.answer, e.ok
      PROVE  /\ e.own \in BOOLEAN
             /\ \A k \in w.keys : Home[k] = w.lib /\ e.version \in 1..items'[k].version
             /\ e.own =>
                 /\ 1 < e.version /\ e.version <= version'[w.lib]
                 /\ \A k \in Of(w.lib) :
                     items'[k].version = e.version =>
                         k \in w.keys /\ ~items'[k].trashed /\ items'[k] = items[k]
  <2>1. /\ e.own \in BOOLEAN
        /\ \A k \in w.keys : k \in Items /\ Home[k] = w.lib /\ e.version \in 1..items[k].version
        /\ \E k \in Items : w.keys = {k}
        /\ e.own =>
            /\ 1 < e.version /\ e.version <= version[w.lib]
            /\ \A k \in Of(w.lib) :
                items[k].version = e.version => k \in w.keys /\ ~items[k].trashed
    BY <1>3 DEF EditTrue
  <2>2. e.version \in Nat
    BY <1>2, <2>1
  <2>3. \A k \in w.keys : e.version \in 1..items'[k].version
    BY <1>1, <1>2, <2>1
  <2>4. ASSUME e.own, NEW k \in Of(w.lib), items'[k].version = e.version
        PROVE  items'[k] = items[k]
    <3>1. k \in Items /\ Home[k] = w.lib
      BY DEF Of
    <3>2. k \notin S
      BY <1>1, <1>2, <2>1, <2>2, <2>4, <3>1
    <3> QED BY <1>1, <3>1, <3>2
  <2>5. e.own => e.version <= version'[w.lib]
    BY <1>1, <1>2, <2>1, <2>2
  <2> QED BY <2>1, <2>3, <2>4, <2>5
<1>4. EditTrue(w)'
  BY <1>3 DEF EditTrue, Of
<1>5. w.kind = "edit" => \A e \in w.answer : e.ok /\ e.own =>
        \A k \in w.keys : items'[k].version = e.version => items'[k] = items[k]
  <2>1. w.kind = "edit" => \A e \in w.answer : e.ok => \A k \in w.keys : k \in Of(w.lib)
    BY DEF EditTrue, Of
  <2> QED BY <1>3, <2>1
<1> QED BY <1>4, <1>5

\* The reader's moves show nothing new.
LEMMA ReaderTruth ==
    ASSUME RowsInv, UndoInv, Alone, Truth, Reader
    PROVE  Truth'
<1>1. ASSUME NEW l \in Libs, OpenLibrary(l) PROVE Truth'
  <2>1. /\ rows' = [lib |-> l, view |-> "top", at |-> 0, keys |-> Nothing]
        /\ UNCHANGED <<stored, version, items, errand, catching, reload>>
        /\ \A q \in req' : q.answer = {}
    BY <1>1 DEF OpenLibrary, Ask, stored
  <2>2. Versions /\ StoredTyped
    BY DEF Truth, UndoInv
  <2>3. \A k \in Items : ~(items[k].version <= 0)
    BY <2>2, StoredFacts
  <2>4. DOMAIN Nothing = {}
    BY DEF Nothing
  <2> PICK a : a = rows'
    OBVIOUS
  <2>5. a.lib = l /\ a.view = "top" /\ a.at = 0 /\ DOMAIN a.keys = {}
    BY <2>1, <2>4
  <2>6. Shows(a)
    BY <2>2, <2>3, <2>5, StoredFacts DEF Shows, Views, Of
  <2>7. Edited(a)
    <3> SUFFICES ASSUME NEW w \in errand, NEW e \in w.answer, w.kind = "edit", e.ok, e.own,
                        1 >= e.version, NEW k \in w.keys, items[k].version = e.version, w.lib = l
                 PROVE  FALSE
        BY <2>5 DEF Edited
    <3>1. 1 < e.version /\ e.version \in Nat
      BY <2>2, StoredFacts DEF Truth, EditTrue
    <3> QED BY <3>1
  <2>8. Told(rows)'
    BY <2>1, <2>6, <2>7, NoWriteTold DEF Told
  <2> QED BY <2>1, <2>8, TruthStays
<1>2. ASSUME NEW v \in Views, SelectScope(v) PROVE Truth'
  <2>1. /\ UNCHANGED <<stored, rows, errand, catching, reload>>
        /\ \A q \in req' : q.answer = {}
    BY <1>2 DEF SelectScope, Ask
  <2> QED BY <2>1, TruthStays
<1>3. ASSUME NEW keys, Pick(keys) PROVE Truth'
  BY <1>3, TruthStays DEF Pick
<1>4. CASE Errand(IF view = "top" THEN "trash" ELSE "restore")
  <2>1. /\ UNCHANGED <<stored, rows, req, catching, reload>>
        /\ \A w \in errand' : w.kind # "edit"
    BY <1>4 DEF Errand
  <2> QED BY <2>1, TruthStays DEF Silent, EditTrue
<1>5. CASE Edit
  <2>1. /\ UNCHANGED <<stored, rows, req, catching, reload>>
        /\ \A w \in errand' : w.answer = {} /\ w.keys = selected
        /\ selected # {}
    BY <1>5 DEF Edit
  <2>2. \E k \in Items : selected = {k}
    BY <2>1 DEF Alone, AtMostOne
  <2> QED BY <2>1, <2>2, TruthStays DEF Silent, EditTrue
<1>6. ASSUME NEW o, Undo(o) PROVE Truth'
  <2>1. /\ UNCHANGED <<stored, rows, req, catching, reload>>
        /\ \A w \in errand' : w.kind # "edit"
    BY <1>6 DEF Undo
  <2> QED BY <2>1, TruthStays DEF Silent, EditTrue
<1> QED BY <1>1, <1>2, <1>3, <1>4, <1>5, <1>6 DEF Reader

\* A write by another client is of no edit of the reader's.
LEMMA OthersTruth ==
    ASSUME UndoInv, Truth, NEW k \in Items, NEW t \in BOOLEAN, ForeignWrite(k, t)
    PROVE  Truth'
<1> DEFINE now == [i \in {k} |-> t]
<1>1. Home[k] \in Libs /\ {k} \in SUBSET Of(Home[k]) /\ now \in [{k} -> BOOLEAN]
  BY LibraryPageAssumption DEF Of
<1>2. /\ Write(Home[k], now)
      /\ UNCHANGED <<rows, errand, req, catching, reload>>
  BY DEF ForeignWrite, requests
<1> HIDE DEF now
<1>3. StoredTyped /\ Versions /\ \A w \in errand : w.lib \in Libs /\ EditTrue(w)
  BY DEF UndoInv, Truth, Consistent
<1>4. ASSUME NEW w \in errand
      PROVE  /\ EditTrue(w)'
             /\ w.kind = "edit" => \A e \in w.answer : e.ok /\ e.own =>
                  \A i \in w.keys : items'[i].version = e.version => items'[i] = items[i]
  BY <1>1, <1>2, <1>3, WriteKeepsEdits
<1>5. ASSUME NEW a, Told(a) PROVE Edited(a)'
  BY <1>2, <1>4, <1>5 DEF Told, Edited
<1> QED BY <1>1, <1>2, <1>3, <1>4, <1>5, WriteKeepsTruth

\* The answer of an edit that is made.
LEMMA EditAnswered ==
    ASSUME NEW u, NEW x, NEW n,
           u.answer = {x}, x.ok = TRUE, x.own = TRUE, x.version = n,
           1 < n, n <= version'[u.lib], \E k \in Items : u.keys = {k},
           \A k \in u.keys : Home[k] = u.lib /\ n \in 1..items'[k].version,
           \A k \in Of(u.lib) : items'[k].version = n => k \in u.keys /\ ~items'[k].trashed
    PROVE  EditTrue(u)'
<1> SUFFICES ASSUME NEW e \in u.answer
             PROVE  /\ e.own \in BOOLEAN
                    /\ \A k \in u.keys : Home[k] = u.lib /\ e.version \in 1..items'[k].version
                    /\ 1 < e.version /\ e.version <= version'[u.lib]
                    /\ \A k \in Of(u.lib) :
                        items'[k].version = e.version => k \in u.keys /\ ~items'[k].trashed
    BY DEF EditTrue, Of
<1>1. e = x
  OBVIOUS
<1> QED BY <1>1

\* The reader's own writes: an edit that is made is answered with the version of
\* its item, which was in the listings of its scope and stays there.
LEMMA ServeTruth ==
    ASSUME UndoInv, Truth, Serve
    PROVE  Truth'
<1> PICK w \in errand : Serve!(w)
  BY DEF Serve
<1>1. Consistent(w) /\ w.lib \in Libs /\ w.keys \subseteq Items /\ StoredTyped /\ Versions
      /\ EditTrue(w)
  BY DEF UndoInv, Consistent, Truth
<1>2. UNCHANGED <<rows, req, catching, reload>>
  BY DEF Serve
<1> DEFINE Now(x) == [w EXCEPT !.answer = {x}]
<1>3. ASSUME NEW x
      PROVE  /\ Now(x).kind = w.kind /\ Now(x).lib = w.lib /\ Now(x).keys = w.keys
             /\ Now(x).answer = {x}
  BY <1>1 DEF Consistent
<1> HIDE DEF Now
<1>4. ASSUME w.kind # "edit", NEW S \in SUBSET Of(w.lib), NEW now \in [S -> BOOLEAN],
             Write(w.lib, now), NEW x, errand' = {Now(x)}
      PROVE  Truth'
  <2>1. \A u \in errand' : u.kind # "edit"
    BY <1>3, <1>4
  <2>2. \A u \in errand' : EditTrue(u)'
    BY <2>1 DEF EditTrue
  <2>3. \A a : Told(a) => Edited(a)'
    BY <2>1 DEF Edited
  <2> QED BY <1>1, <1>2, <1>4, <2>2, <2>3, WriteKeepsTruth
<1>5. CASE /\ w.kind \in {"trash", "restore"}
           /\ Write(w.lib, [k \in w.keys |-> w.kind = "trash"])
           /\ errand' = {[w EXCEPT !.answer = {[ok |-> TRUE, undo |-> UndoOf(w)]}]}
  <2> DEFINE now == [k \in w.keys |-> w.kind = "trash"]
             x == [ok |-> TRUE, undo |-> UndoOf(w)]
  <2>1. w.keys \in SUBSET Of(w.lib) /\ now \in [w.keys -> BOOLEAN] /\ w.kind # "edit"
    BY <1>1, <1>5 DEF Consistent
  <2>2. Write(w.lib, now) /\ errand' = {Now(x)}
    BY <1>5 DEF Now
  <2> HIDE DEF now, x
  <2> QED BY <1>4, <2>1, <2>2
<1>6. CASE /\ w.kind = "undo"
           /\ Write(w.lib, [k \in w.keys |-> k \in w.offer.trashed])
           /\ errand' = {[w EXCEPT !.answer = {[ok |-> TRUE]}]}
  <2> DEFINE now == [k \in w.keys |-> k \in w.offer.trashed]
             x == [ok |-> TRUE]
  <2>1. w.keys \in SUBSET Of(w.lib) /\ now \in [w.keys -> BOOLEAN] /\ w.kind # "edit"
    BY <1>1, <1>6 DEF Consistent, Stands
  <2>2. Write(w.lib, now) /\ errand' = {Now(x)}
    BY <1>6 DEF Now
  <2> HIDE DEF now, x
  <2> QED BY <1>4, <2>1, <2>2
<1>7. CASE /\ w.kind = "edit" /\ \A k \in w.keys : MayEdit(k, w.lib)
           /\ Write(w.lib, [k \in w.keys |-> FALSE])
           /\ errand' = {[w EXCEPT !.answer = {[ok |-> TRUE, own |-> TRUE, version |-> version[w.lib] + 1]}]}
  <2> DEFINE now == [k \in w.keys |-> FALSE]
  <2> PICK n : n = version[w.lib] + 1
    OBVIOUS
  <2> PICK x : x = [ok |-> TRUE, own |-> TRUE, version |-> n]
    OBVIOUS
  <2>1. w.keys \in SUBSET Of(w.lib) /\ now \in [w.keys -> BOOLEAN]
    BY <1>1, <1>7 DEF MayEdit, Of
  <2>2. Write(w.lib, now) /\ errand' = {Now(x)}
    BY <1>7 DEF Now
  <2>3. x.ok = TRUE /\ x.own = TRUE /\ x.version = n
    OBVIOUS
  <2>4. \A k \in w.keys : now[k] = FALSE
    OBVIOUS
  <2>5. n \in Nat /\ 1 < n
    BY <1>1, StoredFacts
  <2> HIDE DEF now
  <2>6. /\ version'[w.lib] = n
        /\ \A k \in w.keys : items'[k].version = n /\ items'[k].trashed = FALSE
        /\ \A k \in Items \ w.keys : items'[k] = items[k]
    <3>1. /\ version'[w.lib] = version[w.lib] + 1
          /\ \A k \in w.keys : items'[k].version = version[w.lib] + 1 /\ items'[k].trashed = now[k]
          /\ \A k \in Items \ w.keys : items'[k] = items[k]
      BY <1>1, <2>1, <2>2, WriteShows
    <3> QED BY <2>4, <3>1
  <2>7. \A k \in Of(w.lib) : items'[k].version = n => k \in w.keys
    <3> TAKE k \in Of(w.lib)
    <3>1. k \in Items /\ items[k].version <= version[w.lib] /\ items[k].version \in Nat
          /\ version[w.lib] \in Nat
      BY <1>1, StoredFacts DEF Of
    <3> QED BY <2>6, <3>1
  <2> PICK u : u = Now(x)
    OBVIOUS
  <2>8. EditTrue(u)'
    <3>0. u.kind = w.kind /\ u.lib = w.lib /\ u.keys = w.keys /\ u.answer = {x}
      BY <1>3
    <3>1. \E k \in Items : w.keys = {k}
      BY <1>1, <1>7 DEF EditTrue
    <3>2. \A k \in w.keys : Home[k] = w.lib /\ n \in 1..items'[k].version
      BY <2>1, <2>5, <2>6 DEF Of
    <3>3. n <= version'[w.lib]
      BY <2>5, <2>6
    <3>4. \A k \in Of(w.lib) : items'[k].version = n => k \in w.keys /\ ~items'[k].trashed
      BY <2>6, <2>7
    <3> QED BY <2>3, <2>5, <3>0, <3>1, <3>2, <3>3, <3>4, EditAnswered
  <2>9. ASSUME NEW a, Told(a) PROVE Edited(a)'
    <3> SUFFICES ASSUME w.lib = a.lib, a.at + 1 >= n, NEW k \in w.keys
                 PROVE  k \in DOMAIN a.keys <=> a.view = "top"
        BY <1>3, <2>2, <2>3 DEF Edited
    <3>1. /\ k \in Items /\ Home[k] = w.lib /\ items[k].trashed = FALSE
          /\ items[k].version \in Nat /\ items[k].version <= version[w.lib]
          /\ version[w.lib] \in Nat
      BY <1>1, <1>7, StoredFacts DEF MayEdit
    <3>2. a.at \in Nat /\ a.view \in Views
      BY <2>9, <3>1 DEF Told, Shows
    <3>3. items[k].version <= a.at /\ k \in Of(a.lib)
      BY <3>1, <3>2 DEF Of
    <3>4. k \in DOMAIN a.keys <=> items[k].trashed = (a.view = "trash")
      BY <2>9, <3>3 DEF Told, Shows
    <3> QED BY <3>1, <3>2, <3>4 DEF Views
  <2> QED BY <1>1, <1>2, <2>1, <2>2, <2>8, <2>9, WriteKeepsTruth
<1>8. CASE /\ errand' = {[w EXCEPT !.answer = {[ok |-> FALSE]}]}
           /\ UNCHANGED <<version, items, heard>>
  <2> DEFINE x == [ok |-> FALSE]
  <2>1. errand' = {Now(x)} /\ x.ok = FALSE
    BY <1>8 DEF Now
  <2> HIDE DEF x
  <2>2. Silent(Now(x)) /\ EditTrue(Now(x))'
    BY <1>1, <1>3, <2>1 DEF Silent, EditTrue
  <2> QED BY <1>2, <1>8, <2>1, <2>2, TruthStays DEF stored
<1>9. CASE /\ w.kind = "edit"
           /\ \E k \in w.keys :
                /\ Home[k] = w.lib
                /\ errand' = {[w EXCEPT !.answer = {[ok |-> TRUE, own |-> FALSE, version |-> items[k].version]}]}
           /\ UNCHANGED <<version, items, heard>>
  <2>1. PICK k \in w.keys :
          /\ Home[k] = w.lib
          /\ errand' = {[w EXCEPT !.answer = {[ok |-> TRUE, own |-> FALSE, version |-> items[k].version]}]}
    BY <1>9
  <2> PICK x : x = [ok |-> TRUE, own |-> FALSE, version |-> items[k].version]
    OBVIOUS
  <2>2. errand' = {Now(x)} /\ x.ok = TRUE /\ x.own = FALSE /\ x.version = items[k].version
    BY <2>1 DEF Now
  <2>3. w.keys = {k} /\ k \in Items /\ items[k].version \in 1..items[k].version
    BY <1>1, <1>9, StoredFacts DEF EditTrue
  <2>4. items' = items /\ version' = version
    BY <1>9
  <2> PICK u : u = Now(x)
    OBVIOUS
  <2>5. u.kind = w.kind /\ u.lib = w.lib /\ u.keys = w.keys /\ u.answer = {x}
    BY <1>3
  <2>6. EditTrue(u)'
    BY <2>1, <2>2, <2>3, <2>4, <2>5 DEF EditTrue
  <2>7. Silent(u)
    BY <2>2, <2>5 DEF Silent
  <2> QED BY <1>2, <1>9, <2>2, <2>6, <2>7, TruthStays DEF stored
<1> QED BY <1>5, <1>6, <1>7, <1>8, <1>9

\* Listings that are asked for, served and put on the page.
LEMMA ListsTruth ==
    ASSUME RowsInv, UndoInv, Alone, Truth,
           \/ ErrandDone \/ ListServed \/ ListArrives \/ ListFails
           \/ CollectionsArrive \/ CollectionsFail \/ KidsArrive \/ UNCHANGED vars
    PROVE  Truth'
<1>1. CASE ErrandDone
  <2>1. /\ UNCHANGED <<stored, rows, catching, reload>> /\ errand' = {}
        /\ \A q \in req' : q \in req \/ q.answer = {}
    BY <1>1 DEF ErrandDone, Refresh, Ask
  <2> QED BY <2>1, TruthStays
<1>2. CASE ListServed
  <2>1. PICK q \in req : req' = {[q EXCEPT !.answer = {Listing(q.lib, q.view)}]}
    BY <1>2 DEF ListServed
  <2>2. UNCHANGED <<stored, rows, errand, catching, reload>>
    BY <1>2 DEF ListServed
  <2> PICK a : a = Listing(q.lib, q.view)
    OBVIOUS
  <2>3. Told(a)
    BY ListingTold DEF RowsInv, UndoInv, Truth, Alone
  <2>4. Told(a)'
    BY <2>2, <2>3, NoWriteTold
  <2>5. \A p \in req' : p.answer = {a}
    BY <2>1 DEF RowsInv
  <2> QED BY <2>2, <2>4, <2>5, TruthStays
<1>3. CASE ListArrives
  <2>1. PICK q \in req : \E a \in q.answer : req' = {} /\ rows' = a
    BY <1>3 DEF ListArrives
  <2>2. PICK a \in q.answer : req' = {} /\ rows' = a
    BY <2>1
  <2>3. UNCHANGED <<stored, errand, catching, reload>>
    BY <1>3 DEF ListArrives
  <2>4. Told(a)'
    BY <2>3, NoWriteTold DEF Truth
  <2> QED BY <2>2, <2>3, <2>4, TruthStays
<1>4. CASE ListFails \/ CollectionsArrive \/ CollectionsFail \/ KidsArrive
  <2>1. UNCHANGED <<stored, rows, errand, catching, reload>> /\ req' \subseteq req
    BY <1>4 DEF ListFails, CollectionsArrive, CollectionsFail, KidsArrive
  <2> QED BY <2>1, TruthStays
<1>5. CASE UNCHANGED vars
  <2>1. UNCHANGED <<stored, rows, errand, catching, reload, req>>
    BY <1>5 DEF vars, requests
  <2> QED BY <2>1, TruthStays
<1> QED BY <1>1, <1>2, <1>3, <1>4, <1>5

\* What catching up reads, and puts on the page.
LEMMA CatchUpTruth ==
    ASSUME RowsInv, UndoInv, Alone, Truth, Known,
           CatchUp \/ CaughtUp \/ ItemServed \/ ItemCaughtUp \/ CatchUpFails
    PROVE  Truth'
<1>0. StoredTyped /\ Versions /\ (\A w \in errand : EditTrue(w)) /\ IsListing(rows) /\ Told(rows)
  BY DEF RowsInv, UndoInv, Truth
<1>1. CASE CatchUp
  <2>1. PICK v \in heard :
            catching' = {[stage |-> "list", upto |-> v, answer |-> {Listing(lib, view)}]}
    BY <1>1 DEF CatchUp
  <2>2. UNCHANGED <<stored, rows, errand, req, reload>>
    BY <1>1 DEF CatchUp
  <2> PICK a : a = Listing(lib, view)
    OBVIOUS
  <2>3. Told(a) /\ a.at = version[lib]
    BY <1>0, ListingTold DEF RowsInv, Alone
  <2>4. Told(a)'
    BY <2>2, <2>3, NoWriteTold
  <2>5. v = version[lib]
    BY DEF Known
  <2>6. \A c \in catching' : c.stage = "list" /\ c.answer = {a} /\ c.upto = v
    BY <2>1
  <2>7. \A c \in catching' : Caught(c)'
    BY <2>3, <2>4, <2>5, <2>6 DEF Caught
  <2> QED BY <2>2, <2>7, TruthStays
<1>2. CASE CaughtUp
  <2>1. UNCHANGED <<stored, errand, req, reload>>
    BY <1>2 DEF CaughtUp
  <2>2. PICK c \in catching :
            /\ c.stage = "list"
            /\ \/ /\ rows' = The(c.answer)
                  /\ catching' = {[stage |-> "item", lib |-> lib, key |-> k, answer |-> {}]
                                        : k \in selected}
               \/ catching' = {} /\ rows' = rows
    BY <1>2 DEF CaughtUp
  <2>3. PICK a \in c.answer : c.answer = {a} /\ Told(a)
    BY <2>2 DEF Truth, Caught
  <2>4. The(c.answer) = a
    BY <2>3 DEF The
  <2>5. Told(a)'
    BY <2>1, <2>3, NoWriteTold
  <2>6. rows' = rows \/ Told(rows)'
    BY <2>2, <2>4, <2>5
  <2>7. ASSUME NEW d \in catching' PROVE Caught(d)'
    <3>1. PICK k \in selected : d = [stage |-> "item", lib |-> lib, key |-> k, answer |-> {}]
      BY <2>2
    <3>2. d.stage = "item" /\ DOMAIN d = {"stage", "lib", "key", "answer"} /\ d.key \in Items
          /\ d.answer = {}
      BY <3>1 DEF Alone
    <3> QED BY <3>2 DEF Caught
  <2> QED BY <2>1, <2>6, <2>7, TruthStays
<1>3. CASE ItemServed
  <2>1. PICK c \in catching :
            /\ c.stage = "item"
            /\ catching' = {[c EXCEPT !.answer = {[found |-> Home[c.key] = c.lib,
                                                   version |-> items[c.key].version]}]}
    BY <1>3 DEF ItemServed
  <2>2. UNCHANGED <<stored, rows, errand, req, reload>> /\ items' = items
    BY <1>3 DEF ItemServed, stored
  <2>3. DOMAIN c = {"stage", "lib", "key", "answer"} /\ c.key \in Items
    BY <2>1 DEF Truth, Caught
  <2>4. items[c.key].version \in 1..items[c.key].version
    BY <1>0, <2>3, StoredFacts
  <2> PICK v : v = items[c.key].version
    OBVIOUS
  <2>5. ASSUME NEW d \in catching'
        PROVE  /\ d.stage = "item" /\ DOMAIN d = {"stage", "lib", "key", "answer"}
               /\ d.key = c.key
               /\ d.answer = {[found |-> Home[c.key] = c.lib, version |-> v]}
    BY <2>1, <2>3
  <2>6. ASSUME NEW d \in catching' PROVE Caught(d)'
    <3>1. \A a \in d.answer : a.version = v
      BY <2>5
    <3> QED BY <2>2, <2>3, <2>4, <2>5, <3>1 DEF Caught
  <2> QED BY <2>2, <2>6, TruthStays
<1>4. CASE ItemCaughtUp
  <2>1. UNCHANGED <<stored, errand, req, reload>> /\ catching' = {}
    BY <1>4 DEF ItemCaughtUp
  <2>2. PICK c \in catching : \E a \in c.answer :
            c.stage = "item" /\ (rows' = rows \/ rows' = Row(c.key, a.version, FALSE))
    BY <1>4 DEF ItemCaughtUp
  <2>3. PICK a \in c.answer : rows' = rows \/ rows' = Row(c.key, a.version, FALSE)
    BY <2>2
  <2>4. c.key \in Items /\ a.version \in 1..items[c.key].version
    BY <2>2 DEF Truth, Caught
  <2> PICK r : r = Row(c.key, a.version, FALSE)
    OBVIOUS
  <2>5. Told(r)
    BY <1>0, <2>4, RowTold
  <2>6. Told(r)'
    BY <2>1, <2>5, NoWriteTold
  <2> QED BY <2>1, <2>3, <2>6, TruthStays
<1>5. CASE CatchUpFails
  <2>1. UNCHANGED <<stored, rows, errand, req, reload>> /\ catching' = {}
    BY <1>5 DEF CatchUpFails
  <2> QED BY <2>1, TruthStays
<1> QED BY <1>1, <1>2, <1>3, <1>4, <1>5

\* An edit, or the open item read again, replaces its row.
LEMMA PutTruth ==
    ASSUME RowsInv, UndoInv, Alone, Truth,
           EditDone \/ Settle \/ ReloadServed \/ ReloadArrives
    PROVE  Truth'
<1>0. StoredTyped /\ Versions /\ (\A w \in errand : EditTrue(w)) /\ IsListing(rows) /\ Told(rows)
  BY DEF RowsInv, UndoInv, Truth
<1>1. CASE EditDone
  <2>1. UNCHANGED <<stored, req, catching, reload>> /\ errand' = {}
    BY <1>1 DEF EditDone
  <2>2. PICK w \in errand : \E e \in w.answer :
            /\ w.kind = "edit"
            /\ rows' = rows \/ (e.ok /\ rows' = Row(The(w.keys), e.version, e.own /\ w.lib = lib))
    BY <1>1 DEF EditDone
  <2>3. PICK e \in w.answer :
            rows' = rows \/ (e.ok /\ rows' = Row(The(w.keys), e.version, e.own /\ w.lib = lib))
    BY <2>2
  <2>4. PICK k \in Items : w.keys = {k}
    BY <2>2 DEF Truth, EditTrue
  <2>5. The(w.keys) = k /\ k \in w.keys
    BY <2>4 DEF The
  <2>6. CASE rows' = rows
    BY <2>1, <2>6, TruthStays
  <2>7. CASE e.ok /\ rows' = Row(The(w.keys), e.version, e.own /\ w.lib = lib)
    <3>1. e.version \in 1..items[k].version /\ e.own \in BOOLEAN
      BY <1>0, <2>2, <2>5, <2>7 DEF EditTrue
    <3> PICK r : r = Row(k, e.version, e.own /\ w.lib = lib)
      OBVIOUS
    <3>2. Shows(r)
      <4>1. CASE e.own /\ w.lib = lib
        <5>1. r = Row(k, e.version, TRUE) /\ w.lib = rows.lib
          BY <4>1 DEF RowsInv
        <5> QED BY <1>0, <2>2, <2>5, <2>7, <4>1, <5>1, OwnRowShows
      <4>2. CASE ~(e.own /\ w.lib = lib)
        <5>1. r = Row(k, e.version, FALSE)
          BY <4>2
        <5> QED BY <1>0, <3>1, <5>1, RowTold DEF Told
      <4> QED BY <4>1, <4>2
    <3>3. Shows(r)' /\ Edited(r)'
      BY <2>1, <3>2 DEF Shows, Edited, stored
    <3> QED BY <2>1, <2>5, <2>7, <3>3, TruthStays DEF Told
  <2> QED BY <2>3, <2>6, <2>7
<1>2. CASE Settle
  <2>1. UNCHANGED <<stored, rows, req, catching, errand>>
    BY <1>2 DEF Settle
  <2>2. \/ reload' = reload
        \/ selected # {} /\ reload' = {[key |-> The(selected), answer |-> {}]}
    BY <1>2 DEF Settle
  <2>3. selected # {} => The(selected) \in Items
    BY DEF The, Alone
  <2>4. \A r \in reload' : r \in reload \/ Reread(r)'
    BY <2>2, <2>3 DEF Reread
  <2> QED BY <2>1, <2>4, TruthStays
<1>3. CASE ReloadServed
  <2>1. UNCHANGED <<stored, rows, req, catching, errand>> /\ items' = items
    BY <1>3 DEF ReloadServed, stored
  <2>2. PICK r \in reload : reload' = {[r EXCEPT !.answer = {items[r.key].version}]}
    BY <1>3 DEF ReloadServed
  <2>3. DOMAIN r = {"key", "answer"} /\ r.key \in Items
    BY DEF Truth, Reread
  <2>4. items[r.key].version \in 1..items[r.key].version
    BY <1>0, <2>3, StoredFacts
  <2> PICK v : v = items[r.key].version
    OBVIOUS
  <2>5. \A u \in reload' : DOMAIN u = {"key", "answer"} /\ u.key = r.key /\ u.answer = {v}
    BY <2>2, <2>3
  <2>6. \A u \in reload' : Reread(u)'
    BY <2>1, <2>3, <2>4, <2>5 DEF Reread
  <2> QED BY <2>1, <2>6, TruthStays
<1>4. CASE ReloadArrives
  <2>1. UNCHANGED <<stored, req, catching, errand>> /\ reload' = {}
    BY <1>4 DEF ReloadArrives
  <2>2. PICK u \in reload : \E v \in u.answer : rows' = Row(u.key, v, FALSE)
    BY <1>4 DEF ReloadArrives
  <2>3. PICK v \in u.answer : rows' = Row(u.key, v, FALSE)
    BY <2>2
  <2>4. u.key \in Items /\ v \in 1..items[u.key].version
    BY DEF Truth, Reread
  <2> PICK r : r = Row(u.key, v, FALSE)
    OBVIOUS
  <2>5. Told(r)
    BY <1>0, <2>4, RowTold
  <2>6. Told(r)'
    BY <2>1, <2>5, NoWriteTold
  <2> QED BY <2>1, <2>3, <2>6, TruthStays
<1> QED BY <1>1, <1>2, <1>3, <1>4

-----------------------------------------------------------------------------
(* What is known of, step by step *)

\* What is seen is known from then on.
LEMMA SeenFurther ==
    ASSUME StoredTyped, lib \in Libs, Known, NEW v \in Nat, Seen(v)
    PROVE  Further /\ v <= known'
<1>1. known' \in {known, v} /\ known <= known' /\ v <= known'
  BY MaxOfTwo DEF Seen, Known
<1>2. \A e \in heard : e \in Nat
  BY DEF Known, StoredTyped
<1> QED BY <1>1, <1>2 DEF Seen, Further, Known

\* Nothing new is known.
LEMMA SameFurther ==
    ASSUME StoredTyped, lib \in Libs, Known, UNCHANGED feed
    PROVE  Further
BY DEF feed, Further, Known

\* What catching up has read is no newer than its library.
LEMMA CaughtFacts ==
    ASSUME StoredTyped, Versions, NEW c, Caught(c), c.stage = "list", NEW a \in c.answer
    PROVE  /\ c.answer = {a} /\ Told(a) /\ a.at = c.upto
           /\ a.lib \in Libs /\ a.view \in Views
           /\ c.upto \in Nat /\ c.upto <= version[a.lib]
<1>1. c.answer = {a} /\ Told(a) /\ a.at = c.upto
  BY DEF Caught
<1> QED BY <1>1, StoredFacts DEF Told, Shows

\* While the reader stays and nothing is written, the page stays aware.
LEMMA FeedStays ==
    ASSUME StoredTyped, Truth, lib \in Libs, Known, Aware, Further,
           UNCHANGED <<version, lib, view, lost>>, rows'.at <= known',
           \A u \in Nat : u <= version[lib] /\ Asked(u) => Asked(u)' \/ u <= known',
           \A c \in catching' : c \in catching \/ c.stage # "list",
           \A c \in catching : \A a \in c.answer :
               c.stage = "list" => c \in catching' \/ c.upto <= known' \/ ~StillShown(a)
    PROVE  Known' /\ Aware'
<1> DEFINE n == version[lib]
<1>1. n \in Nat /\ version'[lib'] = n
  BY DEF StoredTyped
<1>2. Known'
  BY <1>1 DEF Known, Further
<1>3. known \in Nat /\ known' \in Nat /\ known <= known' /\ lost \in Nat
  BY DEF Known, Further
<1>4. ASSUME NEW u \in Nat, u <= n, known >= u \/ Asked(u)
      PROVE  known' >= u \/ Asked(u)'
  BY <1>1, <1>3, <1>4
<1>5. n \in heard => n \in heard' \/ known' >= n
  BY <1>3 DEF Further
<1>6. ASSUME NEW c \in catching, NEW a \in c.answer, c.stage = "list", a.lib = lib
      PROVE  /\ c.upto \in Nat /\ c.upto <= n
             /\ c.upto >= n => c.upto = n
             /\ a.view # view => known' >= c.upto \/ Asked(c.upto)'
  <2>1. c.upto \in Nat /\ c.upto <= n
    BY <1>6, CaughtFacts DEF Truth
  <2>2. a.view # view => known >= c.upto \/ Asked(c.upto)
    BY <1>6 DEF Aware
  <2> QED BY <1>1, <1>4, <2>1, <2>2
<1>7. ASSUME NEW c \in catching, NEW a \in c.answer, c.stage = "list", a.lib = lib, c.upto >= n
      PROVE  \/ known' >= n \/ Asked(n)'
             \/ c \in catching'
  <2>1. CASE c.upto <= known'
    BY <1>1, <1>3, <1>6, <1>7, <2>1
  <2>2. CASE ~StillShown(a)
    BY <1>6, <1>7, <2>2 DEF StillShown
  <2> QED BY <1>7, <2>1, <2>2
<1>8. \/ known' >= n \/ n \in heard' \/ lost' >= n \/ Asked(n)'
      \/ \E c \in catching' : \E a \in c.answer :
           c.stage = "list" /\ a.lib = lib /\ c.upto >= n
  <2>1. CASE known >= n \/ Asked(n)
    BY <1>1, <1>4, <2>1
  <2>2. CASE lost >= n \/ n \in heard
    BY <1>5, <2>2
  <2>3. CASE \E c \in catching : \E a \in c.answer :
               c.stage = "list" /\ a.lib = lib /\ c.upto >= n
    BY <1>7, <2>3
  <2> QED BY <2>1, <2>2, <2>3 DEF Aware
<1>9. ASSUME NEW c \in catching', NEW a \in c.answer, c.stage = "list"
      PROVE  /\ (a.lib = lib /\ c.upto >= n) \/ known' >= n \/ n \in heard'
             /\ a.lib = lib /\ a.view # view => known' >= c.upto \/ Asked(c.upto)'
  <2>1. c \in catching
    BY <1>9
  <2>2. (a.lib = lib /\ c.upto >= n) \/ known >= n \/ n \in heard
    BY <1>9, <2>1 DEF Aware
  <2> QED BY <1>1, <1>3, <1>5, <1>6, <1>9, <2>1, <2>2
<1>10. Asked(version[lib])' <=> Asked(n)'
  BY <1>1 DEF Asked
<1>11. Aware'
  BY <1>1, <1>8, <1>9, <1>10 DEF Aware
<1> QED BY <1>2, <1>11

\* A write of the library on the page is announced, unless its version is known.
LEMMA WriteAware ==
    ASSUME StoredTyped, Truth, lib \in Libs, Known, Aware,
           NEW l \in Libs, NEW S \in SUBSET Items, NEW now \in [S -> BOOLEAN],
           Write(l, now), UNCHANGED <<lib, view, known, lost, rows, failure, req, catching>>
    PROVE  Known' /\ Aware'
<1>1. /\ version'[l] = version[l] + 1
      /\ \A m \in Libs : m # l => version'[m] = version[m]
      /\ version[lib] \in Nat /\ version'[lib] \in Nat
  BY WriteFacts DEF StoredTyped
<1>2. heard' = IF l = lib /\ version'[l] > known THEN {version'[l]} ELSE heard
  BY DEF Write
<1>3. known \in Nat /\ \A e \in heard : e = version[lib] /\ e > known
  BY DEF Known
<1>4. \A u : Asked(u) => Asked(u)'
  BY DEF Asked
<1>5. CASE l = lib
  <2>1. CASE version'[lib] > known
    <3>1. heard' = {version'[lib]}
      BY <1>2, <1>5, <2>1
    <3>2. Known'
      BY <2>1, <3>1 DEF Known
    <3>3. Aware'
      BY <1>4, <3>1 DEF Aware
    <3> QED BY <3>2, <3>3
  <2>2. CASE ~(version'[lib] > known)
    <3>1. known' >= version'[lib] /\ heard' = heard /\ heard = {}
      BY <1>1, <1>2, <1>3, <1>5, <2>2
    <3>2. Known'
      BY <3>1 DEF Known
    <3>3. Aware'
      BY <1>4, <3>1 DEF Aware
    <3> QED BY <3>2, <3>3
  <2> QED BY <2>1, <2>2
<1>6. CASE l # lib
  <2>1. version'[lib] = version[lib] /\ heard' = heard
    BY <1>1, <1>2, <1>6
  <2>2. Known'
    BY <2>1 DEF Known
  <2>3. Asked(version[lib]) => Asked(version[lib])'
    BY <2>1 DEF Asked
  <2>4. Aware'
    BY <1>4, <2>1, <2>3 DEF Aware
  <2> QED BY <2>2, <2>4
<1> QED BY <1>5, <1>6

\* A listing just asked for has no answer yet.
LEMMA AskFacts ==
    ASSUME NEW l, NEW v, NEW isAfter, Ask(l, v, isAfter)
    PROVE  req' # {} /\ \A q \in req' : q.answer = {}
<1>1. PICK q : q = [lib |-> l, view |-> v, after |-> isAfter, answer |-> {}]
  OBVIOUS
<1>2. q.answer = {} /\ req' = {q}
  BY <1>1 DEF Ask
<1> QED BY <1>2

\* Moving on asks for a listing that will be as new as the library.
LEMMA MovesAware ==
    ASSUME StoredTyped, Truth, lib \in Libs, Known, Aware, NEW l \in Libs, NEW v \in Views,
           OpenLibrary(l) \/ SelectScope(v)
    PROVE  Known' /\ Aware'
<1>1. version' = version /\ catching' = catching
  BY DEF OpenLibrary, SelectScope, stored
<1>2. req' # {} /\ \A q \in req' : q.answer = {}
  <2>1. OpenLibrary(l) => Ask(l, "top", FALSE)
    BY DEF OpenLibrary
  <2>2. SelectScope(v) => Ask(lib, v, FALSE)
    BY DEF SelectScope
  <2> QED BY <2>1, <2>2, AskFacts
<1>3. \A u : Asked(u)'
  BY <1>2 DEF Asked
<1>4. CASE OpenLibrary(l)
  <2>1. lib' = l /\ known' = 0 /\ heard' = {version[l]} /\ lost' = 0 /\ rows'.at = 0
    BY <1>4 DEF OpenLibrary
  <2>2. version[l] \in Nat /\ version[l] >= 1
    BY StoredFacts DEF Truth
  <2>3. Known'
    BY <1>1, <2>1, <2>2 DEF Known
  <2>4. Aware'
    BY <1>1, <1>3, <2>1 DEF Aware
  <2> QED BY <2>3, <2>4
<1>5. CASE SelectScope(v)
  <2>1. UNCHANGED <<lib, known, heard, lost, rows>>
    BY <1>5 DEF SelectScope, feed
  <2>2. Known'
    BY <1>1, <2>1 DEF Known
  <2>3. Asked(version[lib])'
    BY <1>2 DEF Asked
  <2>4. Aware'
    BY <1>1, <1>3, <2>1, <2>3 DEF Aware
  <2> QED BY <2>2, <2>4
<1> QED BY <1>4, <1>5

\* What was announced is caught up with, or the page remembers that it is not.
LEMMA CatchUpAware ==
    ASSUME StoredTyped, Truth, Alone, lib \in Libs, Known, Aware, CatchUp \/ CatchUpFails
    PROVE  Known' /\ Aware'
<1>1. UNCHANGED <<version, lib, view, known, rows, failure, req>>
  BY DEF CatchUp, CatchUpFails, stored, place, feed
<1>2. CASE CatchUp
  <2>1. PICK v \in heard :
            catching' = {[stage |-> "list", upto |-> v, answer |-> {Listing(lib, view)}]}
    BY <1>2 DEF CatchUp
  <2>2. v = version[lib] /\ version[lib] \in Nat
    BY DEF Known, StoredTyped
  <2>3. heard' = {} /\ lost' = lost
    BY <1>2 DEF CatchUp, history
  <2> PICK a : a = Listing(lib, view)
    OBVIOUS
  <2>4. a.lib = lib /\ a.view = view
    BY ListingFacts
  <2> PICK c : c = [stage |-> "list", upto |-> v, answer |-> {a}]
    OBVIOUS
  <2>5. c.stage = "list" /\ c.upto = v /\ c.answer = {a} /\ catching' = {c}
    BY <2>1
  <2>6. Known'
    BY <1>1, <2>3 DEF Known
  <2>7. Aware'
    BY <1>1, <2>2, <2>4, <2>5 DEF Aware
  <2> QED BY <2>6, <2>7
<1>3. CASE CatchUpFails
  <2>1. PICK c : c \in catching
    BY <1>3 DEF CatchUpFails
  <2>2. catching = {c} /\ The(catching) = c
    BY <2>1 DEF Alone, AtMostOne, The
  <2>3. /\ heard' = heard /\ catching' = {}
        /\ lost' = IF c.stage = "list" THEN c.upto ELSE lost
    BY <1>3, <2>2 DEF CatchUpFails, feed
  <2>4. Caught(c)
    BY <2>1 DEF Truth
  <2>5. lost' \in Nat
    <3>1. CASE c.stage = "list"
      <4>1. PICK a \in c.answer : TRUE
        BY <2>4, <3>1 DEF Caught
      <4> QED BY <2>3, <2>4, <3>1, <4>1, CaughtFacts DEF Truth
    <3> QED BY <2>3, <3>1 DEF Known
  <2>6. Known'
    BY <1>1, <2>3, <2>5 DEF Known
  <2>7. \/ known >= version[lib] \/ version[lib] \in heard
        \/ lost' >= version[lib] \/ Asked(version[lib])
    <3>1. CASE c.stage = "list"
      <4>1. PICK a \in c.answer : TRUE
        BY <2>4, <3>1 DEF Caught
      <4> QED BY <2>1, <2>3, <3>1, <4>1 DEF Aware
    <3>2. CASE c.stage # "list"
      BY <2>2, <2>3, <3>2 DEF Aware
    <3> QED BY <3>1, <3>2
  <2>8. Asked(version[lib])' <=> Asked(version[lib])
    BY <1>1 DEF Asked
  <2>9. Aware'
    BY <1>1, <2>3, <2>7, <2>8 DEF Aware
  <2> QED BY <2>6, <2>9
<1> QED BY <1>2, <1>3

\* The clicks that ask for nothing, and what the server does for them.
LEMMA RestAware ==
    ASSUME StoredTyped, Truth, lib \in Libs, Known, Aware,
           \/ \E kind : Errand(kind)
           \/ Edit \/ (\E o \in offers : Undo(o)) \/ (\E keys \in SUBSET Shown : Pick(keys))
           \/ ErrandDone \/ Settle \/ CollectionsArrive \/ CollectionsFail \/ KidsArrive
           \/ ReloadServed \/ ListFails \/ UNCHANGED vars
    PROVE  Known' /\ Aware'
<1>1. UNCHANGED <<version, lib, view, lost, feed, rows, catching>>
  <2>1. CASE \/ \E kind : Errand(kind)
             \/ Edit \/ (\E o \in offers : Undo(o)) \/ (\E keys \in SUBSET Shown : Pick(keys))
    BY <2>1 DEF Errand, Edit, Undo, Pick, stored, place
  <2>2. CASE ErrandDone \/ Settle \/ CollectionsArrive \/ CollectionsFail \/ KidsArrive
    BY <2>2 DEF ErrandDone, Settle, CollectionsArrive, CollectionsFail, KidsArrive, stored, place,
                history
  <2>3. CASE ReloadServed \/ ListFails \/ UNCHANGED vars
    BY <2>3 DEF ReloadServed, ListFails, vars, stored, place, history, requests
  <2> QED BY <2>1, <2>2, <2>3
<1>2. Further /\ rows'.at <= known'
  BY <1>1, SameFurther DEF Known, feed
<1>3. \/ UNCHANGED <<req, failure>>
      \/ req' # {} /\ \A q \in req' : q.answer = {}
      \/ req' = {} /\ failure'
  <2>1. CASE \/ \E kind : Errand(kind)
             \/ Edit \/ (\E o \in offers : Undo(o)) \/ (\E keys \in SUBSET Shown : Pick(keys))
    BY <2>1 DEF Errand, Edit, Undo, Pick
  <2>2. CASE ErrandDone
    <3>1. Ask(lib, view, TRUE) \/ UNCHANGED <<req, failure>>
      BY <2>2 DEF ErrandDone, Refresh
    <3> QED BY <3>1, AskFacts
  <2>3. CASE Settle \/ CollectionsArrive \/ CollectionsFail \/ KidsArrive \/ ReloadServed
    BY <2>3 DEF Settle, CollectionsArrive, CollectionsFail, KidsArrive, ReloadServed
  <2>4. CASE ListFails \/ UNCHANGED vars
    BY <2>4 DEF ListFails, vars, requests
  <2> QED BY <2>1, <2>2, <2>3, <2>4
<1>4. \A u : Asked(u) => Asked(u)'
  BY <1>3 DEF Asked
<1> QED BY <1>1, <1>2, <1>4, FeedStays

\* What is served is as new as the library, and what arrives is known.
LEMMA ListsAware ==
    ASSUME RowsInv, StoredTyped, Truth, Alone, lib \in Libs, Known, Aware,
           ListServed \/ ListArrives
    PROVE  Known' /\ Aware'
<1>1. UNCHANGED <<version, lib, view, lost, catching>>
  BY DEF ListServed, ListArrives, stored, place, history
<1>2. CASE ListServed
  <2>1. PICK q \in req : req' = {[q EXCEPT !.answer = {Listing(q.lib, q.view)}]}
    BY <1>2 DEF ListServed
  <2>2. UNCHANGED <<feed, rows>>
    BY <1>2 DEF ListServed
  <2>3. DOMAIN q = {"lib", "view", "after", "answer"} /\ q.lib = lib
    BY DEF RowsInv
  <2>4. Listing(q.lib, q.view).at = version[lib]
    BY <2>3 DEF Listing
  <2> PICK a : a = Listing(q.lib, q.view)
    OBVIOUS
  <2>5. req' # {} /\ \A p \in req' : p.answer = {a}
    BY <2>1, <2>3
  <2>6. a.at = version[lib] /\ version[lib] \in Nat
    BY <2>4 DEF StoredTyped
  <2>7. ASSUME NEW u \in Nat, u <= version[lib] PROVE Asked(u)'
    BY <2>5, <2>6, <2>7 DEF Asked
  <2>8. Further /\ rows'.at <= known'
    BY <2>2, SameFurther DEF Known, feed
  <2> QED BY <1>1, <2>7, <2>8, FeedStays
<1>3. CASE ListArrives
  <2>1. PICK q \in req : \E a \in q.answer : rows' = a /\ Seen(a.at)
    BY <1>3 DEF ListArrives
  <2>2. PICK a \in q.answer : rows' = a /\ Seen(a.at)
    BY <2>1
  <2>3. Told(a)
    BY DEF Truth
  <2>4. a.at \in Nat
    BY <2>3, StoredFacts DEF Told, Shows, Truth
  <2>5. Further /\ a.at <= known'
    BY <2>2, <2>4, SeenFurther
  <2>6. known' \in Nat
    BY <2>5 DEF Further
  <2>7. ASSUME NEW u \in Nat, Asked(u) PROVE u <= known'
    <3>1. a.at >= u
      BY <2>7 DEF Asked
    <3> QED BY <2>4, <2>5, <2>6, <3>1
  <2> QED BY <1>1, <2>2, <2>5, <2>7, FeedStays
<1> QED BY <1>2, <1>3

\* What catching up reads is known, unless the reader has moved on.
LEMMA CaughtUpAware ==
    ASSUME RowsInv, UndoInv, Truth, Alone, lib \in Libs, Known, Aware,
           CaughtUp \/ ItemServed \/ ItemCaughtUp
    PROVE  Known' /\ Aware'
<1>0. StoredTyped /\ Versions /\ (\A w \in errand : EditTrue(w)) /\ IsListing(rows) /\ Told(rows)
  BY DEF RowsInv, UndoInv, Truth
<1>1. UNCHANGED <<version, lib, view, lost, req, failure>>
  BY DEF CaughtUp, ItemServed, ItemCaughtUp, stored, place, history
<1>2. \A u \in Nat : Asked(u) => Asked(u)'
  BY <1>1 DEF Asked
<1>3. CASE CaughtUp
  <2>1. PICK c \in catching :
            /\ c.stage = "list"
            /\ \/ /\ StillShown(The(c.answer)) /\ Seen(c.upto) /\ rows' = The(c.answer)
                  /\ \A d \in catching' : d.stage = "item"
               \/ /\ ~StillShown(The(c.answer)) /\ catching' = {}
                  /\ UNCHANGED <<feed, rows>>
    BY <1>3 DEF CaughtUp
  <2>2. PICK a \in c.answer : c.answer = {a} /\ Told(a) /\ a.at = c.upto
    BY <2>1 DEF Truth, Caught
  <2>3. c.upto \in Nat /\ The(c.answer) = a /\ \A d \in catching : d = c
    BY <1>0, <2>1, <2>2, CaughtFacts DEF Truth, The, Alone, AtMostOne
  <2>4. CASE StillShown(a)
    <3>1. Seen(c.upto) /\ rows' = a /\ \A d \in catching' : d.stage = "item"
      BY <2>1, <2>3, <2>4
    <3>2. Further /\ c.upto <= known'
      BY <1>0, <2>3, <3>1, SeenFurther
    <3> QED BY <1>0, <1>1, <1>2, <2>2, <2>3, <3>1, <3>2, FeedStays
  <2>5. CASE ~StillShown(a)
    <3>1. catching' = {} /\ UNCHANGED <<feed, rows>>
      BY <2>1, <2>3, <2>5
    <3>2. Further /\ rows'.at <= known'
      BY <1>0, <3>1, SameFurther DEF Known, feed
    <3> QED BY <1>0, <1>1, <1>2, <2>2, <2>3, <2>5, <3>1, <3>2, FeedStays
  <2> QED BY <2>4, <2>5
<1>4. CASE ItemServed
  <2>1. UNCHANGED <<feed, rows>>
    BY <1>4 DEF ItemServed
  <2>2. PICK c \in catching :
            /\ c.stage = "item"
            /\ catching' = {[c EXCEPT !.answer = {[found |-> Home[c.key] = c.lib,
                                                   version |-> items[c.key].version]}]}
    BY <1>4 DEF ItemServed
  <2>3. \A d \in catching' : d.stage = "item"
    BY <2>2 DEF RowsInv
  <2>4. \A d \in catching : d = c
    BY DEF Alone, AtMostOne
  <2>5. Further /\ rows'.at <= known'
    BY <1>0, <2>1, SameFurther DEF Known, feed
  <2> QED BY <1>0, <1>1, <1>2, <2>2, <2>3, <2>4, <2>5, FeedStays
<1>5. CASE ItemCaughtUp
  <2>1. PICK c \in catching : \E a \in c.answer :
            /\ c.stage = "item" /\ catching' = {}
            /\ \/ UNCHANGED <<feed, rows>>
               \/ Seen(a.version) /\ rows' = Row(c.key, a.version, FALSE)
    BY <1>5 DEF ItemCaughtUp, feed
  <2>2. PICK a \in c.answer :
            \/ UNCHANGED <<feed, rows>>
            \/ Seen(a.version) /\ rows' = Row(c.key, a.version, FALSE)
    BY <2>1
  <2>3. c.key \in Items /\ a.version \in 1..items[c.key].version
    BY <2>1 DEF Truth, Caught
  <2>4. PICK r : /\ Told(r) /\ r.at <= rows.at
                 /\ UNCHANGED <<feed, rows>> \/ (Seen(a.version) /\ rows' = r)
    BY <1>0, <2>2, <2>3, RowTold
  <2>5. r.at \in Nat /\ rows.at \in Nat /\ a.version \in Nat
    <3>1. items[c.key].version \in Nat /\ a.version \in Nat
      BY <1>0, <2>3, StoredFacts
    <3>2. r.lib \in Libs /\ r.at \in 0..version[r.lib] /\ version[r.lib] \in Nat
      BY <1>0, <2>4 DEF Told, Shows, StoredTyped
    <3>3. rows.lib \in Libs /\ rows.at \in 0..version[rows.lib] /\ version[rows.lib] \in Nat
      BY <1>0 DEF Told, Shows, StoredTyped
    <3> QED BY <3>1, <3>2, <3>3
  <2>6. \A d \in catching : d = c
    BY DEF Alone, AtMostOne
  <2>7. Further /\ rows'.at <= known'
    <3>1. CASE UNCHANGED <<feed, rows>>
      BY <1>0, <3>1, SameFurther DEF Known, feed
    <3>2. CASE Seen(a.version) /\ rows' = r
      <4>1. Further
        BY <1>0, <2>5, <3>2, SeenFurther
      <4>2. known \in Nat /\ known' \in Nat /\ rows.at <= known /\ known <= known'
        BY <4>1 DEF Known, Further
      <4> QED BY <2>4, <2>5, <3>2, <4>1, <4>2
    <3> QED BY <2>4, <3>1, <3>2
  <2> QED BY <1>0, <1>1, <1>2, <2>1, <2>6, <2>7, FeedStays
<1> QED BY <1>3, <1>4, <1>5

\* What an edit answers, or the open item when it is read again, is put in its row.
LEMMA PutAware ==
    ASSUME RowsInv, UndoInv, Truth, Alone, lib \in Libs, Known, Aware,
           EditDone \/ ReloadArrives
    PROVE  Known' /\ Aware'
<1>0. StoredTyped /\ Versions /\ (\A w \in errand : EditTrue(w)) /\ IsListing(rows) /\ Told(rows)
  BY DEF RowsInv, UndoInv, Truth
<1>1. UNCHANGED <<version, lib, view, lost, req, failure, catching>>
  BY DEF EditDone, ReloadArrives, stored, place, history
<1>2. \A u \in Nat : Asked(u) => Asked(u)'
  BY <1>1 DEF Asked
<1>3. known \in Nat /\ rows.at \in Nat /\ rows.at <= known
  BY <1>0, StoredFacts DEF Known, Told, Shows
<1>4. ASSUME NEW r, Shows(r) PROVE r.at \in Nat
  <2>1. r.lib \in Libs /\ r.at \in 0..version[r.lib] /\ version[r.lib] \in Nat
    BY <1>0, <1>4 DEF Shows, StoredTyped
  <2> QED BY <2>1
<1>5. CASE EditDone
  <2>1. PICK w \in errand : \E e \in w.answer :
            /\ w.kind = "edit"
            /\ \/ UNCHANGED <<feed, rows>>
               \/ /\ e.ok /\ Seen(e.version)
                  /\ rows' = Row(The(w.keys), e.version, e.own /\ w.lib = lib)
    BY <1>5 DEF EditDone
  <2>2. PICK e \in w.answer :
            \/ UNCHANGED <<feed, rows>>
            \/ /\ e.ok /\ Seen(e.version)
               /\ rows' = Row(The(w.keys), e.version, e.own /\ w.lib = lib)
    BY <2>1
  <2>3. PICK k \in Items : w.keys = {k}
    BY <2>1 DEF Truth, EditTrue
  <2>4. The(w.keys) = k /\ k \in w.keys
    BY <2>3 DEF The
  <2>5. CASE UNCHANGED <<feed, rows>>
    <3>1. Further /\ rows'.at <= known'
      BY <1>0, <2>5, SameFurther DEF Known, feed
    <3> QED BY <1>0, <1>1, <1>2, <3>1, FeedStays
  <2>6. CASE /\ e.ok /\ Seen(e.version)
             /\ rows' = Row(The(w.keys), e.version, e.own /\ w.lib = lib)
    <3>1. e.version \in 1..items[k].version /\ e.own \in BOOLEAN /\ e.version \in Nat
      BY <1>0, <2>1, <2>4, <2>6, StoredFacts DEF EditTrue
    <3>2. PICK r : Shows(r) /\ (r.at <= rows.at \/ r.at = e.version) /\ rows' = r
      <4>1. CASE e.own /\ w.lib = lib
        <5>1. rows' = Row(k, e.version, TRUE) /\ w.lib = rows.lib
          BY <2>4, <2>6, <4>1 DEF RowsInv
        <5> QED BY <1>0, <2>1, <2>4, <2>6, <4>1, <5>1, OwnRowShows
      <4>2. CASE ~(e.own /\ w.lib = lib)
        <5>1. rows' = Row(k, e.version, FALSE)
          BY <2>4, <2>6, <4>2
        <5> QED BY <1>0, <3>1, <5>1, RowTold DEF Told
      <4> QED BY <4>1, <4>2
    <3>3. Further /\ e.version <= known'
      BY <1>0, <2>6, <3>1, SeenFurther
    <3>4. known' \in Nat /\ known <= known'
      BY <3>3 DEF Further
    <3>5. r.at \in Nat
      BY <1>4, <3>2
    <3>6. rows'.at <= known'
      BY <1>3, <3>1, <3>2, <3>3, <3>4, <3>5
    <3> QED BY <1>0, <1>1, <1>2, <3>3, <3>6, FeedStays
  <2> QED BY <2>2, <2>5, <2>6
<1>6. CASE ReloadArrives
  <2>1. UNCHANGED feed
    BY <1>6 DEF ReloadArrives
  <2>2. PICK r \in reload : \E v \in r.answer : rows' = Row(r.key, v, FALSE)
    BY <1>6 DEF ReloadArrives
  <2>3. r.key \in Items /\ \A v \in r.answer : v \in 1..items[r.key].version
    BY DEF Truth, Reread
  <2>4. PICK a : Shows(a) /\ a.at <= rows.at /\ rows' = a
    BY <1>0, <2>2, <2>3, RowTold DEF Told
  <2>5. a.at \in Nat
    BY <1>4, <2>4
  <2>6. Further /\ known' = known
    BY <1>0, <2>1, SameFurther DEF feed
  <2>7. rows'.at <= known'
    BY <1>3, <2>4, <2>5, <2>6
  <2> QED BY <1>0, <1>1, <1>2, <2>6, <2>7, FeedStays
<1> QED BY <1>5, <1>6

\* What the server does with a write, of the page or of others.
LEMMA WritesAware ==
    ASSUME UndoInv, Truth, lib \in Libs, Known, Aware,
           Serve \/ \E k \in Items, t \in BOOLEAN : ForeignWrite(k, t)
    PROVE  Known' /\ Aware'
<1>0. StoredTyped
  BY DEF UndoInv
<1>1. UNCHANGED <<lib, view, known, lost, rows, failure, req, catching>>
  BY DEF Serve, ForeignWrite, place, history, requests
<1>2. CASE Serve
  <2>1. PICK w \in errand :
            \/ Write(w.lib, [k \in w.keys |-> w.kind = "trash"])
            \/ Write(w.lib, [k \in w.keys |-> FALSE])
            \/ Write(w.lib, [k \in w.keys |-> k \in w.offer.trashed])
            \/ UNCHANGED <<version, items, heard>>
    BY <1>2 DEF Serve
  <2>2. /\ [k \in w.keys |-> w.kind = "trash"] \in [w.keys -> BOOLEAN]
        /\ [k \in w.keys |-> FALSE] \in [w.keys -> BOOLEAN]
        /\ [k \in w.keys |-> k \in w.offer.trashed] \in [w.keys -> BOOLEAN]
    OBVIOUS
  <2>3. w.lib \in Libs /\ w.keys \in SUBSET Items
    BY DEF UndoInv, Consistent
  <2>4. CASE \E now \in [w.keys -> BOOLEAN] : Write(w.lib, now)
    BY <1>0, <1>1, <2>3, <2>4, WriteAware
  <2>5. CASE UNCHANGED <<version, items, heard>>
    <3>1. Further /\ rows'.at <= known'
      BY <1>0, <1>1, <2>5, SameFurther DEF Known, feed
    <3>2. \A u \in Nat : Asked(u) => Asked(u)'
      BY <1>1 DEF Asked
    <3> QED BY <1>0, <1>1, <2>5, <3>1, <3>2, FeedStays
  <2> QED BY <2>1, <2>2, <2>4, <2>5
<1>3. CASE \E k \in Items, t \in BOOLEAN : ForeignWrite(k, t)
  <2>1. PICK k \in Items, t \in BOOLEAN : Write(Home[k], [i \in {k} |-> t])
    BY <1>3 DEF ForeignWrite
  <2>2. /\ Home[k] \in Libs /\ {k} \in SUBSET Items
        /\ [i \in {k} |-> t] \in [{k} -> BOOLEAN]
    BY LibraryPageAssumption
  <2> QED BY <1>0, <1>1, <2>1, <2>2, WriteAware
<1> QED BY <1>2, <1>3

-----------------------------------------------------------------------------
(* The page at rest *)

PageInv == Alone /\ Truth /\ Known /\ Aware

\* The page opens with what there is.
LEMMA InitPage == Init => PageInv
<1> SUFFICES ASSUME Init PROVE PageInv
  OBVIOUS
<1>1. Alone
  <2>1. \A S : S = {} => AtMostOne(S) /\ S \subseteq Items
    BY OneFacts
  <2>2. 0 \in 0..MaxMoves /\ 0 \in 0..MaxForeign
    BY LibraryPageAssumption
  <2> QED BY <2>1, <2>2 DEF Init, Alone, Views
<1>2. StoredTyped /\ Versions
  BY LibraryPageAssumption DEF Init, StoredTyped, Versions
<1>3. Told(rows) /\ rows.at = 1
  <2>1. rows = Listing(First, "top") /\ errand = {} /\ version[First] = 1
    BY LibraryPageAssumption DEF Init
  <2>2. First \in Libs /\ "top" \in Views
    BY LibraryPageAssumption DEF Views
  <2> QED BY <1>2, <2>1, <2>2, ListingTold
<1>4. Truth
  BY <1>2, <1>3 DEF Init, Truth
<1>5. Known
  BY <1>3 DEF Init, Known
<1>6. version[lib] = 1 /\ known = 1 /\ catching = {}
  BY LibraryPageAssumption DEF Init
<1>7. Aware
  BY <1>6 DEF Aware
<1> QED BY <1>1, <1>4, <1>5, <1>7 DEF PageInv

\* Every step keeps it.
LEMMA NextPage ==
    ASSUME RowsInv, UndoInv, PageInv, [Next]_vars
    PROVE  PageInv'
<1>1. StoredTyped /\ lib \in Libs /\ Alone /\ Truth /\ Known /\ Aware
  BY DEF RowsInv, UndoInv, PageInv
<1>2. CASE Reader
  <2>1. Truth'
    BY <1>1, <1>2, ReaderTruth
  <2>2. Known' /\ Aware'
    <3>1. CASE \E l \in Libs : OpenLibrary(l)
      <4>1. "top" \in Views
        BY DEF Views
      <4> QED BY <1>1, <3>1, <4>1, MovesAware
    <3>2. CASE \E v \in Views : SelectScope(v)
      BY <1>1, <3>2, MovesAware
    <3>3. CASE \/ (\E kind : Errand(kind)) \/ Edit \/ (\E o \in offers : Undo(o))
               \/ \E keys \in SUBSET Shown : Pick(keys)
      BY <1>1, <3>3, RestAware
    <3> QED BY <1>2, <3>1, <3>2, <3>3 DEF Reader
  <2> QED BY <2>1, <2>2, NextAlone DEF PageInv
<1>3. CASE Others \/ Serve
  <2>1. Truth'
    BY <1>1, <1>3, OthersTruth, ServeTruth DEF Others
  <2>2. Known' /\ Aware'
    BY <1>1, <1>3, WritesAware DEF Others
  <2> QED BY <2>1, <2>2, NextAlone DEF PageInv
<1>4. CASE \/ ErrandDone \/ ListServed \/ ListArrives \/ ListFails
           \/ CollectionsArrive \/ CollectionsFail \/ KidsArrive \/ UNCHANGED vars
  <2>1. Truth'
    BY <1>1, <1>4, ListsTruth
  <2>2. Known' /\ Aware'
    BY <1>1, <1>4, RestAware, ListsAware
  <2> QED BY <2>1, <2>2, NextAlone DEF PageInv
<1>5. CASE CatchUp \/ CaughtUp \/ ItemServed \/ ItemCaughtUp \/ CatchUpFails
  <2>1. Truth'
    BY <1>1, <1>5, CatchUpTruth
  <2>2. Known' /\ Aware'
    BY <1>1, <1>5, CatchUpAware, CaughtUpAware
  <2> QED BY <2>1, <2>2, NextAlone DEF PageInv
<1>6. CASE EditDone \/ Settle \/ ReloadServed \/ ReloadArrives
  <2>1. Truth'
    BY <1>1, <1>6, PutTruth
  <2>2. Known' /\ Aware'
    BY <1>1, <1>6, PutAware, RestAware
  <2> QED BY <2>1, <2>2, NextAlone DEF PageInv
<1> QED BY <1>2, <1>3, <1>4, <1>5, <1>6 DEF Next, Answers, Faults

LEMMA PageAlways == Spec => [](RowsInv /\ UndoInv /\ PageInv)
<1>1. Spec => [](RowsInv /\ UndoInv)
  BY UndoAlways
<1>2. Init => PageInv
  BY InitPage
<1>3. RowsInv /\ UndoInv /\ PageInv /\ [Next]_vars => PageInv'
  BY NextPage
<1> QED BY <1>1, <1>2, <1>3, PTL DEF Spec

\* Rows that are of the library's last version are the rows there are.
LEMMA LastRows ==
    ASSUME StoredTyped, Versions, IsListing(rows), Shows(rows), rows.lib = lib, rows.view = view,
           rows.at >= version[lib]
    PROVE  rows.keys = Listing(lib, view).keys
<1> DEFINE there == {k \in Items : Home[k] = lib /\ items[k].trashed = (view = "trash")}
<1>1. lib \in Libs /\ version[lib] \in Nat /\ rows.at \in 0..version[lib]
  BY DEF Shows, StoredTyped
<1>2. ASSUME NEW k \in Items, Home[k] = lib
      PROVE  /\ k \in Shown <=> items[k].trashed = (view = "trash")
             /\ k \in Shown => rows.keys[k] = items[k].version
  <2>1. k \in Of(rows.lib) /\ items[k].version <= rows.at
    BY <1>1, <1>2, StoredFacts DEF Of
  <2> QED BY <2>1 DEF Shows, Shown
<1>3. \A k \in Shown : k \in Items /\ Home[k] = lib
  BY DEF IsListing, Shown
<1>4. Shown = there
  BY <1>2, <1>3
<1>5. rows.keys = [k \in Shown |-> rows.keys[k]]
  BY DEF IsListing, Shown
<1>6. \A k \in there : rows.keys[k] = items[k].version
  BY <1>2, <1>4
<1>7. rows.keys = [k \in there |-> items[k].version]
  BY <1>4, <1>5, <1>6
<1> QED BY <1>7 DEF Listing

\* A page that is at rest shows the library as it is, or knows that it is behind
\* (`follow`, `catchUp`, `loadItems`, `afterItemWrite`): whatever was announced,
\* read, written and answered in whatever order.
THEOREM QuietPageIsCurrent == Spec => []QuietIsCurrent
<1>1. RowsInv /\ UndoInv /\ PageInv => QuietIsCurrent
  <2> SUFFICES ASSUME RowsInv, UndoInv, PageInv, Quiet, ~(rows.at < known)
               PROVE  rows.keys = Listing(lib, view).keys
    BY DEF QuietIsCurrent
  <2>1. /\ StoredTyped /\ Versions /\ IsListing(rows) /\ Shows(rows)
        /\ lib \in Libs /\ rows.lib = lib
    BY DEF RowsInv, UndoInv, PageInv, Truth, Told
  <2>2. rows.view = view
    BY DEF RowsInv, RowsOfTheView, Quiet
  <2>3. known >= version[lib] \/ lost >= version[lib]
    BY DEF PageInv, Aware, Asked, Quiet
  <2>4. version[lib] \in Nat /\ rows.at \in 0..version[lib] /\ known \in Nat /\ lost \in Nat
    BY <2>1 DEF Shows, StoredTyped, PageInv, Known
  <2>5. rows.at >= version[lib]
    BY <2>3, <2>4 DEF Quiet
  <2> QED BY <2>1, <2>2, <2>5, LastRows
<1> QED BY <1>1, PageAlways, PTL

\* What the variables of the page hold: one request of each sort at a time, each
\* of the place the reader is at.
THEOREM TypeCorrect == Spec => []TypeOK
<1>1. RowsInv /\ UndoInv /\ PageInv => TypeOK
  <2> SUFFICES ASSUME RowsInv, UndoInv, PageInv PROVE TypeOK
    OBVIOUS
  <2>1. StoredTyped /\ Alone /\ Truth /\ Known
    BY DEF UndoInv, PageInv
  <2>2. /\ lib \in Libs /\ Shown \subseteq Items
        /\ \A q \in req : q.lib = lib /\ q.view = view
    BY DEF RowsInv, IsListing, Shown
  <2>3. /\ IsMaybe(selected, Items) /\ IsMaybe(children, Items) /\ IsMaybe(kids, Items)
        /\ Cardinality(req) <= 1 /\ Cardinality(catching) <= 1 /\ Cardinality(after) <= 1
    BY <2>1, OneFacts DEF Alone, IsMaybe
  <2>4. IsMaybe(heard, (known + 1)..version[lib])
    <3>1. known \in Nat /\ version[lib] \in Nat
      BY <2>1, <2>2 DEF Known, StoredTyped
    <3>2. \A e \in heard : e \in (known + 1)..version[lib]
      BY <2>1, <3>1 DEF Known
    <3>3. AtMostOne(heard)
      BY <2>1 DEF Known, AtMostOne
    <3> QED BY <3>2, <3>3, OneFacts DEF IsMaybe
  <2>5. IsMaybe({r.key : r \in reload}, Items)
    <3>1. {r.key : r \in reload} \subseteq Items
      BY DEF UndoInv
    <3>2. AtMostOne({r.key : r \in reload})
      BY <2>1 DEF Alone, AtMostOne
    <3> QED BY <3>1, <3>2, OneFacts DEF IsMaybe
  <2>6. \A w \in errand : w.kind \in Errands /\ w.lib \in Libs
    BY DEF UndoInv, Consistent
  <2>7. known \in Nat /\ lost \in Nat
    BY <2>1 DEF Known
  <2> QED BY <2>1, <2>2, <2>3, <2>4, <2>5, <2>6, <2>7 DEF TypeOK, StoredTyped, Alone
<1> QED BY <1>1, PageAlways, PTL

===============================================================================
