-------------------------- MODULE CanvasPages_proofs --------------------------
(* Proofs about CanvasPages: the state stays well typed, and, unless something *)
(* runs between a move and the rebind or the editor moves before the Y.Doc is  *)
(* adopted, no page gets another page's content and the editor shows the       *)
(* surface of the page it is on.  Then: the pages made stay, the deleted ones  *)
(* are gone, and who is online has the pages of the room; what was erased      *)
(* stays erased; and what was drawn is kept.                                   *)
EXTENDS CanvasPages, FiniteSetTheorems, TLAPS

\* The parts of TypeOK.
EditorOK ==
    /\ pages \subseteq Pages /\ active \in Pages /\ pending \subseteq Pages
    /\ kept \in [Pages -> SUBSET Shapes] /\ view \subseteq Shapes

LinkOK ==
    /\ session \in {"none", "starting", "adopted"}
    /\ provider \in BOOLEAN /\ online \in BOOLEAN /\ rebind \in BOOLEAN
    /\ bound \in Pages \cup {NoPage}

DocOK ==
    /\ surface \in [Pages -> SUBSET Shapes] /\ list \subseteq Pages
    /\ room \in [Pages -> SUBSET Shapes] /\ roomList \subseteq Pages
    /\ base \in [Pages -> SUBSET Shapes] /\ baseList \subseteq Pages

HistoryOK ==
    /\ home \in [Shapes -> Pages \cup {NoPage}]
    /\ erased \subseteq Shapes /\ mine \subseteq Shapes /\ drops \in Nat

FateOK == made \subseteq Pages /\ gone \subseteq Pages

LEMMA Parts == TypeOK <=> EditorOK /\ LinkOK /\ DocOK /\ HistoryOK /\ FateOK
  BY DEF TypeOK, EditorOK, LinkOK, DocOK, HistoryOK, FateOK

\* A session that is online has adopted, an adopted one observes a page, and
\* only an adopted one waits for the rebind.
SessionOK ==
    /\ online => Adopted
    /\ Adopted => bound \in Pages
    /\ rebind => Adopted

\* The operators stay within the contents and pages they are given.
LEMMA MergeOK ==
    ASSUME NEW S, NEW x \in SUBSET S, NEW y \in SUBSET S, NEW b
    PROVE  Merge(x, y, b) \in SUBSET S /\ Merge(x, y, b) \subseteq x \cup y
  BY DEF Merge

LEMMA KeptOK ==
    ASSUME EditorOK, NEW ids
    PROVE  /\ KeptOn(ids) \in [Pages -> SUBSET Shapes]
           /\ \A p \in Pages : KeptOn(ids)[p] \subseteq kept[p]
  BY DEF KeptOn, EditorOK

LEMMA CommittedOK ==
    ASSUME EditorOK
    PROVE  /\ Committed \in [Pages -> SUBSET Shapes]
           /\ \A p \in Pages : Committed[p] = IF p = active THEN view ELSE kept[p]
  BY DEF Committed, EditorOK

LEMMA ListedOK ==
    ASSUME EditorOK, NEW l \in SUBSET Pages
    PROVE  Listed(l) \subseteq Pages
  BY DEF Listed, EditorOK

LEMMA RepointOK ==
    ASSUME EditorOK, NEW l \in SUBSET Pages, NEW q \in Repoint(l)
    PROVE  q \in Pages
  BY DEF Repoint, EditorOK

\* In an adopted session a local change goes to the bound page's surface.
LEMMA BridgeOK ==
    ASSUME DocOK, SessionOK, NEW c \in SUBSET Shapes
    PROVE  /\ Bridge(c) \in [Pages -> SUBSET Shapes]
           /\ \A p \in Pages : Bridge(c)[p] =
                 IF Adopted /\ p = bound THEN c ELSE surface[p]
  BY DEF Bridge, DocOK, SessionOK

\* What the handoff makes of the contents it is given.
LEMMA HandedOK ==
    ASSUME EditorOK, NEW given, NEW c \in [Pages -> SUBSET Shapes]
    PROVE  /\ Handed(given, c) \in [Pages -> SUBSET Shapes]
           /\ \A p \in Pages : Handed(given, c)[p] =
                 IF p \in given THEN c[p] \cup kept[p] ELSE c[p]
  BY DEF Handed, EditorOK

\* A page is marked at most, and only in a session that is not online.
LEMMA MarkedOK ==
    ASSUME NEW p, NEW m \in Marked(p)
    PROVE  /\ m = pending \/ (m = pending \cup {p} /\ session # "none" /\ ~ online)
           /\ session = "starting" /\ "unmarked" \notin Coincide /\ ~ online =>
                  m = pending \cup {p}
           /\ session = "none" \/ online => m = pending
  BY DEF Marked, Adopted

\* Sharing leaves the shared state typed.
LEMMA ShareOK ==
    ASSUME DocOK, NEW s \in [Pages -> SUBSET Shapes], NEW l \in SUBSET Pages,
           Share(s, l)
    PROVE  DocOK'
  BY DEF Share, DocOK

LEMMA FreshOK ==
    ASSUME NEW s \in Fresh, NEW p \in Pages
    PROVE  s \in Shapes /\ s \notin Home(p)
  BY NoPageAssumption DEF Fresh, Home
-----------------------------------------------------------------------------
(* Initial states *)

LEMMA InitType == Init => TypeOK /\ SessionOK
<1> SUFFICES ASSUME Init PROVE TypeOK /\ SessionOK
  OBVIOUS
<1>1. Empty \in [Pages -> SUBSET Shapes]
  BY DEF Empty
<1>2. home \in [Shapes -> Pages \cup {NoPage}]
  BY DEF Init
<1> QED
  BY <1>1, <1>2 DEF Init, TypeOK, SessionOK, Adopted

-----------------------------------------------------------------------------
(* Steps: type-correctness and the state of the session *)

LEMMA TypeStep ==
    ASSUME EditorOK, LinkOK, DocOK, HistoryOK, SessionOK, [Next]_vars
    PROVE  EditorOK' /\ LinkOK' /\ DocOK' /\ HistoryOK'
<1> DEFINE Typed == EditorOK /\ LinkOK /\ DocOK /\ HistoryOK
<1> USE DEF editor, link, doc, remote, history
<1>1. ASSUME NEW s \in Shapes, Draw(s) PROVE Typed'
  <2>1. bound \in Pages \/ ~Adopted
    BY DEF SessionOK
  <2>2. Bridge(surface[bound] \cup {s}) \in [Pages -> SUBSET Shapes]
    BY <2>1 DEF Bridge, DocOK
  <2>3. DocOK'
    BY <1>1, <2>2, ShareOK DEF Draw, DocOK
  <2>4. EditorOK' /\ LinkOK'
    BY <1>1 DEF Draw, EditorOK, LinkOK
  <2>5. HistoryOK'
    BY <1>1 DEF Draw, HistoryOK, EditorOK
  <2> QED
    BY <2>3, <2>4, <2>5
<1>2. ASSUME NEW s \in Shapes, Erase(s) PROVE Typed'
  <2>1. bound \in Pages \/ ~Adopted
    BY DEF SessionOK
  <2>2. Bridge(surface[bound] \ {s}) \in [Pages -> SUBSET Shapes]
    BY <2>1 DEF Bridge, DocOK
  <2>3. DocOK'
    BY <1>2, <2>2, ShareOK DEF Erase, DocOK
  <2>4. EditorOK' /\ LinkOK' /\ HistoryOK'
    BY <1>2 DEF Erase, EditorOK, LinkOK, HistoryOK
  <2> QED
    BY <2>3, <2>4
<1>3. CASE Save
  BY <1>3, CommittedOK DEF Save, EditorOK, LinkOK, DocOK, HistoryOK
<1>4. ASSUME NEW p \in Pages, Switch(p) PROVE Typed'
  <2>1. Shown(p) \subseteq Shapes
    BY CommittedOK DEF Shown, EditorOK
  <2>2. EditorOK'
    BY <1>4, <2>1, CommittedOK DEF Switch, setActivePage, EditorOK
  <2>3. LinkOK' /\ DocOK' /\ HistoryOK'
    BY <1>4 DEF Switch, setActivePage, LinkOK, DocOK, HistoryOK, Adopted
  <2> QED
    BY <2>2, <2>3
<1>5. ASSUME NEW p \in Pages, AddPage(p) PROVE Typed'
  <2>1. Shown(p) \subseteq Shapes
    BY CommittedOK DEF Shown, EditorOK
  <2>2. EditorOK'
    BY <1>5, <2>1, CommittedOK, MarkedOK DEF AddPage, setActivePage, EditorOK
  <2>3. DocOK'
    BY <1>5, ShareOK DEF AddPage, DocOK
  <2>4. LinkOK' /\ HistoryOK'
    BY <1>5 DEF AddPage, setActivePage, LinkOK, HistoryOK, Adopted
  <2> QED
    BY <2>2, <2>3, <2>4
<1>6. ASSUME NEW p \in Pages, DeletePage(p) PROVE Typed'
  <2>1. EditorOK'
    BY <1>6, KeptOK DEF DeletePage, EditorOK
  <2>2. DocOK'
    BY <1>6, ShareOK DEF DeletePage, DocOK
  <2>3. LinkOK' /\ HistoryOK'
    BY <1>6 DEF DeletePage, LinkOK, HistoryOK, Adopted
  <2> QED
    BY <2>1, <2>2, <2>3
<1>7. ASSUME NEW p \in Pages, NEW q \in Pages, Duplicate(p, q) PROVE Typed'
  <2>1. PICK copies \in SUBSET Fresh :
            /\ kept' = [kept EXCEPT ![q] = copies]
            /\ home' = [s \in Shapes |-> IF s \in copies THEN q ELSE home[s]]
            /\ mine' = mine \cup copies
    BY <1>7 DEF Duplicate
  <2>2. copies \subseteq Shapes
    BY DEF Fresh
  <2>3. EditorOK'
    BY <1>7, <2>1, <2>2 DEF Duplicate, EditorOK
  <2>4. DocOK'
    BY <1>7, ShareOK DEF Duplicate, DocOK
  <2>5. LinkOK'
    BY <1>7 DEF Duplicate, LinkOK
  <2>6. HistoryOK'
    BY <1>7, <2>1, <2>2 DEF Duplicate, HistoryOK
  <2> QED
    BY <2>3, <2>4, <2>5, <2>6
<1>8. CASE Promote
  <2>1. EditorOK'
    BY <1>8, CommittedOK DEF Promote, EditorOK
  <2>2. DocOK'
    BY <1>8, CommittedOK DEF Promote, DocOK, EditorOK
  <2>3. LinkOK' /\ HistoryOK'
    BY <1>8 DEF Promote, Start, LinkOK, HistoryOK
  <2> QED
    BY <2>1, <2>2, <2>3
<1>9. CASE Drop
  <2>1. EditorOK' /\ LinkOK'
    BY <1>9 DEF Drop, EditorOK, LinkOK
  <2>2. DocOK'
    BY <1>9 DEF Drop, Part, DocOK
  <2>3. HistoryOK'
    BY <1>9 DEF Drop, HistoryOK
  <2> QED
    BY <2>1, <2>2, <2>3
<1>10. ASSUME NEW w \in BOOLEAN, Reopen(w) PROVE Typed'
  <2>1. EditorOK' /\ LinkOK'
    BY <1>10 DEF Reopen, Start, EditorOK, LinkOK
  <2>2. DocOK'
    BY <1>10 DEF Reopen, Part, DocOK
  <2>3. HistoryOK'
    BY <1>10 DEF Reopen, HistoryOK
  <2> QED
    BY <2>1, <2>2, <2>3
<1>11. CASE SignIn
  BY <1>11 DEF SignIn, Start, EditorOK, LinkOK, DocOK, HistoryOK
<1>12. CASE AdoptLocally
  <2>1. pages' \subseteq Pages
    BY <1>12, ListedOK DEF AdoptLocally, DocOK
  <2>2. active' \in Pages
    BY <1>12, <2>1, RepointOK DEF AdoptLocally
  <2>3. EditorOK'
    BY <1>12, <2>1, <2>2, KeptOK DEF AdoptLocally, EditorOK, DocOK
  <2>4. LinkOK'
    BY <1>12, <2>2 DEF AdoptLocally, LinkOK
  <2>5. DocOK' /\ HistoryOK'
    BY <1>12 DEF AdoptLocally, DocOK, HistoryOK
  <2> QED
    BY <2>3, <2>4, <2>5
<1>13. CASE Sync
  <2> DEFINE merged == [p \in Pages |-> Merge(surface[p], room[p], base[p])]
             mergedList == Merge(list, roomList, baseList)
             given == pending \cap pages'
  <2>1. /\ pages' = Listed(mergedList)
        /\ active' \in Repoint(pages')
        /\ surface' = Handed(given, merged)
        /\ list' = mergedList \cup given
        /\ bound' = active' \/ (Adopted /\ bound' = bound)
        /\ view' = surface'[bound']
        /\ erased' \subseteq erased
    BY <1>13, Zenon DEF Sync
  <2>2. /\ session' = "adopted" /\ online' = TRUE /\ provider' = provider
        /\ rebind' = (active' # bound') /\ pending' = {}
        /\ room' = surface' /\ roomList' = list' /\ kept' = KeptOn(pages')
        /\ UNCHANGED <<base, baseList, home, mine, drops>>
    BY <1>13 DEF Sync
  <2>3. merged \in [Pages -> SUBSET Shapes]
    <3>1. \A p \in Pages : Merge(surface[p], room[p], base[p]) \in SUBSET Shapes
      BY MergeOK DEF DocOK
    <3> QED
      BY <3>1
  <2>4. mergedList \in SUBSET Pages
    BY MergeOK DEF DocOK
  <2>6. surface' \in [Pages -> SUBSET Shapes]
    BY <2>1, <2>3, HandedOK
  <2>7. pages' \subseteq Pages /\ list' \subseteq Pages
    BY <2>1, <2>4, ListedOK DEF EditorOK
  <2>8. active' \in Pages
    BY <2>1, <2>7, RepointOK
  <2>9. bound' \in Pages
    BY <2>1, <2>8 DEF SessionOK, EditorOK
  <2>10. EditorOK'
    BY <2>1, <2>2, <2>6, <2>7, <2>8, <2>9, KeptOK DEF EditorOK
  <2>11. LinkOK'
    BY <2>2, <2>9 DEF LinkOK
  <2>12. DocOK'
    BY <2>2, <2>6, <2>7 DEF DocOK
  <2>13. HistoryOK'
    BY <2>1, <2>2 DEF HistoryOK
  <2> QED
    BY <2>10, <2>11, <2>12, <2>13
<1>14. CASE Rebind
  BY <1>14 DEF Rebind, EditorOK, LinkOK, DocOK, HistoryOK
<1>15. ASSUME NEW p \in Pages, NEW s \in Shapes, PeerDraw(p, s) PROVE Typed'
  <2>1. EditorOK' /\ LinkOK' /\ DocOK'
    BY <1>15 DEF PeerDraw, Follow, EditorOK, LinkOK, DocOK
  <2>2. HistoryOK'
    BY <1>15 DEF PeerDraw, Follow, HistoryOK
  <2> QED
    BY <2>1, <2>2
<1>16. ASSUME NEW p \in Pages, NEW s \in Shapes, PeerErase(p, s) PROVE Typed'
  <2>1. EditorOK' /\ LinkOK' /\ DocOK'
    BY <1>16 DEF PeerErase, Follow, EditorOK, LinkOK, DocOK
  <2>2. HistoryOK'
    BY <1>16 DEF PeerErase, Follow, HistoryOK
  <2> QED
    BY <2>1, <2>2
<1>17. ASSUME NEW l \in SUBSET Pages, FollowList(l) PROVE Typed'
  <2>1. pages' \subseteq Pages
    BY <1>17, ListedOK DEF FollowList, EditorOK
  <2>2. active' \in Pages
    BY <1>17, <2>1, RepointOK DEF FollowList, EditorOK
  <2>3. EditorOK'
    BY <1>17, <2>1, <2>2, KeptOK DEF FollowList, EditorOK
  <2>4. LinkOK'
    BY <1>17 DEF FollowList, LinkOK
  <2>5. DocOK' /\ HistoryOK'
    BY <1>17 DEF FollowList, DocOK, HistoryOK
  <2> QED
    BY <2>3, <2>4, <2>5
<1>18. ASSUME NEW p \in Pages, PeerAddPage(p) \/ PeerDeletePage(p) PROVE Typed'
  BY <1>17, <1>18 DEF PeerAddPage, PeerDeletePage, DocOK
<1>19. CASE UNCHANGED vars
  BY <1>19 DEF vars, EditorOK, LinkOK, DocOK, HistoryOK
<1> QED
  BY <1>1, <1>2, <1>3, <1>4, <1>5, <1>6, <1>7, <1>8, <1>9, <1>10, <1>11, <1>12,
     <1>13, <1>14, <1>15, <1>16, <1>18, <1>19 DEF Next

LEMMA FateStep ==
    ASSUME EditorOK, DocOK, FateOK, [Next]_vars
    PROVE  FateOK'
<1>1. ASSUME NEW p \in Pages, AddPage(p) \/ DeletePage(p) \/ PeerAddPage(p) \/ PeerDeletePage(p)
      PROVE  FateOK'
  BY <1>1 DEF AddPage, DeletePage, PeerAddPage, PeerDeletePage, FateOK, fate
<1>2. ASSUME NEW p \in Pages, NEW q \in Pages, Duplicate(p, q) PROVE FateOK'
  BY <1>2 DEF Duplicate, FateOK
<1>3. ASSUME UNCHANGED fate PROVE FateOK'
  BY <1>3 DEF FateOK, fate
<1>4. ASSUME NEW s \in Shapes, Draw(s) \/ Erase(s) PROVE FateOK'
  BY <1>3, <1>4 DEF Draw, Erase
<1>5. ASSUME NEW p \in Pages, Switch(p) PROVE FateOK'
  BY <1>3, <1>5 DEF Switch
<1>6. ASSUME NEW t \in BOOLEAN, Reopen(t) PROVE FateOK'
  BY <1>3, <1>6 DEF Reopen
<1>7. ASSUME NEW p \in Pages, NEW s \in Shapes, PeerDraw(p, s) \/ PeerErase(p, s) PROVE FateOK'
  BY <1>3, <1>7 DEF PeerDraw, PeerErase, Follow
<1>8. ASSUME Save \/ Promote \/ Drop \/ SignIn \/ AdoptLocally \/ Rebind PROVE FateOK'
  BY <1>3, <1>8 DEF Save, Promote, Drop, SignIn, AdoptLocally, Rebind
<1>9. ASSUME Sync PROVE FateOK'
  BY <1>3, <1>9 DEF Sync
<1> QED
  BY <1>1, <1>2, <1>3, <1>4, <1>5, <1>6, <1>7, <1>8, <1>9 DEF Next, vars

LEMMA SessionStep ==
    ASSUME EditorOK, DocOK, SessionOK, [Next]_vars
    PROVE  SessionOK'
<1> USE DEF editor, link, doc, remote, history
<1>1. ASSUME UNCHANGED link PROVE SessionOK'
  BY <1>1 DEF SessionOK, Adopted
<1>2. ASSUME rebind' = Adopted \/ UNCHANGED rebind, UNCHANGED <<session, online, bound>>
      PROVE  SessionOK'
  <2>1. Adopted' <=> Adopted
    BY <1>2 DEF Adopted
  <2>2. rebind' => Adopted
    <3>1. CASE rebind' = Adopted
      BY <3>1
    <3>2. CASE UNCHANGED rebind
      BY <3>2 DEF SessionOK
    <3> QED
      BY <1>2, <3>1, <3>2
  <2> QED
    BY <1>2, <2>1, <2>2 DEF SessionOK
<1>3. ASSUME NEW w \in BOOLEAN, Start(w) PROVE SessionOK'
  BY <1>3 DEF Start, SessionOK, Adopted
<1>4. ASSUME NEW s \in Shapes, Draw(s) \/ Erase(s) PROVE SessionOK'
  BY <1>1, <1>4 DEF Draw, Erase
<1>5. CASE Save
  BY <1>1, <1>5 DEF Save
<1>6. ASSUME NEW p \in Pages, Switch(p) \/ AddPage(p) \/ DeletePage(p) PROVE SessionOK'
  BY <1>2, <1>6 DEF Switch, AddPage, DeletePage, setActivePage
<1>7. ASSUME NEW p \in Pages, NEW q \in Pages, Duplicate(p, q) PROVE SessionOK'
  BY <1>1, <1>7 DEF Duplicate
<1>8. CASE Promote \/ SignIn
  BY <1>3, <1>8 DEF Promote, SignIn
<1>9. CASE Drop
  BY <1>9 DEF Drop, SessionOK, Adopted
<1>10. ASSUME NEW w \in BOOLEAN, Reopen(w) PROVE SessionOK'
  BY <1>3, <1>10 DEF Reopen
<1>11. CASE AdoptLocally
  <2>1. active' \in Pages
    BY <1>11, ListedOK, RepointOK DEF AdoptLocally, DocOK
  <2> QED
    BY <1>11, <2>1 DEF AdoptLocally, SessionOK, Adopted
<1>12. CASE Sync
  <2>1. active' \in Pages
    <3>1. active' \in Repoint(pages') /\ pages' = Listed(Merge(list, roomList, baseList))
      BY <1>12 DEF Sync
    <3>2. Merge(list, roomList, baseList) \in SUBSET Pages
      BY MergeOK DEF DocOK
    <3> QED
      BY <3>1, <3>2, ListedOK, RepointOK
  <2>2. bound' = active' \/ (Adopted /\ bound' = bound)
    BY <1>12, Zenon DEF Sync
  <2>3. session' = "adopted" /\ online' = TRUE
    BY <1>12 DEF Sync
  <2> QED
    BY <2>1, <2>2, <2>3 DEF SessionOK, Adopted, EditorOK
<1>13. CASE Rebind
  BY <1>13 DEF Rebind, SessionOK, Adopted, EditorOK
<1>14. ASSUME NEW p \in Pages, NEW s \in Shapes, PeerDraw(p, s) \/ PeerErase(p, s)
       PROVE  SessionOK'
  BY <1>1, <1>14 DEF PeerDraw, PeerErase, Follow
<1>15. ASSUME NEW l, FollowList(l) PROVE SessionOK'
  BY <1>15 DEF FollowList, SessionOK, Adopted
<1>16. ASSUME NEW p \in Pages, PeerAddPage(p) \/ PeerDeletePage(p) PROVE SessionOK'
  BY <1>15, <1>16 DEF PeerAddPage, PeerDeletePage
<1>17. CASE UNCHANGED vars
  BY <1>1, <1>17 DEF vars
<1> QED
  BY <1>4, <1>5, <1>6, <1>7, <1>8, <1>9, <1>10, <1>11, <1>12, <1>13, <1>14, <1>16,
     <1>17 DEF Next

\* The stores, the session and the replicas stay well typed.
THEOREM TypeCorrect == Spec => []TypeOK
<1>1. Init => TypeOK /\ SessionOK
  BY InitType
<1>2. TypeOK /\ SessionOK /\ [Next]_vars => (TypeOK /\ SessionOK)'
  <2> SUFFICES ASSUME TypeOK, SessionOK, [Next]_vars PROVE TypeOK' /\ SessionOK'
    OBVIOUS
  <2>1. EditorOK /\ LinkOK /\ DocOK /\ HistoryOK /\ FateOK
    BY Parts
  <2>2. EditorOK' /\ LinkOK' /\ DocOK' /\ HistoryOK'
    BY <2>1, TypeStep
  <2>3. SessionOK' /\ FateOK'
    BY <2>1, SessionStep, FateStep
  <2>4. TypeOK'
    BY <2>2, <2>3 DEF TypeOK, EditorOK, LinkOK, DocOK, HistoryOK, FateOK
  <2> QED
    BY <2>3, <2>4
<1> QED
  BY <1>1, <1>2, PTL DEF Spec

-----------------------------------------------------------------------------
(* Steps: no page gets another page's content *)

\* Nothing comes between a move and its rebind, and no move before the adopt.
Orderly == "beforeRebind" \notin Coincide /\ "moveUnadopted" \notin Coincide

\* PagesApart, and that the surface observed is that of the page on screen.
ContentApart ==
    \A p \in Pages : kept[p] \subseteq Home(p) /\ surface[p] \subseteq Home(p)
                                               /\ room[p] \subseteq Home(p)
ViewApart == ~ rebind => view \subseteq Home(active)
BoundToActive == Adopted /\ ~ rebind => bound = active
Apart == ContentApart /\ ViewApart /\ BoundToActive

\* Committing the view keeps contents apart, unless a rebind is due.
LEMMA CommittedApart ==
    ASSUME EditorOK, Apart, ~ rebind, NEW p \in Pages
    PROVE  Committed[p] \subseteq Home(p)
  BY CommittedOK DEF Apart, ContentApart, ViewApart

\* A drawn shape joins the home of its page and no other.
LEMMA DrawnHome ==
    ASSUME HistoryOK, NEW s \in Fresh, NEW p \in Pages, home' = [home EXCEPT ![s] = p]
    PROVE  /\ \A q \in Pages : Home(q) \subseteq Home(q)'
           /\ s \in Home(p)'
<1>1. s \in Shapes /\ \A q \in Pages : s \notin Home(q)
  BY FreshOK
<1>2. \A t \in Shapes : home'[t] = IF t = s THEN p ELSE home[t]
  BY DEF HistoryOK
<1> QED
  BY <1>1, <1>2 DEF Home

LEMMA ApartStep ==
    ASSUME Orderly, EditorOK, LinkOK, DocOK, HistoryOK, SessionOK, Apart, [Next]_vars
    PROVE  Apart'
<1> USE DEF editor, link, doc, remote, history
<1>0. Settled <=> ~ rebind
  BY DEF Settled, Orderly
<1>a. ASSUME UNCHANGED home PROVE \A q : Home(q)' = Home(q)
  BY <1>a DEF Home
<1>1. ASSUME NEW s \in Shapes, Draw(s) PROVE Apart'
  <2>1. /\ ~ rebind /\ s \in Fresh /\ view' = view \cup {s}
        /\ home' = [home EXCEPT ![s] = active]
        /\ surface' = Bridge(surface[bound] \cup {s})
        /\ room' = surface' \/ room' = room
        /\ UNCHANGED <<kept, active, session, bound, rebind>>
    BY <1>0, <1>1 DEF Draw, Share
  <2>2. active \in Pages
    BY DEF EditorOK
  <2>3. (\A q \in Pages : Home(q) \subseteq Home(q)') /\ s \in Home(active)'
    BY <2>1, <2>2, DrawnHome
  <2>4. Adopted => bound = active
    BY <2>1 DEF Apart, BoundToActive
  <2>5. \A q \in Pages : surface'[q] = IF Adopted /\ q = bound
                                         THEN surface[bound] \cup {s} ELSE surface[q]
    <3>1. Adopted => surface[bound] \cup {s} \in SUBSET Shapes
      BY <2>2, <2>4 DEF DocOK
    <3>2. CASE Adopted
      BY <2>1, <3>1, <3>2, BridgeOK
    <3>3. CASE ~ Adopted
      BY <2>1, <3>3 DEF Bridge
    <3> QED
      BY <3>2, <3>3
  <2>6. ContentApart'
    BY <2>1, <2>2, <2>3, <2>4, <2>5 DEF Apart, ContentApart
  <2>7. ViewApart' /\ BoundToActive'
    BY <2>1, <2>2, <2>3 DEF Apart, ViewApart, BoundToActive, Adopted
  <2> QED
    BY <2>6, <2>7 DEF Apart
<1>2. ASSUME NEW s \in Shapes, Erase(s) PROVE Apart'
  <2>1. /\ ~ rebind /\ view' = view \ {s}
        /\ surface' = Bridge(surface[bound] \ {s})
        /\ room' = surface' \/ room' = room
        /\ UNCHANGED <<kept, active, session, bound, rebind, home>>
    BY <1>0, <1>2 DEF Erase, Share
  <2>2. active \in Pages
    BY DEF EditorOK
  <2>4. Adopted => bound = active
    BY <2>1 DEF Apart, BoundToActive
  <2>5. \A q \in Pages : surface'[q] = IF Adopted /\ q = bound
                                         THEN surface[bound] \ {s} ELSE surface[q]
    <3>1. Adopted => surface[bound] \ {s} \in SUBSET Shapes
      BY <2>2, <2>4 DEF DocOK
    <3>2. CASE Adopted
      BY <2>1, <3>1, <3>2, BridgeOK
    <3>3. CASE ~ Adopted
      BY <2>1, <3>3 DEF Bridge
    <3> QED
      BY <3>2, <3>3
  <2>6. ContentApart'
    BY <1>a, <2>1, <2>2, <2>4, <2>5 DEF Apart, ContentApart
  <2>7. ViewApart' /\ BoundToActive'
    BY <1>a, <2>1 DEF Apart, ViewApart, BoundToActive, Adopted
  <2> QED
    BY <2>6, <2>7 DEF Apart
<1>3. CASE Save
  <2>1. ~ rebind /\ kept' = Committed
        /\ UNCHANGED <<surface, room, view, active, session, bound, rebind, home>>
    BY <1>0, <1>3 DEF Save
  <2> QED
    BY <1>a, <2>1, CommittedApart DEF Apart, ContentApart, ViewApart, BoundToActive, Adopted
\* A move to another page, before which the view is committed.
<1>4. ASSUME NEW p \in Pages, Settled, MayMove(p), setActivePage(p),
             UNCHANGED <<session, bound, surface, home>>,
             room' = room \/ room' = surface
      PROVE  Apart'
  <2>1. ~ rebind /\ kept' = Committed /\ active' = p /\ view' = Shown(p) /\ rebind' = Adopted
    BY <1>0, <1>4 DEF setActivePage
  <2>2. ContentApart'
    BY <1>a, <1>4, <2>1, CommittedApart DEF Apart, ContentApart
  <2>3. ViewApart'
    <3>1. Committed[p] \subseteq Home(p)
      BY <2>1, CommittedApart
    <3>2. ~ Adopted => view' = Committed[p]
      BY <1>4, <2>1 DEF Shown, MayMove, Adopted, Orderly, LinkOK
    <3> QED
      BY <1>a, <1>4, <2>1, <3>1, <3>2 DEF ViewApart
  <2>4. BoundToActive'
    BY <1>4, <2>1 DEF BoundToActive, Adopted
  <2> QED
    BY <2>2, <2>3, <2>4 DEF Apart
<1>5. ASSUME NEW p \in Pages, Switch(p) \/ AddPage(p) PROVE Apart'
  BY <1>4, <1>5 DEF Switch, AddPage, Share
<1>6. ASSUME NEW p \in Pages, DeletePage(p) PROVE Apart'
  <2>1. /\ ~ rebind /\ kept' = KeptOn(pages') /\ surface' = surface
        /\ room' = room \/ room' = surface
        /\ pages' \subseteq pages
        /\ UNCHANGED <<session, bound, home>>
        /\ \/ UNCHANGED <<active, view, rebind>>
           \/ \E q \in pages' : active' = q /\ view' = kept[q] /\ rebind' = Adopted
    BY <1>0, <1>6 DEF DeletePage, Share
  <2>2. ContentApart'
    BY <1>a, <2>1, KeptOK DEF Apart, ContentApart
  <2>3. ViewApart'
    BY <1>a, <2>1 DEF Apart, ContentApart, ViewApart, EditorOK
  <2>4. BoundToActive'
    BY <2>1 DEF Apart, BoundToActive, Adopted
  <2> QED
    BY <2>2, <2>3, <2>4 DEF Apart
<1>7. ASSUME NEW p \in Pages, NEW q \in Pages, Duplicate(p, q) PROVE Apart'
  <2>1. PICK copies \in SUBSET Fresh :
            /\ kept' = [kept EXCEPT ![q] = copies]
            /\ home' = [s \in Shapes |-> IF s \in copies THEN q ELSE home[s]]
    BY <1>7 DEF Duplicate
  <2>2. surface' = surface /\ (room' = room \/ room' = surface)
        /\ UNCHANGED <<view, active, session, bound, rebind>>
    BY <1>7 DEF Duplicate, Share
  <2>3. \A r \in Pages : Home(r) \subseteq Home(r)'
    BY <2>1, NoPageAssumption DEF Home, Fresh
  <2>4. copies \subseteq Home(q)'
    BY <2>1 DEF Home, Fresh
  <2>5. \A r \in Pages : kept'[r] = IF r = q THEN copies ELSE kept[r]
    BY <2>1 DEF EditorOK
  <2>6. ContentApart'
    BY <2>2, <2>3, <2>4, <2>5 DEF Apart, ContentApart
  <2>7. ViewApart' /\ BoundToActive'
    BY <2>2, <2>3 DEF Apart, ViewApart, BoundToActive, Adopted, EditorOK
  <2> QED
    BY <2>6, <2>7 DEF Apart
<1>8. CASE Promote
  <2>1. /\ ~ Adopted /\ ~ rebind /\ ~ Adopted' /\ rebind' = FALSE
        /\ kept' = Committed /\ room' = Committed
        /\ UNCHANGED <<surface, view, active, home>>
    BY <1>8 DEF Promote, Start, Adopted, SessionOK
  <2> QED
    BY <1>a, <2>1, CommittedApart DEF Apart, ContentApart, ViewApart, BoundToActive
<1>9. CASE Drop
  <2>1. UNCHANGED <<kept, surface, room, view, active, session, bound, rebind, home>>
    BY <1>9 DEF Drop
  <2> QED
    BY <1>a, <2>1 DEF Apart, ContentApart, ViewApart, BoundToActive, Adopted
<1>10. ASSUME NEW w \in BOOLEAN, Reopen(w) PROVE Apart'
  <2>1. /\ ~ Adopted' /\ view' = kept[active]
        /\ UNCHANGED <<kept, surface, room, active, home>>
    BY <1>10 DEF Reopen, Start, Adopted
  <2> QED
    BY <1>a, <2>1 DEF Apart, ContentApart, ViewApart, BoundToActive, EditorOK
<1>11. CASE SignIn
  <2>1. /\ ~ Adopted' /\ ~ rebind
        /\ UNCHANGED <<kept, surface, room, view, active, home>>
    BY <1>0, <1>11 DEF SignIn, Start, Adopted
  <2> QED
    BY <1>a, <2>1 DEF Apart, ContentApart, ViewApart, BoundToActive
<1>12. CASE AdoptLocally
  <2>1. /\ bound' = active' /\ view' = surface[active'] /\ rebind' = FALSE
        /\ kept' = KeptOn(pages')
        /\ UNCHANGED <<surface, room, home>>
    BY <1>12 DEF AdoptLocally
  <2>2. active' \in Pages
    BY TypeStep DEF EditorOK
  <2> QED
    BY <1>a, <2>1, <2>2, KeptOK DEF Apart, ContentApart, ViewApart, BoundToActive, EditorOK
<1>13. CASE Sync
  <2> DEFINE merged == [p \in Pages |-> Merge(surface[p], room[p], base[p])]
             given == pending \cap pages'
  <2>1. /\ surface' = Handed(given, merged)
        /\ room' = surface' /\ view' = surface'[bound']
        /\ rebind' = (active' # bound') /\ kept' = KeptOn(pages')
        /\ UNCHANGED home
    BY <1>13 DEF Sync
  <2>2. active' \in Pages
    BY TypeStep DEF EditorOK
  <2>3. \A p \in Pages : merged[p] \subseteq surface[p] \cup room[p]
    BY DEF Merge
  <2> HIDE DEF merged, given
  <2>4. \A p \in Pages : surface'[p] \subseteq surface[p] \cup room[p] \cup kept[p]
    BY <2>1, <2>3 DEF Handed
  <2>5. ContentApart'
    BY <1>a, <2>1, <2>4, KeptOK DEF Apart, ContentApart
  <2>6. ViewApart' /\ BoundToActive'
    BY <2>1, <2>2, <2>5 DEF ContentApart, ViewApart, BoundToActive
  <2> QED
    BY <2>5, <2>6 DEF Apart
<1>14. CASE Rebind
  <2>1. /\ bound' = active /\ view' = surface[active]
        /\ UNCHANGED <<kept, surface, room, active, home>>
    BY <1>14 DEF Rebind
  <2> QED
    BY <1>a, <2>1 DEF Apart, ContentApart, ViewApart, BoundToActive, EditorOK
\* A change by another editor of one page's surface: it gains at most s.
<1>15. ASSUME NEW p \in Pages, NEW s, NEW content, Follow(p, content), Settled,
              content \subseteq room[p] \cup {s}, s \in room[p] \/ s \in Home(p)',
              \A q \in Pages : Home(q) \subseteq Home(q)'
       PROVE  Apart'
  <2>1. /\ room' = [room EXCEPT ![p] = content]
        /\ IF online
             THEN /\ surface' = room'
                  /\ view' = IF p = bound
                               THEN (view \cup (content \ room[p])) \ (room[p] \ content)
                               ELSE view
             ELSE UNCHANGED <<surface, view>>
        /\ UNCHANGED <<kept, active, session, bound, rebind>>
    BY <1>15 DEF Follow
  <2>2. \A q \in Pages : room'[q] = IF q = p THEN content ELSE room[q]
    BY <2>1 DEF DocOK
  <2>3. \A q \in Pages : room'[q] \subseteq Home(q)'
    BY <1>15, <2>2 DEF Apart, ContentApart
  <2>4. ContentApart'
    BY <1>15, <2>1, <2>3 DEF Apart, ContentApart
  <2>5. content \subseteq Home(p)'
    BY <2>2, <2>3
  <2>6. online => bound = active
    BY <1>0, <1>15 DEF SessionOK, Apart, BoundToActive
  <2>7. view \subseteq Home(active)'
    BY <1>0, <1>15, <2>1 DEF Apart, ViewApart, EditorOK
  <2>8. ViewApart'
    BY <2>1, <2>5, <2>6, <2>7 DEF ViewApart
  <2>9. BoundToActive'
    BY <2>1 DEF Apart, BoundToActive, Adopted
  <2> QED
    BY <2>4, <2>8, <2>9 DEF Apart
<1>16. ASSUME NEW p \in Pages, NEW s \in Shapes, PeerDraw(p, s) PROVE Apart'
  <2>1. /\ Settled /\ s \in Fresh /\ home' = [home EXCEPT ![s] = p]
        /\ Follow(p, room[p] \cup {s})
    BY <1>16 DEF PeerDraw
  <2>2. (\A q \in Pages : Home(q) \subseteq Home(q)') /\ s \in Home(p)'
    BY <2>1, DrawnHome
  <2> QED
    BY <1>15, <2>1, <2>2
<1>17. ASSUME NEW p \in Pages, NEW s \in Shapes, PeerErase(p, s) PROVE Apart'
  <2>1. Settled /\ s \in room[p] /\ UNCHANGED home /\ Follow(p, room[p] \ {s})
    BY <1>17 DEF PeerErase
  <2> QED
    BY <1>a, <1>15, <2>1
<1>18. ASSUME NEW l, FollowList(l) PROVE Apart'
  <2>1. /\ UNCHANGED <<surface, room, view, session, bound, home>>
        /\ \/ kept' = KeptOn(pages') /\ rebind' = (rebind \/ active' # active)
           \/ UNCHANGED <<kept, active, rebind>>
    BY <1>18 DEF FollowList
  <2>2. ContentApart'
    BY <1>a, <2>1, KeptOK DEF Apart, ContentApart
  <2>3. ~ rebind' => ~ rebind /\ active' = active
    BY <2>1
  <2>4. ViewApart' /\ BoundToActive'
    BY <1>a, <2>1, <2>3 DEF Apart, ViewApart, BoundToActive, Adopted
  <2> QED
    BY <2>2, <2>4 DEF Apart
<1>19. ASSUME NEW p \in Pages, PeerAddPage(p) \/ PeerDeletePage(p) PROVE Apart'
  BY <1>18, <1>19 DEF PeerAddPage, PeerDeletePage
<1>20. CASE UNCHANGED vars
  <2>1. UNCHANGED <<kept, surface, room, view, active, session, bound, rebind, home>>
    BY <1>20 DEF vars
  <2> QED
    BY <1>a, <2>1 DEF Apart, ContentApart, ViewApart, BoundToActive, Adopted
<1> QED
  BY <1>1, <1>2, <1>3, <1>5, <1>6, <1>7, <1>8, <1>9, <1>10, <1>11, <1>12, <1>13,
     <1>14, <1>16, <1>17, <1>19, <1>20 DEF Next

-----------------------------------------------------------------------------
(* Steps: the editor shows the surface it observes *)

ViewIsSurface == Adopted /\ ~ rebind => view = surface[active]
OnlineAgrees  == online => surface = room
Follows       == ViewIsSurface /\ OnlineAgrees

\* A change made by the editor that leaves the surfaces alone keeps them agreed.
LEMMA ShareAgrees ==
    ASSUME NEW s, NEW l, Share(s, l), UNCHANGED online
    PROVE  surface' = s /\ OnlineAgrees'
  BY DEF Share, OnlineAgrees

LEMMA FollowsStep ==
    ASSUME Orderly, EditorOK, LinkOK, DocOK, HistoryOK, SessionOK, Apart, Follows,
           [Next]_vars
    PROVE  Follows'
<1> USE DEF editor, link, doc, remote, history
<1>0. Settled <=> ~ rebind
  BY DEF Settled, Orderly
<1>1. ASSUME NEW s \in Shapes, Draw(s) PROVE Follows'
  <2>1. /\ ~ rebind /\ view' = view \cup {s}
        /\ Share(Bridge(surface[bound] \cup {s}), list)
        /\ UNCHANGED <<active, session, bound, rebind, online>>
    BY <1>0, <1>1 DEF Draw
  <2>2. OnlineAgrees' /\ surface' = Bridge(surface[bound] \cup {s})
    BY <2>1, ShareAgrees
  <2>3. CASE Adopted
    <3>1. bound = active /\ view = surface[active] /\ active \in Pages
      BY <2>1, <2>3 DEF Apart, BoundToActive, Follows, ViewIsSurface, EditorOK
    <3>2. surface[bound] \cup {s} \in SUBSET Shapes
      BY <3>1 DEF DocOK
    <3>3. surface'[active] = surface[bound] \cup {s}
      BY <2>2, <2>3, <3>1, <3>2, BridgeOK
    <3> QED
      BY <2>1, <2>2, <3>1, <3>3 DEF Follows, ViewIsSurface
  <2>4. CASE ~ Adopted
    BY <2>1, <2>2, <2>4 DEF Follows, ViewIsSurface, Adopted
  <2> QED
    BY <2>3, <2>4
<1>2. ASSUME NEW s \in Shapes, Erase(s) PROVE Follows'
  <2>1. /\ ~ rebind /\ view' = view \ {s}
        /\ Share(Bridge(surface[bound] \ {s}), list)
        /\ UNCHANGED <<active, session, bound, rebind, online>>
    BY <1>0, <1>2 DEF Erase
  <2>2. OnlineAgrees' /\ surface' = Bridge(surface[bound] \ {s})
    BY <2>1, ShareAgrees
  <2>3. CASE Adopted
    <3>1. bound = active /\ view = surface[active] /\ active \in Pages
      BY <2>1, <2>3 DEF Apart, BoundToActive, Follows, ViewIsSurface, EditorOK
    <3>2. surface[bound] \ {s} \in SUBSET Shapes
      BY <3>1 DEF DocOK
    <3>3. surface'[active] = surface[bound] \ {s}
      BY <2>2, <2>3, <3>1, <3>2, BridgeOK
    <3> QED
      BY <2>1, <2>2, <3>1, <3>3 DEF Follows, ViewIsSurface
  <2>4. CASE ~ Adopted
    BY <2>1, <2>2, <2>4 DEF Follows, ViewIsSurface, Adopted
  <2> QED
    BY <2>3, <2>4
<1>3. ASSUME UNCHANGED <<view, active, session, rebind, online, surface, room>>
      PROVE  Follows'
  BY <1>3 DEF Follows, ViewIsSurface, OnlineAgrees, Adopted
<1>4. CASE Save
  BY <1>3, <1>4 DEF Save
\* A move waits for the rebind; without a session nothing is followed.
<1>5. ASSUME rebind' = Adopted, UNCHANGED <<session, surface>>, OnlineAgrees'
      PROVE  Follows'
  BY <1>5 DEF Follows, ViewIsSurface, Adopted
<1>6. ASSUME NEW p \in Pages, Switch(p) PROVE Follows'
  <2>1. rebind' = Adopted /\ UNCHANGED <<session, online, surface, room>>
    BY <1>6 DEF Switch, setActivePage
  <2>2. OnlineAgrees'
    BY <2>1 DEF Follows, OnlineAgrees
  <2> QED
    BY <1>5, <2>1, <2>2
<1>7. ASSUME NEW p \in Pages, AddPage(p) PROVE Follows'
  <2>1. /\ rebind' = Adopted /\ UNCHANGED <<session, online>>
        /\ Share(surface, IF Adopted THEN list \cup {p} ELSE list)
    BY <1>7 DEF AddPage, setActivePage
  <2>2. surface' = surface /\ OnlineAgrees'
    BY <2>1, ShareAgrees
  <2> QED
    BY <1>5, <2>1, <2>2
<1>8. ASSUME NEW p \in Pages, DeletePage(p) PROVE Follows'
  <2>1. /\ UNCHANGED <<session, online>>
        /\ Share(surface, IF Adopted THEN list \ {p} ELSE list)
        /\ rebind' = Adopted \/ UNCHANGED <<active, view, rebind>>
    BY <1>8 DEF DeletePage
  <2>2. surface' = surface /\ OnlineAgrees'
    BY <2>1, ShareAgrees
  <2>3. CASE rebind' = Adopted
    BY <1>5, <2>1, <2>2, <2>3
  <2>4. CASE UNCHANGED <<active, view, rebind>>
    BY <2>1, <2>2, <2>4 DEF Follows, ViewIsSurface, Adopted
  <2> QED
    BY <2>1, <2>3, <2>4
<1>9. ASSUME NEW p \in Pages, NEW q \in Pages, Duplicate(p, q) PROVE Follows'
  <2>1. /\ UNCHANGED <<view, active, session, rebind, online>>
        /\ Share(surface, IF Adopted THEN list \cup {q} ELSE list)
    BY <1>9 DEF Duplicate
  <2>2. surface' = surface /\ OnlineAgrees'
    BY <2>1, ShareAgrees
  <2> QED
    BY <2>1, <2>2 DEF Follows, ViewIsSurface, Adopted
\* A session that starts has not adopted and is not online.
<1>10. ASSUME NEW w, Start(w) PROVE Follows'
  BY <1>10 DEF Start, Follows, ViewIsSurface, OnlineAgrees, Adopted
<1>11. CASE Promote \/ SignIn
  BY <1>10, <1>11 DEF Promote, SignIn
<1>12. CASE Drop
  <2>1. ~ online' /\ UNCHANGED <<view, active, session, rebind, surface>>
    BY <1>12 DEF Drop
  <2> QED
    BY <2>1 DEF Follows, ViewIsSurface, OnlineAgrees, Adopted
<1>13. ASSUME NEW w \in BOOLEAN, Reopen(w) PROVE Follows'
  BY <1>10, <1>13 DEF Reopen
<1>14. CASE AdoptLocally
  <2>1. /\ view' = surface[active'] /\ UNCHANGED <<online, surface, room>>
    BY <1>14 DEF AdoptLocally
  <2> QED
    BY <2>1 DEF Follows, ViewIsSurface, OnlineAgrees
<1>15. CASE Sync
  <2>1. view' = surface'[bound'] /\ rebind' = (active' # bound') /\ room' = surface'
    BY <1>15 DEF Sync
  <2> QED
    BY <2>1 DEF Follows, ViewIsSurface, OnlineAgrees
<1>16. CASE Rebind
  <2>1. view' = surface[active] /\ UNCHANGED <<active, online, surface, room>>
    BY <1>16 DEF Rebind
  <2> QED
    BY <2>1 DEF Follows, ViewIsSurface, OnlineAgrees
<1>17. ASSUME NEW p \in Pages, NEW content, Follow(p, content), Settled PROVE Follows'
  <2>1. /\ room' = [room EXCEPT ![p] = content]
        /\ UNCHANGED <<active, session, rebind, online>>
        /\ IF online
             THEN /\ surface' = room'
                  /\ view' = IF p = bound
                               THEN (view \cup (content \ room[p])) \ (room[p] \ content)
                               ELSE view
             ELSE UNCHANGED <<surface, view>>
    BY <1>17 DEF Follow
  <2>2. CASE online
    <3>1. bound = active /\ view = room[active] /\ active \in Pages
      BY <1>0, <1>17, <2>2 DEF SessionOK, Apart, BoundToActive, Follows, ViewIsSurface,
                             OnlineAgrees, EditorOK
    <3>2. surface'[active] = IF p = active THEN content ELSE room[active]
      BY <2>1, <2>2, <3>1 DEF DocOK
    <3>3. CASE p = active
      <4>1. view' = (room[p] \cup (content \ room[p])) \ (room[p] \ content)
        BY <2>1, <2>2, <3>1, <3>3
      <4>2. view' = content
        BY <4>1
      <4> QED
        BY <2>1, <2>2, <3>2, <3>3, <4>2 DEF Follows, ViewIsSurface, OnlineAgrees
    <3>4. CASE p # active
      BY <2>1, <2>2, <3>1, <3>2, <3>4 DEF Follows, ViewIsSurface, OnlineAgrees
    <3> QED
      BY <3>3, <3>4
  <2>3. CASE ~ online
    BY <2>1, <2>3 DEF Follows, ViewIsSurface, OnlineAgrees, Adopted
  <2> QED
    BY <2>2, <2>3
<1>18. ASSUME NEW p \in Pages, NEW s \in Shapes, PeerDraw(p, s) \/ PeerErase(p, s)
       PROVE  Follows'
  BY <1>17, <1>18 DEF PeerDraw, PeerErase
<1>19. ASSUME NEW l, FollowList(l) PROVE Follows'
  <2>1. /\ UNCHANGED <<surface, room, view, session, online>>
        /\ rebind' = (rebind \/ active' # active) \/ UNCHANGED <<active, rebind>>
    BY <1>19 DEF FollowList
  <2>2. ~ rebind' => ~ rebind /\ active' = active
    BY <2>1
  <2> QED
    BY <2>1, <2>2 DEF Follows, ViewIsSurface, OnlineAgrees, Adopted
<1>20. ASSUME NEW p \in Pages, PeerAddPage(p) \/ PeerDeletePage(p) PROVE Follows'
  BY <1>19, <1>20 DEF PeerAddPage, PeerDeletePage
<1>21. CASE UNCHANGED vars
  BY <1>3, <1>21 DEF vars
<1> QED
  BY <1>1, <1>2, <1>4, <1>6, <1>7, <1>8, <1>9, <1>11, <1>12, <1>13, <1>14, <1>15,
     <1>16, <1>18, <1>20, <1>21 DEF Next

-----------------------------------------------------------------------------
(* The invariants *)

LEMMA InitFollows == Init => Follows
<1> SUFFICES ASSUME Init PROVE Follows
  OBVIOUS
<1>1. session = "none" /\ surface = room
  BY DEF Init
<1> QED
  BY <1>1 DEF Follows, ViewIsSurface, OnlineAgrees, Adopted

LEMMA InitApart == Init => Apart
<1> SUFFICES ASSUME Init PROVE Apart
  OBVIOUS
<1>1. \A p \in Pages : kept[p] = {} /\ surface[p] = {} /\ room[p] = {}
  BY DEF Init, Empty
<1>2. view = {} /\ session = "none"
  BY DEF Init
<1> QED
  BY <1>1, <1>2 DEF Apart, ContentApart, ViewApart, BoundToActive, Adopted

\* The inductive invariant: types, the state of the session, and the two above.
IInv == TypeOK /\ SessionOK /\ Apart /\ Follows

LEMMA Inductive ==
    /\ Init => IInv
    /\ Orderly /\ IInv /\ [Next]_vars => IInv'
<1>1. Init => IInv
  BY InitType, InitApart, InitFollows DEF IInv
<1>2. ASSUME Orderly, IInv, [Next]_vars PROVE IInv'
  <2>1. EditorOK /\ LinkOK /\ DocOK /\ HistoryOK /\ SessionOK /\ Apart /\ Follows
    BY <1>2, Parts DEF IInv
  <2>2. EditorOK' /\ LinkOK' /\ DocOK' /\ HistoryOK'
    BY <1>2, <2>1, TypeStep
  <2>3. SessionOK' /\ Apart' /\ Follows'
    BY <1>2, <2>1, SessionStep, ApartStep, FollowsStep
  <2>4. TypeOK'
    <3>1. FateOK'
      BY <1>2, <2>1, Parts, FateStep DEF IInv
    <3> QED
      BY <2>2, <3>1 DEF TypeOK, EditorOK, LinkOK, DocOK, HistoryOK, FateOK
  <2> QED
    BY <2>3, <2>4 DEF IInv
<1> QED
  BY <1>1, <1>2

\* No page gets another page's content, committed, shared or on screen, whatever
\* the pages, the shapes and the faults, if nothing comes between a move and its
\* rebind and the editor does not move before the Y.Doc is adopted (the case in
\* which canvas_unadopted shows the code mixing two pages).
THEOREM PagesStayApart == Orderly /\ Spec => []PagesApart
<1>1. IInv => PagesApart
  BY DEF IInv, Apart, ContentApart, ViewApart, PagesApart
<1>2. Orderly => Orderly'
  BY DEF Orderly
<1> QED
  BY Inductive, <1>1, <1>2, PTL DEF Spec

\* An adopted editor shows and edits the surface of the page it is on, whatever
\* it loaded, committed or followed on the way, under the same two conditions.
THEOREM ViewFollows == Orderly /\ Spec => []ViewFollowsSurface
<1>1. IInv => ViewFollowsSurface
  BY DEF IInv, Apart, BoundToActive, Follows, ViewIsSurface, ViewFollowsSurface
<1>2. Orderly => Orderly'
  BY DEF Orderly
<1> QED
  BY Inductive, <1>1, <1>2, PTL DEF Spec

-----------------------------------------------------------------------------
(* Steps: the page list *)

\* An editor always has a page and is on one of its own; online, it has the
\* pages of the list, which the room has too; and a replica that is apart from
\* the room keeps a page with it, so that the list they merge is not empty.
HasAPage    == pages # {} /\ active \in pages
ListAgrees  == online => /\ provider /\ pending = {}
                         /\ pages = roomList /\ list = roomList
Unshared    == session = "none" => list = {} /\ roomList = {} /\ baseList = {}
ListsMeet   == session # "none" /\ ~ online => Merge(list, roomList, baseList) # {}
ListInv     == HasAPage /\ ListAgrees /\ Unshared /\ ListsMeet

\* The pages an editor has after it adopted a list, and the one it is on.
LEMMA ListedKeeps ==
    ASSUME HasAPage, NEW l
    PROVE  /\ Listed(l) # {}
           /\ \A q \in Repoint(Listed(l)) : q \in Listed(l)
           /\ pending = {} /\ l # {} => Listed(l) = l
<1>1. Listed(l) # {}
  BY DEF Listed, HasAPage
<1>2. \A q \in Repoint(Listed(l)) : q \in Listed(l)
  BY DEF Repoint
<1>3. pending = {} /\ l # {} => Listed(l) = l
  BY DEF Listed
<1> QED
  BY <1>1, <1>2, <1>3

\* A page that only one side knows stays in what they merge.
LEMMA MergeGains ==
    ASSUME NEW x, NEW y, NEW b, NEW p, p \notin b
    PROVE  Merge(x \cup {p}, y, b) # {} /\ Merge(x, y \cup {p}, b) # {}
<1>1. p \in Merge(x \cup {p}, y, b) /\ p \in Merge(x, y \cup {p}, b)
  BY DEF Merge
<1> QED
  BY <1>1

LEMMA ListStep ==
    ASSUME "emptied" \notin Coincide, SessionOK, ListInv, [Next]_vars
    PROVE  ListInv'
<1> USE DEF editor, link, doc, remote, history
<1>1. ASSUME UNCHANGED <<pages, active, pending, session, provider, online, list,
                         roomList, baseList>>
      PROVE  ListInv'
  BY <1>1 DEF ListInv, HasAPage, ListAgrees, Unshared, ListsMeet
<1>2. ASSUME NEW s \in Shapes, Draw(s) \/ Erase(s) PROVE ListInv'
  <2>1. /\ UNCHANGED <<pages, active, pending, session, provider, online>>
        /\ \E c : Share(c, list)
    BY <1>2 DEF Draw, Erase
  <2>2. list' = list /\ roomList' = (IF online THEN list ELSE roomList) /\ baseList' = baseList
    BY <2>1 DEF Share
  <2>3. roomList' = roomList
    BY <2>2 DEF ListInv, ListAgrees
  <2> QED
    BY <1>1, <2>1, <2>2, <2>3
<1>3. CASE Save
  BY <1>1, <1>3 DEF Save
<1>4. ASSUME NEW p \in Pages, Switch(p) PROVE ListInv'
  BY <1>4 DEF Switch, setActivePage, ListInv, HasAPage, ListAgrees, Unshared, ListsMeet
\* A page is made: it is new to both sides.
<1>5. ASSUME NEW p \in FreshPages, pages' = pages \cup {p}, active' \in pages',
             Share(surface, IF Adopted THEN list \cup {p} ELSE list),
             online => pending' = pending,
             UNCHANGED <<session, provider, online>>
      PROVE  ListInv'
  <2>1. /\ list' = IF Adopted THEN list \cup {p} ELSE list
        /\ roomList' = IF online THEN list' ELSE roomList
        /\ baseList' = baseList
    BY <1>5 DEF Share
  <2>2. HasAPage'
    BY <1>5 DEF HasAPage
  <2>3. ListAgrees'
    BY <1>5, <2>1 DEF ListInv, ListAgrees, SessionOK
  <2>4. Unshared'
    BY <1>5, <2>1 DEF ListInv, Unshared, Adopted, SessionOK
  <2>5. ListsMeet'
    <3>1. p \notin baseList
      BY DEF FreshPages
    <3> QED
      BY <1>5, <2>1, <3>1, MergeGains DEF ListInv, ListsMeet
  <2> QED
    BY <2>2, <2>3, <2>4, <2>5 DEF ListInv
<1>6. ASSUME NEW p \in Pages, AddPage(p) PROVE ListInv'
  <2>1. /\ p \in FreshPages /\ pages' = pages \cup {p} /\ active' = p
        /\ Share(surface, IF Adopted THEN list \cup {p} ELSE list)
        /\ online => pending' = pending
        /\ UNCHANGED <<session, provider, online>>
    BY <1>6, MarkedOK DEF AddPage, setActivePage
  <2> QED
    BY <1>5, <2>1
<1>7. ASSUME NEW p \in Pages, NEW q \in Pages, Duplicate(p, q) PROVE ListInv'
  <2>1. /\ q \in FreshPages /\ pages' = pages \cup {q}
        /\ Share(surface, IF Adopted THEN list \cup {q} ELSE list)
        /\ UNCHANGED <<active, pending, session, provider, online>>
    BY <1>7 DEF Duplicate
  <2> QED
    BY <1>5, <2>1 DEF ListInv, HasAPage
<1>8. ASSUME NEW p \in Pages, DeletePage(p) PROVE ListInv'
  <2>1. /\ pages' = pages \ {p} /\ p \in pages /\ pages # {p}
        /\ (p # active /\ active' = active) \/ active' \in pages'
        /\ Share(surface, IF Adopted THEN list \ {p} ELSE list)
        /\ KeepsAPage(list', roomList)
        /\ UNCHANGED <<pending, session, provider, online>>
    BY <1>8 DEF DeletePage
  <2>2. /\ list' = IF Adopted THEN list \ {p} ELSE list
        /\ roomList' = IF online THEN list' ELSE roomList
        /\ baseList' = baseList
    BY <2>1 DEF Share
  <2>3. HasAPage'
    BY <2>1 DEF ListInv, HasAPage
  <2>4. ListAgrees'
    BY <2>1, <2>2 DEF ListInv, ListAgrees, SessionOK
  <2>5. Unshared'
    BY <2>1, <2>2 DEF ListInv, Unshared, Adopted, SessionOK
  <2>6. ListsMeet'
    BY <2>1, <2>2 DEF KeepsAPage, ListsMeet
  <2> QED
    BY <2>3, <2>4, <2>5, <2>6 DEF ListInv
<1>9. CASE Promote
  <2>1. /\ session = "none" /\ roomList' = pages /\ session' = "starting" /\ online' = FALSE
        /\ UNCHANGED <<pages, active, list, baseList>>
    BY <1>9 DEF Promote, Start
  <2>2. list = {} /\ baseList = {} /\ HasAPage
    BY <2>1 DEF ListInv, Unshared
  <2>3. Merge(list', roomList', baseList') # {}
    BY <2>1, <2>2 DEF Merge, HasAPage
  <2> QED
    BY <2>1, <2>2, <2>3 DEF ListInv, HasAPage, ListAgrees, Unshared, ListsMeet
\* The sides part: what they held in common is remembered.
<1>10. ASSUME Part, online' = FALSE, session # "none", session' # "none",
              UNCHANGED <<pages, active, list, roomList>>
       PROVE  ListInv'
  <2>1. CASE online
    <3>1. list = roomList /\ roomList # {}
      BY <2>1 DEF ListInv, ListAgrees, HasAPage
    <3>2. Merge(list', roomList', baseList') # {}
      BY <1>10, <3>1 DEF Merge
    <3> QED
      BY <1>10, <3>2 DEF ListInv, HasAPage, ListAgrees, Unshared, ListsMeet
  <2>2. CASE ~ online
    BY <1>10, <2>2 DEF Part, ListInv, HasAPage, ListAgrees, Unshared, ListsMeet
  <2> QED
    BY <2>1, <2>2
<1>11. CASE Drop
  BY <1>10, <1>11 DEF Drop, SessionOK, Adopted
<1>12. ASSUME NEW w \in BOOLEAN, Reopen(w) PROVE ListInv'
  BY <1>10, <1>12 DEF Reopen, Start
<1>13. CASE SignIn
  <2>1. ~ provider /\ ~ online
    BY <1>13 DEF SignIn, ListInv, ListAgrees
  <2> QED
    BY <1>10, <1>13, <2>1 DEF SignIn, Start, Part
<1>14. CASE AdoptLocally
  <2>1. /\ session = "starting" /\ session' = "adopted" /\ ~ provider
        /\ pages' = Listed(list) /\ active' \in Repoint(pages')
        /\ UNCHANGED <<online, list, roomList, baseList>>
    BY <1>14 DEF AdoptLocally
  <2>2. ~ online
    BY <2>1 DEF ListInv, ListAgrees
  <2>3. HasAPage'
    BY <2>1, ListedKeeps DEF ListInv, HasAPage
  <2> QED
    BY <2>1, <2>2, <2>3 DEF ListInv, ListAgrees, Unshared, ListsMeet
<1>15. CASE Sync
  <2> DEFINE merged == Merge(list, roomList, baseList)
  <2>1. /\ session # "none" /\ provider /\ ~ online
        /\ session' = "adopted" /\ online' = TRUE /\ provider' = provider
        /\ pages' = Listed(merged) /\ active' \in Repoint(pages')
        /\ list' = merged \cup (pending \cap pages')
        /\ pending' = {} /\ roomList' = list'
    BY <1>15 DEF Sync
  <2>2. merged # {}
    BY <2>1 DEF ListInv, ListsMeet
  <2>3. pages' = list'
    BY <2>1, <2>2 DEF Listed
  <2>4. HasAPage'
    BY <2>1, ListedKeeps DEF ListInv, HasAPage
  <2> QED
    BY <2>1, <2>3, <2>4 DEF ListInv, ListAgrees, Unshared, ListsMeet
<1>16. CASE Rebind
  BY <1>1, <1>16 DEF Rebind
<1>17. ASSUME NEW p \in Pages, NEW s \in Shapes, PeerDraw(p, s) \/ PeerErase(p, s)
       PROVE  ListInv'
  BY <1>1, <1>17 DEF PeerDraw, PeerErase, Follow
<1>18. ASSUME NEW l, FollowList(l), l # {}, roomList # {},
              online \/ Merge(list, l, baseList) # {}
       PROVE  ListInv'
  <2>1. session # "none"
    BY <1>18 DEF ListInv, Unshared
  <2>2. /\ roomList' = l /\ UNCHANGED <<pending, session, provider, online, baseList>>
        /\ IF online THEN list' = l /\ pages' = Listed(l) /\ active' \in Repoint(pages')
                     ELSE UNCHANGED <<list, pages, active>>
    BY <1>18 DEF FollowList
  <2>3. HasAPage'
    BY <2>2, ListedKeeps DEF ListInv, HasAPage
  <2>4. ListAgrees'
    BY <1>18, <2>2, ListedKeeps DEF ListInv, ListAgrees
  <2>5. Unshared' /\ ListsMeet'
    BY <1>18, <2>1, <2>2 DEF Unshared, ListsMeet
  <2> QED
    BY <2>3, <2>4, <2>5 DEF ListInv
<1>19. ASSUME NEW p \in Pages, PeerAddPage(p) PROVE ListInv'
  <2>1. roomList # {} /\ p \in FreshPages /\ FollowList(roomList \cup {p})
    BY <1>19 DEF PeerAddPage
  <2>2. Merge(list, roomList \cup {p}, baseList) # {}
    BY <2>1, MergeGains DEF FreshPages
  <2> QED
    BY <1>18, <2>1, <2>2
<1>20. ASSUME NEW p \in Pages, PeerDeletePage(p) PROVE ListInv'
  <2>1. /\ p \in roomList /\ roomList # {p} /\ FollowList(roomList \ {p})
        /\ KeepsAPage(list, roomList \ {p})
    BY <1>20 DEF PeerDeletePage
  <2>2. session # "none"
    BY <2>1 DEF ListInv, Unshared
  <2> QED
    BY <1>18, <2>1, <2>2 DEF KeepsAPage
<1>21. CASE UNCHANGED vars
  BY <1>1, <1>21 DEF vars
<1> QED
  BY <1>2, <1>3, <1>4, <1>6, <1>7, <1>8, <1>9, <1>11, <1>12, <1>13, <1>14, <1>15,
     <1>16, <1>17, <1>19, <1>20, <1>21 DEF Next

LEMMA InitLists == Init => ListInv
  BY DEF Init, ListInv, HasAPage, ListAgrees, Unshared, ListsMeet

-----------------------------------------------------------------------------
(* Steps: what becomes of a page *)

\* The page list the two sides have once they agree.
Latest == Merge(list, roomList, baseList)

\* A page the editor made is one of its pages and will be in the list, merged or
\* handed over; a deleted page is not, and is not to be handed over; who has
\* adopted a list, or holds shapes of one, has no page that it neither holds nor
\* hands over; and replicas apart from each other both hold what they agreed on
\* only, none of it still to be handed over.
MadeStays   == made \subseteq pages /\ (session # "none" => made \subseteq Latest \cup pending)
GoneStays   == /\ gone \cap Latest = {} /\ gone \cap pending \cap (pages \cup list) = {}
               /\ session = "none" \/ online => gone \cap pages = {}
ListHolds   == Adopted \/ HasAnyShapes => session # "none" /\ pages \subseteq list \cup pending
ListsApart  == /\ session = "none" => pending = {}
               /\ ~ online => /\ list \cap roomList \subseteq baseList
                              /\ pending \cap (pages \cup list) \cap roomList = {}
FateInv     == MadeStays /\ GoneStays /\ ListHolds /\ ListsApart

\* No list is emptied, no page made unmarked or deleted before the adopt.
Listable == {"emptied", "unmarked", "editUnadopted"} \cap Coincide = {}

\* Once they agree, the two sides' merge is what either holds.
LEMMA MergeSame ==
    ASSUME NEW x, NEW b
    PROVE  Merge(x, x, b) = x
  BY DEF Merge

\* The part of the invariant about surfaces: nothing is in the Y.Doc before.
LEMMA NoShapes ==
    ASSUME UNCHANGED surface
    PROVE  HasAnyShapes' <=> HasAnyShapes
  BY DEF HasAnyShapes

LEMMA FateInvStep ==
    ASSUME Listable, LinkOK, SessionOK, FateOK, ListInv, ListInv', FateInv, [Next]_vars
    PROVE  FateInv'
<1> USE DEF editor, link, doc, remote, history, fate
<1>0. /\ session = "none" => ~ online
      /\ session \in {"none", "starting", "adopted"}
      /\ online => list = roomList /\ pages = roomList /\ pending = {} /\ Latest = roomList
  BY MergeSame DEF LinkOK, SessionOK, Adopted, ListInv, ListAgrees, Latest
\* A step that leaves the pages and lists alone.
<1>1. ASSUME UNCHANGED <<pages, pending, session, provider, online, list, roomList, baseList,
                         made, gone>>,
             UNCHANGED surface \/ Adopted
      PROVE  FateInv'
  <2>1. UNCHANGED Latest /\ (Adopted' <=> Adopted)
    BY <1>1 DEF Latest, Adopted
  <2>2. MadeStays' /\ GoneStays' /\ ListsApart'
    BY <1>1, <2>1 DEF FateInv, MadeStays, GoneStays, ListsApart
  <2>3. ListHolds'
    BY <1>1, <2>1, NoShapes DEF FateInv, ListHolds
  <2> QED
    BY <2>2, <2>3 DEF FateInv
<1>2. ASSUME NEW s \in Shapes, Draw(s) \/ Erase(s) PROVE FateInv'
  <2>1. /\ UNCHANGED <<pages, pending, session, provider, online, made, gone>>
        /\ \E c : Share(Bridge(c), list)
    BY <1>2 DEF Draw, Erase
  <2>2. list' = list /\ roomList' = (IF online THEN list ELSE roomList) /\ baseList' = baseList
        /\ (UNCHANGED surface \/ Adopted)
    BY <2>1 DEF Share, Bridge
  <2>3. roomList' = roomList
    BY <1>0, <2>2
  <2> QED
    BY <1>1, <2>1, <2>2, <2>3
<1>3. CASE Save
  BY <1>1, <1>3 DEF Save
<1>4. ASSUME NEW p \in Pages, Switch(p) PROVE FateInv'
  BY <1>1, <1>4 DEF Switch
\* A page is made: new to both sides, marked or in the list of an adopted one.
<1>5. ASSUME NEW p \in FreshPages, pages' = pages \cup {p}, made' = made \cup {p},
             Share(surface, IF Adopted THEN list \cup {p} ELSE list),
             pending' = pending \/ (pending' = pending \cup {p} /\ session # "none" /\ ~ online),
             session = "starting" => pending' = pending \cup {p},
             session = "none" => pending' = pending,
             UNCHANGED <<session, provider, online, gone>>
      PROVE  FateInv'
  <2>1. /\ list' = IF Adopted THEN list \cup {p} ELSE list
        /\ roomList' = IF online THEN list' ELSE roomList
        /\ UNCHANGED <<baseList, surface>>
    BY <1>5 DEF Share
  <2>2. p \notin pages \cup list \cup roomList \cup baseList \cup made \cup gone
    BY DEF FreshPages
  <2>3. /\ Latest \subseteq Latest' /\ Latest' \subseteq Latest \cup {p}
        /\ Adopted => p \in Latest'
    BY <1>0, <2>1, <2>2 DEF Latest, Merge, SessionOK
  <2>4. Adopted' <=> Adopted
    BY <1>5 DEF Adopted
  <2>5. MadeStays'
    BY <1>0, <1>5, <2>3 DEF FateInv, MadeStays, Adopted
  <2>6. GoneStays'
    BY <1>5, <2>1, <2>2, <2>3 DEF FateInv, GoneStays
  <2>7. ListHolds'
    <3>1. HasAnyShapes' <=> HasAnyShapes
      BY <2>1, NoShapes
    <3>2. Adopted \/ HasAnyShapes => session # "none" /\ pages \subseteq list \cup pending
      BY DEF FateInv, ListHolds
    <3>3. session # "none" => p \in list' \cup pending'
      BY <1>0, <1>5, <2>1 DEF Adopted
    <3>4. list \subseteq list' /\ pending \subseteq pending'
      BY <1>5, <2>1
    <3>5. Adopted \/ HasAnyShapes => session' # "none" /\ pages' \subseteq list' \cup pending'
      BY <1>5, <3>2, <3>3, <3>4
    <3> QED
      BY <2>4, <3>1, <3>5 DEF ListHolds
  <2>8. ListsApart'
    BY <1>5, <2>1, <2>2 DEF FateInv, ListsApart
  <2> QED
    BY <2>5, <2>6, <2>7, <2>8 DEF FateInv
<1>6. ASSUME NEW p \in Pages, AddPage(p)
      PROVE  FateInv'
  <2>1. /\ p \in FreshPages /\ pages' = pages \cup {p} /\ made' = made \cup {p}
        /\ pending' \in Marked(p)
        /\ Share(surface, IF Adopted THEN list \cup {p} ELSE list)
        /\ UNCHANGED <<session, provider, online, gone>>
    BY <1>6 DEF AddPage
  <2>2. session = "starting" => ~ online
    BY DEF SessionOK, Adopted
  <2> QED
    BY <1>5, <2>1, <2>2, MarkedOK DEF Listable
<1>7. ASSUME NEW p \in Pages, NEW q \in Pages, Duplicate(p, q)
      PROVE  FateInv'
  <2>1. /\ q \in FreshPages /\ pages' = pages \cup {q} /\ made' = made \cup {q}
        /\ session # "starting"
        /\ Share(surface, IF Adopted THEN list \cup {q} ELSE list)
        /\ UNCHANGED <<pending, session, provider, online, gone>>
    BY <1>7 DEF Duplicate, Listable
  <2> QED
    BY <1>5, <2>1
\* A page is deleted: by an adopted editor in the list, else it was not in it.
<1>8. ASSUME NEW p \in Pages, DeletePage(p)
      PROVE  FateInv'
  <2>1. /\ pages' = pages \ {p} /\ p \in pages /\ made' = made \ {p} /\ gone' = gone \cup {p}
        /\ Share(surface, IF Adopted THEN list \ {p} ELSE list)
        /\ session = "starting" => p \in pending /\ p \notin list
        /\ UNCHANGED <<pending, session, provider, online>>
    BY <1>8 DEF DeletePage, MayEdit, Listable
  <2>2. /\ list' = IF Adopted THEN list \ {p} ELSE list
        /\ roomList' = IF online THEN list' ELSE roomList
        /\ UNCHANGED <<baseList, surface>>
    BY <2>1 DEF Share
  <2>3. Adopted' <=> Adopted
    BY <2>1 DEF Adopted
  <2>4. p \notin list' /\ (session = "none" => list = {} /\ roomList = {})
    BY <1>0, <2>1, <2>2 DEF Adopted, ListInv, Unshared
  <2>5. Latest \ {p} \subseteq Latest' /\ Latest' \subseteq Latest
    BY <1>0, <2>2 DEF Latest, Merge
  <2>6. p \notin Latest'
    <3>1. CASE online
      BY <1>0, <2>2, <2>4, <3>1 DEF Latest, Merge
    <3>2. CASE ~ online /\ p \in roomList
      <4>1. p \notin pending
        BY <2>1, <3>2 DEF FateInv, ListsApart
      <4>2. Adopted
        BY <1>0, <2>1, <2>4, <3>2, <4>1 DEF Adopted
      <4>3. p \in list
        BY <2>1, <4>1, <4>2 DEF FateInv, ListHolds
      <4>4. p \in baseList
        BY <3>2, <4>3 DEF FateInv, ListsApart
      <4> QED
        BY <2>2, <2>4, <4>4 DEF Latest, Merge
    <3>3. CASE ~ online /\ p \notin roomList
      BY <2>2, <2>4, <3>3 DEF Latest, Merge
    <3> QED
      BY <3>1, <3>2, <3>3
  <2>7. MadeStays'
    BY <2>1, <2>5 DEF FateInv, MadeStays
  <2>8. GoneStays'
    BY <2>1, <2>2, <2>4, <2>5, <2>6 DEF FateInv, GoneStays
  <2>9. ListHolds'
    BY <2>1, <2>2, <2>3, NoShapes DEF FateInv, ListHolds
  <2>10. ListsApart'
    BY <2>1, <2>2 DEF FateInv, ListsApart
  <2> QED
    BY <2>7, <2>8, <2>9, <2>10 DEF FateInv
\* The document is promoted: the room has all its pages, the Y.Doc none.
<1>9. CASE Promote
  <2>1. /\ session = "none" /\ roomList' = pages /\ session' = "starting" /\ online' = FALSE
        /\ UNCHANGED <<pages, pending, list, baseList, surface, made, gone>>
    BY <1>9 DEF Promote, Start
  <2>2. list = {} /\ baseList = {} /\ pending = {} /\ ~ HasAnyShapes
    BY <2>1 DEF ListInv, Unshared, FateInv, ListsApart, ListHolds
  <2>3. Latest' = pages
    BY <2>1, <2>2 DEF Latest, Merge
  <2>4. MadeStays' /\ GoneStays' /\ ListsApart'
    BY <2>1, <2>2, <2>3 DEF FateInv, MadeStays, GoneStays, ListsApart
  <2>5. ListHolds'
    BY <2>1, <2>2, NoShapes DEF ListHolds, Adopted
  <2> QED
    BY <2>4, <2>5 DEF FateInv
\* The sides part: what they held in common is remembered.
<1>10. ASSUME Part, online' = FALSE, session # "none", session' # "none",
              Adopted' => Adopted,
              UNCHANGED <<pages, pending, list, roomList, surface, made, gone>>
       PROVE  FateInv'
  <2>1. UNCHANGED Latest
    <3>1. CASE online
      BY <1>0, <1>10, <3>1, MergeSame DEF Latest
    <3>2. CASE ~ online
      BY <1>10, <3>2 DEF Part, Latest
    <3> QED
      BY <3>1, <3>2
  <2>2. list' \cap roomList' \subseteq baseList'
    BY <1>0, <1>10 DEF Part, FateInv, ListsApart
  <2>3. MadeStays' /\ GoneStays'
    BY <1>10, <2>1 DEF FateInv, MadeStays, GoneStays
  <2>4. ListHolds'
    BY <1>10, NoShapes DEF FateInv, ListHolds
  <2>5. ListsApart'
    BY <1>0, <1>10, <2>2 DEF FateInv, ListsApart
  <2> QED
    BY <2>3, <2>4, <2>5 DEF FateInv
<1>11. CASE Drop
  BY <1>10, <1>11 DEF Drop, SessionOK, Adopted
<1>12. ASSUME NEW w \in BOOLEAN, Reopen(w) PROVE FateInv'
  BY <1>10, <1>12 DEF Reopen, Start, Adopted
<1>13. CASE SignIn
  <2>1. ~ provider /\ ~ online
    BY <1>13 DEF SignIn, ListInv, ListAgrees
  <2> QED
    BY <1>10, <1>13, <2>1 DEF SignIn, Start, Part, Adopted
<1>14. CASE AdoptLocally
  <2>1. /\ session = "starting" /\ session' = "adopted" /\ ~ provider /\ HasAnyShapes
        /\ pages' = Listed(list)
        /\ UNCHANGED <<pending, online, list, roomList, baseList, surface, made, gone>>
    BY <1>14 DEF AdoptLocally
  <2>2. ~ online /\ pages \subseteq list \cup pending
    BY <2>1 DEF ListInv, ListAgrees, FateInv, ListHolds
  <2>3. /\ pages \subseteq pages' /\ pages' \subseteq pages \cup list
        /\ pages' \subseteq list \cup pending
    BY <2>1, <2>2 DEF Listed
  <2>4. UNCHANGED Latest
    BY <2>1 DEF Latest
  <2> QED
    BY <2>1, <2>2, <2>3, <2>4 DEF FateInv, MadeStays, GoneStays, ListHolds, ListsApart
\* A handshake completes: the pages are those of the merge and those handed over.
<1>15. CASE Sync
  <2>1. /\ session # "none" /\ session' = "adopted" /\ online' = TRUE
        /\ pages' = Listed(Latest) /\ list' = Latest \cup (pending \cap pages')
        /\ pending' = {} /\ roomList' = list'
        /\ UNCHANGED <<made, gone>>
    BY <1>15 DEF Sync, Latest
  <2>2. ~ online
    BY <1>15 DEF Sync
  <2>3. Latest # {}
    BY <2>1, <2>2 DEF ListInv, ListsMeet, Latest
  <2>4. pages' = Latest \cup (pages \cap pending) /\ list' = pages' /\ Latest' = pages'
    BY <2>1, <2>3, MergeSame DEF Listed, Latest
  <2>5. made \subseteq pages' /\ gone \cap pages' = {}
    BY <2>1, <2>4 DEF FateInv, MadeStays, GoneStays
  <2> QED
    BY <2>1, <2>4, <2>5 DEF FateInv, MadeStays, GoneStays, ListHolds, ListsApart
<1>16. CASE Rebind
  BY <1>1, <1>16 DEF Rebind
<1>17. ASSUME NEW p \in Pages, NEW s \in Shapes, PeerDraw(p, s) \/ PeerErase(p, s)
       PROVE  FateInv'
  BY <1>1, <1>17 DEF PeerDraw, PeerErase, Follow, SessionOK
\* Another editor makes or deletes a page.
<1>18. ASSUME NEW l, FollowList(l), roomList # {}, l # {}
       PROVE  /\ session # "none" /\ roomList' = l
              /\ online => list' = l /\ pages' = l /\ Latest' = l
              /\ ~ online => UNCHANGED <<list, pages>>
              /\ UNCHANGED <<pending, session, online, baseList, surface>>
  <2>1. roomList' = l /\ UNCHANGED <<pending, session, online, baseList, surface>>
        /\ IF online THEN list' = l /\ pages' = Listed(l) ELSE UNCHANGED <<list, pages>>
    BY <1>18 DEF FollowList
  <2>2. session # "none"
    BY <1>18 DEF ListInv, Unshared
  <2>3. online => pages' = l /\ Latest' = l
    BY <1>0, <1>18, <2>1, MergeSame DEF Listed, Latest
  <2> QED
    BY <2>1, <2>2, <2>3
<1>19. ASSUME NEW p \in Pages, PeerAddPage(p) PROVE FateInv'
  <2>1. /\ roomList # {} /\ p \in FreshPages /\ FollowList(roomList \cup {p})
        /\ UNCHANGED <<made, gone>>
    BY <1>19 DEF PeerAddPage
  <2>2. p \notin pages \cup list \cup baseList \cup gone
    BY <2>1 DEF FreshPages
  <2>3. Latest' = Latest \cup {p}
    BY <1>0, <1>18, <2>1, <2>2 DEF Latest, Merge
  <2>4. Adopted' <=> Adopted
    BY <1>18, <2>1 DEF Adopted
  <2>5. MadeStays' /\ GoneStays'
    BY <1>0, <1>18, <2>1, <2>2, <2>3 DEF FateInv, MadeStays, GoneStays
  <2>6. ListHolds'
    BY <1>0, <1>18, <2>1, <2>4, NoShapes DEF FateInv, ListHolds
  <2>7. ListsApart'
    BY <1>0, <1>18, <2>1, <2>2 DEF FateInv, ListsApart
  <2> QED
    BY <2>5, <2>6, <2>7 DEF FateInv
<1>20. ASSUME NEW p \in Pages, PeerDeletePage(p) PROVE FateInv'
  <2>1. /\ p \in roomList /\ roomList # {p} /\ FollowList(roomList \ {p})
        /\ made' = made \ {p} /\ gone' = gone \cup {p}
    BY <1>20 DEF PeerDeletePage
  <2>2. Latest' = Latest \ {p}
    <3>1. CASE online
      BY <1>0, <1>18, <2>1, <3>1
    <3>2. CASE ~ online
      <4>1. p \in list => p \in baseList
        BY <2>1, <3>2 DEF FateInv, ListsApart
      <4> QED
        BY <1>18, <2>1, <3>2, <4>1 DEF Latest, Merge
    <3> QED
      BY <3>1, <3>2
  <2>3. ~ online => p \notin pending \cap (pages \cup list)
    BY <2>1 DEF FateInv, ListsApart
  <2>4. Adopted' <=> Adopted
    BY <1>18, <2>1 DEF Adopted
  <2>5. MadeStays'
    BY <1>0, <1>18, <2>1, <2>2 DEF FateInv, MadeStays
  <2>6. GoneStays'
    BY <1>0, <1>18, <2>1, <2>2, <2>3 DEF FateInv, GoneStays
  <2>7. ListHolds'
    BY <1>0, <1>18, <2>1, <2>4, NoShapes DEF FateInv, ListHolds
  <2>8. ListsApart'
    BY <1>0, <1>18, <2>1 DEF FateInv, ListsApart
  <2> QED
    BY <2>5, <2>6, <2>7, <2>8 DEF FateInv
<1>21. CASE UNCHANGED vars
  BY <1>1, <1>21 DEF vars
<1> QED
  BY <1>2, <1>3, <1>4, <1>6, <1>7, <1>8, <1>9, <1>11, <1>12, <1>13, <1>14, <1>15,
     <1>16, <1>17, <1>19, <1>20, <1>21 DEF Next

LEMMA InitFate == Init => FateInv
<1> SUFFICES ASSUME Init PROVE FateInv
  OBVIOUS
<1>1. /\ session = "none" /\ online = FALSE /\ made = pages /\ gone = {} /\ pending = {}
      /\ list = {} /\ surface = Empty
  BY DEF Init
<1>2. ~ HasAnyShapes /\ ~ Adopted
  BY <1>1 DEF HasAnyShapes, Empty, Adopted
<1> QED
  BY <1>1, <1>2 DEF FateInv, MadeStays, GoneStays, ListHolds, ListsApart

\* A page the editor made stays until someone deletes it, and whoever is online
\* has the pages of the room, is on one and has none that was deleted, for any
\* pages, losses and reopenings, if no page is made unmarked or deleted before
\* the Y.Doc is adopted and the two sides do not delete the last pages between
\* them (each of the three alone loses a page, keeps a deleted one or leaves the
\* editor with pages the room lacks).
THEOREM PagesAgree == Listable /\ Spec => []PagesShared
<1> DEFINE LInv == TypeOK /\ SessionOK /\ ListInv /\ FateInv
<1>1. Init => LInv
  BY InitType, InitLists, InitFate
<1>2. Listable /\ LInv /\ [Next]_vars => LInv'
  <2> SUFFICES ASSUME Listable, LInv, [Next]_vars PROVE LInv'
    OBVIOUS
  <2>1. EditorOK /\ LinkOK /\ DocOK /\ HistoryOK /\ FateOK
    BY Parts
  <2>2. EditorOK' /\ LinkOK' /\ DocOK' /\ HistoryOK' /\ FateOK'
    BY <2>1, TypeStep, FateStep
  <2>3. SessionOK' /\ ListInv'
    BY <2>1, SessionStep, ListStep DEF Listable
  <2>4. FateInv'
    BY <2>1, <2>3, FateInvStep
  <2>5. TypeOK'
    BY <2>2 DEF TypeOK, EditorOK, LinkOK, DocOK, HistoryOK, FateOK
  <2> QED
    BY <2>3, <2>4, <2>5
<1>3. LInv => PagesShared
  BY DEF ListInv, ListAgrees, HasAPage, FateInv, MadeStays, GoneStays, PagesShared
<1>4. Listable => Listable'
  BY DEF Listable
<1> HIDE DEF LInv
<1> QED
  BY <1>1, <1>2, <1>3, <1>4, PTL DEF Spec

-----------------------------------------------------------------------------
(* Steps: what is handed over is new to the room *)

\* Who is online has handed everything over; without a session nothing is
\* shared; and the pages to hand over are new to the room.
AllHanded  == online => provider /\ pending = {}
NoneShared == session = "none" =>
    /\ surface = Empty /\ room = Empty /\ base = Empty
    /\ list = {} /\ roomList = {} /\ pending = {}
PendingNew == ~ online => \A p \in pending \cap (pages \cup list) :
    p \notin roomList /\ room[p] = {}
HandInv    == AllHanded /\ NoneShared /\ PendingNew

\* Fresh shapes are on no page, in no replica.
LEMMA FreshNowhere ==
    ASSUME Apart, NEW s \in Fresh, NEW p \in Pages
    PROVE  s \notin kept[p] /\ s \notin surface[p] /\ s \notin room[p]
  BY FreshOK DEF Apart, ContentApart

\* A page nobody knows has no shapes in the room.
LEMMA FreshPageEmpty ==
    ASSUME Apart, NEW p \in FreshPages
    PROVE  room[p] = {} /\ p \notin roomList
<1>1. p \in Pages /\ p \notin roomList /\ \A s \in Shapes : home[s] # p
  BY DEF FreshPages
<1>2. room[p] \subseteq Home(p)
  BY <1>1 DEF Apart, ContentApart
<1>3. Home(p) = {}
  BY <1>1 DEF Home
<1> QED
  BY <1>1, <1>2, <1>3

LEMMA HandStep ==
    ASSUME EditorOK, LinkOK, DocOK, SessionOK, Apart, Follows, HandInv, [Next]_vars
    PROVE  HandInv'
<1> USE DEF editor, link, doc, remote, history
<1>0. session = "none" => ~ online
  BY DEF SessionOK, Adopted
\* A step of the editor: it shares in a session only, marks pages while offline
\* only, and what it marks is new to the room.
<1>1. ASSUME UNCHANGED <<base, session, online, provider>>,
             session = "none" => UNCHANGED <<surface, room, list, roomList, pending>>,
             online => UNCHANGED pending,
             ~ online => /\ UNCHANGED <<room, roomList>>
                         /\ \A p \in pending' \cap (pages' \cup list') :
                                p \in pending \cap (pages \cup list) \/ p \in FreshPages
      PROVE  HandInv'
  <2>1. AllHanded' /\ NoneShared'
    BY <1>1 DEF HandInv, AllHanded, NoneShared
  <2>2. PendingNew'
    BY <1>1, FreshPageEmpty DEF HandInv, PendingNew
  <2> QED
    BY <2>1, <2>2 DEF HandInv
<1>2. ASSUME NEW content, Share(Bridge(content), list),
             UNCHANGED <<pages, pending, session, provider, online>>
      PROVE  HandInv'
  <2>1. /\ UNCHANGED <<base, list>>
        /\ ~ online => UNCHANGED <<room, roomList>>
        /\ session = "none" => UNCHANGED surface
    BY <1>2 DEF Share, Bridge, Adopted
  <2> QED
    BY <1>0, <1>1, <1>2, <2>1
<1>3. ASSUME NEW s \in Shapes, Draw(s) \/ Erase(s) PROVE HandInv'
  BY <1>2, <1>3 DEF Draw, Erase
<1>4. CASE Save \/ Rebind
  BY <1>1, <1>4 DEF Save, Rebind
<1>5. ASSUME NEW p \in Pages, Switch(p) PROVE HandInv'
  BY <1>1, <1>5 DEF Switch
\* The page list changes by one page.
<1>6. ASSUME NEW l, Share(surface, IF Adopted THEN l ELSE list),
             UNCHANGED <<session, provider, online>>,
             pending' = pending \/ (session # "none" /\ ~ online),
             \A p \in pending' \cap (pages' \cup l \cup list) :
                 p \in pending \cap (pages \cup list) \/ p \in FreshPages
      PROVE  HandInv'
  <2>1. /\ UNCHANGED <<base, surface>>
        /\ ~ online => UNCHANGED <<room, roomList>>
        /\ list' \in {l, list}
        /\ session = "none" => UNCHANGED list
    BY <1>6 DEF Share, Adopted
  <2> QED
    BY <1>0, <1>1, <1>6, <2>1
<1>7. ASSUME NEW p \in Pages, AddPage(p) PROVE HandInv'
  <2>1. /\ p \in FreshPages /\ pages' = pages \cup {p}
        /\ pending' = pending \/ (pending' = pending \cup {p} /\ session # "none" /\ ~ online)
        /\ Share(surface, IF Adopted THEN list \cup {p} ELSE list)
        /\ UNCHANGED <<session, provider, online>>
    BY <1>7, MarkedOK DEF AddPage
  <2> QED
    BY <1>6, <2>1
<1>8. ASSUME NEW p \in Pages, NEW q \in Pages, Duplicate(p, q) PROVE HandInv'
  <2>1. /\ q \in FreshPages /\ pages' = pages \cup {q}
        /\ Share(surface, IF Adopted THEN list \cup {q} ELSE list)
        /\ UNCHANGED <<pending, session, provider, online>>
    BY <1>8 DEF Duplicate
  <2> QED
    BY <1>6, <2>1
<1>9. ASSUME NEW p \in Pages, DeletePage(p) PROVE HandInv'
  <2>1. /\ pages' = pages \ {p}
        /\ Share(surface, IF Adopted THEN list \ {p} ELSE list)
        /\ UNCHANGED <<pending, session, provider, online>>
    BY <1>9 DEF DeletePage
  <2> QED
    BY <1>6, <2>1
\* A session begins, or its sides part.
<1>10. ASSUME online' = FALSE, session' # "none", UNCHANGED pending,
              pending # {} => UNCHANGED <<pages, list, room, roomList>>
       PROVE  HandInv'
  BY <1>10 DEF HandInv, AllHanded, NoneShared, PendingNew
<1>11. CASE Promote
  BY <1>10, <1>11 DEF Promote, Start, HandInv, NoneShared
<1>12. CASE Drop
  BY <1>10, <1>12 DEF Drop, SessionOK, Adopted
<1>13. ASSUME NEW w \in BOOLEAN, Reopen(w) PROVE HandInv'
  BY <1>10, <1>13 DEF Reopen, Start
<1>14. CASE SignIn
  BY <1>10, <1>14 DEF SignIn, Start
<1>15. CASE AdoptLocally
  <2>1. /\ session' = "adopted" /\ ~ provider /\ pages' = Listed(list)
        /\ UNCHANGED <<pending, provider, online, list, room, roomList>>
    BY <1>15 DEF AdoptLocally
  <2>2. pages' \subseteq pages \cup list
    BY <2>1 DEF Listed
  <2> QED
    BY <2>1, <2>2 DEF HandInv, AllHanded, NoneShared, PendingNew
<1>16. CASE Sync
  BY <1>16 DEF Sync, HandInv, AllHanded, NoneShared, PendingNew
\* A change by another editor, to a page that is not to be handed over.
<1>17. ASSUME UNCHANGED <<pending, session, provider, online>>, session # "none",
              ~ online => /\ UNCHANGED <<pages, list>>
                          /\ \A p \in pending \cap (pages \cup list) :
                                 p \notin roomList' /\ room'[p] = {}
       PROVE  HandInv'
  BY <1>17 DEF HandInv, AllHanded, NoneShared, PendingNew
<1>18. ASSUME NEW p \in Pages, NEW s \in Shapes, PeerDraw(p, s) \/ PeerErase(p, s)
       PROVE  HandInv'
  <2>1. /\ p \in roomList /\ UNCHANGED <<pages, pending, session, provider, online, list, roomList>>
        /\ room' = [room EXCEPT ![p] = room[p] \cup {s}] \/ room' = [room EXCEPT ![p] = room[p] \ {s}]
    BY <1>18 DEF PeerDraw, PeerErase, Follow
  <2>2. \A q \in Pages \ {p} : room'[q] = room[q]
    BY <2>1 DEF DocOK
  <2>3. pending \subseteq Pages
    BY DEF EditorOK
  <2> QED
    BY <1>17, <2>1, <2>2, <2>3 DEF HandInv, NoneShared, PendingNew
<1>19. ASSUME NEW p \in Pages, PeerAddPage(p) \/ PeerDeletePage(p) PROVE HandInv'
  <2>1. PICK l : /\ FollowList(l) /\ roomList # {}
                 /\ l \subseteq roomList \/ (l = roomList \cup {p} /\ p \in FreshPages)
    BY <1>19 DEF PeerAddPage, PeerDeletePage
  <2>2. /\ UNCHANGED <<room, session, online, provider, pending>>
        /\ ~ online => UNCHANGED <<pages, list>>
        /\ roomList' = l
    BY <2>1 DEF FollowList
  <2>3. session # "none"
    BY <2>1 DEF HandInv, NoneShared
  <2>4. p \in FreshPages => p \notin pages \cup list
    BY DEF FreshPages
  <2> QED
    BY <1>17, <2>1, <2>2, <2>3, <2>4 DEF HandInv, PendingNew
<1>20. CASE UNCHANGED vars
  BY <1>1, <1>20 DEF vars
<1> QED
  BY <1>3, <1>4, <1>5, <1>7, <1>8, <1>9, <1>11, <1>12, <1>13, <1>14, <1>15, <1>16,
     <1>18, <1>19, <1>20 DEF Next

-----------------------------------------------------------------------------
(* Steps: what was erased stays erased *)

\* No coincidence in which an erasure meets content it does not reach.
Erasable == Orderly /\ "editUnadopted" \notin Coincide

\* A shape that was drawn is not drawn again; neither the room nor, without a
\* session, the editor has an erased shape; and replicas apart from each other
\* know of everything both hold, so that their merge brings nothing back.
DrawnOnce   == erased \cap Fresh = {}
OnlineClean == online => \A p \in Pages : room[p] \cap erased = {}
NoneClean   == session = "none" => \A p \in Pages : Committed[p] \cap erased = {}
MergeClean  == ~ online => \A p \in Pages :
    /\ surface[p] \cap room[p] \subseteq base[p]
    /\ Merge(surface[p], room[p], base[p]) \cap erased = {}
EraseInv    == DrawnOnce /\ OnlineClean /\ NoneClean /\ MergeClean

\* A shape on one side only, new to the other, or gone from one, in the merge.
LEMMA MergeElement ==
    ASSUME NEW x, NEW y, NEW b, NEW s
    PROVE  s \in Merge(x, y, b) <=>
             (s \in x /\ s \in y) \/ (s \in x /\ s \notin b) \/ (s \in y /\ s \notin b)
  BY DEF Merge

LEMMA PageStep ==
    ASSUME HasAPage, [Next]_vars
    PROVE  HasAPage'
<1> USE DEF editor, link, doc, remote, history
<1>1. ASSUME UNCHANGED <<pages, active>> PROVE HasAPage'
  BY <1>1 DEF HasAPage
<1>2. ASSUME NEW l, pages' = Listed(l), active' \in Repoint(pages') PROVE HasAPage'
  BY <1>2, ListedKeeps DEF HasAPage
<1>3. ASSUME NEW p \in Pages, Switch(p) \/ AddPage(p) PROVE HasAPage'
  BY <1>3 DEF Switch, AddPage, setActivePage, HasAPage
<1>4. ASSUME NEW p \in Pages, DeletePage(p) PROVE HasAPage'
  BY <1>4 DEF DeletePage, HasAPage
<1>5. ASSUME NEW p \in Pages, NEW q \in Pages, Duplicate(p, q) PROVE HasAPage'
  BY <1>5 DEF Duplicate, HasAPage
<1>6. CASE AdoptLocally
  BY <1>2, <1>6 DEF AdoptLocally
<1>7. CASE Sync
  BY <1>2, <1>7 DEF Sync
<1>8. ASSUME NEW l, FollowList(l) PROVE HasAPage'
  BY <1>1, <1>2, <1>8 DEF FollowList
<1>9. ASSUME NEW p \in Pages, PeerAddPage(p) \/ PeerDeletePage(p) PROVE HasAPage'
  BY <1>8, <1>9 DEF PeerAddPage, PeerDeletePage
<1>10. CASE Save \/ Promote \/ Drop \/ SignIn \/ Rebind \/ UNCHANGED vars
  BY <1>1, <1>10 DEF Save, Promote, Drop, SignIn, Rebind, vars
<1>11. ASSUME NEW w \in BOOLEAN, Reopen(w) PROVE HasAPage'
  BY <1>1, <1>11 DEF Reopen
<1>12. ASSUME NEW s \in Shapes, Draw(s) \/ Erase(s) PROVE HasAPage'
  BY <1>1, <1>12 DEF Draw, Erase
<1>13. ASSUME NEW p \in Pages, NEW s \in Shapes, PeerDraw(p, s) \/ PeerErase(p, s)
       PROVE  HasAPage'
  BY <1>1, <1>13 DEF PeerDraw, PeerErase, Follow
<1> QED
  BY <1>3, <1>4, <1>5, <1>6, <1>7, <1>9, <1>10, <1>11, <1>12, <1>13 DEF Next

\* The committed content of the pages: what it is after a move to q.
LEMMA MovedCommits ==
    ASSUME EditorOK, session = "none", NEW q \in Pages, setActivePage(q), NEW p \in Pages
    PROVE  Committed'[p] = Committed[p]
<1>1. kept' = Committed /\ active' = q /\ view' = Committed[q]
  BY DEF setActivePage, Shown
<1>2. kept' \in [Pages -> SUBSET Shapes]
  BY <1>1, CommittedOK
<1>3. Committed'[p] = IF p = active' THEN view' ELSE kept'[p]
  BY <1>2 DEF Committed
<1> QED
  BY <1>1, <1>3

LEMMA EraseStep ==
    ASSUME Erasable, EditorOK, LinkOK, DocOK, HistoryOK, SessionOK, Apart, Follows,
           HasAPage, HandInv, EraseInv, [Next]_vars
    PROVE  EraseInv'
<1> USE DEF editor, link, doc, remote, history
<1>0. /\ Settled <=> ~ rebind
      /\ EditorOK' /\ Orderly
  BY TypeStep DEF Settled, Erasable, Orderly
<1>c. \A p \in Pages : Committed'[p] = IF p = active' THEN view' ELSE kept'[p]
  BY <1>0 DEF Committed, EditorOK
<1>a. ASSUME UNCHANGED home PROVE Fresh' = Fresh
  BY <1>a DEF Fresh
\* A step that leaves the replicas alone.
<1>1. ASSUME UNCHANGED <<surface, room, base, online, home, erased>>,
             session' = "none" => \A p \in Pages : Committed'[p] \cap erased = {}
      PROVE  EraseInv'
  BY <1>1, <1>a DEF EraseInv, DrawnOnce, OnlineClean, NoneClean, MergeClean
<1>2. ASSUME NEW s \in Shapes, Draw(s) PROVE EraseInv'
  <2>1. /\ ~ rebind /\ s \in Fresh /\ view' = view \cup {s}
        /\ home' = [home EXCEPT ![s] = active]
        /\ Share(Bridge(surface[bound] \cup {s}), list)
        /\ UNCHANGED <<pages, kept, active, pending, session, provider, online, bound, erased>>
    BY <1>0, <1>2 DEF Draw
  <2>2. /\ surface' = Bridge(surface[bound] \cup {s}) /\ list' = list
        /\ IF online THEN room' = surface' ELSE UNCHANGED <<room, roomList>>
        /\ UNCHANGED base
    BY <2>1 DEF Share
  <2>3. s \notin erased /\ active \in Pages
    BY <2>1 DEF EraseInv, DrawnOnce, EditorOK
  <2>4. \A q \in Pages : surface'[q] = IF Adopted /\ q = bound
                                         THEN surface[q] \cup {s} ELSE surface[q]
    <3>1. CASE Adopted
      <4>1. surface[bound] \cup {s} \in SUBSET Shapes
        BY <2>1, <3>1 DEF DocOK, SessionOK
      <4> QED
        BY <2>2, <3>1, <4>1, BridgeOK
    <3>2. CASE ~ Adopted
      BY <2>2, <3>2 DEF Bridge
    <3> QED
      BY <3>1, <3>2
  <2>5. DrawnOnce'
    BY <2>1, <2>3, NoPageAssumption DEF EraseInv, DrawnOnce, Fresh, HistoryOK
  <2>6. OnlineClean'
    BY <2>1, <2>2, <2>3, <2>4 DEF EraseInv, OnlineClean, Follows, OnlineAgrees
  <2>7. NoneClean'
    BY <1>c, <2>1, <2>3, CommittedOK DEF EraseInv, NoneClean
  <2>8. MergeClean'
    <3> SUFFICES ASSUME ~ online, NEW p \in Pages
                 PROVE  /\ surface'[p] \cap room[p] \subseteq base[p]
                        /\ Merge(surface'[p], room[p], base[p]) \cap erased = {}
      BY <2>1, <2>2 DEF MergeClean
    <3>1. /\ surface[p] \cap room[p] \subseteq base[p]
          /\ Merge(surface[p], room[p], base[p]) \cap erased = {}
      BY DEF EraseInv, MergeClean
    <3>2. s \notin room[p] /\ surface'[p] \subseteq surface[p] \cup {s}
      BY <2>1, <2>4, FreshNowhere
    <3> QED
      BY <2>3, <3>1, <3>2 DEF Merge
  <2> QED
    BY <2>5, <2>6, <2>7, <2>8 DEF EraseInv
<1>3. ASSUME NEW s \in Shapes, Erase(s) PROVE EraseInv'
  <2>1. /\ ~ rebind /\ s \in view /\ view' = view \ {s} /\ erased' = erased \cup {s}
        /\ session = "starting" => active \in pending /\ s \notin surface[active]
        /\ Share(Bridge(surface[bound] \ {s}), list)
        /\ UNCHANGED <<pages, kept, active, pending, session, provider, online, bound, home>>
    BY <1>0, <1>3 DEF Erase, MayEdit, Erasable
  <2>2. /\ surface' = Bridge(surface[bound] \ {s}) /\ list' = list
        /\ IF online THEN room' = surface' ELSE UNCHANGED <<room, roomList>>
        /\ UNCHANGED base
    BY <2>1 DEF Share
  <2>3. /\ active \in Pages /\ s \in Home(active)
        /\ \A q \in Pages \ {active} : s \notin kept[q] /\ s \notin surface[q] /\ s \notin room[q]
    <3>1. active \in Pages /\ s \in Home(active)
      BY <2>1 DEF Apart, ViewApart, EditorOK
    <3> QED
      BY <3>1 DEF Apart, ContentApart, Home
  <2>4. /\ Adopted => bound = active
        /\ \A q \in Pages : surface'[q] = IF Adopted /\ q = active
                                            THEN surface[q] \ {s} ELSE surface[q]
    <3>1. CASE Adopted
      <4>1. bound = active /\ surface[bound] \ {s} \in SUBSET Shapes
        BY <2>1, <2>3, <3>1 DEF DocOK, Apart, BoundToActive
      <4> QED
        BY <2>2, <3>1, <4>1, BridgeOK
    <3>2. CASE ~ Adopted
      BY <2>2, <3>2 DEF Bridge
    <3> QED
      BY <3>1, <3>2
  <2>5. DrawnOnce'
    BY <1>a, <2>1, <2>3, NoPageAssumption DEF EraseInv, DrawnOnce, Fresh, Home
  <2>6. OnlineClean'
    BY <2>1, <2>2, <2>3, <2>4 DEF EraseInv, OnlineClean, Follows, OnlineAgrees, SessionOK
  <2>7. NoneClean'
    <3> SUFFICES ASSUME session = "none", NEW p \in Pages PROVE Committed'[p] \cap erased' = {}
      BY <2>1 DEF NoneClean
    <3>1. Committed[p] \cap erased = {}
      BY DEF EraseInv, NoneClean
    <3> QED
      BY <1>c, <2>1, <2>3, <3>1, CommittedOK
  <2>8. MergeClean'
    <3> SUFFICES ASSUME ~ online, NEW p \in Pages
                 PROVE  /\ surface'[p] \cap room[p] \subseteq base[p]
                        /\ Merge(surface'[p], room[p], base[p]) \cap (erased \cup {s}) = {}
      BY <2>1, <2>2 DEF MergeClean
    <3>1. /\ surface[p] \cap room[p] \subseteq base[p]
          /\ Merge(surface[p], room[p], base[p]) \cap erased = {}
      BY DEF EraseInv, MergeClean
    <3>2. surface'[p] \subseteq surface[p]
      BY <2>4
    <3>3. surface'[p] \cap room[p] \subseteq base[p]
      BY <3>1, <3>2
    <3>4. \A t \in surface[p] \ surface'[p] : t = s
      BY <2>4
    <3>5. s \notin surface'[p] /\ (s \in room[p] => s \in base[p])
      <4>1. CASE p # active
        BY <2>3, <3>2, <4>1
      <4>2. CASE p = active /\ Adopted
        <5>1. s \in surface[p]
          BY <2>1, <4>2 DEF Follows, ViewIsSurface
        <5> QED
          BY <2>4, <3>1, <4>2, <5>1
      <4>3. CASE p = active /\ session = "starting"
        <5>1. active \in pages
          BY DEF HasAPage
        <5>2. room[p] = {}
          BY <2>1, <4>3, <5>1 DEF HandInv, PendingNew, SessionOK, Adopted
        <5> QED
          BY <2>1, <2>4, <4>3, <5>2 DEF Adopted
      <4>4. CASE session = "none"
        BY <2>4, <4>4 DEF HandInv, NoneShared, Empty, Adopted
      <4> QED
        BY <4>1, <4>2, <4>3, <4>4 DEF LinkOK, Adopted
    <3>6. Merge(surface'[p], room[p], base[p]) \subseteq Merge(surface[p], room[p], base[p])
      BY <3>2, <3>4, <3>5 DEF Merge
    <3>7. s \notin Merge(surface'[p], room[p], base[p])
      BY <3>5 DEF Merge
    <3> QED
      BY <3>1, <3>3, <3>6, <3>7
  <2> QED
    BY <2>5, <2>6, <2>7, <2>8 DEF EraseInv
<1>4. CASE Save
  <2>1. /\ kept' = Committed
        /\ UNCHANGED <<pages, active, view, pending, session, provider, online, surface, list,
                       room, roomList, base, home, erased>>
    BY <1>4 DEF Save
  <2>2. session = "none" => \A p \in Pages : Committed'[p] \cap erased = {}
    BY <1>c, <2>1, CommittedOK DEF EraseInv, NoneClean
  <2> QED
    BY <1>1, <2>1, <2>2
<1>5. ASSUME NEW p \in Pages, Switch(p) PROVE EraseInv'
  <2>1. session = "none" => \A q \in Pages : Committed'[q] \cap erased = {}
    BY <1>5, MovedCommits DEF Switch, EraseInv, NoneClean
  <2> QED
    BY <1>1, <1>5, <2>1 DEF Switch
\* A page is made or deleted: the replicas are left alone.
<1>6. ASSUME NEW l, Share(surface, l), UNCHANGED <<session, online, erased>>,
             Fresh' \subseteq Fresh,
             session = "none" => \A p \in Pages : Committed'[p] \cap erased = {}
      PROVE  EraseInv'
  <2>1. UNCHANGED <<surface, room, base>>
    BY <1>6 DEF Share, Follows, OnlineAgrees
  <2> QED
    BY <1>6, <2>1 DEF EraseInv, DrawnOnce, OnlineClean, NoneClean, MergeClean
<1>7. ASSUME NEW p \in Pages, AddPage(p) PROVE EraseInv'
  <2>1. session = "none" => \A q \in Pages : Committed'[q] \cap erased = {}
    BY <1>7, MovedCommits DEF AddPage, EraseInv, NoneClean
  <2>2. /\ Share(surface, IF Adopted THEN list \cup {p} ELSE list)
        /\ UNCHANGED <<session, online, erased, home>>
    BY <1>7 DEF AddPage
  <2> QED
    BY <1>6, <1>a, <2>1, <2>2
<1>8. ASSUME NEW p \in Pages, NEW q \in Pages, Duplicate(p, q) PROVE EraseInv'
  <2>1. PICK copies \in SUBSET Fresh :
            /\ kept' = [kept EXCEPT ![q] = copies]
            /\ home' = [s \in Shapes |-> IF s \in copies THEN q ELSE home[s]]
    BY <1>8 DEF Duplicate
  <2>2. /\ Share(surface, IF Adopted THEN list \cup {q} ELSE list)
        /\ UNCHANGED <<active, view, session, online, erased>>
    BY <1>8 DEF Duplicate
  <2>3. Fresh' \subseteq Fresh
    BY <2>1, NoPageAssumption DEF Fresh
  <2>4. \A r \in Pages : kept'[r] = IF r = q THEN copies ELSE kept[r]
    BY <2>1 DEF EditorOK
  <2>5. copies \cap erased = {}
    BY <2>1 DEF EraseInv, DrawnOnce
  <2>6. session = "none" => \A r \in Pages : Committed'[r] \cap erased = {}
    BY <1>c, <2>2, <2>4, <2>5, CommittedOK DEF EraseInv, NoneClean
  <2> QED
    BY <1>6, <2>2, <2>3, <2>6
<1>9. ASSUME NEW p \in Pages, DeletePage(p) PROVE EraseInv'
  <2>1. /\ pages' = pages \ {p} /\ kept' = KeptOn(pages')
        /\ IF p = active THEN active' \in pages' /\ view' = kept[active']
                         ELSE UNCHANGED <<active, view>>
        /\ Share(surface, IF Adopted THEN list \ {p} ELSE list)
        /\ UNCHANGED <<session, online, home, erased>>
    BY <1>9 DEF DeletePage
  <2>2. ASSUME session = "none", NEW q \in Pages PROVE Committed'[q] \cap erased = {}
    <3>1. kept'[q] = IF q \in pages' THEN kept[q] ELSE {}
      BY <2>1 DEF KeptOn
    <3>2. Committed[q] \cap erased = {} /\ Committed[q] = IF q = active THEN view ELSE kept[q]
      BY <2>2, CommittedOK DEF EraseInv, NoneClean
    <3> QED
      BY <1>c, <2>1, <3>1, <3>2
  <2> QED
    BY <1>6, <1>a, <2>1, <2>2
<1>10. CASE Promote
  <2>1. /\ session = "none" /\ room' = Committed
        /\ session' = "starting" /\ online' = FALSE
        /\ UNCHANGED <<surface, base, home, erased>>
    BY <1>10 DEF Promote, Start
  <2>2. /\ surface = Empty /\ base = Empty
        /\ \A p \in Pages : Committed[p] \cap erased = {}
    BY <2>1 DEF HandInv, NoneShared, EraseInv, NoneClean
  <2>3. MergeClean'
    BY <2>1, <2>2 DEF MergeClean, Merge, Empty
  <2>4. DrawnOnce'
    BY <1>a, <2>1 DEF EraseInv, DrawnOnce
  <2> QED
    BY <2>1, <2>3, <2>4 DEF EraseInv, OnlineClean, NoneClean
\* The sides part: what they held in common is remembered.
<1>11. ASSUME Part, online' = FALSE, session # "none", session' # "none",
              UNCHANGED <<surface, room, home, erased>>
       PROVE  EraseInv'
  <2>1. DrawnOnce'
    BY <1>a, <1>11 DEF EraseInv, DrawnOnce
  <2>2. CASE online
    <3>1. surface = room /\ base' = room
      BY <1>11, <2>2 DEF Part, Follows, OnlineAgrees
    <3>2. \A p \in Pages : room[p] \cap erased = {}
      BY <2>2 DEF EraseInv, OnlineClean
    <3>3. MergeClean'
      BY <1>11, <3>1, <3>2 DEF MergeClean, Merge
    <3> QED
      BY <1>11, <2>1, <3>3 DEF EraseInv, OnlineClean, NoneClean
  <2>3. CASE ~ online
    BY <1>11, <2>1, <2>3 DEF Part, EraseInv, OnlineClean, NoneClean, MergeClean
  <2> QED
    BY <2>2, <2>3
<1>12. CASE Drop
  BY <1>11, <1>12 DEF Drop, SessionOK, Adopted
<1>13. ASSUME NEW w \in BOOLEAN, Reopen(w) PROVE EraseInv'
  BY <1>11, <1>13 DEF Reopen, Start
<1>14. CASE SignIn
  <2>1. ~ provider /\ ~ online
    BY <1>14 DEF SignIn, HandInv, AllHanded
  <2> QED
    BY <1>11, <1>14, <2>1 DEF SignIn, Start, Part
<1>15. CASE AdoptLocally
  <2>1. /\ session' = "adopted" /\ UNCHANGED <<online, surface, room, base, home, erased>>
    BY <1>15 DEF AdoptLocally
  <2> QED
    BY <1>1, <2>1
<1>16. CASE Sync
  <2> DEFINE merged == [p \in Pages |-> Merge(surface[p], room[p], base[p])]
             given == pending \cap pages'
  <2>1. /\ provider /\ ~ online
        /\ session' = "adopted" /\ online' = TRUE /\ provider' = provider
        /\ surface' = Handed(given, merged) /\ room' = surface' /\ pending' = {}
        /\ erased' = erased \ UNION {kept[p] : p \in given}
        /\ UNCHANGED home
    BY <1>16 DEF Sync
  <2>3. \A p \in Pages : merged[p] \cap erased = {}
    BY <2>1 DEF EraseInv, MergeClean
  <2> HIDE DEF merged, given
  <2>4. \A p \in Pages : room'[p] \cap erased' = {}
    <3>1. \A p \in Pages : room'[p] = IF p \in given THEN merged[p] \cup kept[p] ELSE merged[p]
      BY <2>1 DEF Handed
    <3>2. \A p \in given : kept[p] \cap erased' = {}
      BY <2>1
    <3> QED
      BY <2>1, <2>3, <3>1, <3>2
  <2>5. DrawnOnce'
    BY <1>a, <2>1 DEF EraseInv, DrawnOnce
  <2> QED
    BY <2>1, <2>4, <2>5 DEF EraseInv, OnlineClean, NoneClean, MergeClean
<1>17. CASE Rebind
  BY <1>1, <1>17 DEF Rebind, SessionOK, Adopted
\* A change by another editor: a new shape, or the erasure of one.
<1>18. ASSUME NEW p \in Pages, NEW s \in Shapes, PeerDraw(p, s) PROVE EraseInv'
  <2>1. /\ p \in roomList /\ s \in Fresh /\ home' = [home EXCEPT ![s] = p]
        /\ room' = [room EXCEPT ![p] = room[p] \cup {s}]
        /\ IF online THEN surface' = room' ELSE UNCHANGED surface
        /\ UNCHANGED <<session, online, base, erased>>
    BY <1>18 DEF PeerDraw, Follow
  <2>2. s \notin erased /\ \A q \in Pages : s \notin surface[q]
    BY <2>1, FreshNowhere DEF EraseInv, DrawnOnce
  <2>3. \A q \in Pages : room'[q] = IF q = p THEN room[q] \cup {s} ELSE room[q]
    BY <2>1 DEF DocOK
  <2>4. session # "none"
    BY <2>1 DEF HandInv, NoneShared
  <2>5. DrawnOnce'
    BY <2>1, NoPageAssumption DEF EraseInv, DrawnOnce, Fresh, HistoryOK
  <2>6. OnlineClean'
    BY <2>1, <2>2, <2>3 DEF EraseInv, OnlineClean
  <2>7. MergeClean'
    <3> SUFFICES ASSUME ~ online, NEW q \in Pages
                 PROVE  /\ surface[q] \cap room'[q] \subseteq base[q]
                        /\ Merge(surface[q], room'[q], base[q]) \cap erased = {}
      BY <2>1 DEF MergeClean
    <3>1. /\ surface[q] \cap room[q] \subseteq base[q]
          /\ Merge(surface[q], room[q], base[q]) \cap erased = {}
      BY DEF EraseInv, MergeClean
    <3>2. room'[q] \subseteq room[q] \cup {s}
      BY <2>3
    <3> QED
      BY <2>2, <3>1, <3>2 DEF Merge
  <2> QED
    BY <2>1, <2>4, <2>5, <2>6, <2>7 DEF EraseInv, NoneClean
<1>19. ASSUME NEW p \in Pages, NEW s \in Shapes, PeerErase(p, s) PROVE EraseInv'
  <2>1. /\ p \in roomList /\ s \in room[p] /\ erased' = erased \cup {s}
        /\ room' = [room EXCEPT ![p] = room[p] \ {s}]
        /\ IF online THEN surface' = room' ELSE UNCHANGED surface
        /\ UNCHANGED <<session, online, base, home>>
    BY <1>19 DEF PeerErase, Follow
  <2>2. s \in Home(p) /\ \A q \in Pages \ {p} : s \notin surface[q] /\ s \notin room[q]
    BY <2>1 DEF Apart, ContentApart, Home
  <2>3. \A q \in Pages : room'[q] = IF q = p THEN room[q] \ {s} ELSE room[q]
    BY <2>1 DEF DocOK
  <2>4. session # "none"
    BY <2>1 DEF HandInv, NoneShared
  <2>5. DrawnOnce'
    BY <1>a, <2>1, <2>2, NoPageAssumption DEF EraseInv, DrawnOnce, Fresh, Home
  <2>6. OnlineClean'
    BY <2>1, <2>2, <2>3 DEF EraseInv, OnlineClean
  <2>7. MergeClean'
    <3> SUFFICES ASSUME ~ online, NEW q \in Pages
                 PROVE  /\ surface[q] \cap room'[q] \subseteq base[q]
                        /\ Merge(surface[q], room'[q], base[q]) \cap (erased \cup {s}) = {}
      BY <2>1 DEF MergeClean
    <3>1. /\ surface[q] \cap room[q] \subseteq base[q]
          /\ Merge(surface[q], room[q], base[q]) \cap erased = {}
      BY DEF EraseInv, MergeClean
    <3>2. room'[q] \subseteq room[q] /\ s \notin room'[q] /\ \A t \in room[q] \ room'[q] : t = s
      BY <2>2, <2>3
    <3>3. s \in surface[q] => s \in base[q]
      BY <2>1, <2>2, <3>1
    <3>4. s \notin Merge(surface[q], room'[q], base[q])
      BY <3>2, <3>3 DEF Merge
    <3>5. Merge(surface[q], room'[q], base[q]) \subseteq Merge(surface[q], room[q], base[q]) \cup {s}
      BY <3>2, <3>3 DEF Merge
    <3> QED
      BY <3>1, <3>2, <3>4, <3>5
  <2> QED
    BY <2>1, <2>4, <2>5, <2>6, <2>7 DEF EraseInv, NoneClean
<1>20. ASSUME NEW p \in Pages, PeerAddPage(p) \/ PeerDeletePage(p) PROVE EraseInv'
  <2>1. roomList # {} /\ UNCHANGED <<surface, room, base, session, online, home, erased>>
    BY <1>20 DEF PeerAddPage, PeerDeletePage, FollowList
  <2>2. session # "none"
    BY <2>1 DEF HandInv, NoneShared
  <2> QED
    BY <1>1, <2>1, <2>2
<1>21. CASE UNCHANGED vars
  <2>1. UNCHANGED <<surface, room, base, session, online, home, erased, kept, active, view>>
    BY <1>21 DEF vars
  <2>2. session = "none" => \A p \in Pages : Committed'[p] \cap erased = {}
    BY <2>1 DEF EraseInv, NoneClean, Committed
  <2> QED
    BY <1>1, <2>1, <2>2
<1> QED
  BY <1>2, <1>3, <1>4, <1>5, <1>7, <1>8, <1>9, <1>10, <1>12, <1>13, <1>14, <1>15,
     <1>16, <1>17, <1>18, <1>19, <1>20, <1>21 DEF Next

LEMMA InitErase == Init => HasAPage /\ HandInv /\ EraseInv
<1> SUFFICES ASSUME Init PROVE HasAPage /\ HandInv /\ EraseInv
  OBVIOUS
<1>1. /\ erased = {} /\ online = FALSE /\ pending = {} /\ list = {} /\ roomList = {}
      /\ surface = Empty /\ room = Empty /\ base = Empty
  BY DEF Init
<1>2. HasAPage
  BY DEF Init, HasAPage
<1>3. MergeClean
  BY <1>1 DEF MergeClean, Merge, Empty
<1> QED
  BY <1>1, <1>2, <1>3 DEF EraseInv, DrawnOnce, OnlineClean, NoneClean,
                           HandInv, AllHanded, NoneShared, PendingNew

\* A shape that was erased comes back to the room through no merge, adopt or
\* reopening, for any losses and however often, although the page store and a
\* replica that was away still hold it, unless something runs between a move and
\* its rebind or the editor edits or moves before the Y.Doc is adopted (each of
\* the three alone brings shapes back); what a handoff seeds from the last save
\* of a page made offline counts as drawn again.
THEOREM ErasedStays == Erasable /\ Spec => []ErasedStaysErased
<1> DEFINE EInv == IInv /\ HasAPage /\ HandInv /\ EraseInv
<1>1. Init => EInv
  BY Inductive, InitErase
<1>2. Erasable /\ EInv /\ [Next]_vars => EInv'
  <2> SUFFICES ASSUME Erasable, EInv, [Next]_vars PROVE EInv'
    OBVIOUS
  <2>1. EditorOK /\ LinkOK /\ DocOK /\ HistoryOK /\ SessionOK /\ Apart /\ Follows
    BY Parts DEF IInv
  <2>2. IInv'
    BY Inductive DEF Erasable
  <2>3. HasAPage' /\ HandInv' /\ EraseInv'
    BY <2>1, PageStep, HandStep, EraseStep
  <2> QED
    BY <2>2, <2>3
<1>3. EInv => ErasedStaysErased
  BY DEF EraseInv, OnlineClean, ErasedStaysErased
<1>4. Erasable => Erasable'
  BY DEF Erasable, Orderly
<1> HIDE DEF EInv
<1> QED
  BY <1>1, <1>2, <1>3, <1>4, PTL DEF Spec

-----------------------------------------------------------------------------
(* Steps: what was drawn is kept *)

\* What may coincide without losing a drawing: the two sides delete the last
\* pages between them, or a page is not marked for the handoff.
AtMostPages == Coincide \subseteq {"emptied", "unmarked"}

LEMMA AtMostExcludes ==
    ASSUME AtMostPages
    PROVE  /\ Orderly
           /\ \A c \in {"editUnadopted", "moveUnadopted", "duplicateShared",
                        "uncommitted", "adoptPending"} : c \notin Coincide
  BY DEF AtMostPages, Orderly

\* Before the adopt, a drawing is committed or on screen, on a page of the
\* editor that will be handed over or that the room was seeded with.
Waiting(s) ==
    /\ home[s] \in pages /\ s \in Committed[home[s]]
    /\ home[s] \in pending \/ (s \in room[home[s]] /\ ~ HasAnyShapes)

\* Where a drawing is: committed or on screen without a session, in the Y.Doc
\* or waiting for it in one.
Carried(s) ==
    \/ session = "none" /\ s \in Committed[home[s]]
    \/ session # "none" /\ s \in surface[home[s]]
    \/ session = "starting" /\ Waiting(s)

\* Replicas apart from each other lack nothing they agreed on but what was
\* erased; every drawing of a page that anyone has is carried; and where the
\* editor adopts without a handoff, nothing is uncommitted.
MineDrawn   == mine \cap Fresh = {}
BaseHeld    == ~ online => \A p \in Pages :
    base[p] \subseteq surface[p] \cup erased /\ base[p] \subseteq room[p] \cup erased
AllCarried  == \A s \in mine \ erased :
    home[s] \in pages \cup list \cup roomList => Carried(s)
LocalAdopts == session = "starting" /\ HasAnyShapes /\ ~ provider /\ active \in pending =>
    view = kept[active]
DrawnInv    == MineDrawn /\ BaseHeld /\ AllCarried /\ LocalAdopts

\* A duplicate of an empty page has no shapes.
LEMMA NoCopies ==
    ASSUME NEW p, kept[p] = {}, NEW copies \in SUBSET Fresh,
           Cardinality(copies) = Cardinality(kept[p])
    PROVE  copies = {}
<1>1. copies \in SUBSET Shapes
  BY DEF Fresh
<1>2. IsFiniteSet(copies)
  BY <1>1, FS_Subset, ShapesAssumption
<1> QED
  BY <1>2, FS_EmptySet

LEMMA DrawnStep ==
    ASSUME AtMostPages, EditorOK, LinkOK, DocOK, HistoryOK, SessionOK, Apart, Follows,
           HasAPage, HandInv, DrawnInv, [Next]_vars
    PROVE  DrawnInv'
<1> USE DEF editor, link, doc, remote, history
<1>0. /\ Settled <=> ~ rebind
      /\ EditorOK' /\ Orderly /\ HasAPage'
      /\ session \in {"none", "starting", "adopted"}
      /\ active \in Pages
      /\ online => session = "adopted"
      /\ surface \in [Pages -> SUBSET Shapes] /\ room \in [Pages -> SUBSET Shapes]
      /\ mine \subseteq Shapes
  BY TypeStep, PageStep, AtMostExcludes
     DEF Settled, Orderly, LinkOK, EditorOK, SessionOK, Adopted, DocOK, HistoryOK
<1>c. \A p \in Pages : Committed'[p] = IF p = active' THEN view' ELSE kept'[p]
  BY <1>0 DEF Committed, EditorOK
<1>d. \A p \in Pages : Committed[p] = IF p = active THEN view ELSE kept[p]
  BY CommittedOK
<1>h. \A s \in mine : s \in Shapes /\ home[s] \in Pages
  BY <1>0, NoPageAssumption DEF DrawnInv, MineDrawn, Fresh, HistoryOK
<1>a. ASSUME UNCHANGED <<home, mine>> PROVE MineDrawn'
  BY <1>a DEF DrawnInv, MineDrawn, Fresh
\* The editor moves or commits: what is committed with the view stays the same.
<1>1. ASSUME UNCHANGED <<session, provider, online, surface, room, base, home, erased, mine>>,
             pages \subseteq pages', pending \subseteq pending',
             \A s \in mine : home[s] \in pages' \cup list' \cup roomList' =>
                             home[s] \in pages \cup list \cup roomList,
             session # "adopted" => \A p \in Pages : Committed'[p] = Committed[p],
             LocalAdopts'
      PROVE  DrawnInv'
  <2>1. MineDrawn' /\ BaseHeld'
    BY <1>1, <1>a DEF DrawnInv, BaseHeld
  <2>2. AllCarried'
    <3> SUFFICES ASSUME NEW s \in mine \ erased,
                        home[s] \in pages' \cup list' \cup roomList'
                 PROVE  Carried(s)'
      BY <1>1 DEF AllCarried
    <3>1. Carried(s) /\ home[s] \in Pages
      BY <1>1, <1>h DEF DrawnInv, AllCarried
    <3>2. ASSUME session = "starting", Waiting(s) PROVE Waiting(s)'
      BY <1>1, <3>1, <3>2 DEF Waiting, HasAnyShapes
    <3> QED
      BY <1>1, <3>1, <3>2 DEF Carried
  <2> QED
    BY <1>1, <2>1, <2>2 DEF DrawnInv
<1>2. ASSUME NEW s \in Shapes, Draw(s) PROVE DrawnInv'
  <2>1. /\ ~ rebind /\ s \in Fresh /\ view' = view \cup {s}
        /\ session = "starting" => active \in pending /\ (provider \/ ~ HasAnyShapes)
        /\ home' = [home EXCEPT ![s] = active] /\ mine' = mine \cup {s}
        /\ Share(Bridge(surface[bound] \cup {s}), list)
        /\ UNCHANGED <<pages, kept, active, pending, session, provider, online, bound, erased>>
    BY <1>0, <1>2, AtMostExcludes DEF Draw, MayEdit
  <2>2. /\ surface' = Bridge(surface[bound] \cup {s}) /\ list' = list
        /\ IF online THEN room' = surface' /\ roomList' = list ELSE UNCHANGED <<room, roomList>>
        /\ UNCHANGED base
    BY <2>1 DEF Share
  <2>3. /\ \A q \in Pages : surface'[q] = IF session = "adopted" /\ q = active
                                            THEN surface[q] \cup {s} ELSE surface[q]
        /\ session # "adopted" => surface' = surface
    <3>1. CASE Adopted
      <4>1. bound = active /\ surface[bound] \cup {s} \in SUBSET Shapes
        BY <1>0, <2>1, <3>1 DEF Apart, BoundToActive
      <4> QED
        BY <2>2, <3>1, <4>1, BridgeOK DEF Adopted
    <3>2. CASE ~ Adopted
      BY <2>2, <3>2 DEF Bridge, Adopted
    <3> QED
      BY <3>1, <3>2
  <2>4. home'[s] = active /\ \A t \in mine : home'[t] = home[t] /\ t # s
    BY <1>h, <2>1, NoPageAssumption DEF HistoryOK, DrawnInv, MineDrawn
  <2>5. MineDrawn'
    BY <1>0, <1>h, <2>1, <2>4, NoPageAssumption DEF MineDrawn, Fresh
  <2>6. BaseHeld'
    BY <2>1, <2>2, <2>3 DEF DrawnInv, BaseHeld
  <2>7. LocalAdopts'
    BY <2>1, <2>3 DEF LocalAdopts, HasAnyShapes
  <2>8. Carried(s)'
    <3>1. s \in Committed'[active] /\ active \in pages
      BY <1>0, <1>c, <2>1 DEF HasAPage
    <3>2. CASE session = "none"
      BY <2>1, <2>4, <3>1, <3>2 DEF Carried
    <3>3. CASE session = "starting"
      BY <2>1, <2>4, <3>1, <3>3 DEF Carried, Waiting
    <3>4. CASE session = "adopted"
      BY <1>0, <2>1, <2>3, <2>4, <3>4 DEF Carried
    <3> QED
      BY <1>0, <3>2, <3>3, <3>4
  <2>9. ASSUME NEW t \in mine \ erased, home[t] \in pages \cup list \cup roomList
        PROVE  Carried(t)'
    <3>1. Carried(t) /\ home[t] \in Pages /\ home'[t] = home[t]
      BY <1>h, <2>4, <2>9 DEF DrawnInv, AllCarried
    <3>2. Committed[home[t]] \subseteq Committed'[home[t]]
      BY <1>c, <1>d, <2>1, <3>1
    <3>3. ASSUME session = "starting", Waiting(t) PROVE Waiting(t)'
      BY <1>0, <2>1, <2>2, <2>3, <3>1, <3>2, <3>3 DEF Waiting, HasAnyShapes
    <3> QED
      BY <2>1, <2>3, <3>1, <3>2, <3>3 DEF Carried
  <2>10. AllCarried'
    <3>1. pages' \cup list' \cup roomList' \subseteq pages \cup list \cup roomList
      BY <2>1, <2>2
    <3> QED
      BY <2>1, <2>4, <2>8, <2>9, <3>1 DEF AllCarried
  <2> QED
    BY <2>5, <2>6, <2>7, <2>10 DEF DrawnInv
<1>3. ASSUME NEW s \in Shapes, Erase(s) PROVE DrawnInv'
  <2>1. /\ ~ rebind /\ view' = view \ {s} /\ erased' = erased \cup {s}
        /\ session = "starting" => active \in pending /\ (provider \/ ~ HasAnyShapes)
        /\ Share(Bridge(surface[bound] \ {s}), list)
        /\ UNCHANGED <<pages, kept, active, pending, session, provider, online, bound, home, mine>>
    BY <1>0, <1>3, AtMostExcludes DEF Erase, MayEdit
  <2>2. /\ surface' = Bridge(surface[bound] \ {s}) /\ list' = list
        /\ IF online THEN room' = surface' /\ roomList' = list ELSE UNCHANGED <<room, roomList>>
        /\ UNCHANGED base
    BY <2>1 DEF Share
  <2>3. /\ \A q \in Pages : surface[q] \ {s} \subseteq surface'[q]
        /\ session # "adopted" => surface' = surface
    <3>1. CASE Adopted
      <4>1. bound = active /\ surface[bound] \ {s} \in SUBSET Shapes
        BY <1>0, <2>1, <3>1 DEF Apart, BoundToActive
      <4>2. \A q \in Pages : surface'[q] = IF q = bound THEN surface[bound] \ {s} ELSE surface[q]
        BY <2>2, <3>1, <4>1, BridgeOK
      <4> QED
        BY <3>1, <4>2 DEF Adopted
    <3>2. CASE ~ Adopted
      BY <2>2, <3>2 DEF Bridge, Adopted
    <3> QED
      BY <3>1, <3>2
  <2>4. BaseHeld'
    BY <2>1, <2>2, <2>3 DEF DrawnInv, BaseHeld
  <2>5. LocalAdopts'
    BY <2>1, <2>3 DEF LocalAdopts, HasAnyShapes
  <2>6. AllCarried'
    <3> SUFFICES ASSUME NEW t \in mine \ erased, t # s,
                        home[t] \in pages \cup list \cup roomList
                 PROVE  Carried(t)'
      BY <2>1, <2>2 DEF AllCarried
    <3>1. Carried(t) /\ home[t] \in Pages
      BY <1>h DEF DrawnInv, AllCarried
    <3>2. t \in Committed[home[t]] => t \in Committed'[home[t]]
      BY <1>c, <1>d, <2>1, <3>1
    <3>3. ASSUME session = "starting", Waiting(t) PROVE Waiting(t)'
      BY <1>0, <2>1, <2>2, <2>3, <3>1, <3>2, <3>3 DEF Waiting, HasAnyShapes
    <3> QED
      BY <2>1, <2>3, <3>1, <3>2, <3>3 DEF Carried
  <2> QED
    BY <1>a, <2>1, <2>4, <2>5, <2>6 DEF DrawnInv
<1>4. CASE Save
  <2>1. /\ kept' = Committed
        /\ UNCHANGED <<pages, active, view, pending, session, provider, online, surface, list,
                       room, roomList, base, home, erased, mine>>
    BY <1>4 DEF Save
  <2>2. LocalAdopts' /\ \A p \in Pages : Committed'[p] = Committed[p]
    BY <1>0, <1>c, <1>d, <2>1 DEF LocalAdopts
  <2> QED
    BY <1>1, <2>1, <2>2
\* A move to another page commits the view and, before the adopt, keeps it.
<1>5. ASSUME NEW q \in Pages, MayMove(q), setActivePage(q)
      PROVE  /\ session # "adopted" => \A p \in Pages : Committed'[p] = Committed[p]
             /\ session' = session => LocalAdopts'
  <2>1. kept' = Committed /\ active' = q /\ view' = Shown(q)
    BY <1>5 DEF setActivePage
  <2>2. session # "adopted" => Shown(q) = Committed[q]
    BY <1>0, <1>5, AtMostExcludes DEF Shown, MayMove
  <2> QED
    BY <1>c, <2>1, <2>2 DEF LocalAdopts
<1>6. ASSUME NEW p \in Pages, Switch(p) PROVE DrawnInv'
  <2>1. /\ MayMove(p) /\ setActivePage(p)
        /\ UNCHANGED <<pages, pending, session, provider, online, surface, list,
                       room, roomList, base, home, erased, mine>>
    BY <1>6 DEF Switch
  <2> QED
    BY <1>1, <1>5, <2>1
\* A page is made: it has no drawings yet.
<1>7. ASSUME NEW p \in FreshPages, Share(surface, IF Adopted THEN list \cup {p} ELSE list)
      PROVE  /\ UNCHANGED <<surface, room, base>>
             /\ list' \cup roomList' \subseteq list \cup roomList \cup {p}
             /\ p \in Pages /\ p \notin pages /\ \A s \in Shapes : home[s] # p
  BY <1>7 DEF Share, Follows, OnlineAgrees, FreshPages
<1>8. ASSUME NEW p \in Pages, AddPage(p) PROVE DrawnInv'
  <2>1. /\ p \in FreshPages /\ MayMove(p) /\ setActivePage(p)
        /\ pages' = pages \cup {p} /\ pending \subseteq pending'
        /\ Share(surface, IF Adopted THEN list \cup {p} ELSE list)
        /\ UNCHANGED <<session, provider, online, home, erased, mine>>
    BY <1>8, MarkedOK DEF AddPage
  <2>2. \A s \in mine : home[s] \in pages' \cup list' \cup roomList' =>
                        home[s] \in pages \cup list \cup roomList
    BY <1>7, <1>h, <2>1
  <2> QED
    BY <1>1, <1>5, <1>7, <2>1, <2>2
<1>9. ASSUME NEW p \in Pages, NEW q \in Pages, Duplicate(p, q) PROVE DrawnInv'
  <2>1. PICK copies \in SUBSET Fresh :
            /\ Cardinality(copies) = Cardinality(kept[p])
            /\ kept' = [kept EXCEPT ![q] = copies]
            /\ home' = [s \in Shapes |-> IF s \in copies THEN q ELSE home[s]]
            /\ mine' = mine \cup copies
    BY <1>9 DEF Duplicate
  <2>2. /\ q \in FreshPages /\ pages' = pages \cup {q}
        /\ session = "none" \/ kept[p] = {}
        /\ Share(surface, IF Adopted THEN list \cup {q} ELSE list)
        /\ UNCHANGED <<active, view, pending, session, provider, online, erased>>
    BY <1>9, AtMostExcludes DEF Duplicate
  <2>3. session # "none" => copies = {}
    BY <2>1, <2>2, NoCopies
  <2>4. \A r \in Pages : kept'[r] = IF r = q THEN copies ELSE kept[r]
    BY <2>1 DEF EditorOK
  <2>5. /\ UNCHANGED <<surface, room, base>> /\ q \notin pages /\ q # active
        /\ list' \cup roomList' \subseteq list \cup roomList \cup {q}
        /\ \A s \in Shapes : home[s] # q
    BY <1>7, <2>2 DEF HasAPage
  <2>6. \A s \in copies : s \in Shapes /\ s \notin mine
    BY <2>1 DEF Fresh, DrawnInv, MineDrawn
  <2>7. \A s \in mine : home'[s] = home[s]
    BY <1>h, <2>1, <2>6
  <2>8. MineDrawn'
    BY <1>h, <2>1, <2>6, <2>7, NoPageAssumption DEF MineDrawn, Fresh
  <2>9. BaseHeld'
    BY <2>2, <2>5 DEF DrawnInv, BaseHeld
  <2>10. LocalAdopts'
    BY <1>0, <2>2, <2>4, <2>5 DEF DrawnInv, LocalAdopts, HasAnyShapes
  <2>11. AllCarried'
    <3> SUFFICES ASSUME NEW s \in (mine \cup copies) \ erased,
                        home'[s] \in pages' \cup list' \cup roomList'
                 PROVE  Carried(s)'
      BY <2>1, <2>2 DEF AllCarried
    <3>1. CASE s \in copies
      <4>1. session = "none" /\ home'[s] = q
        BY <2>1, <2>3, <2>6, <3>1
      <4>2. Committed'[q] = copies
        BY <1>c, <2>2, <2>4, <2>5
      <4> QED
        BY <2>2, <3>1, <4>1, <4>2 DEF Carried
    <3>2. CASE s \in mine
      <4>1. home'[s] = home[s] /\ home[s] \in Pages /\ home[s] # q
        BY <1>h, <2>5, <2>7, <3>2
      <4>2. Carried(s)
        BY <2>2, <2>5, <3>2, <4>1 DEF DrawnInv, AllCarried
      <4>3. Committed'[home[s]] = Committed[home[s]]
        BY <1>c, <1>d, <2>2, <2>4, <4>1
      <4>4. ASSUME Waiting(s) PROVE Waiting(s)'
        BY <2>2, <2>5, <4>1, <4>3, <4>4 DEF Waiting, HasAnyShapes
      <4> QED
        BY <2>2, <2>5, <4>1, <4>2, <4>3, <4>4 DEF Carried
    <3> QED
      BY <3>1, <3>2
  <2> QED
    BY <2>8, <2>9, <2>10, <2>11 DEF DrawnInv
<1>10. ASSUME NEW p \in Pages, DeletePage(p) PROVE DrawnInv'
  <2>1. /\ pages' = pages \ {p} /\ p \in pages /\ kept' = KeptOn(pages')
        /\ IF p = active THEN active' \in pages' /\ view' = kept[active']
                         ELSE UNCHANGED <<active, view>>
        /\ session = "starting" => p \in pending /\ p \notin list
        /\ Share(surface, IF Adopted THEN list \ {p} ELSE list)
        /\ UNCHANGED <<pending, session, provider, online, home, erased, mine>>
    BY <1>10, AtMostExcludes DEF DeletePage, MayEdit
  <2>2. /\ UNCHANGED <<surface, room, base>> /\ list' \subseteq list
        /\ roomList' \subseteq list \cup roomList
        /\ session # "adopted" => UNCHANGED <<list, roomList>>
    BY <1>0, <2>1 DEF Share, Follows, OnlineAgrees, Adopted
  <2>3. session = "none" => list \cup roomList \subseteq pages'
    BY DEF HandInv, NoneShared
  <2>4. session = "starting" => p \notin roomList
    BY <1>0, <2>1 DEF HandInv, PendingNew
  <2>5. \A q \in pages' : Committed'[q] = Committed[q]
    <3> SUFFICES ASSUME NEW q \in pages' PROVE Committed'[q] = Committed[q]
      OBVIOUS
    <3>1. q \in Pages /\ q # p /\ kept'[q] = kept[q]
      BY <2>1 DEF KeptOn, EditorOK
    <3> QED
      BY <1>c, <1>d, <2>1, <3>1
  <2>6. LocalAdopts'
    <3>1. active' \in pages' /\ kept'[active'] = kept[active']
      BY <1>0, <2>1 DEF HasAPage, KeptOn, EditorOK
    <3> QED
      BY <2>1, <2>2, <3>1 DEF DrawnInv, LocalAdopts, HasAnyShapes
  <2>7. AllCarried'
    <3> SUFFICES ASSUME NEW s \in mine \ erased,
                        home[s] \in pages' \cup list' \cup roomList'
                 PROVE  Carried(s)'
      BY <2>1 DEF AllCarried
    <3>1. Carried(s)
      BY <2>1, <2>2 DEF DrawnInv, AllCarried
    <3>2. CASE session = "none"
      BY <2>1, <2>2, <2>3, <2>5, <3>1, <3>2 DEF Carried
    <3>3. CASE session = "starting"
      <4>1. home[s] # p
        BY <2>1, <2>2, <2>4, <3>3
      <4>2. ASSUME Waiting(s) PROVE Waiting(s)'
        BY <2>1, <2>2, <2>5, <4>1, <4>2 DEF Waiting, HasAnyShapes
      <4> QED
        BY <2>1, <2>2, <3>1, <3>3, <4>2 DEF Carried
    <3>4. CASE session = "adopted"
      BY <2>1, <2>2, <3>1, <3>4 DEF Carried
    <3> QED
      BY <1>0, <3>2, <3>3, <3>4
  <2> QED
    BY <1>a, <2>1, <2>2, <2>6, <2>7 DEF DrawnInv, BaseHeld
<1>11. CASE Promote
  <2>1. /\ session = "none" /\ kept' = Committed /\ room' = Committed /\ roomList' = pages
        /\ session' = "starting" /\ online' = FALSE
        /\ UNCHANGED <<pages, active, view, surface, list, base, home, erased, mine>>
    BY <1>11 DEF Promote, Start
  <2>2. surface = Empty /\ base = Empty /\ list = {}
    BY <2>1 DEF HandInv, NoneShared
  <2>3. ~ HasAnyShapes' /\ BaseHeld'
    BY <2>1, <2>2 DEF HasAnyShapes, BaseHeld, Empty
  <2>4. \A p \in Pages : Committed'[p] = Committed[p]
    BY <1>c, <1>d, <2>1
  <2>5. AllCarried'
    <3> SUFFICES ASSUME NEW s \in mine \ erased, home[s] \in pages PROVE Carried(s)'
      BY <2>1, <2>2 DEF AllCarried
    <3>1. home[s] \in Pages /\ s \in Committed[home[s]]
      BY <1>h, <2>1 DEF DrawnInv, AllCarried, Carried
    <3> QED
      BY <2>1, <2>3, <2>4, <3>1 DEF Carried, Waiting
  <2> QED
    BY <1>a, <2>1, <2>3, <2>5 DEF DrawnInv, LocalAdopts
\* The sides part: what they held in common is remembered.
<1>12. ASSUME Part PROVE \A p \in Pages :
              base'[p] \subseteq surface[p] \cup erased /\ base'[p] \subseteq room[p] \cup erased
  BY <1>12 DEF Part, Follows, OnlineAgrees, DrawnInv, BaseHeld
<1>13. CASE Drop
  <2>1. /\ Part /\ online
        /\ UNCHANGED <<pages, kept, active, view, pending, session, provider, surface, list,
                       room, roomList, home, erased, mine>>
    BY <1>13 DEF Drop
  <2>2. BaseHeld'
    BY <1>12, <2>1 DEF BaseHeld
  <2>3. AllCarried' /\ LocalAdopts'
    BY <1>0, <2>1 DEF DrawnInv, AllCarried, Carried, LocalAdopts
  <2> QED
    BY <1>a, <2>1, <2>2, <2>3 DEF DrawnInv
\* A session that starts again shows what is committed.
<1>14. ASSUME NEW w \in BOOLEAN, Start(w), Part, session # "none",
              UNCHANGED <<pages, kept, active, pending, surface, list, room, roomList,
                          home, erased, mine>>,
              session = "starting" => \A p \in Pages : Committed'[p] = Committed[p],
              w \/ view' = kept[active]
       PROVE  DrawnInv'
  <2>1. session' = "starting" /\ provider' = w
    BY <1>14 DEF Start
  <2>2. BaseHeld'
    BY <1>12, <1>14 DEF BaseHeld
  <2>3. LocalAdopts'
    BY <1>14, <2>1 DEF LocalAdopts
  <2>4. AllCarried'
    <3> SUFFICES ASSUME NEW s \in mine \ erased,
                        home[s] \in pages \cup list \cup roomList
                 PROVE  Carried(s)'
      BY <1>14 DEF AllCarried
    <3>1. Carried(s) /\ home[s] \in Pages
      BY <1>h DEF DrawnInv, AllCarried
    <3>2. ASSUME session = "starting", Waiting(s) PROVE Waiting(s)'
      BY <1>14, <3>1, <3>2 DEF Waiting, HasAnyShapes
    <3> QED
      BY <1>14, <2>1, <3>1, <3>2 DEF Carried
  <2> QED
    BY <1>a, <1>14, <2>2, <2>3, <2>4 DEF DrawnInv
<1>15. ASSUME NEW w \in BOOLEAN, Reopen(w) PROVE DrawnInv'
  <2>1. /\ session # "none"
        /\ Adopted \/ kept = Committed
        /\ Part /\ Start(w) /\ view' = kept[active]
        /\ UNCHANGED <<pages, kept, active, pending, surface, list, room, roomList,
                       home, erased, mine>>
    BY <1>15 DEF Reopen
  <2>2. session = "starting" => \A p \in Pages : Committed'[p] = Committed[p]
    BY <1>c, <1>d, <2>1 DEF Adopted
  <2> QED
    BY <1>14, <2>1, <2>2
<1>16. CASE SignIn
  <2>1. /\ session # "none" /\ ~ provider /\ Start(TRUE)
        /\ UNCHANGED <<pages, kept, active, view, pending, surface, list, room, roomList,
                       base, baseList, home, erased, mine>>
    BY <1>16 DEF SignIn
  <2>2. ~ online
    BY <2>1 DEF HandInv, AllHanded
  <2>3. Part
    BY <2>1, <2>2 DEF Part
  <2>4. \A p \in Pages : Committed'[p] = Committed[p]
    BY <1>c, <1>d, <2>1
  <2> QED
    BY <1>14, <2>1, <2>3, <2>4
<1>17. CASE AdoptLocally
  <2>1. /\ session = "starting" /\ session' = "adopted" /\ ~ provider /\ HasAnyShapes
        /\ \A p \in pending \cap pages : kept[p] \subseteq surface[p]
        /\ pages' = Listed(list)
        /\ UNCHANGED <<pending, provider, online, surface, list, room, roomList, base,
                       home, erased, mine>>
    BY <1>17, AtMostExcludes DEF AdoptLocally
  <2>2. pages' \subseteq pages \cup list
    BY <2>1 DEF Listed
  <2>3. AllCarried'
    <3> SUFFICES ASSUME NEW s \in mine \ erased,
                        home[s] \in pages \cup list \cup roomList
                 PROVE  s \in surface[home[s]]
      BY <2>1, <2>2 DEF AllCarried, Carried
    <3>1. home[s] \in Pages
      BY <1>h
    <3>2. CASE Waiting(s)
      <4>1. home[s] \in pending \cap pages /\ s \in Committed[home[s]]
        BY <2>1, <3>2 DEF Waiting
      <4>2. home[s] = active => view = kept[active]
        BY <2>1, <4>1 DEF DrawnInv, LocalAdopts
      <4>3. s \in kept[home[s]]
        BY <1>d, <3>1, <4>1, <4>2
      <4> QED
        BY <2>1, <4>1, <4>3
    <3> QED
      BY <2>1, <3>2 DEF DrawnInv, AllCarried, Carried
  <2> QED
    BY <1>a, <2>1, <2>3 DEF DrawnInv, BaseHeld, LocalAdopts
<1>18. CASE Sync
  <2> DEFINE merged == [p \in Pages |-> Merge(surface[p], room[p], base[p])]
             mergedList == Merge(list, roomList, baseList)
             given == pending \cap pages'
  <2>1. /\ session # "none" /\ ~ online /\ HandoffCarries
        /\ session' = "adopted" /\ online' = TRUE
        /\ pages' = Listed(mergedList) /\ list' = mergedList \cup given /\ roomList' = list'
        /\ surface' = Handed(given, merged)
        /\ erased' = erased \ UNION {kept[q] : q \in given}
        /\ UNCHANGED <<home, mine>>
    BY <1>18 DEF Sync
  <2>2. pages' \cup list' \cup roomList' \subseteq pages \cup list \cup roomList
    BY <2>1 DEF Listed, Merge
  <2>3. Adopted \/ active \notin pending \/ kept = Committed
    BY <2>1, AtMostExcludes DEF HandoffCarries
  <2>5. \A q \in Pages : surface'[q] = IF q \in given THEN merged[q] \cup kept[q]
                                                    ELSE merged[q]
    <3> HIDE DEF merged, given
    <3> QED
      BY <2>1 DEF Handed
  <2>6. pending \cap pages \subseteq given
    BY <2>1 DEF Listed
  \* What a handoff seeds is on the page it was drawn on.
  <2>7. ASSUME NEW s \in mine \ erased', s \in erased PROVE s \in surface'[home[s]]
    <3>1. PICK q \in given : s \in kept[q]
      BY <2>1, <2>7
    <3>2. q \in Pages /\ home[s] = q
      BY <3>1 DEF EditorOK, Apart, ContentApart, Home
    <3> QED
      BY <2>5, <3>1, <3>2
  <2>8. ASSUME NEW s \in mine \ erased, home[s] \in pages \cup list \cup roomList
        PROVE  s \in surface'[home[s]]
    <3> DEFINE p == home[s]
    <3>1. /\ p \in Pages /\ Carried(s)
          /\ base[p] \subseteq surface[p] \cup erased /\ base[p] \subseteq room[p] \cup erased
      BY <1>h, <2>1, <2>8 DEF DrawnInv, AllCarried, BaseHeld
    <3> HIDE DEF p
    <3>2. Merge(surface[p], room[p], base[p]) \subseteq surface'[p]
      BY <2>5, <3>1
    <3>3. CASE s \in surface[p] \/ s \in room[p]
      <4>1. s \in base[p] => s \in surface[p] /\ s \in room[p]
        BY <2>8, <3>1
      <4>2. s \in Merge(surface[p], room[p], base[p])
        BY <3>3, <4>1, MergeElement
      <4> QED
        BY <3>2, <4>2 DEF p
    <3>4. CASE p \in pending \cap pages /\ s \in Committed[p]
      <4>1. CASE session = "adopted"
        BY <3>1, <3>3, <4>1 DEF Carried, p
      <4>2. CASE session # "adopted"
        <5>1. s \in kept[p]
          BY <1>d, <2>3, <3>1, <3>4, <4>2 DEF Adopted
        <5> QED
          BY <2>5, <2>6, <3>1, <3>4, <5>1 DEF p
      <4> QED
        BY <4>1, <4>2
    <3>5. s \in surface[p] \/ s \in room[p] \/ (p \in pending \cap pages /\ s \in Committed[p])
      BY <2>1, <3>1 DEF Carried, Waiting, p
    <3> QED
      BY <3>3, <3>4, <3>5 DEF p
  <2>9. AllCarried'
    BY <2>1, <2>2, <2>7, <2>8 DEF AllCarried, Carried
  <2> QED
    BY <1>a, <2>1, <2>9 DEF DrawnInv, BaseHeld, LocalAdopts
\* In an adopted session drawings are carried by the surfaces alone.
<1>19. ASSUME session = "adopted", UNCHANGED <<session, online, surface, room, base, home,
                                             erased, mine>>,
              pages' \cup list' \cup roomList' \subseteq pages \cup list \cup roomList
       PROVE  DrawnInv'
  BY <1>a, <1>19 DEF DrawnInv, BaseHeld, AllCarried, Carried, LocalAdopts
<1>20. CASE Rebind
  BY <1>0, <1>19, <1>20 DEF Rebind, SessionOK, Adopted
<1>21. ASSUME NEW p \in Pages, NEW s \in Shapes, PeerDraw(p, s) PROVE DrawnInv'
  <2>1. /\ s \in Fresh /\ home' = [home EXCEPT ![s] = p]
        /\ room' = [room EXCEPT ![p] = room[p] \cup {s}]
        /\ IF online THEN surface' = room' ELSE UNCHANGED <<surface, view>>
        /\ UNCHANGED <<pages, kept, active, pending, session, provider, online, list, roomList,
                       base, erased, mine>>
    BY <1>21 DEF PeerDraw, Follow
  <2>2. \A q \in Pages : room[q] \subseteq room'[q] /\ surface[q] \subseteq surface'[q]
    BY <1>0, <2>1 DEF Follows, OnlineAgrees
  <2>3. \A t \in mine : home'[t] = home[t]
    BY <1>h, <2>1 DEF HistoryOK, DrawnInv, MineDrawn
  <2>4. MineDrawn'
    BY <1>h, <2>1, <2>3, NoPageAssumption DEF MineDrawn, Fresh
  <2>5. BaseHeld'
    BY <2>1, <2>2 DEF DrawnInv, BaseHeld
  <2>6. LocalAdopts'
    BY <1>0, <2>1 DEF DrawnInv, LocalAdopts, HasAnyShapes
  <2>7. AllCarried'
    <3> SUFFICES ASSUME NEW t \in mine \ erased,
                        home[t] \in pages \cup list \cup roomList
                 PROVE  Carried(t)'
      BY <2>1, <2>3 DEF AllCarried
    <3>1. Carried(t) /\ home[t] \in Pages /\ home'[t] = home[t]
      BY <1>h, <2>3 DEF DrawnInv, AllCarried
    <3>2. session # "adopted" => \A q \in Pages : Committed'[q] = Committed[q]
      BY <1>0, <1>c, <1>d, <2>1
    <3>3. ASSUME session = "starting", Waiting(t) PROVE Waiting(t)'
      BY <1>0, <2>1, <2>2, <3>1, <3>2, <3>3 DEF Waiting, HasAnyShapes
    <3> QED
      BY <2>1, <2>2, <3>1, <3>2, <3>3 DEF Carried
  <2> QED
    BY <2>4, <2>5, <2>6, <2>7 DEF DrawnInv
<1>22. ASSUME NEW p \in Pages, NEW s \in Shapes, PeerErase(p, s) PROVE DrawnInv'
  <2>1. /\ erased' = erased \cup {s}
        /\ room' = [room EXCEPT ![p] = room[p] \ {s}]
        /\ IF online THEN surface' = room' ELSE UNCHANGED <<surface, view>>
        /\ UNCHANGED <<pages, kept, active, pending, session, provider, online, list, roomList,
                       base, home, mine>>
    BY <1>22 DEF PeerErase, Follow
  <2>2. \A q \in Pages : room[q] \ {s} \subseteq room'[q] /\ surface[q] \ {s} \subseteq surface'[q]
    BY <1>0, <2>1 DEF Follows, OnlineAgrees
  <2>3. BaseHeld'
    BY <2>1, <2>2 DEF DrawnInv, BaseHeld
  <2>4. LocalAdopts'
    BY <1>0, <2>1 DEF DrawnInv, LocalAdopts, HasAnyShapes
  <2>5. AllCarried'
    <3> SUFFICES ASSUME NEW t \in mine \ erased, t # s,
                        home[t] \in pages \cup list \cup roomList
                 PROVE  Carried(t)'
      BY <2>1 DEF AllCarried
    <3>1. Carried(t) /\ home[t] \in Pages
      BY <1>h DEF DrawnInv, AllCarried
    <3>2. session # "adopted" => \A q \in Pages : Committed'[q] = Committed[q]
      BY <1>0, <1>c, <1>d, <2>1
    <3>3. ASSUME session = "starting", Waiting(t) PROVE Waiting(t)'
      BY <1>0, <2>1, <2>2, <3>1, <3>2, <3>3 DEF Waiting, HasAnyShapes
    <3> QED
      BY <2>1, <2>2, <3>1, <3>2, <3>3 DEF Carried
  <2> QED
    BY <1>a, <2>1, <2>3, <2>4, <2>5 DEF DrawnInv
<1>23. ASSUME NEW l, FollowList(l), l \subseteq roomList \/
              (\E p \in FreshPages : l = roomList \cup {p})
       PROVE  DrawnInv'
  <2>1. /\ UNCHANGED <<surface, room, base, session, online, provider, home, erased, mine,
                       pending, view>>
        /\ IF online THEN list' = l /\ pages' = Listed(l)
                     ELSE UNCHANGED <<list, pages, kept, active>>
        /\ roomList' = l
    BY <1>23 DEF FollowList
  <2>2. \A s \in mine : home[s] \in pages' \cup list' \cup roomList' =>
                        home[s] \in pages \cup list \cup roomList
    <3>1. pages' \cup list' \cup roomList' \subseteq pages \cup list \cup l
      BY <2>1 DEF Listed
    <3>2. \A s \in mine, p \in FreshPages : home[s] # p
      BY <1>h DEF FreshPages
    <3> QED
      BY <1>23, <3>1, <3>2
  <2>3. BaseHeld'
    BY <2>1 DEF DrawnInv, BaseHeld
  <2>4. LocalAdopts'
    BY <1>0, <2>1 DEF DrawnInv, LocalAdopts, HasAnyShapes
  <2>5. AllCarried'
    <3> SUFFICES ASSUME NEW t \in mine \ erased,
                        home[t] \in pages \cup list \cup roomList
                 PROVE  Carried(t)'
      BY <2>1, <2>2 DEF AllCarried
    <3>1. Carried(t) /\ home[t] \in Pages
      BY <1>h DEF DrawnInv, AllCarried
    <3>2. session # "adopted" => \A q \in Pages : Committed'[q] = Committed[q]
      BY <1>0, <1>c, <1>d, <2>1
    <3>3. ASSUME session = "starting", Waiting(t) PROVE Waiting(t)'
      BY <1>0, <2>1, <3>1, <3>2, <3>3 DEF Waiting, HasAnyShapes
    <3> QED
      BY <2>1, <3>1, <3>2, <3>3 DEF Carried
  <2> QED
    BY <1>a, <2>1, <2>3, <2>4, <2>5 DEF DrawnInv
<1>24. ASSUME NEW p \in Pages, PeerAddPage(p) \/ PeerDeletePage(p) PROVE DrawnInv'
  BY <1>23, <1>24 DEF PeerAddPage, PeerDeletePage
<1>25. CASE UNCHANGED vars
  <2>1. UNCHANGED <<surface, room, roomList, base, session, online, provider, home, erased, mine,
                    pending, pages, list, kept, active, view>>
    BY <1>25 DEF vars
  <2>2. LocalAdopts' /\ \A p \in Pages : Committed'[p] = Committed[p]
    BY <1>c, <1>d, <2>1 DEF DrawnInv, LocalAdopts, HasAnyShapes
  <2> QED
    BY <1>1, <2>1, <2>2
<1> QED
  BY <1>2, <1>3, <1>4, <1>6, <1>8, <1>9, <1>10, <1>11, <1>13, <1>15, <1>16, <1>17,
     <1>18, <1>20, <1>21, <1>22, <1>24, <1>25 DEF Next

LEMMA InitDrawn == Init => DrawnInv
<1> SUFFICES ASSUME Init PROVE DrawnInv
  OBVIOUS
<1>1. mine = {} /\ session = "none" /\ base = Empty
  BY DEF Init
<1> QED
  BY <1>1 DEF DrawnInv, MineDrawn, BaseHeld, AllCarried, LocalAdopts, Empty

\* What the editor drew and nobody erased is not lost while its page exists, for
\* any losses, reopenings and changes by others on either side of an adopt, as
\* long as the editor neither edits nor leaves uncommitted what an adopt replaces
\* and duplicates no content in a session: each of the six coincidences left out
\* loses a drawing.  What loses a page only loses none on the pages that stay.
THEOREM DrawingsKept == AtMostPages /\ Spec => []DrawnIsKept
<1> DEFINE DInv == IInv /\ HasAPage /\ HandInv /\ DrawnInv
<1>1. Init => DInv
  BY Inductive, InitErase, InitDrawn
<1>2. AtMostPages /\ DInv /\ [Next]_vars => DInv'
  <2> SUFFICES ASSUME AtMostPages, DInv, [Next]_vars PROVE DInv'
    OBVIOUS
  <2>1. EditorOK /\ LinkOK /\ DocOK /\ HistoryOK /\ SessionOK /\ Apart /\ Follows
    BY Parts DEF IInv
  <2>2. Orderly
    BY AtMostExcludes
  <2>3. IInv'
    BY <2>2, Inductive
  <2>4. HasAPage' /\ HandInv' /\ DrawnInv'
    BY <2>1, <2>2, PageStep, HandStep, DrawnStep
  <2> QED
    BY <2>3, <2>4
<1>3. DInv => DrawnIsKept
  <2> SUFFICES ASSUME DInv, NEW s \in mine \ erased, home[s] \in pages
               PROVE  \/ s \in surface[home[s]]
                      \/ ~ Adopted /\ s \in kept[home[s]]
                      \/ ~ Adopted /\ home[s] = active /\ s \in view
    BY DEF DrawnIsKept
  <2>1. EditorOK /\ Carried(s) /\ home[s] \in Pages
    BY Parts DEF IInv, DrawnInv, AllCarried, EditorOK
  <2>2. s \in Committed[home[s]] => s \in kept[home[s]] \/ (home[s] = active /\ s \in view)
    BY <2>1, CommittedOK
  <2> QED
    BY <2>1, <2>2 DEF Carried, Waiting, Adopted
<1>4. AtMostPages => AtMostPages'
  BY DEF AtMostPages
<1> HIDE DEF DInv
<1> QED
  BY <1>1, <1>2, <1>3, <1>4, PTL DEF Spec
=============================================================================
