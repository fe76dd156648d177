---------------------------- MODULE CanvasPages ----------------------------
(***************************************************************************)
(* The canvas pages of one editor and the collaboration session they are   *)
(* shared through.  The editor holds a page store (pages with the content  *)
(* committed to each), a document store (the content on screen) and, in a  *)
(* session, a Y.Doc with one surface of shapes per page and the page list. *)
(* The view is committed to its page when it is left or saved; in a        *)
(* session it follows the surface of the active page instead, once the     *)
(* Y.Doc has been adopted.  Content is a set of shapes; an edit of a shape *)
(* is an erasure and a drawing.  The Y.Doc merges set by set: what either  *)
(* side added or removed since they last agreed.                           *)
(***************************************************************************)
EXTENDS FiniteSets, Naturals

CONSTANTS
    Pages,          \* page ids, each used once
    Shapes,         \* shape ids, each used once
    MaxDrops,       \* how often the connection is lost or the document reopened
    Coincide,       \* the coincidences a run admits (see the guards)
    NoPage

AllCoincidences ==
    {"beforeRebind",    \* something else runs between a move and the rebind effect
     "editUnadopted",   \* an edit or a deletion before the Y.Doc is adopted
     "moveUnadopted",   \* a move to another page before the Y.Doc is adopted
     "emptied",         \* two editors delete the last two pages
     "duplicateShared", \* a page with content is duplicated in a session
     "unmarked",        \* a page made before the Y.Doc is adopted is not marked
     "uncommitted",     \* a handoff with a drawing since the last save
     "adoptPending"}    \* an adopt while a page's content is in the page store only

ASSUME NoPageAssumption == NoPage \notin Pages
ASSUME ShapesAssumption == IsFiniteSet(Shapes)
ASSUME CoincideAssumption == Coincide \subseteq AllCoincidences /\ MaxDrops \in Nat

VARIABLES
    pages,          \* pageStore.pages: the ids
    kept,           \* pageStore.pages[p].shapes
    active,         \* pageStore.activePageId
    view,           \* documentStore.shapes
    pending,        \* pages made offline, not handed to the relay (persisted)
    session,        \* "none", "starting" (not adopted) or "adopted"
    provider,       \* the session has a token, hence a connection to wait for
    online,         \* the handshake is complete: Y.Doc and room agree
    bound,          \* the page whose surface the Y.Doc observes and writes
    rebind,         \* the rebind effect is due: the active page changed
    surface,        \* the Y.Doc: shapes of each page (kept by y-indexeddb)
    list,           \* the Y.Doc: the page list
    room, roomList, \* the same on the relay, for the other editors
    base, baseList, \* what both held when they last agreed
    home,           \* the page each shape was drawn on, NoPage before
    erased,         \* shapes erased by whom ever, and not seeded again since
    mine,           \* shapes this editor drew
    made,           \* pages this editor made, until someone deletes them
    gone,           \* pages deleted by whom ever
    drops

editor  == <<pages, kept, active, view, pending>>
link    == <<session, provider, online, bound, rebind>>
doc     == <<surface, list>>
remote  == <<room, roomList, base, baseList>>
history == <<home, erased, mine>>
fate    == <<made, gone>>
vars    == <<editor, link, doc, remote, history, fate, drops>>

Adopted == session = "adopted"

\* What two replicas hold once they exchanged what each changed since b.
Merge(x, y, b) == (x \cap y) \cup (x \ b) \cup (y \ b)

Fresh      == {s \in Shapes : home[s] = NoPage}
Home(p)    == {s \in Shapes : home[s] = p}
FreshPages == Pages \ (pages \cup list \cup roomList \cup baseList \cup made \cup gone
                       \cup {home[s] : s \in Shapes})
HasAnyShapes == \E p \in Pages : surface[p] # {}
Empty      == [p \in Pages |-> {}]

\* The page effect runs before anything else looks at the stores.
Settled == rebind => "beforeRebind" \in Coincide

----------------------------------------------------------------------------
\* A new document, on this device only.
Init ==
    /\ \E p \in Pages : pages = {p} /\ active = p
    /\ kept = Empty /\ view = {} /\ pending = {}
    /\ session = "none" /\ provider = FALSE /\ online = FALSE
    /\ bound = NoPage /\ rebind = FALSE
    /\ surface = Empty /\ list = {}
    /\ room = Empty /\ roomList = {} /\ base = Empty /\ baseList = {}
    /\ home = [s \in Shapes |-> NoPage] /\ erased = {} /\ mine = {}
    /\ made = pages /\ gone = {} /\ drops = 0

----------------------------------------------------------------------------
(* Stores *)

\* syncCurrentPageFromDocument: the view, into the page it belongs to.
Committed == [kept EXCEPT ![active] = view]

\* A page that goes takes its content with it.
KeptOn(ids) == [p \in Pages |-> IF p \in ids THEN kept[p] ELSE {}]

\* The bridge to the Y.Doc: a write to the bound surface, in an adopted session.
Bridge(content) ==
    IF Adopted THEN [surface EXCEPT ![bound] = content] ELSE surface

\* What a local change of the Y.Doc leaves in the room.
Share(s, l) ==
    /\ surface' = s /\ list' = l
    /\ IF online THEN room' = s /\ roomList' = l
                 ELSE UNCHANGED <<room, roomList>>
    /\ UNCHANGED <<base, baseList>>

\* Edits of a document whose session has not adopted are replaced by the adopt,
\* unless they are on a page the handoff will carry.
MayEdit(p) == session = "starting" =>
    \/ p \in pending /\ (provider \/ ~ HasAnyShapes)
    \/ "editUnadopted" \in Coincide

Draw(s) ==
    /\ Settled /\ MayEdit(active) /\ s \in Fresh
    /\ view' = view \cup {s}
    /\ home' = [home EXCEPT ![s] = active]
    /\ mine' = mine \cup {s}
    /\ Share(Bridge(surface[bound] \cup {s}), list)
    /\ UNCHANGED <<pages, kept, active, pending, link, erased, fate, drops>>

Erase(s) ==
    /\ Settled /\ MayEdit(active) /\ s \in view
    /\ session = "starting" => s \notin surface[active] \/ "editUnadopted" \in Coincide
    /\ view' = view \ {s}
    /\ erased' = erased \cup {s}
    /\ Share(Bridge(surface[bound] \ {s}), list)
    /\ UNCHANGED <<pages, kept, active, pending, link, home, mine, fate, drops>>

\* Autosave takes the snapshot of the page store, which commits the view first.
Save ==
    /\ Settled /\ kept' = Committed
    /\ UNCHANGED <<pages, active, view, pending, link, doc, remote, history, fate, drops>>

----------------------------------------------------------------------------
(* Pages *)

\* What is on screen after a move to p: outside a session its committed content,
\* in one the old content until the rebind, which only an adopted session runs.
Shown(p) == IF session = "none" THEN Committed[p] ELSE view

MayMove(p) == session = "starting" =>
    view = Committed[p] \/ "moveUnadopted" \in Coincide

\* Mutant of setActivePage: the view is saved after the active page is flipped.
setActivePageFirst(p) ==
    /\ kept' = [kept EXCEPT ![p] = view] /\ active' = p /\ view' = Shown(p)
    /\ rebind' = Adopted

setActivePage(p) ==
    /\ kept' = Committed /\ active' = p /\ view' = Shown(p)
    /\ rebind' = Adopted

Switch(p) ==
    /\ Settled /\ p \in pages \ {active} /\ MayMove(p)
    /\ setActivePage(p)
    /\ UNCHANGED <<pages, pending, session, provider, online, bound, doc, remote, history, fate, drops>>

\* The mark of a page made offline: while the connection is not authenticated,
\* which it is again before the handshake is complete.
Marked(p) ==
    IF session = "none" \/ online THEN {pending}
    ELSE {pending \cup {p}} \cup
         (IF provider /\ (Adopted \/ "unmarked" \in Coincide) THEN {pending} ELSE {})

\* The tab bar's "+": the page is made, marked when offline, and opened.
AddPage(p) ==
    /\ Settled /\ p \in FreshPages /\ MayMove(p)
    /\ pages' = pages \cup {p} /\ made' = made \cup {p}
    /\ pending' \in Marked(p)
    /\ setActivePage(p)
    /\ Share(surface, IF Adopted THEN list \cup {p} ELSE list)
    /\ UNCHANGED <<session, provider, online, bound, history, gone, drops>>

\* Two editors that delete the last two pages leave an empty list, which nobody adopts.
KeepsAPage(mineLeft, theirsLeft) ==
    \/ Merge(mineLeft, theirsLeft, baseList) # {}
    \/ session = "none" \/ online
    \/ "emptied" \in Coincide

DeletePage(p) ==
    /\ Settled /\ MayEdit(p) /\ p \in pages /\ pages # {p}
    /\ session = "starting" => p \notin list \/ "editUnadopted" \in Coincide
    /\ pages' = pages \ {p} /\ made' = made \ {p} /\ gone' = gone \cup {p}
    /\ IF p = active
         THEN \E q \in pages' : active' = q /\ view' = kept[q] /\ rebind' = Adopted
         ELSE UNCHANGED <<active, view, rebind>>
    /\ Share(surface, IF Adopted THEN list \ {p} ELSE list)
    /\ KeepsAPage(list', roomList)
    /\ kept' = KeptOn(pages')
    /\ UNCHANGED <<pending, session, provider, online, bound, history, drops>>

\* The copy is of the committed content and reaches the page store only; it is
\* not marked.
Duplicate(p, q) ==
    /\ Settled /\ p \in pages /\ q \in FreshPages
    /\ session = "none" \/ kept[p] = {} \/ "duplicateShared" \in Coincide
    /\ session # "starting" \/ "unmarked" \in Coincide
    /\ \E copies \in SUBSET Fresh :
         /\ Cardinality(copies) = Cardinality(kept[p])
         /\ kept' = [kept EXCEPT ![q] = copies]
         /\ home' = [s \in Shapes |-> IF s \in copies THEN q ELSE home[s]]
         /\ mine' = mine \cup copies
    /\ pages' = pages \cup {q} /\ made' = made \cup {q}
    /\ Share(surface, IF Adopted THEN list \cup {q} ELSE list)
    /\ UNCHANGED <<active, view, pending, link, erased, gone, drops>>

----------------------------------------------------------------------------
(* The session *)

Start(withToken) ==
    /\ session' = "starting" /\ provider' = withToken /\ online' = FALSE
    /\ bound' = NoPage /\ rebind' = FALSE

\* The document is saved to the relay, which seeds its room from it, and the
\* session starts on an empty Y.Doc.
Promote ==
    /\ session = "none"
    /\ kept' = Committed
    /\ room' = kept' /\ roomList' = pages
    /\ Start(TRUE)
    /\ UNCHANGED <<pages, active, view, pending, doc, base, baseList, history, fate, drops>>

\* The two sides stop hearing of each other.
Part == IF online THEN base' = room /\ baseList' = roomList ELSE UNCHANGED <<base, baseList>>

Drop ==
    /\ Settled /\ online /\ drops < MaxDrops
    /\ Part /\ online' = FALSE /\ drops' = drops + 1
    /\ UNCHANGED <<editor, session, provider, bound, rebind, doc, room, roomList, history, fate>>

\* The saved document is opened again, with the Y.Doc y-indexeddb kept.
Reopen(withToken) ==
    /\ Settled /\ session # "none" /\ drops < MaxDrops
    /\ Adopted \/ kept = Committed
    /\ Part /\ Start(withToken)
    /\ view' = kept[active] /\ drops' = drops + 1
    /\ UNCHANGED <<pages, kept, active, pending, doc, room, roomList, history, fate>>

\* A session without a token is restarted with one.
SignIn ==
    /\ Settled /\ session # "none" /\ ~ provider
    /\ Start(TRUE)
    /\ UNCHANGED <<editor, doc, remote, history, fate, drops>>

\* Mutant of Listed: pages made offline are not spared.
ListedPrunes(l) == IF l = {} THEN pages ELSE l

\* applyRemoteCanvasPageList: the merged list, and the pages it cannot know yet.
Listed(l) == IF l = {} THEN pages ELSE l \cup (pages \cap pending)

Repoint(left) == IF active \in left THEN {active} ELSE left

\* Without a connection the Y.Doc is complete once y-indexeddb is loaded: the page
\* list is adopted as it loads, the shapes after it.  The content of pages made
\* before that is in the page store only.
AdoptLocally ==
    /\ session = "starting" /\ ~ provider /\ HasAnyShapes
    /\ "adoptPending" \in Coincide \/ \A p \in pending \cap pages : kept[p] \subseteq surface[p]
    /\ session' = "adopted"
    /\ pages' = Listed(list) /\ active' \in Repoint(pages')
    /\ bound' = active' /\ view' = surface[active'] /\ rebind' = FALSE
    /\ kept' = KeptOn(pages')
    /\ UNCHANGED <<pending, provider, online, doc, remote, history, fate, drops>>

\* Mutant of Handed: the handoff emits the pages, not their shapes.
HandedEmpty(given, content) == content

\* Mutant of Handed: every page is seeded, not those made offline.
HandedAll(given, content) == [p \in Pages |-> content[p] \cup kept[p]]

\* The handoff of the pages made offline: their committed content, additively.
Handed(given, content) ==
    [p \in Pages |-> IF p \in given THEN content[p] \cup kept[p] ELSE content[p]]

\* What the adopt replaces and the handoff does not carry: a drawing since the
\* last save, on the page in view.
HandoffCarries ==
    Adopted \/ active \notin pending \/ kept = Committed \/ "uncommitted" \in Coincide

\* A handshake completes: the replicas merge, the page list is followed, the view
\* adopted, and the pages made offline that are still there are handed over.
Sync ==
    /\ Settled /\ session # "none" /\ provider /\ ~ online /\ HandoffCarries
    /\ session' = "adopted" /\ online' = TRUE
    /\ LET merged     == [p \in Pages |-> Merge(surface[p], room[p], base[p])]
           mergedList == Merge(list, roomList, baseList)
           given      == pending \cap pages'
       IN  /\ pages' = Listed(mergedList) /\ active' \in Repoint(pages')
           /\ surface' = Handed(given, merged)
           /\ list' = mergedList \cup given
           /\ bound' = IF Adopted /\ active' \notin given THEN bound ELSE active'
           /\ erased' = erased \ UNION {kept[p] : p \in given}
    /\ view' = surface'[bound'] /\ rebind' = (active' # bound')
    /\ pending' = {}
    /\ room' = surface' /\ roomList' = list'
    /\ kept' = KeptOn(pages')
    /\ UNCHANGED <<provider, base, baseList, home, mine, fate, drops>>

\* The effect of a changed active page: bind its surface, show its content.
Rebind ==
    /\ rebind
    /\ bound' = active /\ view' = surface[active] /\ rebind' = FALSE
    /\ UNCHANGED <<pages, kept, active, pending, session, provider, online, doc, remote,
                   history, fate, drops>>

----------------------------------------------------------------------------
(* The other editors: external, seen through the relay *)

\* Mutant of Follow: the observer of the page left behind is not detached.
FollowAnyPage(p, content) ==
    /\ room' = [room EXCEPT ![p] = content]
    /\ IF online
         THEN /\ surface' = room'
              /\ view' = (view \cup (content \ room[p])) \ (room[p] \ content)
         ELSE UNCHANGED <<surface, view>>
    /\ UNCHANGED <<pages, kept, active, pending, link, list, roomList, base, baseList, mine,
                   fate, drops>>

\* What an editor that is online makes of a change of a page's shapes.
Follow(p, content) ==
    /\ room' = [room EXCEPT ![p] = content]
    /\ IF online
         THEN /\ surface' = room'
              /\ view' = IF p = bound THEN (view \cup (content \ room[p])) \ (room[p] \ content)
                                     ELSE view
         ELSE UNCHANGED <<surface, view>>
    /\ UNCHANGED <<pages, kept, active, pending, link, list, roomList, base, baseList, mine,
                   fate, drops>>

PeerDraw(p, s) ==
    /\ Settled /\ p \in roomList /\ s \in Fresh
    /\ home' = [home EXCEPT ![s] = p]
    /\ Follow(p, room[p] \cup {s})
    /\ UNCHANGED erased

PeerErase(p, s) ==
    /\ Settled /\ p \in roomList /\ s \in room[p]
    /\ erased' = erased \cup {s}
    /\ Follow(p, room[p] \ {s})
    /\ UNCHANGED home

\* A change of the page list, and the editor's adoption of it.
FollowList(l) ==
    /\ roomList' = l
    /\ IF online
         THEN /\ list' = l /\ pages' = Listed(l)
              /\ active' \in Repoint(pages')
              /\ rebind' = (rebind \/ active' # active)
              /\ kept' = KeptOn(pages')
         ELSE UNCHANGED <<list, pages, active, rebind, kept>>
    /\ UNCHANGED <<view, pending, session, provider, online, bound, surface,
                   room, base, baseList, history, drops>>

PeerAddPage(p) ==
    /\ Settled /\ roomList # {} /\ p \in FreshPages
    /\ FollowList(roomList \cup {p})
    /\ UNCHANGED fate

PeerDeletePage(p) ==
    /\ Settled /\ p \in roomList /\ roomList # {p}
    /\ KeepsAPage(list, roomList \ {p})
    /\ FollowList(roomList \ {p})
    /\ made' = made \ {p} /\ gone' = gone \cup {p}

----------------------------------------------------------------------------
Next ==
    \/ \E s \in Shapes : Draw(s) \/ Erase(s)
    \/ Save
    \/ \E p \in Pages : Switch(p) \/ AddPage(p) \/ DeletePage(p)
    \/ \E p, q \in Pages : Duplicate(p, q)
    \/ Promote \/ Drop \/ SignIn \/ AdoptLocally \/ Sync \/ Rebind
    \/ \E withToken \in BOOLEAN : Reopen(withToken)
    \/ \E p \in Pages, s \in Shapes : PeerDraw(p, s) \/ PeerErase(p, s)
    \/ \E p \in Pages : PeerAddPage(p) \/ PeerDeletePage(p)

Spec == Init /\ [][Next]_vars

----------------------------------------------------------------------------
(* Properties *)

TypeOK ==
    /\ pages \subseteq Pages /\ active \in Pages /\ pending \subseteq Pages
    /\ kept \in [Pages -> SUBSET Shapes] /\ view \subseteq Shapes
    /\ session \in {"none", "starting", "adopted"}
    /\ provider \in BOOLEAN /\ online \in BOOLEAN /\ rebind \in BOOLEAN
    /\ bound \in Pages \cup {NoPage}
    /\ surface \in [Pages -> SUBSET Shapes] /\ list \subseteq Pages
    /\ room \in [Pages -> SUBSET Shapes] /\ roomList \subseteq Pages
    /\ base \in [Pages -> SUBSET Shapes] /\ baseList \subseteq Pages
    /\ home \in [Shapes -> Pages \cup {NoPage}]
    /\ erased \subseteq Shapes /\ mine \subseteq Shapes
    /\ made \subseteq Pages /\ gone \subseteq Pages /\ drops \in Nat

\* No page gets another page's content, committed, shared or on screen: moving
\* between pages saves one, loads the other and re-points the bridge, in three
\* places (pageStore.setActivePage, the rebind effect, the adopt).
PagesApart ==
    /\ \A p \in Pages : kept[p] \cup surface[p] \cup room[p] \subseteq Home(p)
    /\ ~ rebind => view \subseteq Home(active)

\* An adopted editor shows what its Y.Doc holds for the page it is on, whatever
\* was loaded from the page store on the way, and edits that page's surface.
ViewFollowsSurface ==
    Adopted /\ ~ rebind => bound = active /\ view = surface[active]

\* What this editor drew and nobody erased is not lost while its page exists:
\* once a Y.Doc is adopted it is in the Y.Doc, before that it is committed or on
\* screen (the adopt and the handoff must carry it over).
DrawnIsKept ==
    \A s \in mine \ erased : home[s] \in pages =>
        \/ s \in surface[home[s]]
        \/ ~ Adopted /\ s \in kept[home[s]]
        \/ ~ Adopted /\ home[s] = active /\ s \in view

\* An erased shape comes back through no merge, adopt or reopening: a replica that
\* was away still holds it, and so does the committed content of its page.  Only
\* the handoff of a page made offline brings back what was erased since that page
\* was last saved (it seeds the committed content, which ends the erasure).
ErasedStaysErased ==
    online => \A p \in Pages : room[p] \cap erased = {}

\* A page made by this editor stays until someone deletes it: no adopt of a list
\* that does not have it yet removes it.  Whoever is online has the pages of the
\* room, is on one of them, and has none that either side deleted.
PagesShared ==
    /\ made \subseteq pages
    /\ online => pages = roomList /\ active \in pages /\ pages \cap gone = {}
============================================================================
