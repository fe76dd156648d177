----------------------------- MODULE DocSession -----------------------------
(***************************************************************************)
(* The live sessions of one document on the relay: the WebSocket handlers  *)
(* for JOIN_DOC and SYNC and the disconnect path (server/mod.rs), the      *)
(* registry of authoritative Y.Docs and their handles (sync/mod.rs), the   *)
(* snapshot sweeper and the other callers of snapshot_doc, the MCP tools   *)
(* that write live or cold (mcp/tools.rs), deletion and re-creation.       *)
(*                                                                         *)
(* Each connection, sweeper, publisher and agent is a sequential task; a   *)
(* step is one lock hold, one atomic access or one call of the store.      *)
(* Content is a set of edits: a Y.Doc holds the edits merged into it, a    *)
(* file those it was written with, and a merge is a union.  The handles of *)
(* the registry are numbered in the order they were hydrated, so that a    *)
(* task can still hold one the registry has dropped.                       *)
(***************************************************************************)
EXTENDS Integers, FiniteSets

CONSTANTS
    Clients,     \* WebSocket connections that may have the document open
    Flushers,    \* other callers of snapshot_doc: the sweeper, POST /publish
    Agents,      \* MCP tool calls
    Binary,      \* [sync] binary_persistence
    Paged,       \* the stored body names the page it opens on (activePageId)
    Removals,    \* the edits that delete the page the document opens on
    Coincide,    \* what may happen at the same time, see AllCoincidences
    MaxEdits,    \* bound: edits, cold writes and re-creations
    MaxHandles,  \* bound: hydrations
    MaxFails,    \* bound: reads and writes of the store that fail
    MaxRestarts, \* bound: relay restarts
    MaxDeletes   \* bound: deletions of the document

Tasks == Clients \union Flushers \union Agents

(***************************************************************************)
(* Nothing keeps these apart in the code; an instance that leaves one out  *)
(* shows what holds as long as the timing keeps them apart.                *)
(*   "evictUse":    evict_doc_if_unused has read the client table and has  *)
(*                  not yet evicted, or a tool is about to evict, while    *)
(*                  somebody takes or has the handle;                      *)
(*   "flushFlush":  two callers are inside snapshot_doc of one handle;     *)
(*   "coldJoin":    a tool is between reading the JSON and the end of its  *)
(*                  write, while a client's join or frame hydrates;        *)
(*   "toolFlush":   the same, while somebody flushes the handle;           *)
(*   "toolTool":    two tools have passed the version check of one save;   *)
(*   "staleBody":   a tool writes a closed document whose JSON is behind   *)
(*                  its sidecar;                                           *)
(*   "deleteLive":  the document is deleted while it is open;              *)
(*   "failFlatten": a flush cannot read the body it is to update;          *)
(*   "failEvict":   a write fails in the flush that precedes an eviction;  *)
(*   "failDelete":  the removal of a deleted document's sidecar fails.     *)
(***************************************************************************)
AllCoincidences == {"evictUse", "flushFlush", "coldJoin", "toolFlush",
                    "toolTool", "staleBody", "deleteLive", "failFlatten",
                    "failEvict", "failDelete"}

ASSUME TasksAssumption ==
    /\ IsFiniteSet(Clients) /\ IsFiniteSet(Flushers) /\ IsFiniteSet(Agents)
    /\ Clients \intersect Flushers = {} /\ Clients \intersect Agents = {}
    /\ Flushers \intersect Agents = {}
ASSUME SettingsAssumption ==
    Binary \in BOOLEAN /\ Paged \in BOOLEAN /\ Coincide \subseteq AllCoincidences
ASSUME BoundsAssumption ==
    /\ Removals \subseteq 1..MaxEdits
    /\ MaxEdits \in Nat /\ MaxHandles \in Nat /\ MaxFails \in Nat
    /\ MaxRestarts \in Nat /\ MaxDeletes \in Nat

VARIABLES
    json,      \* docs/<id>.json and its index entry: [ver, edits]; ver 0 = none
    sidecar,   \* docs/<id>.ydoc: [there, ver, edits]
    tomb,      \* is the id in deleted_ids?
    registered,\* the handle in DocRegistry.docs, 0 = none
    hydrated,  \* handles built so far
    edits,     \* per handle: the edits its Y.Doc holds
    dirty,     \* per handle: DocHandle.dirty
    page,      \* per handle: DocHandle.page_id, as the removals behind it
    joined,    \* per client: current_doc_id is this document
    pc,        \* per task: program point
    cont,      \* per task: where it goes on after a hydration or a flush
    held,      \* per task: the handle it has a reference to, 0 = none
    buf,       \* per task: the files it has read, or is about to write; of a
               \* tool that has saved, the edit it has yet to push
    made,      \* edits made so far
    accepted,  \* ghost: the edits the document should hold
    buried,    \* ghost: the edits of the deleted document
    fails, restarts, deletes

store    == <<json, sidecar>>
registry == <<registered, hydrated, edits, dirty, page>>
control  == <<pc, cont, held, buf>>
ghosts   == <<made, accepted, buried>>
bounds   == <<fails, restarts, deletes>>
vars     == <<store, tomb, registry, joined, control, ghosts, bounds>>

Edits     == 1..MaxEdits
Handles   == 1..MaxHandles
NoSidecar == [there |-> FALSE, ver |-> 0, edits |-> {}]
NoJson    == [ver |-> 0, edits |-> {}]
NoFiles   == [json |-> NoJson, sidecar |-> NoSidecar]

Listed == json.ver # 0

Init ==
    /\ json = [ver |-> 1, edits |-> {}] /\ sidecar = NoSidecar /\ tomb = FALSE
    /\ registered = 0 /\ hydrated = 0
    /\ edits = [h \in Handles |-> {}]
    /\ dirty = [h \in Handles |-> FALSE]
    /\ page = [h \in Handles |-> {}]
    /\ joined = [c \in Clients |-> FALSE]
    /\ pc = [t \in Tasks |-> "idle"]
    /\ cont = [t \in Tasks |-> "idle"]
    /\ held = [t \in Tasks |-> 0]
    /\ buf = [t \in Tasks |-> NoFiles]
    /\ made = 0 /\ accepted = {} /\ buried = {}
    /\ fails = 0 /\ restarts = 0 /\ deletes = 0

-----------------------------------------------------------------------------
(* Program points and the coincidences an instance leaves out. *)

FlushPoints   == {"take", "encode", "writeBin", "flatten", "persist"}
HydratePoints == {"readJson", "readSidecar", "ensure"}
ColdPoints    == {"coldRead", "coldSave", "coldWrite"}
ToolPoints    == ColdPoints \union {"push"}

InFlush(t) == pc[t] \in FlushPoints \ {"take"}
Leaving(t) == pc[t] \in {"check", "evict"} \/ cont[t] = "evict"
Using(t)   == pc[t] \in {"apply", "mark"}

Apart(kind, other) == kind \in Coincide \/ ~\E t \in Tasks : other[t]

NoEviction == Apart("evictUse", [t \in Tasks |-> Leaving(t)])
NoAgent    == Apart("evictUse", [t \in Tasks |-> t \in Agents /\ pc[t] # "idle"])
NoPush     == Apart("evictUse", [t \in Tasks |-> pc[t] = "push"])
NoUse      == Apart("evictUse", [t \in Tasks |-> Using(t)])
NoFlush    == Apart("flushFlush", [t \in Tasks |-> InFlush(t)])
NoTool     == Apart("toolFlush", [t \in Tasks |-> pc[t] \in ToolPoints])
NoFlushing == Apart("toolFlush", [t \in Tasks |-> pc[t] \in FlushPoints])
NoWriter   == Apart("toolTool", [t \in Tasks |-> pc[t] = "coldWrite"])
NoCold     == Apart("coldJoin", [t \in Tasks |-> pc[t] \in ToolPoints])
NoHydration == Apart("coldJoin", [t \in Tasks |-> pc[t] \in HydratePoints])
Closed     == Apart("deleteLive", [t \in Tasks |->
                  pc[t] # "idle" \/ (t \in Clients /\ joined[t])])

Go(t, to) == pc' = [pc EXCEPT ![t] = to]

Goto(t, from, to) == pc[t] = from /\ Go(t, to)

\* A task that is done forgets its handle and its buffers.
Done(t) ==
    /\ Go(t, "idle")
    /\ cont' = [cont EXCEPT ![t] = "idle"]
    /\ held' = [held EXCEPT ![t] = 0]
    /\ buf' = [buf EXCEPT ![t] = NoFiles]

NextEdit == made < MaxEdits /\ made' = made + 1

\* The next edit enters the document.
NewEdit == NextEdit /\ accepted' = accepted \union {made + 1}

-----------------------------------------------------------------------------
(* JOIN_DOC *)

\* is_deleted, then get_metadata; the read permission is granted.
JoinGate == ~tomb /\ Listed

\* handle_join_doc up to replacing current_doc_id.
Join(c) ==
    /\ JoinGate /\ NoEviction /\ NoCold
    /\ ~joined[c]
    /\ Goto(c, "idle", "readJson")
    /\ joined' = [joined EXCEPT ![c] = TRUE]
    /\ UNCHANGED <<store, tomb, registry, cont, held, buf, ghosts, bounds>>

\* get_document, for a join or for a frame that found no handle.
ReadJson(t) ==
    /\ Listed
    /\ Goto(t, "readJson", "readSidecar")
    /\ buf' = [buf EXCEPT ![t].json = json]
    /\ UNCHANGED <<store, tomb, registry, joined, cont, held, ghosts, bounds>>

\* A body that cannot be read is not fatal: the join is answered without a
\* state vector, the frame is forwarded to the peers unapplied.
ReadFails(t) ==
    /\ pc[t] = "readJson" /\ Done(t)
    /\ \/ ~Listed /\ UNCHANGED fails
       \/ fails < MaxFails /\ fails' = fails + 1
    /\ UNCHANGED <<store, tomb, registry, joined, ghosts, restarts, deletes>>

\* load_ydoc_binary
ReadSidecar(t) ==
    /\ Goto(t, "readSidecar", "ensure")
    /\ buf' = [buf EXCEPT ![t].sidecar = IF Binary THEN sidecar ELSE NoSidecar]
    /\ UNCHANGED <<store, tomb, registry, joined, cont, held, ghosts, bounds>>

\* Is the sidecar's tag older than the body it was found beside?
Stale(files) == files.sidecar.there /\ files.sidecar.ver < files.json.ver

\* hydrate_doc and overlay_stale_json: a sidecar that is not stale wins; over
\* a stale one the JSON is laid as edits, and the JSON wins.
Content(files) ==
    IF files.sidecar.there /\ ~Stale(files) THEN files.sidecar.edits
                                            ELSE files.json.edits

\* What the next hydration from the volume yields.
Durable == Content([json |-> json, sidecar |-> sidecar])

\* activePageId of a body: which page that is depends on the pages deleted so
\* far, so it stands for itself.
OpensOn(body) == body.edits \intersect Removals

\* DocRegistry::ensure: the resident handle, or a new one hydrated from what
\* this task read.  A join then sends SyncStep1; a frame goes on to be applied.
Ensure(t) ==
    /\ pc[t] = "ensure"
    /\ registered = 0 => hydrated < MaxHandles
    /\ IF registered # 0
       THEN UNCHANGED registry
       ELSE /\ registered' = hydrated + 1
            /\ hydrated' = hydrated + 1
            /\ edits' = [edits EXCEPT ![hydrated + 1] = Content(buf[t])]
            /\ dirty' = [dirty EXCEPT ![hydrated + 1] = Stale(buf[t])]
            /\ page' = [page EXCEPT ![hydrated + 1] = OpensOn(buf[t].json)]
    /\ Go(t, cont[t])
    /\ cont' = [cont EXCEPT ![t] = "idle"]
    /\ held' = [held EXCEPT ![t] = IF cont[t] = "apply" THEN registered' ELSE 0]
    /\ buf' = [buf EXCEPT ![t] = NoFiles]
    /\ UNCHANGED <<store, tomb, joined, ghosts, bounds>>

-----------------------------------------------------------------------------
(* SYNC *)

\* handle_sync: the gates of a write frame.
Sync(c) ==
    /\ joined[c] /\ ~tomb /\ Listed
    /\ Goto(c, "idle", "find")
    /\ UNCHANGED <<store, tomb, registry, joined, cont, held, buf, ghosts,
                   bounds>>

\* The registry lookup; a frame that finds no handle hydrates one.
Find(c) ==
    /\ pc[c] = "find" /\ NoPush /\ NoCold
    /\ IF registered # 0
       THEN Go(c, "apply") /\ held' = [held EXCEPT ![c] = registered]
            /\ UNCHANGED cont
       ELSE Go(c, "readJson") /\ cont' = [cont EXCEPT ![c] = "apply"]
            /\ UNCHANGED held
    /\ UNCHANGED <<store, tomb, registry, joined, buf, ghosts, bounds>>

\* process_sync_message: the update is integrated in one transaction.
Apply(t) ==
    /\ Goto(t, "apply", "mark")
    /\ NewEdit
    /\ edits' = [edits EXCEPT ![held[t]] = @ \union {made + 1}]
    /\ UNCHANGED <<store, tomb, registered, hydrated, dirty, page, joined,
                   cont, held, buf, buried, bounds>>

\* A frame without an update, or one that brings nothing new.
ApplyNothing(t) ==
    /\ pc[t] = "apply" /\ Done(t)
    /\ UNCHANGED <<store, tomb, registry, joined, ghosts, bounds>>

\* Mutant of Mark: the dirty flag is left alone.
MarkForgotten(t) ==
    /\ pc[t] = "mark" /\ Done(t)
    /\ UNCHANGED <<store, tomb, registry, joined, ghosts, bounds>>

\* The dirty flag is set after the transaction; then the frame is broadcast.
Mark(t) ==
    /\ pc[t] = "mark" /\ Done(t)
    /\ dirty' = [dirty EXCEPT ![held[t]] = TRUE]
    /\ UNCHANGED <<store, tomb, registered, hydrated, edits, page, joined,
                   ghosts, bounds>>

-----------------------------------------------------------------------------
(* snapshot_doc *)

\* snapshot_all, or a handler that flushes before it reads: a resident handle.
Flush(t) ==
    /\ registered # 0 /\ NoTool
    /\ Goto(t, "idle", "take")
    /\ held' = [held EXCEPT ![t] = registered]
    /\ UNCHANGED <<store, tomb, registry, joined, cont, buf, ghosts, bounds>>

\* The end of snapshot_doc: an eviction goes on, any other caller is done.
Flushed(t) ==
    /\ Go(t, cont[t])
    /\ cont' = [cont EXCEPT ![t] = "idle"]
    /\ held' = [held EXCEPT ![t] = 0]
    /\ buf' = [buf EXCEPT ![t] = NoFiles]

\* take_dirty: read and clear; a clean handle needs no flush.
Take(t) ==
    /\ pc[t] = "take" /\ NoFlush /\ NoTool
    /\ IF dirty[held[t]]
       THEN /\ Go(t, IF Binary THEN "encode" ELSE "flatten")
            /\ dirty' = [dirty EXCEPT ![held[t]] = FALSE]
            /\ UNCHANGED <<cont, held, buf>>
       ELSE Flushed(t) /\ UNCHANGED dirty
    /\ UNCHANGED <<store, tomb, registered, hydrated, edits, page, joined,
                   ghosts, bounds>>

\* The version the sidecar is tagged with, 0 if the document is not listed.
Tag == json.ver

\* encode_binary: the state of this moment.
Encode(t) ==
    /\ Goto(t, "encode", "writeBin")
    /\ buf' = [buf EXCEPT ![t].sidecar =
                  [there |-> TRUE, ver |-> Tag, edits |-> edits[held[t]]]]
    /\ UNCHANGED <<store, tomb, registry, joined, cont, held, ghosts, bounds>>

\* persist_ydoc_binary, for a listed and for a deleted document alike.
WriteBin(t) ==
    /\ Goto(t, "writeBin", "flatten")
    /\ sidecar' = buf[t].sidecar
    /\ UNCHANGED <<json, tomb, registry, joined, cont, held, buf, ghosts,
                   bounds>>

\* A store write fails before anything is replaced; "failEvict" says whether an
\* eviction's may.
StoreFails(t) ==
    /\ cont[t] = "evict" => "failEvict" \in Coincide
    /\ fails < MaxFails
    /\ fails' = fails + 1

\* Mutant of Remarked: a failed flush leaves the handle clean.
RemarkedNot(t) == dirty

\* mark_dirty after a failed write, "will retry".
Remarked(t) == [dirty EXCEPT ![held[t]] = TRUE]

\* The write failed: the handle is marked again and the JSON half still runs.
WriteBinFails(t) ==
    /\ StoreFails(t)
    /\ Goto(t, "writeBin", "flatten")
    /\ dirty' = Remarked(t)
    /\ UNCHANGED <<store, tomb, registered, hydrated, edits, page, joined,
                   cont, held, buf, ghosts, restarts, deletes>>

\* The divergence guard: the stored body opens on another page than the one the
\* handle was hydrated from, because that page is gone.
Diverged(h) == OpensOn(json) # page[h]

Flattens(t) == Paged /\ Listed /\ ~Diverged(held[t])

\* get_document and flatten_into: the body gets the handle's content.
Flatten(t) ==
    /\ Goto(t, "flatten", "persist")
    /\ Flattens(t)
    /\ buf' = [buf EXCEPT ![t].json.edits = edits[held[t]]]
    /\ UNCHANGED <<store, tomb, registry, joined, cont, held, ghosts, bounds>>

\* Without a page, a body or a match the JSON half is left out, "leaves `dirty`
\* cleared".
FlattenSkips(t) ==
    /\ pc[t] = "flatten" /\ Flushed(t)
    /\ \/ ~Flattens(t) /\ UNCHANGED fails
       \/ "failFlatten" \in Coincide /\ fails < MaxFails /\ fails' = fails + 1
    /\ UNCHANGED <<store, tomb, registry, joined, ghosts, restarts, deletes>>

\* persist_snapshot "is never a create path".
PersistGate == Listed

\* persist_snapshot: the body is replaced and keeps the listed version.
Persist(t) ==
    /\ pc[t] = "persist" /\ PersistGate
    /\ json' = [ver |-> IF Listed THEN json.ver ELSE 1,
                edits |-> buf[t].json.edits]
    /\ Flushed(t)
    /\ UNCHANGED <<sidecar, tomb, registry, joined, ghosts, bounds>>

\* The write failed or the document is gone: marked for the next tick.
PersistFails(t) ==
    /\ pc[t] = "persist"
    /\ \/ ~PersistGate /\ UNCHANGED fails
       \/ StoreFails(t)
    /\ dirty' = Remarked(t)
    /\ Flushed(t)
    /\ UNCHANGED <<store, tomb, registered, hydrated, edits, page, joined,
                   ghosts, restarts, deletes>>

-----------------------------------------------------------------------------
(* Disconnect, or a switch to another document *)

\* The client leaves the table, or its current_doc_id is replaced.
Leave(c) ==
    /\ joined[c] /\ NoAgent
    /\ Goto(c, "idle", "check")
    /\ joined' = [joined EXCEPT ![c] = FALSE]
    /\ UNCHANGED <<store, tomb, registry, cont, held, buf, ghosts, bounds>>

\* Mutant of StillUsed: the client table is not consulted.
StillUsedIgnored == FALSE

\* Does a client in the table have the document open?
StillUsed == \E c \in Clients : joined[c]

\* evict_doc_if_unused: the table is read once; a resident handle is flushed
\* before it is dropped.
Check(c) ==
    /\ pc[c] = "check"
    /\ \/ StillUsed /\ Done(c)
       \/ /\ ~StillUsed /\ registered # 0
          /\ Go(c, "take")
          /\ cont' = [cont EXCEPT ![c] = "evict"]
          /\ held' = [held EXCEPT ![c] = registered]
          /\ UNCHANGED buf
       \/ /\ ~StillUsed /\ registered = 0
          /\ Go(c, "evict")
          /\ UNCHANGED <<cont, held, buf>>
    /\ UNCHANGED <<store, tomb, registry, joined, ghosts, bounds>>

\* DocRegistry::evict: whatever handle is registered by now.
Evict(c) ==
    /\ pc[c] = "evict" /\ Done(c)
    /\ registered' = 0
    /\ UNCHANGED <<store, tomb, hydrated, edits, dirty, page, joined, ghosts,
                   bounds>>

-----------------------------------------------------------------------------
(* MCP tools *)

\* write_shape_live_or_json, write_prose_page_checked: a resident handle is
\* written like a frame is.
WriteLive(a) ==
    /\ registered # 0 /\ NoEviction /\ NoPush
    /\ Goto(a, "idle", "apply")
    /\ held' = [held EXCEPT ![a] = registered]
    /\ UNCHANGED <<store, tomb, registry, joined, cont, buf, ghosts, bounds>>

\* What a tool that writes the JSON finds, unless something coincides.
ToolGate == made < MaxEdits /\ NoEviction /\ NoHydration /\ NoFlushing
BodyWhole == "staleBody" \in Coincide \/ json.edits = Durable

\* The same tools write a document that is not resident through the JSON.
WriteCold(a) ==
    /\ registered = 0 /\ ToolGate /\ BodyWhole
    /\ Goto(a, "idle", "coldRead")
    /\ UNCHANGED <<store, tomb, registry, joined, cont, held, buf, ghosts,
                   bounds>>

\* The tools for the page lists and the title save the JSON first, whether or
\* not the document is resident, and push the change to the handle afterwards.
WritePage(a) ==
    /\ ToolGate /\ (registered # 0 \/ BodyWhole)
    /\ Goto(a, "idle", "coldRead")
    /\ cont' = [cont EXCEPT ![a] = "push"]
    /\ UNCHANGED <<store, tomb, registry, joined, held, buf, ghosts, bounds>>

\* mutate_with_retry reads the body and the version to expect ...
ColdRead(a) ==
    /\ Listed
    /\ Goto(a, "coldRead", "coldSave")
    /\ buf' = [buf EXCEPT ![a].json = json]
    /\ UNCHANGED <<store, tomb, registry, joined, cont, held, ghosts, bounds>>

\* Mutant of Expected: the save is unconditional.
ExpectedIgnored(a) == TRUE

Expected(a) == buf[a].json.ver = json.ver

\* ... the save checks, under the read lock, that it is still the version ...
ColdCheck(a) ==
    /\ ~tomb /\ Expected(a) /\ NoWriter
    /\ Goto(a, "coldSave", "coldWrite")
    /\ UNCHANGED <<store, tomb, registry, joined, cont, held, buf, ghosts,
                   bounds>>

\* On a version conflict the tool reads again.
ColdRetry(a) ==
    /\ ~tomb /\ ~Expected(a)
    /\ Goto(a, "coldSave", "coldRead")
    /\ UNCHANGED <<store, tomb, registry, joined, cont, held, buf, ghosts,
                   bounds>>

\* ... and writes without it, whatever the document is by then.
SaveBody(a) ==
    /\ pc[a] = "coldWrite" /\ NextEdit
    /\ json' = [ver |-> buf[a].json.ver + 1,
                edits |-> buf[a].json.edits \union {made + 1}]

\* The write of a closed document is the end of the call.
ColdWrite(a) ==
    /\ cont[a] = "idle" /\ SaveBody(a) /\ Done(a)
    /\ accepted' = accepted \union {made + 1}
    /\ UNCHANGED <<sidecar, tomb, registry, joined, buried, bounds>>

\* A page tool remembers what it has changed.
PageWrite(a) ==
    /\ cont[a] = "push" /\ SaveBody(a) /\ Go(a, "push")
    /\ cont' = [cont EXCEPT ![a] = "idle"]
    /\ buf' = [buf EXCEPT ![a].json = [ver |-> json'.ver, edits |-> {made + 1}]]
    /\ UNCHANGED <<sidecar, tomb, registry, joined, held, accepted, buried,
                   bounds>>

\* The document is gone, the attempts are used up, or a call fails.
ColdFails(a) ==
    /\ pc[a] \in ColdPoints /\ Done(a)
    /\ \/ /\ tomb \/ ~Listed \/ made = MaxEdits \/ (pc[a] = "coldSave" /\ ~Expected(a))
          /\ UNCHANGED fails
       \/ fails < MaxFails /\ fails' = fails + 1
    /\ UNCHANGED <<store, tomb, registry, joined, ghosts, restarts, deletes>>

\* Has the tool deleted the page that the resident handle was hydrated from?
DeletedPage(a) ==
    /\ buf[a].json.edits \subseteq Removals
    /\ page[registered] = OpensOn(json) \ buf[a].json.edits

\* broadcast_canvas_page_meta and its like read the page from the JSON again; if
\* it is there, the resident handle gets it.
Push(a) ==
    /\ registered # 0 /\ buf[a].json.edits \subseteq json.edits
    /\ ~DeletedPage(a)
    /\ Goto(a, "push", "mark")
    /\ held' = [held EXCEPT ![a] = registered]
    /\ edits' = [edits EXCEPT ![registered] = @ \union buf[a].json.edits]
    /\ accepted' = accepted \union buf[a].json.edits
    /\ UNCHANGED <<store, tomb, registered, hydrated, dirty, page, joined, cont,
                   buf, made, buried, bounds>>

\* Nothing is pushed to a closed document, or if the page is not found.  Either
\* way the tool answers that its change is made.
PushNothing(a) ==
    /\ registered = 0 \/ ~(buf[a].json.edits \subseteq json.edits)
    /\ pc[a] = "push" /\ Done(a)
    /\ accepted' = accepted \union buf[a].json.edits
    /\ UNCHANGED <<store, tomb, registry, joined, made, buried, bounds>>

\* delete_canvas_page evicts a handle hydrated from the deleted page, without a
\* flush: like a restart, it loses what is not on the volume.
PushEvicts(a) ==
    /\ registered # 0 /\ DeletedPage(a) /\ NoUse
    /\ pc[a] = "push" /\ Done(a)
    /\ registered' = 0
    /\ accepted' = (accepted \union buf[a].json.edits) \intersect Durable
    /\ UNCHANGED <<store, tomb, hydrated, edits, dirty, page, joined, made,
                   buried, bounds>>

-----------------------------------------------------------------------------
(* Deletion, re-creation, restart *)

\* Mutant of LeftSidecar: the sidecar stays behind.
SidecarKept == sidecar

LeftSidecar == NoSidecar

\* DELETE /api/docs/:id: the files, the entry, the tombstone.  A sidecar that
\* cannot be removed is left behind.  The registry is not told.
Delete ==
    /\ Listed /\ Closed
    /\ deletes < MaxDeletes
    /\ deletes' = deletes + 1
    /\ json' = NoJson /\ tomb' = TRUE
    /\ \/ sidecar' = LeftSidecar /\ UNCHANGED fails
       \/ /\ "failDelete" \in Coincide /\ fails < MaxFails
          /\ fails' = fails + 1
          /\ UNCHANGED sidecar
    /\ accepted' = {} /\ buried' = 1..made
    /\ UNCHANGED <<registry, joined, control, made, restarts>>

\* PUT with overrideTombstone=true by the owner.
Recreate ==
    /\ tomb /\ ~Listed /\ Closed
    /\ NewEdit
    /\ tomb' = FALSE
    /\ json' = [ver |-> 1, edits |-> {made + 1}]
    /\ UNCHANGED <<sidecar, registry, joined, control, buried, bounds>>

\* The relay dies and starts again: what is on the volume is what is left.
Restart ==
    /\ restarts < MaxRestarts
    /\ restarts' = restarts + 1
    /\ registered' = 0
    /\ joined' = [c \in Clients |-> FALSE]
    /\ pc' = [t \in Tasks |-> "idle"]
    /\ cont' = [t \in Tasks |-> "idle"]
    /\ held' = [t \in Tasks |-> 0]
    /\ buf' = [t \in Tasks |-> NoFiles]
    /\ accepted' = accepted \intersect Durable
    /\ UNCHANGED <<store, tomb, hydrated, edits, dirty, page, made, buried,
                   fails, deletes>>

-----------------------------------------------------------------------------

HydrateStep(t) ==
    ReadJson(t) \/ ReadFails(t) \/ ReadSidecar(t) \/ Ensure(t)

EditStep(t) == Apply(t) \/ ApplyNothing(t) \/ Mark(t)

FlushStep(t) ==
    \/ Take(t) \/ Encode(t) \/ WriteBin(t) \/ WriteBinFails(t)
    \/ Flatten(t) \/ FlattenSkips(t) \/ Persist(t) \/ PersistFails(t)

ClientStep(c) ==
    \/ Join(c) \/ Sync(c) \/ Leave(c)
    \/ HydrateStep(c) \/ Find(c) \/ EditStep(c)
    \/ Check(c) \/ FlushStep(c) \/ Evict(c)

FlusherStep(t) == Flush(t) \/ FlushStep(t)

AgentStep(a) ==
    \/ WriteLive(a) \/ EditStep(a)
    \/ WriteCold(a) \/ WritePage(a)
    \/ ColdRead(a) \/ ColdCheck(a) \/ ColdRetry(a) \/ ColdFails(a)
    \/ ColdWrite(a) \/ PageWrite(a)
    \/ Push(a) \/ PushNothing(a) \/ PushEvicts(a)

Next ==
    \/ \E c \in Clients : ClientStep(c)
    \/ \E t \in Flushers : FlusherStep(t)
    \/ \E a \in Agents : AgentStep(a)
    \/ Delete \/ Recreate \/ Restart

Spec == Init /\ [][Next]_vars

\* The sweeper ticks for ever, and a handler that was entered runs to its end.
Fairness ==
    /\ \A t \in Flushers : WF_vars(FlusherStep(t))
    /\ \A c \in Clients : WF_vars(pc[c] # "idle" /\ ClientStep(c))
    /\ \A a \in Agents : WF_vars(pc[a] # "idle" /\ AgentStep(a))

LiveSpec == Spec /\ Fairness

-----------------------------------------------------------------------------
(* Properties *)

Points == FlushPoints \union HydratePoints \union ToolPoints \union
          {"idle", "find", "apply", "mark", "check", "evict"}

JsonType    == [ver : Nat, edits : SUBSET Edits]
SidecarType == [there : BOOLEAN, ver : Nat, edits : SUBSET Edits]

StoreOK == json \in JsonType /\ sidecar \in SidecarType /\ tomb \in BOOLEAN

RegistryOK ==
    /\ registered \in 0..MaxHandles /\ hydrated \in 0..MaxHandles
    /\ edits \in [Handles -> SUBSET Edits]
    /\ dirty \in [Handles -> BOOLEAN]
    /\ page \in [Handles -> SUBSET Removals]

TasksOK ==
    /\ joined \in [Clients -> BOOLEAN]
    /\ pc \in [Tasks -> Points]
    /\ cont \in [Tasks -> {"idle", "apply", "evict", "push"}]
    /\ held \in [Tasks -> 0..MaxHandles]
    /\ buf \in [Tasks -> [json : JsonType, sidecar : SidecarType]]

CountsOK ==
    /\ made \in 0..MaxEdits /\ accepted \subseteq Edits /\ buried \subseteq Edits
    /\ fails \in Nat /\ restarts \in Nat /\ deletes \in Nat

\* Every variable keeps the type its Rust counterpart has.
TypeOK == StoreOK /\ RegistryOK /\ TasksOK /\ CountsOK

\* What a flush that has taken the dirty flag is still carrying to the volume.
Carried == UNION {edits[held[t]] : t \in {u \in Tasks : InFlush(u)}}

\* What a client would be served now: the resident handle, else the volume.
Served == IF registered # 0 THEN edits[registered] ELSE Durable \union Carried

\* An edit the relay has accepted is never lost while the relay runs: it is in
\* the handle every client is served, or in what the next one is built from.
\* What delete_canvas_page drops with the handle counts as lost to a restart.
EditsKept == accepted \subseteq Served

\* take_dirty is loss-safe: a clean handle that nobody is flushing or marking
\* has everything it holds on the volume, where a restart finds it.
CleanIsDurable ==
    registered # 0 /\ ~dirty[registered] =>
        \/ edits[registered] \subseteq Durable
        \/ \E t \in Tasks : held[t] = registered /\ (InFlush(t) \/ pc[t] = "mark")

\* A tombstoned document does not come back through a flush: proved in
\* DocSession_proofs, also for "deleteLive", where the other invariants fail.
DeletedStaysGone == tomb => ~Listed

\* A re-created document does not pick up the edits of the one it replaces.
NothingUnearthed == Listed => Served \intersect buried = {}

\* A frame is applied to the handle that everyone else is served from.
WritesReachAll ==
    \A t \in Tasks : Using(t) => held[t] = registered

\* A tool that has passed the version check of its save still writes on top of
\* everything the stored body holds, although the check and the write are apart.
ColdReadIsCurrent ==
    \A a \in Agents : pc[a] = "coldWrite" => json.edits \subseteq buf[a].json.edits

\* Readers of the JSON body (REST, previews, publish, agents) see what the
\* session holds, once its handle is clean and nobody is flushing or changing
\* it, unless the page the document opened on has been deleted.
JsonCurrent ==
    registered # 0 /\ Listed /\ ~dirty[registered]
        /\ edits[registered] \intersect Removals = {} =>
        \/ json.edits = edits[registered]
        \/ \E t \in Tasks : held[t] = registered /\ (InFlush(t) \/ pc[t] = "mark")
        \/ \E t \in Tasks : pc[t] \in ToolPoints

\* Every edit of a document that stays listed ends up on the volume, or was
\* lost to a restart.
EditsReachDisk ==
    \A e \in Edits : e \in accepted ~> (e \in Durable \/ e \notin accepted)

Log == INSTANCE EditLog WITH accepted <- accepted, durable <- Durable

\* The sessions implement the promise about accepted and durable edits.
ImplementsEditLog == Log!Spec
=============================================================================
