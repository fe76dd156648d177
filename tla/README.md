# Verification of DocuShark

DocuShark is a local-first diagram and document editor with a self-hosted
synchronisation server, the *relay*. The client (TypeScript, `src/src/`) keeps
documents in the browser's storage, edits a shared document through a Yjs CRDT
session over a WebSocket, and saves relay documents through a REST API. The
relay (Rust, `src/relay/`) keeps documents on a volume, mirrors them to an
object store, hosts the authoritative Y.Doc of every open document, and lets AI
agents edit the same documents through MCP tools.

This directory holds TLA+ models of the parts of that system where timing,
failure and order matter, TLC runs that check them on small instances, and
theorems checked by TLAPS for every value of the constants.

1. [Inventory](#1-inventory) - the parts of the system
2. [Plan](#2-plan) - what is done and what comes next
3. [Modules](#3-modules) - how the models correspond to the code
4. [Runs](#4-runs) - what each run checks, bounds, fairness
5. [Theorems](#5-theorems) - what is proved, and how
6. [What the code does otherwise than it says](#6-what-the-code-does-otherwise-than-it-says)
7. [Limits](#7-limits) - what is only model-checked, what is left out

Paths below are relative to `src/`: `relay/src/...` is the relay, `src/...` the
client.

## 1. Inventory

### Relay

| Component | State | Operations | Interacts with |
|---|---|---|---|
| Document store, `relay/src/server/documents.rs` | files `<id>.json`, `<id>.ydoc`, `index.json`, `deleted-ids.json`; in memory the index, the tombstones, a `CacheState` per document | save with or without an expected version, `persist_ydoc_binary`, `persist_snapshot`, `delete_document`, `clear_tombstone`, `install_restored_doc`, `evict_doc_files` | called by REST, sessions and tools; feeds the mirror channel |
| Document mirror and cold recovery, `relay/src/server/mod.rs`, `blob_backend/s3.rs` | the channel, the worker, the R2 objects | upload, delete, confirm, startup backfill, eviction when over budget, restore by id, recovery of a lost volume | the document store |
| Live sessions, `relay/src/server/mod.rs`, `sync/mod.rs`, `sync/protocol.rs` | `DocRegistry` (id -> `DocHandle`: Y.Doc, dirty flag), the client table | JOIN_DOC, SYNC, AWARENESS, disconnect, the snapshot sweeper, eviction of handles | the document store; the clients; the tools |
| Hydration and flattening, `sync/hydration.rs`, `sync/flatten.rs`, `sync/binary.rs`, `sync/decode_guard.rs` | none | sidecar or JSON to Y.Doc, Y.Doc to JSON | live sessions |
| Prose conversion, `sync/prose_*.rs` | none | HTML to and from Yjs XML | hydration, tools |
| MCP tools, `mcp/tools.rs`, `mcp/transport.rs`, `mcp/adapter.rs`, `mcp/local_mirror.rs` | per call | write through the live handle, or read-modify-write of the JSON with retries | live sessions, the document store |
| Diagram layout and routing, `mcp/layout`, `mcp/route.rs` | none | layering, ordering, orthogonal routes | MCP tools |
| Blob store, `server/blobs.rs`, `server/blob_backend/` | content-addressed bytes, grants per workspace, references per document, an orphan ledger, usage | upload, grant, reference on save, sweep after a grace period, quota | document store, REST, mirror worker |
| Connections and limits, `server/mod.rs` | client table, slots per workspace, session expiry, rate limiters, broadcast channels | AUTH, register, forward, disconnect | live sessions |
| Chunked frames, `server/chunk.rs` | per connection: partial frames | begin, part, end, expire | live sessions |
| REST API, `api.rs` | none | documents, transfers, recovery points, blobs, collections, style profiles, publishing, usage | all of the above |
| Permissions, `server/permissions.rs` | shares, ownership | resolve a role | REST, sessions, tools |
| Publishing and registries, `server/publish.rs`, `server/style_profiles.rs`, collections | one version-gated file per workspace | read, replace at an expected version | REST, mirror worker |
| Authentication, `auth/` | key cache, revocations | validate a token | connections, REST |
| Process, `main.rs`, `config.rs`, `observability.rs` | configuration | start, stop, metrics | - |

### Client

| Component | State | Operations | Interacts with |
|---|---|---|---|
| Saving and the offline queue, `src/collaboration/OfflineQueue.ts`, `SyncStateManager.ts`, `src/storage/SyncQueueStorage.ts`, `src/store/persistenceStore.ts`, `relayDocumentStore.ts` | localStorage bodies, `RelayDocumentCache`, the queue and its IndexedDB copy, the status of a replay | save, push or queue, persist, load, replay for a host, reattach after a restart | relay REST API; the connection |
| Collaboration session, `collaborationStore.ts`, `UnifiedSyncProvider.ts`, `useCollaborationSync.ts`, `ensureCollabSession.ts`, `YjsDocument.ts` | socket, authentication, provider, Y.Doc, binding to the page store | connect, AUTH, join, sync, heartbeat, reconnect with backoff, adopt | relay sessions |
| Assets, `BlobSyncService.ts`, `BlobStorage.ts`, `BlobGarbageCollector.ts`, `AssetBundler.ts` | upload queue, usage counts, bytes in IndexedDB | store, count, collect, upload with retries | relay blob store |
| Transfer and cache, `DocumentTransferService.ts`, `DocumentCacheManager.ts`, `RelayDocumentCache.ts`, `TrashStorage.ts` | cached bodies, trash | move a document between personal space and relay in two phases, roll back | saving, assets |
| Workspace registries, `documentRegistry.ts`, `collectionSync.ts`, `styleProfileStore.ts`, `connectionStore.ts` | lists of documents, collections, profiles, connections | merge, push at a version | relay registries |
| Editor state, `documentStore.ts`, `pageStore.ts`, `sessionStore.ts`, `historyStore.ts`, `CanvasUndoController.ts` | the open document, undo stacks | edit, undo, redo | session |
| Canvas engine, user interface, desktop shell | - | rendering, geometry, dialogs | - |

### What is hard, and what would make it correct

The relay runs on a multi-threaded asynchronous runtime. Its maps are locked per
access and no lock is held across an operation, so a save, a snapshot, a
deletion, an eviction and a tool's write interleave at every lock release. The
client is single-threaded, but nearly every operation awaits a request or a
database, and the world may have changed when it goes on. Both sides stop at any
moment and start from what they wrote. The behaviours that tests hardly reach:

* **Store.** Body, index, tombstone, cache entry and mirror are written in
  separate steps. Correct means: a write that was reported survives eviction
  and restart; a version is given out once; what is deleted stays deleted; R2
  has what the evictor removes.
* **Sessions.** The handle, its dirty flag, the client table and the two files
  are read and written under different locks. Correct means: every accepted
  edit is in what the next client is served; a clean handle is on disk; every
  writer writes to the handle the others read; an open document stays resident;
  a deleted document is not written back, nor its edits unearthed.
* **Offline saves.** A save may be in localStorage, in flight, queued, in
  IndexedDB and on the relay at once, in different revisions. Correct means: the
  relay never goes back to an older revision, the newest is never forgotten and
  arrives, and it goes to the relay the document belongs to.
* **Blobs.** References, grants and bytes are guarded by three locks, and the
  bytes are removed by a worker. Correct means: what a saved document uses can
  be read; what is granted is backed by bytes; what was released goes.
* **Connections.** Slots taken and returned must match; a frame goes only to who
  may read it; a client that stops reading must not stop the others; a lapsed
  token ends its session.
* **The link.** Sockets die silently, frames are dropped, timers overlap with
  answers. Correct means: every edit crosses, in both directions, or the editor
  knows that it has given up; it never edits on a state the relay has moved on
  from, and never holds two sockets.
* **Registries.** The version gate must let one of two writers through; what was
  confirmed stays; a reconcile must not undo what the user did meanwhile.
* **Canvas pages.** The page store, the view, the Y.Doc and the relay each hold
  a page's shapes. Correct means: pages do not mix, drawings survive every
  adopt and handoff, and what was erased stays erased.
* **Permissions.** No share raises a viewer above reading; none lowers anyone.
* **Transfers.** A document must exist on at least one side at every moment, and
  end on exactly one.

`PROJECT.json` lists 25 components with what is modelled of each, and 40 hazards,
each at the line where it bites; 37 have properties that cover them, the others
say why they have none.

## 2. Plan

The order is by how much a user loses when the behaviour goes wrong.

| | Module | Question | State |
|---|---|---|---|
| 1 | `DocRegister`, `DocStore` | Does a reported write survive? | done; theorems `TypeCorrect`, `MirrorNeverLeads`, `ReportedSurvives`, `StoreIsRegister`, `IndexKeepsUp`, `DeletedStays`, `HydratesFresh` |
| 2 | `EditLog`, `DocSession` | Does an accepted edit survive? | done; theorems `TypeCorrect`, `AcceptedKept`, `CleanOnDisk`, `JsonKeepsUp`, `SessionsImplementLog` and others |
| 3 | `OfflineSave` | Does a save reach its relay, in order? | done but for the version-checked push on connect; theorems `TypeCorrect`, `SavesStayHome`, `ArrivesInOrder`, `NewestKept` |
| 4 | `BlobStore` | Can what a document uses be read, and does what is released go? | done but for the quota in bytes; theorems `TypeCorrect`, `UsedStaysReadable`, `BooksAgree`, `GrantsBacked` |
| 5 | `Permissions`, `Gateway` | Who may connect, and who is sent what? | done; theorems on the resolver, `TypeCorrect`, `JoinedServed`, `SlotsAndLimits` |
| 6 | `SyncLink` | Does every edit cross the connection? | done for one editor and one document, fragments included; theorems `TypeCorrect`, `LinkCoherent` |
| 7 | `Collections` | Do concurrent changes of a registry survive? | done for collections; theorems `TypeCorrect`, `ConfirmedSurvives`, `CreatedSurvives` |
| 8 | `CanvasPages` | Do pages and Y.Doc agree? | done for canvas pages; theorems `TypeCorrect`, `PagesStayApart`, `ViewFollows`, `PagesAgree`, `ErasedStays`, `DrawingsKept` |
| 9 | `ColdRecovery` | mirrors of index and tombstones, a lost volume, recovery points | open; `BlobStore` and `Collections` model their part of a lost volume |
| 10 | `BlobSync`, `Transfer` | upload queue with retries; two-phase transfer with rollback | open |
| 11 | `Undo`, `Layering` | undo stacks across pages; layers and orders of a diagram | open |

Each module has named `ASSUME`s on its constants, one action per step, an
invariant made of named parts, and no `RECURSIVE` operator, so that it can be
proved about. Each component has one passing run that asks its main questions
together, two where the instances differ; a run that shows a disagreement is
kept only where a line of the repository says otherwise, for the two that
concern users most. The others are in section 6, with how to reproduce them.

Proofs worth doing next: a specification of a registry that `Collections` refines, in
the manner of `DocRegister`; and the refinement of `EditLog` with clients and tools in a relay that restarts,
which needs a model of `overlay_stale_json` finer than a choice between two files.

## 3. Modules

```
DocRegister <- DocStore (INSTANCE) <- MCDocStore, DocStore_proofs
EditLog     <- DocSession (INSTANCE) <- MCDocSession, DocSession_proofs
OfflineSave <- MCOfflineSave, OfflineSave_proofs
BlobStore   <- MCBlobStore, BlobStore_proofs
Permissions <- Gateway <- MCGateway, Gateway_proofs
SyncLink    <- MCSyncLink, SyncLink_proofs
Collections <- MCCollections, Collections_proofs
CanvasPages <- MCCanvasPages, CanvasPages_proofs
```

`Gateway` composes the resolver of `Permissions` with the connections that ask
it. `DocStore` implements `DocRegister`, and `DocSession` implements `EditLog`. The other modules meet at interfaces that
each states for itself: what `SyncLink` calls the relay's Y.Doc is what
`DocSession` keeps; what `OfflineSave` calls a relay's copy is what `DocStore`
saves unconditionally; a save or a flush of `BlobStore` is one of `DocStore` or
`DocSession`, reduced to whether the body uses the blob; `CanvasPages` sees the
connection of `SyncLink` as complete handshakes and losses.

Several modules have a constant `Coincide`. It names coincidences that nothing
in the code prevents. An instance that leaves one out keeps its two sides apart
by a guard and shows what holds while the timing is kind; adding it shows what
breaks. Section 6 says what each one breaks.

### DocStore - one document on the relay's volume and in R2

Code: `relay/src/server/documents.rs`, the mirror worker and the evictor in
`relay/src/server/mod.rs`.

| Model | Code |
|---|---|
| `body`, `sidecar` | `<id>.json`, `<id>.ydoc`: a serverVersion and the number of the write whose content they hold; 0 is an absent file |
| `index`, `indexFile` | the entry in the in-memory index, and in `index.json` |
| `tomb` | membership in `deleted_ids`, memory and file |
| `localGen`, `mirrorGen`, `present` | `CacheState` |
| `queue`, `worker`, `remote` | mirror channel, the operation in the worker's hands, the R2 objects |
| `evictor` | the pass of `evict_cold_docs_if_over_budget` |
| `unflushed` | ghost: the last attempt to write `index.json` failed |
| `pc`, `ver`, `src`, `cond` | program point and locals of a task inside an operation |
| `acked`, `wins`, `writes` | ghosts: last reported write, versions won by conditional saves, writes begun |

A task runs one of the operations of `Ops`; each step is one lock hold, one file
operation or one object request. `SaveBegin`..`NoteWrite` is
`save_document_with_expected_version`, `SnapBegin`..`NoteWrite` the two halves of
`snapshot_doc` seen from the store, `Delete*` `delete_document`, `OverrideBegin`
an owner's save with `overrideTombstone`, `Restore*` `ensure_doc_local`.
`WorkerTake`, `WorkerRead`, `WorkerPut`, `WorkerDelete`, `WorkerFail` is
`run_doc_mirror_worker`, which reads the file when it processes an entry and
not when it was queued. `Restart` rebuilds the memory from the files and queues
the backfill.

`Overlap` says whether an eviction pass or a restore may run while a task is
inside another operation. Nothing keeps them apart in the code (section 6);
instances with `Overlap = FALSE` show what holds otherwise. `Flaky` says whether
writes and removals of files may fail (`FileFails`): the operation answers with an
error and leaves what it has done so far, among others a memory ahead of `index.json`.

Left out: other documents (operations on two documents share only `index.json`,
whose flush writes the whole map under a lock, which `FlushIndex` keeps), mirror
operations for index and tombstones and the loss of the volume (open in the
plan), expiry of tombstones, the recovery ring, the divergence and poison
guards of a snapshot, blobs. `OverrideBegin` merges `clear_tombstone` with the
tombstone gate behind it; `RestoreFetch` merges its fences with the GET.
`SaveRefuse` stands for every refusal that writes nothing: conflict, size, quota.

### DocRegister - the promise of the store

The content of a document is a register. A write is open between its request and the
moment it takes effect or is withdrawn; from the first answer on, what is read is a
write that took effect, and no older than the last one answered. Deleting ends the
promise. Five actions: `Request`, `Withdraw`, `TakeEffect`, `Answer`, `Discard`; there
is none for the mirror, the evictor, a restore or a restart, which only withdraws what
was open. `DocStore!ImplementsRegister` maps it: a write that has not replaced the body is
open, the content is the body or, while it is evicted, R2's.

### EditLog - the promise of a session

An accepted edit stays in the document; what is on disk stays on disk; a restart
loses only accepted edits that were not on disk; a deletion discards everything.
Four actions: `Accept`, `Flush`, `Crash`, `Discard`.

### DocSession - the live sessions of one document

Code: `handle_join_doc`, `handle_sync`, `hydrate`, `snapshot_doc`, `snapshot_all`,
`evict_doc_if_unused`, disconnect in `relay/src/server/mod.rs`; `DocRegistry` and
`DocHandle` in `relay/src/sync/mod.rs`; the write tools of `relay/src/mcp/tools.rs`;
the delete handler of `relay/src/api.rs`.

| Model | Code |
|---|---|
| `json`, `sidecar`, `tomb` | the files and the tombstone; content is a set of edits, a CRDT merge is a union |
| `registered`, `hydrated`, `edits`, `dirty`, `page` | the registry entry, and per handle its Y.Doc, its dirty flag and the page it was hydrated for (`DocHandle.page_id`); handles are numbered so that a task can hold one the registry has dropped |
| `joined` | `current_doc_id` in the client table |
| `pc`, `cont`, `held`, `buf` | per connection, sweeper or agent: program point, where it returns to, the handle it has a reference to, what it has read |
| `accepted`, `buried`, `made` | ghosts: the edits the document should hold, those of the deleted document, edits made |

Join: `Join`, `ReadJson`, `ReadSidecar`, `Ensure`. Frame: `Sync`, `Find`, `Apply`,
`Mark` (the update is integrated, and only then is the flag set). Flush: `Take`
(read and clear the flag), `Encode`, `WriteBin`, `Flatten`, `Persist`, with
failures that set the flag again; `FlattenSkips` are the early returns of
`snapshot_doc`, which leave the flag cleared and the JSON as it was: no page, a body
that cannot be read, a body that opens on another page than the handle was hydrated
for. Disconnect: `Leave`, `Check` (the table is read once), a flush, `Evict`
(whatever is registered by then). Agents write through the handle (`WriteLive`), or
into the JSON of a closed document (`WriteCold`, `ColdRead`, `ColdCheck`,
`ColdWrite`, `ColdRetry`: the version is checked in one step and the body written in
another), or into the JSON and then the handle, be it open or not (`WritePage`,
`PageWrite`, `Push`; `PushEvicts` is `delete_canvas_page`). `Delete`, `Recreate`,
`Restart`.

`Paged` says whether the body names a page it opens on, `Removals` which edits delete
that page. `Coincide`: `evictUse`, `flushFlush`, `coldJoin`, `toolFlush`, `toolTool`,
`staleBody`, `deleteLive`, `failFlatten`, `failEvict`, `failDelete`, each explained in
the module; section 6 says what each one breaks.

Left out: the content of pages, shapes and prose; `overlay_stale_json` is
"the JSON wins over a stale sidecar"; the poison and decode guards;
recovery points; rate limits and permissions (granted); awareness. The gates of
a join are merged with setting `current_doc_id`. A plain REST save while a session
is open is `DocStore`'s. `Restart` intersects the ghost `accepted` with what the
volume holds: edits within the snapshot interval may be lost, as `EditLog` says.

### OfflineSave - the saves of one relay document by one editor

Code: `src/store/persistenceStore.ts` (`saveDocument`, `pushRelaySaveOrQueue`,
`reattachAwaitingRelayDocument`), `src/store/relayDocumentStore.ts` (`saveToHost`,
`loadRelayDocument`), `src/collaboration/OfflineQueue.ts`, `SyncStateManager.ts`,
`src/storage/SyncQueueStorage.ts`, the status listener and the on-connect chain.

| Model | Code |
|---|---|
| `local`, `cached`, `copy` | revision in localStorage, in the `RelayDocumentCache`, and on each relay; a revision is the content of one `saveDocument` |
| `link`, `provider` | the authenticated connection; the module variable `docProvider`, which outlives it |
| `requests` | calls of `saveToHost`: uploading assets, sent, stored |
| `queue`, `clock` | `OfflineQueue.queue`, one operation per document, tagged with its home relay |
| `loaded`, `unwritten`, `disk` | has `initialize` finished; writes to IndexedDB under way; its records |
| `running`, `batch` | `processing`, and the operations the replay has yet to send |
| `chain`, `reattach`, `fetched` | the on-connect chain and the reattachment of the document after a start |
| `told` | revisions the user was told were refused for good |

A step is what runs between two awaits. `Dispatch` is separate from `Save`
because assets are uploaded in between; `Store` is separate from `Answer`, so an
answer can be lost after the relay stored the body. `Save`s carry no expected
version: the relay takes each one as it arrives, as `DocStore`'s unconditional
save does.

`Coincide`: `pushOverPending`, `queueOverPush`, `leftRecords`, `lostWrite`,
`beforeLoad`, `switchInFlight`.

Left out: other documents of the store (the queue holds at most one operation of
each, and they do not touch one another but for the order of a replay); the
document is the one last opened and not in a live session, where `saveDocument`
would not push; queued deletions (nothing in the source queues one); retry counts,
badges and notifications; `syncCurrentDocToRelayOnConnect`, the version-checked
push. The cache write is taken together with the queueing that follows it,
IndexedDB is assumed to load, and overlapping on-connect chains are one chain.

### BlobStore - one blob, its grants, references and bytes

Code: `relay/src/server/blobs.rs`, its callers in `relay/src/api.rs`, the snapshot,
the sweeper, the object-delete and ledger workers and the recovery of a volume in
`relay/src/server/mod.rs`.

| Model | Code |
|---|---|
| `mode` | the backend (files or S3), `blob_gc_grace_secs`, the workspace of each document |
| `body` | per document, whether its saved body uses the blob |
| `refs`, `acl`, `aclFile` | `doc_refs`; `acls` in memory and in `blob_acl.json` |
| `index`, `bytes` | the index entry and its age; the places that hold the bytes: one file, or an object per workspace |
| `orphan`, `deletes` | `orphaned_at`/`orphaned_objects_at`; the channel of object deletions |
| `ledger`, `dirty`, `known`, `cold` | the mirrored ledger, the workspaces in its channel, `blob_recovery_done`, bodies that are in the bucket only |
| `pc`, `job`, `todo`, `buf` | per request, flush or sweep: program point, the document and what it is to become, expired orphans left, the grants about to be written |

`Begin`, `Probe`, `PutBytes`, `Grant`, `WriteAcl`, `Abandon` are an upload or a
finalize and the document that follows it; `BeginWrite`, `Store`, `SyncRefs`,
`Release`, `Revoke`, `Collect`, `DeleteBlob` a save, flush or deletion and
what it releases, a flush or a live attachment recording the references before the body
(`add_doc_ref`); `Sweep`, `Reclaim`, `Recheck`, `Forget` the sweeper; `Stop`,
`Restart`, `LoseVolume`, `Recover`, `Reopen` restarts with and without the volume.

`Load` is `ensure_blob_bookkeeping`: the recovery of the ledger on the first request of
a workspace, which does nothing where an upload has left a grant (`Bookkept`).

`Coincide`: `regrant`, `finalize`, `found`, `sameDoc`, `saveSave`, `crash`,
`coldUpload`. Each alone breaks `UsedIsReadable`; all but `found` break `BooksBalance`;
`regrant`, `finalize` and `crash` break `GrantIsBacked`.

Left out: sizes, usage and the quota, media types, presigned URLs and guests'
access. An upload that is abandoned leaves its grant, as in the code, until a
restart finds nobody refers to it.

### Permissions, Gateway - who is connected, and who is sent what

Code: `relay/src/server/permissions.rs`; `handle_socket` and the handlers it
calls in `relay/src/server/mod.rs`.

`Permissions` is the resolver as a function: the highest of the grants a user
has by ownership, share and workspace role, capped by that role. `Gateway`
asks it at every join, read and write.

| Model | Code |
|---|---|
| `pc` | what the task of a connection is about to do; it handles one frame to the end |
| `token`, `place` | `ClientState`: the identity of the last AUTH, `current_workspace_id` and `current_doc_id` |
| `left` | ghost: the documents it left while frames were on their way to it |
| `slot`, `counts` | the slot a task holds before it is in the table; `workspace_client_counts` |
| `want`, `old` | the document being joined; the one being left, to be checked for participants |
| `out`, `cast`, `carry` | the channel of the client, the broadcasts its forwarding task has yet to receive, the frame it waits to send |
| `resident`, `meta`, `lapsed` | documents in the sync registry, their metadata, tokens revoked or expired |

The clients table has one read-write lock. `send_to_client` waits for room in a
channel with the read lock in hand: `pc` is then `blocked`, and `Writers` wait.
`Scan` and `Evict` are the two halves of `evict_doc_if_unused`; `Recheck` is the
periodic look at the token, `Break` and `Leave` the end of a connection.

`Coincide`: `reauth` (the client of this repository authenticates once per
socket, the relay allows it twice) and `unshare` (a share is withdrawn while its
holder is connected).

Left out: the content of frames, AWARENESS, the limiter's arithmetic, limits per
address, metrics.

### SyncLink - the connection between one editor and the relay

Code: `src/collaboration/UnifiedSyncProvider.ts` and the calls
`collaborationStore.ts` makes of it; `handle_auth`, `handle_join_doc`,
`handle_sync`, `handle_sync_chunk` and the forwarding task in
`relay/src/server/mod.rs`; `relay/src/server/chunk.rs`.

| Model | Code |
|---|---|
| `local`, `doc` | the Y.Docs of editor and relay as sets of edits |
| `sock`, `status`, `authed`, `synced`, `attempts` | `this.ws`, `_status`, `authenticated`, `synced`, `reconnectAttempts`; a socket may be dead without anyone knowing |
| `timer`, `resync`, `watchdog`, `pong`, `echoes` | the timers and `heartbeatSupported` |
| `token`, `asked`, `cancelled` | is the editor's token good; has a refused AUTH asked for another; has the user cancelled, and nothing lifted it |
| `size` | of each edit of this editor, up to one more than `Ceiling` |
| `old`, `orphan` | a socket `disconnect()` closed that has not reported it yet; a socket nobody refers to |
| `up`, `down` | frames under way |
| `session`, `joined`, `base`, `fwd`, `queue`, `part` | the relay's end: authenticated, `current_doc_id`, what the relay had at the join, the forwarding task and its broadcasts, buffered fragments |

An update of more than `FrameCap` goes in two fragments, the first and the last; the
relay takes one of at most `Ceiling` (64 fragments) and only logs what is larger
(`Buffers`, `Reassembled`). The rate limiter may refuse any write with RATE_LIMITED.
Other editors' edits arrive as `PeerEdit`.

A cancel is lifted by `Retry`: the user's own reconnect, and `clearReconnectTerminal`,
which the code calls when the network returns, the app wakes or the user signs in. The
refreshed token of `RefreshAndRetry` lifts nothing; that it connects all the same
if the user cancels meanwhile is the coincidence `cancelRefresh`.

`Coincide`: `lag`, `slow`, `cancelOpening`, `cancelRefresh`, `staleClose`.

Left out: switching and deleting documents, the viewer's role, awareness.
`requestSync` has no caller and no action.

### Collections - the registry of a workspace's collections

Code: `src/store/collectionSync.ts`, `collectionStore.ts`; `set_collections` and
the restore of the registry in `relay/src/server/documents.rs`,
`ensure_workspace_collections_local` in `relay/src/server/mod.rs`, the handlers
in `relay/src/api.rs`.

| Model | Code |
|---|---|
| `store`, `unconfirmed` | the editor's definitions, `unconfirmedWorkspaceDefIds` |
| `chain`, `phase`, `again`, `got` | the editor's chain of jobs, where the first one is, its second attempt, what its GET returned and its PUT carries |
| `fetched` | what the relay has read of the mirror for a request on a cold machine |
| `reg`, `file`, `mirror`, `dirty` | the registry in memory, its file, its copy in the bucket, a queued upload |
| `signedIn` | has the editor a session in the workspace |
| `typed`, `creator`, `confirmed`, `removed`, `dropped` | ghosts; `dropped` is what its creator had when its session ended |

`Gate` is the part of `set_collections` under the lock, `Write` what follows it.
`StopSession` drops the workspace's definitions and what is unconfirmed, and leaves
queued jobs to run: a push without a provider returns silently, a reconcile goes on.

`Coincide`: `renameDuring`, `twoRestores`, `probeFails`, `mirrorLag`, `forgets`,
`reload`.

Left out: which documents are in a collection; style profiles and publishing
records, which use the same gate.

### CanvasPages - pages, view, Y.Doc and relay

Code: `src/store/pageStore.ts`, `documentStore.ts`,
`src/collaboration/useCollaborationSync.ts`, `YjsDocument.ts`,
`ensureCollabSession.ts`.

| Model | Code |
|---|---|
| `pages`, `kept`, `active`, `view`, `pending` | `pageStore.pages` and their committed shapes, `activePageId`, `documentStore.shapes`, the pages made offline |
| `session`, `provider`, `online` | none, started, adopted; is there a connection to wait for; is the handshake complete |
| `bound`, `rebind` | the page the bridge observes and writes; is the rebind effect due |
| `surface`, `list` | the Y.Doc: shapes per page, the page list |
| `room`, `roomList`, `base`, `baseList` | the same on the relay, and what both had when they last agreed |
| `home`, `erased`, `mine` | ghosts: where a shape was drawn, what was erased, what this editor drew |
| `made`, `gone` | ghosts: the pages this editor made until someone deletes them; pages deleted |

The Y.Doc merges per key: `Merge` keeps what both have and what either added
since they last agreed. `AdoptLocally` and `Sync` are the two ways a Y.Doc is
adopted, without a connection and at the end of the handshake, the second with
the handoff of what was made offline. Both apply the page list of the Y.Doc before
anything else, so that the handoff (`Handed`) carries what is left of the pages marked
as pending, with their content as last committed.

`Coincide`: `beforeRebind`, `editUnadopted`, `moveUnadopted`, `emptied`,
`duplicateShared`, `unmarked`, `uncommitted`, `adoptPending`.

Left out: undo, prose pages, references and fields, the camera. `Reopen` assumes
the document was saved.

## 4. Runs

| Run | Instance | Shows |
|---|---|---|
| `store_lifecycle` | 1 task: save, snapshot, delete, override, restore, evict; 3 writes, 1 failed transfer, 1 restart, files may fail to be written or removed (`Flaky`) | a document's life, with worker, evictor and restart anywhere: `DeletedStaysGone`, `IndexFlushed` |
| `store_concurrent` | 2 tasks: save, snapshot, restore, evict; 2 writes, 1 restart, files can be written | overlapping writers: `EvictableMirrored`, `ImplementsRegister`, `IndexFlushed`, and under fairness `MirrorCatchesUp` |
| `session_turns` | 2 clients, sweeper; 3 edits, the second deletes the page the document opens on, 2 handles, 1 failed write or flatten (`failFlatten`), 1 restart, 1 deletion | `EditsKept`, `CleanIsDurable`, `WritesReachAll`, `NothingUnearthed`, `ImplementsEditLog` |
| `session_agents` | 1 client, sweeper, 2 agents with all three kinds of tools; 3 edits, the second a deletion of that page, 2 handles, 1 failed write | `EditsKept`, `JsonCurrent`, `ColdReadIsCurrent`, and under fairness `EditsReachDisk` |
| `offline_replay` | 2 relays, 3 saves, 1 failed request, 1 restart | `HomeOnly`, `LatestAccounted`, `RelayNeverRegresses`, and under fairness `LatestReachesRelay` |
| `offline_left_record` | the same, restart with stale records allowed | *violation* of `RelayNeverRegresses` |
| `blob_store` | 2 documents of one workspace or two, files and S3, with and without grace; 2 requests at a time, 3 in all, 1 restart with or without the volume | `UsedIsReadable`, `BooksBalance`, and under fairness `OrphansReclaimed` |
| `gateway` | 2 connections, tokens of an editor, a viewer and a member of another workspace, 2 documents; 2 slots, channels of one frame | `LimitsHold`, `JoinedOnly`, and under fairness `LapsedLeaves`, `Served` |
| `link_sync` | 1 edit of this editor (one frame, two fragments, or over the ceiling), 1 of others; 3 troubles, 1 reconnection attempt | `Coherent`, and under fairness `EditsReachRelay`, `EditsReachEditor`, `DeadIsNoticed` |
| `collections` | 2 editors, 2 collections, 2 names, 2 changes, 1 reconcile while changes are pending, 1 trouble; sessions may end | `ConfirmedStays`, `CreatedKept`, `RenamePushed`, and under fairness `Converges` |
| `canvas_pages` | 3 pages, 2 shapes, 2 lost connections or restarts | `PagesApart`, `ViewFollowsSurface`, `DrawnIsKept`, `ErasedStaysErased`, `PagesShared` |
| `canvas_unadopted` | the same with 1 loss; the editor may change page before the Y.Doc is adopted | *violation* of `PagesApart` |

Every property is stated in words above its definition. Every property of a
passing run is also checked to fail when a definition of the model is changed
the way a plausible bug would change the code ("mutants" in `PROJECT.json`).

**Why the bounds are enough to be of interest.** Every hazard in the list is an
order of two or three events around one document, blob, socket or registry: a
stale read needs one other writer, a stale file two writes, a stale replay two
saves and a restart, an overtaken version three writes. The bounds give every run
at least that, and a failure or restart at any point, so every action fires in
states where it matters; the violations found need fewer.
*Sessions*: two clients are enough for a joiner and a leaver, and a third meets
the same handle; with `MaxHandles = 2` a handle can be dropped and rebuilt.
*Store*: with a failed transfer `MirrorCatchesUp` does not hold (section 6), so
`store_concurrent` has none, and `store_lifecycle` has one.
*Blobs*: a release needs two documents, one of each workspace or both of one;
three operations are an upload, its release and a second upload.
*Gateway*: one client that does not read and one that is waited for; a channel
of one frame is full when a second comes. *Link*: three troubles are a loss, another
one during the recovery, and one after it. *Registries*: a conflict needs two changes;
three changes and three collections were also checked for `ConfirmedStays`
(4 million states, one name). *Pages*: two pages are moved between and a
third is made meanwhile; 2 pages with 3 shapes, and 3 losses, were also checked.
Clients, pages and shapes are interchangeable, so symmetry is used where no
liveness is checked.

**Fairness.** `DocStore`: an operation that has begun runs to its end (a handler
is polled until it returns, and waits for no lock held by another operation), and
the worker drains its channel. `DocSession`: the sweeper ticks for ever, and a
handler that was entered runs to its end; no client is obliged to do anything,
and writes fail at most `MaxFails` times. `OfflineSave`: promises and timers are
run; saving, connecting and stopping are up to the user and the network, so
`LatestReachesRelay` has "the editor is connected to the home relay again and
again" as its premise. The *again* is needed by the code: an operation queued
while connected is replayed on the next connection only. `BlobStore`: requests,
sweeps and workers go on and grace periods pass; uploads and saves are up to the
clients. `SyncLink`: timers fire, the relay serves what it receives, frames
arrive while the socket lives, a closed socket reports it; a dead one is left to
the heartbeat once the relay is known to echo, and to the operating system
before that. `Collections`: requests are answered or fail, and editors reconcile
again and again, as they do on every connection. All that is weak fairness.
`Gateway` needs strong fairness for a task that waits for the lock or for its
turn, which is what a fair lock and tokio's `select!` give, and one assumption
about clients: one that is waited for reads on, or its socket fails. Nothing in the
relay sees to that; it is the operating system that gives up a dead peer.

**Deadlock** is checked in `gateway` and `collections`. The other systems may be
idle for ever, and the bounds stop them when they are used up.

## 5. Theorems

Proved by TLAPS for every value of the constants, from the named assumptions of
the modules (finite sets of connections, disjoint sets of tasks, bounds that are
naturals, `Coincide` a subset of the named coincidences, the home a relay) and
nothing else.

| Theorem | Statement | Argument |
|---|---|---|
| `DocStore_proofs!TypeCorrect` | `Spec => []TypeOK` | one lemma per part of `TypeOK`, one step per action |
| `DocStore_proofs!MirrorNeverLeads` | if `DeletesFinal` (no owner's override; with deletes, one task) and `RestoresApart` (restores only if `Overlap` is false), and if files can be written (`Flaky` is false): `Spec => []EvictableMirrored`, for any number of overlapping tasks, evictions, failed transfers and restarts | `MirrorInv` |
| `DocSession_proofs!TypeCorrect` | `Spec => []TypeOK` | needs `Disciplined`: a task at a point that uses a handle holds one |
| `OfflineSave_proofs!TypeCorrect` | `Spec => []TypeOK` | includes that what is being replayed belongs to a running replay |
| `OfflineSave_proofs!SavesStayHome` | if `"switchInFlight"` is not in `Coincide`: `Spec => []HomeOnly`, for any relays, saves, failures, restarts and any other coincidence | `RouteInv` |
| `DocStore_proofs!ReportedSurvives` | if `DeletesFinal` and `Overlap` is false: `Spec => []Durable`, for any number of overlapping tasks, evictions, restores, failed transfers, files that cannot be written or removed, and restarts | `SurvivesInv` |
| `DocStore_proofs!StoreIsRegister` | under the same premises, and if files can be written: `Spec => ImplementsRegister`, the refinement of `DocRegister` | `OwnWrites`, `PastWrites`, on `MirrorInv`, `ApartInv` and `Reported`: each step is a step of the register or a stutter |
| `DocStore_proofs!IndexKeepsUp` | `Spec => []IndexFlushed`, whatever operations overlap and whatever cannot be written | `FlushInv` |
| `DocStore_proofs!DeletedStays` | if there is at most one task: `Spec => []DeletedStaysGone` of `DocStore`, with any operations, failed transfers, failed writes and restarts | `BuriedInv` |
| `DocStore_proofs!HydratesFresh` | if there is at most one task that neither evicts nor restores, and files can be written: `Spec => []HydrateFresh` | `FreshInv`, on `ListsNewer` |
| `DocSession_proofs!SessionsImplementLog` | if `Calm` (no agents, at most `"failFlatten"` in `Coincide`, and `Binary` where a flush may skip the JSON): `Spec => ImplementsEditLog`, for any clients, flushers, failed writes, deletions, restarts | `SafeInv`: each step is a step of `EditLog` or a stutter |
| `DocSession_proofs!AcceptedKept`, `CleanOnDisk` | if `Calm`: `Spec => []EditsKept`, `Spec => []CleanIsDurable` | `SafeInv`, `GhostInv` |
| `DocSession_proofs!BuriedStays` | if neither `"deleteLive"` nor `"failDelete"` is in `Coincide`: `Spec => []NothingUnearthed`, whatever else coincides | `ClosedInv`, `ClearInv` |
| `DocSession_proofs!JsonKeepsUp` | if `Calm` and `Sure` (no `"failFlatten"`, a body with a page to open on, `MaxRestarts = 0`): `Spec => []JsonCurrent` | `SafeInv` |
| `DocSession_proofs!FlushesCreateNothing` | if there are no agents or `"deleteLive"` is not in `Coincide`: `Spec => []DeletedStaysGone` of `DocSession`, whatever else coincides | `GraveInv` |
| `OfflineSave_proofs!ArrivesInOrder` | if at most `"lostWrite"` and `"switchInFlight"` are in `Coincide`: `Spec => RelayNeverRegresses`, for any number of saves, failures and restarts | `OrderInv` |
| `OfflineSave_proofs!NewestKept` | if `Coincide` is empty: `Spec => []LatestAccounted` | `KeptInv`, on `OrderInv` |
| `BlobStore_proofs!TypeCorrect` | `Spec => []TypeOK` | one group of variables at a time |
| `BlobStore_proofs!GrantsBacked` | if none of `"regrant"`, `"finalize"`, `"coldUpload"` is in `Coincide`, and, should the relay restart, neither `"saveSave"` nor `"crash"`: `Spec => []GrantIsBacked`, on either backend, for any settings, documents, stops and lost volumes | `Backed` |
| `BlobStore_proofs!BooksAgree` | if at most `"found"` is in `Coincide`: `Spec => []BooksBalance` | `Booked`, on `Backed` |
| `BlobStore_proofs!UsedStaysReadable` | if `Coincide` is empty: `Spec => []UsedIsReadable` | `Kept`, on `Booked` |
| `Gateway_proofs!ViewerCeiling` | a viewer of the workspace may write to nothing, whatever it owns and whatever is shared with it | the cap |
| `Gateway_proofs!WorkspaceOwnerManages` | a workspace owner may manage every document | the highest grant |
| `Gateway_proofs!NoIdentityNoAccess` | without an identity nothing is read; the relay's own credential may manage everything | - |
| `Gateway_proofs!SharesOnlyGrant` | another share lowers nobody's permission, and enforcing ownership raises nobody's | monotonicity of the highest |
| `Gateway_proofs!TypeCorrect` | `Spec => []TypeOK` | includes that a channel holds at most `Room` frames |
| `Gateway_proofs!SlotsAndLimits` | if `"reauth"` is not in `Coincide`: `Spec => []LimitsHold`, for any finite set of connections, tokens, documents, shares and limits | counters and cardinalities |
| `Gateway_proofs!JoinedServed` | if neither is in `Coincide`: `Spec => []JoinedOnly` | `AllOrderly`, `AllOurs`: a reader stays one, and what is on its way is of a document the connection is in, or left with frames still to read |
| `SyncLink_proofs!TypeCorrect` | `Spec => []TypeOK` | nothing is under way without an open socket |
| `SyncLink_proofs!LinkCoherent` | if none of `"cancelOpening"`, `"cancelRefresh"`, `"staleClose"` is in `Coincide`: `Spec => []Coherent`, for any edits, losses, lapsed tokens and retries, a lagging relay and late fragments | `LinkInv` |
| `Collections_proofs!TypeCorrect` | `Spec => []TypeOK` | - |
| `Collections_proofs!ConfirmedSurvives` | if none of `"twoRestores"`, `"probeFails"`, `"mirrorLag"`, `"forgets"` is in `Coincide`: `Spec => []ConfirmedStays`, for any editors, collections, failures and restarts | `KeepInv` |
| `Collections_proofs!CreatedSurvives` | under the same premises, and if `"reload"` is not in `Coincide` either: `Spec => []CreatedKept`, until the session of its creator ends | `OwnInv`, on `KeepInv` |
| `CanvasPages_proofs!TypeCorrect` | `Spec => []TypeOK` | with the state of the session, on which the bridge depends |
| `CanvasPages_proofs!PagesStayApart`, `ViewFollows` | if neither `"beforeRebind"` nor `"moveUnadopted"` is in `Coincide`: `Spec => []PagesApart` and `Spec => []ViewFollowsSurface`, for any pages, shapes, peers and losses, and any other coincidence | `Apart`, `Follows` |
| `CanvasPages_proofs!PagesAgree` | if none of `"emptied"`, `"unmarked"`, `"editUnadopted"` is in `Coincide`: `Spec => []PagesShared`, whatever else coincides | `FateInv`, on `ListInv` |
| `CanvasPages_proofs!ErasedStays` | if none of `"beforeRebind"`, `"moveUnadopted"`, `"editUnadopted"` is in `Coincide`: `Spec => []ErasedStaysErased` | `EraseInv`, on `HandInv`, `Apart`, `Follows` |
| `CanvasPages_proofs!DrawingsKept` | if at most `"emptied"` and `"unmarked"` are in `Coincide`: `Spec => []DrawnIsKept` | `DrawnInv`, on `HandInv`, `Apart`, `Follows` |

* **`MirrorInv`.** `EvictableMirrored` is not inductive: a confirmation may be in
  the worker's hands. The invariant says that generations are captured in order
  (confirmed, carried by the worker, current), that a worker that carries the
  current generation carries the current body, that a confirmed current
  generation means R2 has the current body, and that a listed or cached document
  has had a generation. Only then is "the generation is captured *before* the file
  is read" (`documents.rs:1093`) seen to be what makes the evictor's comparison
  sound. A deletion that is overridden, and a restore that overlaps a save, break it
  (section 6), hence the premises.
* **`RouteInv`.** A request reads `docProvider` when its assets are uploaded. The
  invariant says that requests and replays exist only while `docProvider` is the
  home relay, that connection and chain are those of `docProvider`, that what was
  sent was sent home, and that every operation, queued, being written or in
  IndexedDB, is tagged with the home relay.
* **`SurvivesInv`.** `Durable` must hold although a write may reach the body, fail before it
  is listed, and never get a generation of its own, so that `MirrorInv` is not there to build
  on. What holds is about what was reported: the body, or R2 while it is evicted,
  has it (`Reported`); a current generation, carried by the worker or confirmed,
  covers it; and from the choice of a victim until the body is back, R2 does (`Covered`,
  `Backed`), for no operation runs meanwhile (`EvictsAlone`, `RestoresAlone`, from
  `Overlap = FALSE`). A document is no longer promised once its deletion has begun, also
  if a restart or a failing removal cuts it short.
* **The register.** The store maps to `DocRegister` by what a reader gets: the body or,
  while it is evicted, R2's. A write is open until it replaces the body. The steps that
  move bodies about (upload, eviction, restore, restart) must stutter, and `MirrorInv`,
  `ApartInv` and `Reported` say that they do: R2 has the victim's body when it is removed,
  the worker carries nothing older than what was evicted, and a restore installs what R2 has. What is left is that a write takes effect once and not
  after its answer: every task has a write number of its own (`OwnWrites`), and what
  the bodies hold on the volume, in R2 and in the worker's hands is not open any more
  (`PastWrites`). `Durable` only bounds what is read from below; the register says
  which writes it may be.
* **`FlushInv`.** The index file is the index, a flush is due, or the last one failed
  (`unflushed`); as a flush writes the whole map as it is then, interleaved flushes do no
  harm, and one that succeeds makes up for one that failed.
* **`BuriedInv`, `ListsNewer`.** With one task, a tombstone is written last, when both
  entries are gone, and whatever starts afterwards looks at it first; a task that is
  about to list a version has read the current one. Neither survives a second
  task: with overlaps both properties are violated (section 6).
* **`FreshInv`.** Of body and sidecar the one with the higher version has the newest write; it
  does not survive a restore, which pairs R2's older body with the newer sidecar (section 6).
* **`SafeInv`.** No accepted edit is lost because the contents of handle, sidecar and JSON
  are ordered: what is durable is within what was accepted, and that is what the resident
  handle holds (`Whole`). A flush writes no less than is there (`Grows`), and,
  unless the handle was marked since, all of it (`Carries`); hence a clean handle is on
  the volume when the last flush ends (`Clean`) and may be dropped. To keep that,
  a task must hold the registered handle and flush alone (`HandleInv`), a
  resident document must have someone who has it open and be listed
  (`PresenceInv`), and a hydration must not start from files that have changed since
  they were read (`FileInv`). `SessionInv` gives the
  first of these: whoever is joining or handling a frame is in the client table, and
  once an eviction has found nobody in it, nobody enters until it is over. A
  flush that skips the JSON leaves the edits in the sidecar, which is why `Calm` asks for
  `Binary` then; that a JSON on another page only lags and never holds what the handle
  lacks is `Opened`, and that it lags only then is `JsonWhole`. Each part rests on a
  coincidence excluded by `Calm`. Tools write the JSON and the handle in two steps, and with
  restarts break the property (section 6, `sync/mod.rs:297`); with them it is
  model-checked only.
* **`GraveInv`.** A tool that has passed the version check and has yet to write the body finds no
  tombstone. Without tools it is the tombstone alone that keeps flushes from listing.
* **`ClosedInv`, `ClearInv`.** That a re-created document is free of the deleted one needs
  much less than `SafeInv`. Whatever coincides, a handle stays registered only while
  somebody has the document open (`Attended`), so a deletion that finds it closed
  finds no handle, and no task with one in its hands that is still registered. What is
  buried is then nowhere: not in the files, not in a registered handle, not in what a
  task is about to write (`ClearInv`).
* **`OrderInv`, `KeptInv`.** `RelayNeverRegresses` speaks of two states and follows from
  what is under way: whatever is still to be stored is not older than what is stored.
  To keep that, at most one operation waits, in the queue or, before the load, in
  IndexedDB, and it is the newest revision; a push goes with nothing older; a replay
  sends one operation. Each fact rests on a coincidence that is excluded:
  `pushOverPending` and `queueOverPush` on the second, `leftRecords` on the first at a
  restart. A lost write and a switch to another relay lose a save or take it elsewhere, but
  bring no older one back, so `OrderInv` does without them. `LatestAccounted` needs in addition that a cached or fetched body which is
  the newest is stored or waits, for a reattachment discards the local copy when it is
  not newer than the body, and that what is queued is in IndexedDB or on its way there.
* **`LinkInv`.** That a synced document contains what the relay had at the join
  depends on frames: a SyncStep1 says no more than the editor has, and an answer
  to it, with what the editor has by then, covers what the relay had. Edits only
  grow, so both facts outlive the frames before them. That no socket is
  forgotten depends on an abandoned one having been opened, on nothing having
  begun since, and on an echo being awaited only on a socket. That a cancelled editor stays
  without one depends on no token being refreshed for it (`Unasked`).
* **`KeepInv`.** A version stands for one content: whoever has read version v,
  an editor before its PUT, the file, the mirror, a restore under way, has what
  the registry has while it is at v. With the gate comparing versions only, this is
  what makes its verdict one about contents. The coincidences that break it
  break the theorem; `forgets` was found by the proof, which could not be closed
  while a version could be given out twice.
* **`OwnInv`.** An editor that created a collection has it among what it
  has still to confirm, or the relay has confirmed it, and then (`KeepInv`) what the
  editor reads at its next reconcile has it: so whichever way a reconcile takes, the
  collection stays. A session that ends takes what its creator had with it (`dropped`), and
  what its jobs still do hydrates a store that no longer has it.
* **BlobStore.** The invariant has three layers, each with the premises its theorems
  need: `Backed` (bytes, grants, files and ledgers) for uploads that keep apart from
  removals and find their books loaded, `Booked` (references) for one write of a document at a time, `Kept` (reliance)
  for `Coincide = {}`. `Apart`: while the bytes of an upload wait for their grant nobody is on
  the way to removing them. `Grants`: what is granted is backed, nobody who relies on a
  grant meets a release of it, and a releaser about to revoke has read an age that still
  holds. `Recorded`: where references and body of a document differ, one task is on the
  way to putting it right, and there is one per document. `Saved` and `Mirrored` say the
  same of `blob_acl.json` and of the ledgers, and `Lost` of a workspace whose volume is
  gone: its ledger says what its documents use. Together they make a stop between requests
  harmless, so that the next start, which goes by the files, neither takes a grant nor
  forgets a reference (`RestartStep`, `LoseVolumeStep`). The proof showed that an upload
  to objects must count as one while it reclaims expired orphans, too, after its bytes
  were put: the guards of `"regrant"` had left that window open.
* **Gateway.** `SlotsAndLimits`: a connection that changes its token moves from one
  set of a workspace to another, and the counters, which are natural numbers, follow
  the cardinalities. The limit of an editor's token holds for the one that came in last.
  `JoinedServed`: a task knows the document it is about to leave (`old`) until it has
  looked at the table, so a resident document always has someone to drop it. For the frames
  it is `Fit`: a broadcast passes those who are in the document, and a connection that
  leaves it remembers (`left`) that some are still on their way until it has read them all.
* **CanvasPages.** `Apart`: committed, shared and shown contents are all within what
  was drawn on their page. `Follows`: the bound page is the active one unless the
  rebind effect is due. Both need the session's state (`SessionOK`): online and
  rebind imply adopted, and an adopted session observes a page. `ListInv`: while a
  replica is apart from the room, what their lists merge to is not empty, so no
  editor adopts an empty list. `FateInv`: a page the editor made is in what the lists
  merge to or marked for the handoff (`MadeStays`), a deleted one is in neither
  (`GoneStays`), and while apart both sides hold only what they agreed on (`ListsApart`).
  `HandInv`: a page that is still to be handed over is new to the room. `EraseInv`: while apart, what both
  hold of a page is what they last agreed on, so the merge can tell an erased shape from
  a new one. `DrawnInv`: every
  drawing is carried by something, the page store or the screen before a Y.Doc is
  adopted, the Y.Doc or what waits to be handed to it afterwards, and what one side
  lacks of the last agreement was erased, so that the merge takes no drawing
  for an erasure. It does not rest on `EraseInv`: content that is out of date brings
  shapes back, and loses none.


## 6. What the code does otherwise than it says

Two have a run that finds them; the lines are quoted in `PROJECT.json`.

| Run | Where | What happens |
|---|---|---|
| `offline_left_record` | `src/collaboration/SyncStateManager.ts:459` | records that were replayed or superseded are never removed from IndexedDB; after a restart they are replayed over newer content |
| `canvas_unadopted` | `src/store/pageStore.ts:333` | in a session that has not adopted its Y.Doc yet, a change of page leaves the old page's shapes on screen, and the next save commits them to the new page |

### Further disagreements

These follow from the same models. They have no run of their own; the table says
how to obtain one from a configuration in this directory.

| Where | What happens | How to see it |
|---|---|---|
| `relay/src/server/documents.rs:2311` | two saves that expect the same version are both accepted | `DocStore`: two tasks, `Ops = {"save"}`, `OneWinner` |
| `relay/src/server/mod.rs:1727` | a save that lands after the evictor has chosen its victims is removed before it was uploaded | one task, `Overlap = TRUE`, `Durable` |
| `relay/src/server/documents.rs:895` | a restore that overlaps a save writes the older body over the newer and marks it as uploaded | two tasks, `Ops = {"save", "evict", "restore"}`, `Overlap = TRUE`, `Durable` |
| `relay/src/server/mod.rs:177` | a failed upload is not retried until the next write or restart | `store_concurrent` with `MaxFails = 1`, `MirrorCatchesUp` |
| `relay/src/server/documents.rs:2374` | a save or snapshot that overlaps a deletion puts the index entry back, and the tombstone comes after | two tasks, `Ops = {"save", "snapshot", "delete"}`, `DeletedStaysGone`, `ImplementsRegister` |
| `relay/src/server/mod.rs:251` | delete, override, re-create: the cache entry still has the generation confirmed for the deleted body | one task, `Ops = {"save", "delete", "override"}`, `EvictableMirrored` |
| `relay/src/server/documents.rs:1093` | an upload of the sidecar is never confirmed: eviction may remove a sidecar newer than R2's, and a restore pairs old sidecar and new body | one task, `Ops = {"save", "snapshot", "evict"}`, `HydrateFresh` |
| `relay/src/server/documents.rs:895` | a restart cuts a deletion short after the body, before the sidecar: the restore by id lays R2's older JSON beside the newer sidecar, and a save made then gets a version that does not exceed the sidecar's tag, so a hydrate yields the older content | one task, `Ops = {"save", "snapshot", "delete", "restore"}`, `MaxWrites = 4`, `HydrateFresh` |
| `relay/src/server/documents.rs:2382` | `index.json` cannot be written after the body was replaced: the save is refused, but the body is the new one, unlisted, without a generation and never uploaded | `store_concurrent` with `Flaky = TRUE`: `EvictableMirrored`, `ImplementsRegister`, `MirrorCatchesUp` |
| `relay/src/server/mod.rs:1460` | a client that joins between the look at the client table and the eviction keeps a handle nobody else is served from; its edits are lost | `DocSession`: two clients, `MaxHandles = 3`, `Coincide = {"evictUse"}`, `EditsKept` |
| `relay/src/server/mod.rs:1567` | two overlapping flushes: the older encoding is written last, under a clean flag | two `Flushers`, `Coincide = {"flushFlush"}`, `CleanIsDurable` |
| `relay/src/server/mod.rs:1460` | the flush before an eviction fails, and the handle is dropped all the same | `Coincide = {"failEvict"}`, `EditsKept`, and with agents `JsonCurrent` |
| `relay/src/mcp/tools.rs:3772` | `delete_canvas_page` drops a handle without a flush once nobody is in the table, and with it the edits since the last one | admitted in the run: `PushEvicts` takes them out of `accepted`; without that, `EditsKept` |
| `relay/src/mcp/tools.rs:4772` | a client joins between a tool's look at the registry and its save; the session never gets the tool's edit, and its next flush overwrites it | `session_agents`, `Coincide = {"coldJoin"}`, `EditsKept` |
| `relay/src/mcp/tools.rs:3581` | a page tool saves the JSON while a flush is between reading the body and writing it: the flush writes the page away | `{"toolFlush"}`, `ColdReadIsCurrent` |
| `relay/src/server/documents.rs:2311` | two tools that read the same version both pass the check: the later body is written over the earlier tool's edit | `{"toolTool"}`, `ColdReadIsCurrent` |
| `relay/src/server/mod.rs:1612` | the page the document opens on is deleted in a session: every later flush leaves the JSON as it is, and a tool that writes it afterwards makes it win over the newer sidecar | `{"staleBody"}`, `Removals = {1}`, `EditsKept`; with `Binary = FALSE` no tool is needed: `session_turns`, `EditsKept` |
| `relay/src/api.rs:1895` | a document deleted while open and re-created is served with its old edits (it does stay deleted: `DeletedStaysGone` of `DocSession` holds) | `Coincide = {"deleteLive"}`, `NothingUnearthed` |
| `relay/src/server/documents.rs:2490` | the sidecar of a deleted document cannot be removed; the document re-created under the id is hydrated from it | `Coincide = {"failDelete"}`, `NothingUnearthed` |
| `relay/src/sync/mod.rs:297` | a restart between the two writes of a flush, with an agent's cold write in between: the overlay of the newer JSON drops the edits only the sidecar has | `session_agents` with one restart, `{"staleBody"}`, `EditsKept` |
| `src/store/relayDocumentStore.ts:806` | a save or a replay that is under way when the editor connects to another relay goes on there | `OfflineSave`: `Coincide = {"switchInFlight"}`, `HomeOnly` |
| `src/store/persistenceStore.ts:227` | a successful push leaves an older queued save of the document in the queue, to be replayed over it | `Coincide = {"pushOverPending"}`, `RelayNeverRegresses` |
| `src/store/persistenceStore.ts:281` | a push that fails late replaces a newer queued save | `Coincide = {"queueOverPush"}`, `LatestAccounted` |
| `src/collaboration/SyncStateManager.ts:155` | the application stops before a queued save is in IndexedDB, and the cached body hides from the reattachment that the relay lacks it | `Coincide = {"lostWrite"}`, `LatestAccounted` |
| `src/collaboration/SyncStateManager.ts:148` | a save queued before the queue is loaded is dropped by the load | `Coincide = {"beforeLoad"}`, `LatestAccounted` |
| `relay/src/server/blobs.rs:1139` | a finalize reclaims due objects before it grants: the deletion that "a finalize cancels" is already queued | `BlobStore`: `Coincide = {"finalize"}`, `UsedIsReadable`, `BooksBalance` |
| `relay/src/server/blobs.rs:1064` | a grant a client found, or an upload just made, is released before the document that uses it is saved, or the bytes are removed while they are uploaded again | `{"found"}` or `{"regrant"}`, `UsedIsReadable`, `BooksBalance` |
| `relay/src/server/mod.rs:2943` | an upload through the relay to a workspace whose ledger is not recovered yet grants without recovering it, and `ensure_blob_bookkeeping` then returns early (`mod.rs:903`): other documents of the workspace have lost their references | `{"coldUpload"}`, `UsedIsReadable`, `BooksBalance` |
| `relay/src/server/blobs.rs:663` | a second upload keeps the entry's `created_at`, so that what is "within its grace period" (`blobs.rs:1040`) after an upload may be due at once | `{"found"}`, `UsedIsReadable` |
| `relay/src/server/mod.rs:830` | the ledger lags when the volume is lost: references are seeded again from a restored document, the grant is not, though the comment says that it heals itself | `{"crash"}`, `UsedIsReadable` |
| `relay/src/server/mod.rs:3577` | a second AUTH takes a second slot; one with another role gives back a slot of the wrong kind | `Gateway`: `{"reauth"}`, `LimitsHold` |
| `relay/src/server/mod.rs:3246` | a member whose share is withdrawn goes on receiving the document it has joined | `{"unshare"}`, `JoinedOnly` |
| `src/collaboration/collaborationStore.ts:649` | "a WS auth rejection gets ONE silent refresh + immediate retry": `connect()` returns early, as the refused socket is still open | `SyncLink`: `RejectedIsRetried` |
| `src/collaboration/collaborationStore.ts:829` | cancelling while a socket opens schedules a reconnection; reconnecting before the abandoned socket has closed forgets the new one | `{"cancelOpening"}`, `{"staleClose"}`, `Coherent` |
| `src/collaboration/collaborationStore.ts:654` | the token that a refused AUTH asked for arrives after the user has cancelled, and connects | `{"cancelRefresh"}`, `Coherent` |
| `relay/src/server/mod.rs:3243` | a client whose broadcasts have lagged hears no more of them and is not told | `{"lag"}`, two edits in `Theirs`, `EditsReachEditor` |
| `relay/src/server/chunk.rs:65` | an update of more than 64 fragments is refused, which the relay only logs (`mod.rs:3712`): the editor, told nothing, shows the document as synced (`UnifiedSyncProvider.ts:506` says the document goes through in chunks) | `EditsReachRelay` without the condition `Fits` |
| `relay/src/server/chunk.rs:101` | a frame whose fragments are too far apart is dropped, and nobody is told | `{"slow"}`, `EditsReachRelay` |
| `relay/src/server/documents.rs:1517` | a version of the registry is read before it is on disk; the relay stops, gives it out again for other content and takes a stale push | `Collections`: 3 `Ids`, one name, `MaxChanges = 3`, `{"forgets"}`, `ConfirmedStays` |
| `relay/src/server/mod.rs:1043` | a cold machine restores the registry twice at the same time, from a bucket that does not answer, or before the mirror caught up: an acknowledged collection is gone | `{"twoRestores"}`, `{"probeFails"}`, `{"mirrorLag"}`, `ConfirmedStays` |
| `src/store/collectionSync.ts:42` | a creation whose push failed does not "re-land on the next mutation" | `Relands` |
| `src/collaboration/collaborationStore.ts:803` | a creation that was not pushed is lost when the session ends, and a push still queued then returns silently (`collectionSync.ts:100`), though "unconfirmed" definitions are to survive (`collectionSync.ts:39`); a reconcile under way fills the store of the signed-out editor | `CreatedKept` without `dropped` |
| `src/store/collectionSync.ts:281` | a rename made while a reconcile runs is undone by what it hydrates, before it is pushed; after a reload, a creation that was not pushed is pruned | `{"renameDuring"}`, `RenamePushed`; `{"reload"}`, `MaxTroubles = 2`, `CreatedKept` |
| `src/collaboration/useCollaborationSync.ts:702` | the handoff of a page made offline is "additive by shape id, so a no-op": it seeds the page as last committed, erased shapes included | admitted in the run; `ErasedStaysErased` without its exception for a page's first handoff |
| `src/collaboration/sharedDocOffline.ts:37` | a page made between AUTH and the end of the handshake, or duplicated before the adopt (`InlinePageTabs.tsx:70`, `pageStore.ts:208`), is not marked as made offline and pruned | `{"unmarked"}`, `PagesShared` |
| `src/collaboration/useCollaborationSync.ts` | edits before the adopt, drawings not yet committed, a page's content in the store only, a page duplicated in a session | `{"editUnadopted"}`, `{"uncommitted"}`, `{"adoptPending"}`, `{"duplicateShared"}`, `DrawnIsKept` |
| `src/store/pageStore.ts:452` | two editors that delete the last two pages leave an empty list, which is ignored: they no longer have the same pages | `{"emptied"}`, `PagesShared` |
| `src/store/pageStore.ts:333` | an edit between a change of page and the rebind effect goes to the page that was left | `{"beforeRebind"}`, `PagesApart` |

Some were met while reading and are in no module: two overlapping changes of
shares or ownership load, modify and save the metadata without a common lock
(`documents.rs:2608`), a save re-asserts owner and shares it read before
(`api.rs:1682`), and a transfer of ownership makes an editor of whoever asks for
it and not of the previous owner (`documents.rs:2757`).

## 7. Limits

* **Model-checked only.** The liveness properties (`MirrorCatchesUp`,
  `EditsReachDisk`, `LatestReachesRelay`, `OrphansReclaimed`, `LapsedLeaves`,
  `Served`, `EditsReachRelay`, `EditsReachEditor`, `DeadIsNoticed`, `Converges`):
  liveness under fairness is out of the prover's reach. Each
  safety property of a passing run has a theorem but `ColdReadIsCurrent` and `RenamePushed`;
  `WritesReachAll` is a part of `SafeInv`. Where a theorem has a premise (no agents,
  `Coincide`, `Overlap`, `Flaky`), instances outside it are model-checked only.
* **Stated and in no run.** `Durable`, `OneWinner`, `HydrateFresh`, `GrantIsBacked`,
  `Relands`, `RejectedIsRetried` and `DeletedStaysGone` of `DocSession`
  are what section 6 refers to or a theorem states. All but `OneWinner`, `Relands` and
  `RejectedIsRetried`, which the code violates, are proved under premises that
  exclude what section 6 shows. `TypeOK` is proved in every module that has one.
* **`Coincide = {}` is an assumption about timing,** not about the code. The
  passing runs say what the code guarantees as long as the named events do not
  coincide; the table of section 6 says what happens when they do. The theorems
  name the coincidences they exclude and allow all others.
* **One of each.** Each module follows one document, blob, connection or registry,
  `Gateway` and `CanvasPages` a few. Documents meet in the index file, the mirror
  channel, the eviction budget and the order of a replay; the first is modelled
  as a whole-map flush, the others only delay.
* **`binary_persistence = false`** is a value of the constant `Binary`, covered by
  the theorems; the runs use the default, `TRUE`.
* **Coverage.** The modules map a small share of the repository's 140 000 lines.
  Most of those are the canvas engine, shape libraries, the user
  interface, exporters and format conversions: sequential code whose results
  depend on geometry, strings or the DOM, which a model would have to replace by
  what it should do. The modules follow the code where several actors meet.
* **Not modelled:** see the components of `PROJECT.json` with their reasons. In
  short: what is open in section 2; undo; the queue of asset uploads; the transfer
  of documents; conversions over strings (prose, HTML) and geometry in floating
  point, which are sequential and unit-tested; cryptography and start-up;
  presentation.
