------------------------------ MODULE DocStore ------------------------------
(***************************************************************************)
(* The relay's durable store of one document (server/documents.rs) with    *)
(* the object-store mirror worker (server/mod.rs) and the cold-document    *)
(* eviction pass.                                                          *)
(*                                                                         *)
(* The relay serves requests on a multi-threaded runtime and DocumentStore *)
(* takes a lock per map access, never across an operation ("the rest of    *)
(* the save runs outside the lock"), so an operation is a sequence of      *)
(* steps, one per lock hold or file operation, and the steps of different  *)
(* tasks interleave.  A body is a pair: the serverVersion it carries and   *)
(* the number of the write that produced its content (`src'); write 0 is   *)
(* no write, so a file whose src is 0 is absent.                           *)
(***************************************************************************)
EXTENDS Naturals, Sequences, FiniteSets

CONSTANTS
    Tasks,       \* the tasks that may be inside a store operation at once
    Ops,         \* the operations this instance exercises
    Overlap,     \* may eviction passes and restores overlap other operations?
    Flaky,       \* may writes and removals of files fail?
    MaxWrites,   \* bound: content-producing operations
    MaxFails,    \* bound: object-store transfers that fail
    MaxCrashes   \* bound: relay restarts

AllOps == {"save", "snapshot", "delete", "override", "restore", "evict"}

ASSUME TasksAssumption == IsFiniteSet(Tasks)
ASSUME OpsAssumption == Ops \subseteq AllOps
ASSUME BoundsAssumption ==
    /\ Overlap \in BOOLEAN /\ Flaky \in BOOLEAN
    /\ MaxWrites \in Nat /\ MaxFails \in Nat /\ MaxCrashes \in Nat

VARIABLES
    body,      \* docs/<id>.json on the volume
    sidecar,   \* docs/<id>.ydoc on the volume, tagged with a serverVersion
    index,     \* server_version of the in-memory index entry; 0 = not listed
    indexFile, \* the entry in index.json as last flushed
    unflushed, \* ghost: did the last attempt to write index.json fail?
    tomb,      \* is the id in deleted_ids (memory and deleted-ids.json)?
    localGen,  \* CacheState.local_gen
    mirrorGen, \* CacheState.mirrored_gen
    present,   \* CacheState.present
    queue,     \* the mirror channel: ops not yet taken by the worker
    remote,    \* the R2 objects: [json, ydoc]
    worker,    \* the mirror worker: [pc, gen, file]
    evictor,   \* the eviction pass: "idle", "chosen" or "removed"
    pc, ver, src, cond,  \* per task: program point and locals
    writes,    \* ghost: writes begun so far
    fails, crashes,  \* transfers failed and restarts so far
    acked,     \* ghost: the last write reported as done, not deleted since
    wins       \* ghost: <<version produced, write>> of each conditional save

volume  == <<body, sidecar, indexFile, unflushed>>
cache   == <<localGen, mirrorGen, present>>
locals  == <<ver, src, cond>>
ghosts  == <<acked, wins>>
bounds  == <<writes, fails, crashes>>
vars    == <<volume, index, tomb, cache, queue, remote, worker, evictor,
             pc, locals, bounds, ghosts>>

File   == [ver : Nat, src : Nat]
Absent == [ver |-> 0, src |-> 0]
Has(file) == file.src # 0

Idle == worker.pc = "idle"

\* No task is inside a store operation.
Quiet == \A t \in Tasks : pc[t] = "idle"

Init ==
    /\ body = Absent /\ sidecar = Absent
    /\ index = 0 /\ indexFile = 0 /\ unflushed = FALSE /\ tomb = FALSE
    /\ localGen = 0 /\ mirrorGen = 0 /\ present = FALSE
    /\ queue = <<>>
    /\ remote = [json |-> Absent, ydoc |-> Absent]
    /\ worker = [pc |-> "idle", gen |-> 0, file |-> Absent]
    /\ evictor = "idle"
    /\ pc = [t \in Tasks |-> "idle"]
    /\ ver = [t \in Tasks |-> 0]
    /\ src = [t \in Tasks |-> 0]
    /\ cond = [t \in Tasks |-> FALSE]
    /\ writes = 0 /\ fails = 0 /\ crashes = 0
    /\ acked = 0 /\ wins = {}

-----------------------------------------------------------------------------
(* Steps of one task.  Goto and Finish move only the task's program point. *)

Goto(t, from, to) == pc[t] = from /\ pc' = [pc EXCEPT ![t] = to]

\* A restore is between its fetch and its pin.
Restoring == \E t \in Tasks :
    pc[t] \in {"install", "restoreIndex", "restoreFlush", "restorePin"}

\* A task starts an operation; without Overlap only between eviction passes and
\* between restores.
Start(t, op, to) ==
    /\ op \in Ops
    /\ Overlap \/ (evictor = "idle" /\ ~Restoring)
    /\ Goto(t, "idle", to)

\* A new piece of content enters the task: a request body or the Y.Doc state.
NewContent(t) ==
    /\ writes < MaxWrites
    /\ writes' = writes + 1
    /\ src' = [src EXCEPT ![t] = writes + 1]

\* Mutant of SaveGate: the JP-375 check is dropped.
SaveGateDropped == TRUE

\* Does is_deleted let a plain save through?
SaveGate == ~tomb

\* save_document_with_expected_version: the tombstone gate.
SaveBegin(t) ==
    /\ Start(t, "save", "saveRead")
    /\ SaveGate
    /\ NewContent(t)
    /\ UNCHANGED <<volume, index, tomb, cache, queue, remote, worker, evictor,
                   ver, cond, fails, crashes, ghosts>>

\* save_doc_handler with overrideTombstone from an owner: clear_tombstone,
\* then the save passes its tombstone gate.
OverrideBegin(t) ==
    /\ Start(t, "override", "saveRead")
    /\ tomb
    /\ tomb' = FALSE
    /\ NewContent(t)
    /\ UNCHANGED <<volume, index, cache, queue, remote, worker, evictor,
                   ver, cond, fails, crashes, ghosts>>

\* new_version, from the version read.
NextVersion == index + 1

\* The version read under the index read lock; an expectation, if the caller
\* gave one, equals the version read.
SaveRead(t) ==
    /\ Goto(t, "saveRead", "write")
    /\ ver' = [ver EXCEPT ![t] = NextVersion]
    /\ \E c \in BOOLEAN : cond' = [cond EXCEPT ![t] = c]
    /\ UNCHANGED <<volume, index, tomb, cache, queue, remote, worker, evictor,
                   src, bounds, ghosts>>

\* VersionConflict, DocTooLarge or QuotaExceeded: nothing is written.
SaveRefuse(t) ==
    /\ Goto(t, "saveRead", "idle")
    /\ UNCHANGED <<volume, index, tomb, cache, queue, remote, worker, evictor,
                   locals, bounds, ghosts>>

\* snapshot_doc: the Y.Doc is encoded with the current index version as tag.
SnapBegin(t) ==
    /\ Start(t, "snapshot", "snapSidecar")
    /\ index # 0
    /\ NewContent(t)
    /\ ver' = [ver EXCEPT ![t] = index]
    /\ cond' = [cond EXCEPT ![t] = FALSE]
    /\ UNCHANGED <<volume, index, tomb, cache, queue, remote, worker, evictor,
                   fails, crashes, ghosts>>

\* persist_ydoc_binary: no generation bump, a ydoc Put is enqueued.
SnapSidecar(t) ==
    /\ Goto(t, "snapSidecar", "snapLoad")
    /\ sidecar' = [ver |-> ver[t], src |-> src[t]]
    /\ present' = TRUE
    /\ queue' = Append(queue, "ydoc")
    /\ UNCHANGED <<body, indexFile, unflushed, index, tomb, localGen, mirrorGen, remote,
                   worker, evictor, locals, bounds, ghosts>>

\* get_document before the flatten: the id must be listed and its body on the
\* volume; the read touches the cache entry.
SnapLoad(t) ==
    /\ Goto(t, "snapLoad", "snapVersion")
    /\ index # 0 /\ Has(body)
    /\ present' = TRUE
    /\ UNCHANGED <<volume, index, tomb, localGen, mirrorGen, queue, remote,
                   worker, evictor, locals, bounds, ghosts>>

\* The JSON half is skipped: unlisted or unreadable body, or diverged page.
SnapSkip(t) ==
    /\ Goto(t, "snapLoad", "idle")
    /\ UNCHANGED <<volume, index, tomb, cache, queue, remote, worker, evictor,
                   locals, bounds, ghosts>>

\* persist_snapshot reads the version it preserves, or fails if unlisted.
SnapVersion(t) ==
    /\ pc[t] = "snapVersion"
    /\ IF index = 0
       THEN pc' = [pc EXCEPT ![t] = "idle"] /\ UNCHANGED ver
       ELSE pc' = [pc EXCEPT ![t] = "write"] /\ ver' = [ver EXCEPT ![t] = index]
    /\ UNCHANGED <<volume, index, tomb, cache, queue, remote, worker, evictor,
                   src, cond, bounds, ghosts>>

\* write_atomic of the JSON body (save and snapshot alike).  A write that began
\* earlier and lands on one that was reported takes its place.
WriteBody(t) ==
    /\ Goto(t, "write", "insert")
    /\ body' = [ver |-> ver[t], src |-> src[t]]
    /\ acked' = IF src[t] < acked THEN src[t] ELSE acked
    /\ UNCHANGED <<sidecar, indexFile, unflushed, index, tomb, cache, queue, remote,
                   worker, evictor, locals, bounds, wins>>

\* The index entry is inserted under the write lock.
InsertIndex(t) ==
    /\ Goto(t, "insert", "flush")
    /\ index' = ver[t]
    /\ UNCHANGED <<volume, tomb, cache, queue, remote, worker, evictor,
                   locals, bounds, ghosts>>

\* Mutant of Flushed: the snapshot is taken before the lock.
FlushedEarly(t) == ver[t]

\* write_workspace_index_file: the map as it is under index_write_lock.
Flushed(t) == index

FlushIndex(t) ==
    /\ Goto(t, "flush", "note")
    /\ indexFile' = Flushed(t) /\ unflushed' = FALSE
    /\ UNCHANGED <<body, sidecar, index, tomb, cache, queue, remote, worker,
                   evictor, locals, bounds, ghosts>>

\* Mutant of EnqueueJson: the write is not mirrored.
EnqueueNothing == queue

\* enqueue_mirror of the json Put.
EnqueueJson == Append(queue, "json")

\* note_local_write bumps the generation and the json Put is enqueued; the
\* operation then reports success.
NoteWrite(t) ==
    /\ Goto(t, "note", "idle")
    /\ localGen' = localGen + 1
    /\ present' = TRUE
    /\ queue' = EnqueueJson
    /\ acked' = IF Has(body) /\ body.src < src[t] THEN body.src ELSE src[t]
    /\ wins' = IF cond[t] THEN wins \cup {<<ver[t], src[t]>>} ELSE wins
    /\ UNCHANGED <<volume, index, tomb, mirrorGen, remote, worker, evictor,
                   locals, bounds>>

-----------------------------------------------------------------------------
(* delete_document *)

DeleteBegin(t) ==
    /\ Start(t, "delete", "delFile")
    /\ index # 0
    /\ acked' = 0
    /\ wins' = {}
    /\ UNCHANGED <<volume, index, tomb, cache, queue, remote, worker, evictor,
                   locals, bounds>>

DeleteFile(t) ==
    /\ Goto(t, "delFile", "delSidecar")
    /\ body' = Absent
    /\ UNCHANGED <<sidecar, indexFile, unflushed, index, tomb, cache, queue, remote,
                   worker, evictor, locals, bounds, ghosts>>

DeleteSidecar(t) ==
    /\ Goto(t, "delSidecar", "delIndex")
    /\ sidecar' = Absent
    /\ UNCHANGED <<body, indexFile, unflushed, index, tomb, cache, queue, remote, worker,
                   evictor, locals, bounds, ghosts>>

DeleteIndex(t) ==
    /\ Goto(t, "delIndex", "delFlush")
    /\ index' = 0
    /\ UNCHANGED <<volume, tomb, cache, queue, remote, worker, evictor,
                   locals, bounds, ghosts>>

\* Mutant of DeleteFlush: the index is not written after a removal.
DeleteUnflushed(t) ==
    /\ Goto(t, "delFlush", "delTomb")
    /\ queue' = Append(queue, "delete")
    /\ UNCHANGED <<volume, index, tomb, cache, remote, worker, evictor,
                   locals, bounds, ghosts>>

\* save_workspace_index, then the mirror Delete is enqueued.
DeleteFlush(t) ==
    /\ Goto(t, "delFlush", "delTomb")
    /\ indexFile' = index /\ unflushed' = FALSE
    /\ queue' = Append(queue, "delete")
    /\ UNCHANGED <<body, sidecar, index, tomb, cache, remote, worker, evictor,
                   locals, bounds, ghosts>>

\* The tombstone is the last thing delete_document writes.
DeleteTomb(t) ==
    /\ Goto(t, "delTomb", "idle")
    /\ tomb' = TRUE
    /\ UNCHANGED <<volume, index, cache, queue, remote, worker, evictor,
                   locals, bounds, ghosts>>

-----------------------------------------------------------------------------
(* ensure_doc_local: restore the document by id from the object store.     *)
(* The bytes fetched are the task's locals: ver and src are the JSON's.    *)

\* The fences (not tombstoned, no local body) and the GET of the JSON.
RestoreFetch(t) ==
    /\ Start(t, "restore", "install")
    /\ Overlap \/ Quiet
    /\ ~tomb /\ ~Has(body) /\ Has(remote.json)
    /\ ver' = [ver EXCEPT ![t] = remote.json.ver]
    /\ src' = [src EXCEPT ![t] = remote.json.src]
    /\ UNCHANGED <<volume, index, tomb, cache, queue, remote, worker, evictor,
                   cond, bounds, ghosts>>

\* install_restored_doc writes the JSON verbatim, and the sidecar the second
\* GET found; a failed GET restores JSON only and leaves the volume's sidecar.
RestoreInstall(t) ==
    /\ Goto(t, "install", "restoreIndex")
    /\ body' = [ver |-> ver[t], src |-> src[t]]
    /\ \/ sidecar' = (IF Has(remote.ydoc) THEN remote.ydoc ELSE sidecar)
          /\ UNCHANGED fails
       \/ /\ fails < MaxFails
          /\ fails' = fails + 1
          /\ UNCHANGED sidecar
    /\ UNCHANGED <<indexFile, unflushed, index, tomb, cache, queue, remote, worker,
                   evictor, locals, writes, crashes, ghosts>>

\* The restored entry's version is the body's serverVersion.
RestoredVersion(t) == ver[t]

RestoreIndex(t) ==
    /\ Goto(t, "restoreIndex", "restoreFlush")
    /\ index' = RestoredVersion(t)
    /\ UNCHANGED <<volume, tomb, cache, queue, remote, worker, evictor,
                   locals, bounds, ghosts>>

RestoreFlush(t) ==
    /\ Goto(t, "restoreFlush", "restorePin")
    /\ indexFile' = index /\ unflushed' = FALSE
    /\ UNCHANGED <<body, sidecar, index, tomb, cache, queue, remote, worker,
                   evictor, locals, bounds, ghosts>>

\* note_local_write without a bump, then mirrored_gen is pinned to local_gen.
RestorePin(t) ==
    /\ Goto(t, "restorePin", "idle")
    /\ present' = TRUE
    /\ mirrorGen' = IF localGen > mirrorGen THEN localGen ELSE mirrorGen
    /\ UNCHANGED <<volume, index, tomb, localGen, queue, remote, worker,
                   evictor, locals, bounds, ghosts>>

-----------------------------------------------------------------------------
(* A file cannot be written or removed.  The operation answers with an     *)
(* error and does nothing further; what it has done stays: after a failed  *)
(* write of index.json the new body, and the entry in memory, without a    *)
(* new generation or a mirror upload.                                      *)

\* The points at which an error of a file is passed on.
IndexPoints == {"flush", "delFlush", "restoreFlush"}
FilePoints  == IndexPoints \cup {"write", "delFile", "install"}

FileFails(t) ==
    /\ Flaky
    /\ pc[t] \in FilePoints
    /\ pc' = [pc EXCEPT ![t] = "idle"]
    /\ unflushed' = (unflushed \/ pc[t] \in IndexPoints)
    /\ UNCHANGED <<body, sidecar, indexFile, index, tomb, cache, queue, remote,
                   worker, evictor, locals, bounds, ghosts>>

-----------------------------------------------------------------------------
(* run_doc_mirror_worker: FIFO, one operation at a time. *)

\* A json Put captures local_gen before the file is read.
WorkerTake ==
    /\ Idle /\ queue # <<>>
    /\ queue' = Tail(queue)
    /\ worker' = [pc |-> Head(queue), gen |-> localGen, file |-> Absent]
    /\ UNCHANGED <<volume, index, tomb, cache, remote, evictor, pc, locals,
                   bounds, ghosts>>

\* The file is re-read at processing time; a missing one is skipped.
WorkerRead ==
    /\ worker.pc \in {"json", "ydoc"}
    /\ LET file == IF worker.pc = "json" THEN body ELSE sidecar
       IN worker' = IF Has(file)
                    THEN [worker EXCEPT !.pc = IF @ = "json" THEN "putJson"
                                                             ELSE "putYdoc",
                                        !.file = file]
                    ELSE [worker EXCEPT !.pc = "idle"]
    /\ UNCHANGED <<volume, index, tomb, cache, queue, remote, evictor, pc,
                   locals, bounds, ghosts>>

\* Mutant of ConfirmedGen: the generation is read after the upload.
ConfirmedLate == localGen

\* The generation a json upload confirms: the one captured before the read.
ConfirmedGen == worker.gen

\* The PUT succeeds; set_mirrored_gen is monotonic.
WorkerPut ==
    /\ worker.pc \in {"putJson", "putYdoc"}
    /\ worker' = [worker EXCEPT !.pc = "idle"]
    /\ IF worker.pc = "putJson"
       THEN /\ remote' = [remote EXCEPT !.json = worker.file]
            /\ mirrorGen' = IF ConfirmedGen > mirrorGen THEN ConfirmedGen
                                                        ELSE mirrorGen
       ELSE /\ remote' = [remote EXCEPT !.ydoc = worker.file]
            /\ UNCHANGED mirrorGen
    /\ UNCHANGED <<volume, index, tomb, localGen, present, queue, evictor, pc,
                   locals, bounds, ghosts>>

\* The mirror Delete removes both objects.
WorkerDelete ==
    /\ worker.pc = "delete"
    /\ worker' = [worker EXCEPT !.pc = "idle"]
    /\ remote' = [json |-> Absent, ydoc |-> Absent]
    /\ UNCHANGED <<volume, index, tomb, cache, queue, evictor, pc, locals,
                   bounds, ghosts>>

\* A failed transfer is logged and dropped.
WorkerFail ==
    /\ worker.pc \in {"putJson", "putYdoc", "delete"}
    /\ fails < MaxFails
    /\ fails' = fails + 1
    /\ worker' = [worker EXCEPT !.pc = "idle"]
    /\ UNCHANGED <<volume, index, tomb, cache, queue, remote, evictor, pc,
                   locals, writes, crashes, ghosts>>

-----------------------------------------------------------------------------
(* evict_cold_docs_if_over_budget: snapshot of the cache, victims, files.  *)

\* Mutant of Evictable: the generations are not compared.
EvictableAnyGen == present

\* The victim filter of select_victims (size and recency are left open).
Evictable == present /\ mirrorGen >= localGen

EvictChoose ==
    /\ "evict" \in Ops
    /\ evictor = "idle"
    /\ Overlap \/ Quiet
    /\ Evictable
    /\ evictor' = "chosen"
    /\ UNCHANGED <<volume, index, tomb, cache, queue, remote, worker, pc,
                   locals, bounds, ghosts>>

\* evict_doc_files removes body and sidecar, keeping the index entry.
EvictRemove ==
    /\ evictor = "chosen"
    /\ evictor' = "removed"
    /\ body' = Absent /\ sidecar' = Absent
    /\ UNCHANGED <<indexFile, unflushed, index, tomb, cache, queue, remote, worker, pc,
                   locals, bounds, ghosts>>

EvictMark ==
    /\ evictor = "removed"
    /\ evictor' = "idle"
    /\ present' = FALSE
    /\ UNCHANGED <<volume, index, tomb, localGen, mirrorGen, queue, remote,
                   worker, pc, locals, bounds, ghosts>>

-----------------------------------------------------------------------------
(* The relay stops and starts again on the same volume: every in-memory    *)
(* structure is rebuilt from the files, the cache is seeded as "dirty      *)
(* until the startup backfill confirms", and the backfill enqueues a Put   *)
(* of each object of each listed document.                                 *)

Restart ==
    /\ crashes < MaxCrashes
    /\ crashes' = crashes + 1
    /\ index' = indexFile /\ unflushed' = FALSE
    /\ localGen' = (IF indexFile # 0 THEN 1 ELSE 0)
    /\ mirrorGen' = 0
    /\ present' = (indexFile # 0 /\ (Has(body) \/ Has(sidecar)))
    /\ queue' = IF indexFile # 0 THEN <<"json", "ydoc">> ELSE <<>>
    /\ worker' = [pc |-> "idle", gen |-> 0, file |-> Absent]
    /\ evictor' = "idle"
    /\ pc' = [t \in Tasks |-> "idle"]
    /\ UNCHANGED <<body, sidecar, indexFile, tomb, remote, locals, writes, fails,
                   ghosts>>

-----------------------------------------------------------------------------

TaskStep(t) ==
    \/ SaveBegin(t) \/ OverrideBegin(t) \/ SaveRead(t) \/ SaveRefuse(t)
    \/ SnapBegin(t) \/ SnapSidecar(t) \/ SnapLoad(t) \/ SnapSkip(t)
    \/ SnapVersion(t)
    \/ WriteBody(t) \/ InsertIndex(t) \/ FlushIndex(t) \/ NoteWrite(t)
    \/ DeleteBegin(t) \/ DeleteFile(t) \/ DeleteSidecar(t) \/ DeleteIndex(t)
    \/ DeleteFlush(t) \/ DeleteTomb(t)
    \/ RestoreFetch(t) \/ RestoreInstall(t) \/ RestoreIndex(t)
    \/ RestoreFlush(t) \/ RestorePin(t)

WorkerStep == WorkerTake \/ WorkerRead \/ WorkerPut \/ WorkerDelete \/ WorkerFail
EvictStep  == EvictChoose \/ EvictRemove \/ EvictMark

Next ==
    \/ \E t \in Tasks : TaskStep(t) \/ FileFails(t)
    \/ WorkerStep \/ EvictStep \/ Restart

Spec == Init /\ [][Next]_vars

\* A started operation runs to its end (a handler is polled until it returns
\* and holds no lock across steps); the worker keeps draining its channel.
Fairness ==
    /\ \A t \in Tasks : WF_vars(pc[t] # "idle" /\ (TaskStep(t) \/ FileFails(t)))
    /\ WF_vars(WorkerStep)

LiveSpec == Spec /\ Fairness

-----------------------------------------------------------------------------
(* Properties *)

Points == {"idle", "saveRead", "write", "insert", "flush", "note",
           "snapSidecar", "snapLoad", "snapVersion",
           "delFile", "delSidecar", "delIndex", "delFlush", "delTomb",
           "install", "restoreIndex", "restoreFlush", "restorePin"}

FilesOK ==
    /\ body \in File /\ sidecar \in File
    /\ index \in Nat /\ indexFile \in Nat
    /\ localGen \in Nat /\ mirrorGen \in Nat

MirrorOK ==
    /\ queue \in Seq({"json", "ydoc", "delete"})
    /\ remote \in [json : File, ydoc : File]
    /\ worker \in [pc : {"idle", "json", "ydoc", "delete", "putJson", "putYdoc"},
                   gen : Nat, file : File]
    /\ evictor \in {"idle", "chosen", "removed"}

TasksOK ==
    /\ pc \in [Tasks -> Points]
    /\ ver \in [Tasks -> Nat] /\ src \in [Tasks -> Nat]
    /\ writes \in Nat /\ fails \in Nat /\ crashes \in Nat
    /\ acked \in Nat /\ wins \subseteq (Nat \X Nat)

FlagsOK ==
    /\ tomb \in BOOLEAN /\ present \in BOOLEAN /\ unflushed \in BOOLEAN
    /\ cond \in [Tasks -> BOOLEAN]

\* Every variable keeps the type its Rust counterpart has.
TypeOK == FilesOK /\ MirrorOK /\ TasksOK /\ FlagsOK

\* A task has changed the body and not yet recorded it in the cache entry.
Unrecorded == \E t \in Tasks : pc[t] \in {"insert", "flush", "note"}

\* What makes reclaiming the local copy safe: whenever the cache entry passes
\* the victim filter (mirrored_gen >= local_gen) and no write is still to be
\* recorded, the JSON object in R2 is exactly the body on the volume.
EvictableMirrored ==
    Has(body) /\ Evictable /\ ~Unrecorded => remote.json = body

\* A write reported as done survives: its content, or a later one, is in the
\* body, or the body was evicted and R2 has it for the restore by id.
Durable ==
    acked # 0 => \/ body.src >= acked
                 \/ ~Has(body) /\ remote.json.src >= acked

\* The content hydrate_doc yields from a body and a sidecar: the binary is the
\* base, and the JSON is laid over it only when the sidecar's tag is older.
Hydrated(json, bin) ==
    IF Has(bin) /\ bin.ver >= json.ver THEN bin.src ELSE json.src

\* Whatever was last reported as done is what a hydrate would now yield, from
\* the volume or, after an eviction, from the two objects a restore fetches.
\* It holds for one task that neither evicts nor restores: the evictor does not
\* ask whether R2 has the newest sidecar, and a restore may lay an older JSON
\* beside the sidecar that an interrupted delete left.
HydrateFresh ==
    acked # 0 /\ Quiet /\ evictor = "idle" =>
        IF Has(body) THEN Hydrated(body, sidecar) >= acked
                     ELSE Hydrated(remote.json, remote.ydoc) >= acked

\* Optimistic concurrency: of the saves that expected version N, at most one
\* was accepted and became N + 1 (delete_document starts a new history).  It
\* holds for one request at a time only: two saves that overlap both pass.
OneWinner ==
    \A a, b \in wins : a[1] = b[1] => a = b

\* A tombstoned id is not listed, neither in memory nor in index.json.
DeletedStaysGone == tomb => index = 0 /\ indexFile = 0

\* JP-230: index.json is not left behind the in-memory index by two writers
\* whose flushes interleave, nor for longer than until the next flush by one
\* that failed.
IndexFlushed == Quiet /\ ~unflushed => indexFile = index

\* When no transfer fails, R2 ends up holding the volume's body for good.
MirrorCatchesUp == <>[](index # 0 /\ Has(body) => remote.json = body)

-----------------------------------------------------------------------------
(* The promise, as a register *)

\* A task whose write has not reached the body.
OpenPoints == {"saveRead", "snapSidecar", "snapLoad", "snapVersion", "write"}
OpenWrites == {src[t] : t \in {u \in Tasks : pc[u] \in OpenPoints}}

\* What a reader gets once a write was reported as done: the body or, while it
\* is evicted, what a restore by id would bring back.
Content ==
    IF acked = 0 THEN 0 ELSE IF Has(body) THEN body.src ELSE remote.json.src

Register == INSTANCE DocRegister WITH
    begun <- writes, open <- OpenWrites, content <- Content, promised <- acked

\* The store is a register: a write takes effect at one moment between its
\* request and its answer, and nothing but a write changes what is read of a
\* document that is not being deleted.
ImplementsRegister == Register!Spec
=============================================================================
