--------------------------- MODULE DocStore_proofs ---------------------------
(* Machine-checked facts about DocStore, for any set of tasks and any       *)
(* bounds.  Type correctness is proved one group of variables at a time.    *)
EXTENDS DocStore, TLAPS

\* Type-correctness of the files, the index and the generations.
LEMMA FilesStep == TypeOK /\ [Next]_vars => FilesOK'
<1> SUFFICES ASSUME FilesOK, MirrorOK, TasksOK, FlagsOK, [Next]_vars
             PROVE  FilesOK'
    BY DEF TypeOK
<1> USE DEF FilesOK, MirrorOK, TasksOK, File, Absent, Has,
            volume, cache, locals, ghosts, bounds
<1>1. ASSUME NEW t \in Tasks,
             SaveBegin(t) \/ OverrideBegin(t) \/ SaveRead(t) \/ SaveRefuse(t)
                 \/ SnapBegin(t) \/ SnapLoad(t) \/ SnapSkip(t) \/
                 SnapVersion(t) \/ DeleteBegin(t) \/ DeleteTomb(t) \/
                 RestoreFetch(t) \/ FileFails(t)
      PROVE  FilesOK'
    BY <1>1 DEF SaveBegin, OverrideBegin, SaveRead, SaveRefuse, SnapBegin,
        SnapLoad, SnapSkip, SnapVersion, DeleteBegin, DeleteTomb, RestoreFetch,
        FileFails
<1>2. ASSUME NEW t \in Tasks, SnapSidecar(t) PROVE FilesOK'
    BY <1>2 DEF SnapSidecar, Goto
<1>3. ASSUME NEW t \in Tasks, WriteBody(t) PROVE FilesOK'
    BY <1>3 DEF WriteBody, Goto
<1>4. ASSUME NEW t \in Tasks, InsertIndex(t) PROVE FilesOK'
    BY <1>4 DEF InsertIndex, Goto
<1>5. ASSUME NEW t \in Tasks, FlushIndex(t) PROVE FilesOK'
    BY <1>5 DEF FlushIndex, Flushed, Goto
<1>6. ASSUME NEW t \in Tasks, NoteWrite(t) PROVE FilesOK'
    BY <1>6 DEF NoteWrite, EnqueueJson, Goto
<1>7. ASSUME NEW t \in Tasks, DeleteFile(t) PROVE FilesOK'
    BY <1>7 DEF DeleteFile, Goto
<1>8. ASSUME NEW t \in Tasks, DeleteSidecar(t) PROVE FilesOK'
    BY <1>8 DEF DeleteSidecar, Goto
<1>9. ASSUME NEW t \in Tasks, DeleteIndex(t) PROVE FilesOK'
    BY <1>9 DEF DeleteIndex, Goto
<1>10. ASSUME NEW t \in Tasks, DeleteFlush(t) PROVE FilesOK'
    BY <1>10 DEF DeleteFlush, Goto
<1>11. ASSUME NEW t \in Tasks, RestoreInstall(t) PROVE FilesOK'
    BY <1>11 DEF RestoreInstall, Goto
<1>12. ASSUME NEW t \in Tasks, RestoreIndex(t) PROVE FilesOK'
    BY <1>12 DEF RestoreIndex, RestoredVersion, Goto
<1>13. ASSUME NEW t \in Tasks, RestoreFlush(t) PROVE FilesOK'
    BY <1>13 DEF RestoreFlush, Goto
<1>14. ASSUME NEW t \in Tasks, RestorePin(t) PROVE FilesOK'
    BY <1>14 DEF RestorePin, Goto
<1>15. ASSUME WorkerTake \/ WorkerRead \/ WorkerDelete \/ WorkerFail \/ EvictChoose \/ EvictMark PROVE FilesOK'
    BY <1>15 DEF WorkerTake, WorkerRead, WorkerDelete, WorkerFail,
        EvictChoose, EvictMark
<1>16. CASE WorkerPut
    BY <1>16 DEF WorkerPut, ConfirmedGen
<1>17. CASE EvictRemove
    BY <1>17 DEF EvictRemove
<1>18. CASE Restart
    BY <1>18 DEF Restart
<1>19. CASE UNCHANGED vars
    BY <1>19 DEF vars
<1> QED
    BY <1>1, <1>2, <1>3, <1>4, <1>5, <1>6, <1>7, <1>8, <1>9, <1>10, <1>11,
        <1>12, <1>13, <1>14, <1>15, <1>16, <1>17, <1>18, <1>19
       DEF Next, TaskStep, WorkerStep, EvictStep

\* Type-correctness of the mirror queue, the objects, the worker and the evictor.
LEMMA MirrorStep == TypeOK /\ [Next]_vars => MirrorOK'
<1> SUFFICES ASSUME FilesOK, MirrorOK, TasksOK, FlagsOK, [Next]_vars
             PROVE  MirrorOK'
    BY DEF TypeOK
<1> USE DEF FilesOK, MirrorOK, TasksOK, File, Absent, Has,
            volume, cache, locals, ghosts, bounds
<1>1. ASSUME NEW t \in Tasks,
             SaveBegin(t) \/ OverrideBegin(t) \/ SaveRead(t) \/ SaveRefuse(t)
                 \/ SnapBegin(t) \/ SnapLoad(t) \/ SnapSkip(t) \/
                 SnapVersion(t) \/ WriteBody(t) \/ InsertIndex(t) \/
                 FlushIndex(t) \/ DeleteBegin(t) \/ DeleteFile(t) \/
                 DeleteSidecar(t) \/ DeleteIndex(t) \/ DeleteTomb(t) \/
                 RestoreFetch(t) \/ RestoreInstall(t) \/ RestoreIndex(t) \/
                 RestoreFlush(t) \/ RestorePin(t) \/ FileFails(t)
      PROVE  MirrorOK'
    BY <1>1 DEF SaveBegin, OverrideBegin, SaveRead, SaveRefuse, SnapBegin,
        SnapLoad, SnapSkip, SnapVersion, WriteBody, InsertIndex, FlushIndex,
        DeleteBegin, DeleteFile, DeleteSidecar, DeleteIndex, DeleteTomb,
        RestoreFetch, RestoreInstall, RestoreIndex, RestoreFlush, RestorePin,
        FileFails
<1>2. ASSUME NEW t \in Tasks, SnapSidecar(t) PROVE MirrorOK'
    BY <1>2 DEF SnapSidecar, Goto
<1>3. ASSUME NEW t \in Tasks, NoteWrite(t) PROVE MirrorOK'
    BY <1>3 DEF NoteWrite, EnqueueJson, Goto
<1>4. ASSUME NEW t \in Tasks, DeleteFlush(t) PROVE MirrorOK'
    BY <1>4 DEF DeleteFlush, Goto
<1>5. CASE WorkerTake
    BY <1>5 DEF WorkerTake, Idle
<1>6. CASE WorkerRead
    BY <1>6 DEF WorkerRead
<1>7. CASE WorkerPut
    BY <1>7 DEF WorkerPut, ConfirmedGen
<1>8. CASE WorkerDelete
    BY <1>8 DEF WorkerDelete
<1>9. CASE WorkerFail
    BY <1>9 DEF WorkerFail
<1>10. CASE EvictChoose
    BY <1>10 DEF EvictChoose
<1>11. CASE EvictRemove
    BY <1>11 DEF EvictRemove
<1>12. CASE EvictMark
    BY <1>12 DEF EvictMark
<1>13. CASE Restart
  <2>1. queue' = <<"json", "ydoc">> \/ queue' = <<>>
      BY <1>13, Zenon DEF Restart
  <2>2. queue' \in Seq({"json", "ydoc", "delete"})
    <3>1. <<"json", "ydoc">> \in Seq({"json", "ydoc", "delete"})
        OBVIOUS
    <3>2. <<>> \in Seq({"json", "ydoc", "delete"})
        OBVIOUS
    <3> QED
        BY <2>1, <3>1, <3>2, Zenon
  <2> QED
      BY <1>13, <2>2 DEF Restart
<1>14. CASE UNCHANGED vars
    BY <1>14 DEF vars
<1> QED
    BY <1>1, <1>2, <1>3, <1>4, <1>5, <1>6, <1>7, <1>8, <1>9, <1>10, <1>11,
        <1>12, <1>13, <1>14
       DEF Next, TaskStep, WorkerStep, EvictStep

\* Type-correctness of the Boolean state.
LEMMA FlagsStep == TypeOK /\ [Next]_vars => FlagsOK'
<1> SUFFICES ASSUME FilesOK, MirrorOK, TasksOK, FlagsOK, [Next]_vars
             PROVE  FlagsOK'
    BY DEF TypeOK
<1> USE DEF FlagsOK,
            volume, cache, locals, ghosts, bounds
<1>1. ASSUME NEW t \in Tasks,
             SaveBegin(t) \/ SaveRefuse(t) \/ SnapSkip(t) \/ SnapVersion(t) \/
                 WriteBody(t) \/ InsertIndex(t) \/ FlushIndex(t) \/
                 DeleteBegin(t) \/ DeleteFile(t) \/ DeleteSidecar(t) \/
                 DeleteIndex(t) \/ DeleteFlush(t) \/ RestoreFetch(t) \/
                 RestoreInstall(t) \/ RestoreIndex(t) \/ RestoreFlush(t)
      PROVE  FlagsOK'
    BY <1>1 DEF SaveBegin, SaveRefuse, SnapSkip, SnapVersion, WriteBody,
        InsertIndex, FlushIndex, DeleteBegin, DeleteFile, DeleteSidecar,
        DeleteIndex, DeleteFlush, RestoreFetch, RestoreInstall, RestoreIndex,
        RestoreFlush
<1>2. ASSUME NEW t \in Tasks, OverrideBegin(t) PROVE FlagsOK'
    BY <1>2 DEF OverrideBegin, Start, Goto, NewContent
<1>3. ASSUME NEW t \in Tasks, SaveRead(t) PROVE FlagsOK'
    BY <1>3 DEF SaveRead, Goto, NextVersion
<1>4. ASSUME NEW t \in Tasks, SnapBegin(t) PROVE FlagsOK'
    BY <1>4 DEF SnapBegin, Start, Goto, NewContent
<1>5. ASSUME NEW t \in Tasks, SnapSidecar(t) PROVE FlagsOK'
    BY <1>5 DEF SnapSidecar, Goto
<1>6. ASSUME NEW t \in Tasks, SnapLoad(t) PROVE FlagsOK'
    BY <1>6 DEF SnapLoad, Goto
<1>7. ASSUME NEW t \in Tasks, NoteWrite(t) PROVE FlagsOK'
    BY <1>7 DEF NoteWrite, EnqueueJson, Goto
<1>8. ASSUME NEW t \in Tasks, DeleteTomb(t) PROVE FlagsOK'
    BY <1>8 DEF DeleteTomb, Goto
<1>9. ASSUME NEW t \in Tasks, RestorePin(t) PROVE FlagsOK'
    BY <1>9 DEF RestorePin, Goto
<1>10. ASSUME WorkerTake \/ WorkerRead \/ WorkerPut \/ WorkerDelete \/ WorkerFail \/ EvictChoose \/ EvictRemove PROVE FlagsOK'
    BY <1>10 DEF WorkerTake, WorkerRead, WorkerPut, WorkerDelete, WorkerFail,
        EvictChoose, EvictRemove
<1>11. CASE EvictMark
    BY <1>11 DEF EvictMark
<1>12. CASE Restart
    BY <1>12 DEF Restart
<1>13. CASE UNCHANGED vars
    BY <1>13 DEF vars
<1>14. ASSUME NEW t \in Tasks, FileFails(t) PROVE FlagsOK'
    BY <1>14 DEF FileFails
<1> QED
    BY <1>1, <1>2, <1>3, <1>4, <1>5, <1>6, <1>7, <1>8, <1>9, <1>10, <1>11,
        <1>12, <1>13, <1>14
       DEF Next, TaskStep, WorkerStep, EvictStep

\* Type-correctness of the tasks' program points, locals and counters.
LEMMA TasksStep == TypeOK /\ [Next]_vars => TasksOK'
<1> SUFFICES ASSUME FilesOK, MirrorOK, TasksOK, FlagsOK, [Next]_vars
             PROVE  TasksOK'
    BY DEF TypeOK
<1> USE DEF TasksOK, locals, ghosts, bounds
<1>1. ASSUME NEW t \in Tasks, SaveBegin(t) \/ OverrideBegin(t) PROVE TasksOK'
  <2>1. pc' \in [Tasks -> Points]
      BY <1>1 DEF SaveBegin, OverrideBegin, Start, Goto, Points
  <2>2. src' \in [Tasks -> Nat] /\ writes' \in Nat
      BY <1>1 DEF SaveBegin, OverrideBegin, NewContent
  <2> QED
      BY <1>1, <2>1, <2>2 DEF SaveBegin, OverrideBegin
<1>2. ASSUME NEW t \in Tasks, SnapBegin(t) PROVE TasksOK'
  <2>1. pc' \in [Tasks -> Points]
      BY <1>2 DEF SnapBegin, Start, Goto, Points
  <2>2. src' \in [Tasks -> Nat] /\ writes' \in Nat
      BY <1>2 DEF SnapBegin, NewContent
  <2>3. ver' \in [Tasks -> Nat]
      BY <1>2 DEF SnapBegin, FilesOK
  <2> QED
      BY <1>2, <2>1, <2>2, <2>3 DEF SnapBegin
<1>3. ASSUME NEW t \in Tasks, SaveRead(t) PROVE TasksOK'
  <2>1. pc' \in [Tasks -> Points]
      BY <1>3 DEF SaveRead, Goto, Points
  <2>2. ver' \in [Tasks -> Nat]
      BY <1>3 DEF SaveRead, NextVersion, FilesOK
  <2> QED
      BY <1>3, <2>1, <2>2 DEF SaveRead
<1>4. ASSUME NEW t \in Tasks, SnapVersion(t) PROVE TasksOK'
  <2>1. pc' \in [Tasks -> Points]
      BY <1>4 DEF SnapVersion, Points
  <2>2. ver' \in [Tasks -> Nat]
      BY <1>4 DEF SnapVersion, FilesOK
  <2> QED
      BY <1>4, <2>1, <2>2 DEF SnapVersion
<1>5. ASSUME NEW t \in Tasks, NoteWrite(t) PROVE TasksOK'
  <2>1. pc' \in [Tasks -> Points]
      BY <1>5 DEF NoteWrite, Goto, Points
  <2>2. acked' \in Nat
      BY <1>5 DEF NoteWrite, FilesOK, File
  <2>3. wins' \subseteq Nat \X Nat
      BY <1>5 DEF NoteWrite
  <2> QED
      BY <1>5, <2>1, <2>2, <2>3 DEF NoteWrite
<1>6. ASSUME NEW t \in Tasks, DeleteBegin(t) PROVE TasksOK'
    BY <1>6 DEF DeleteBegin, Start, Goto, Points
<1>7. ASSUME NEW t \in Tasks, RestoreFetch(t) PROVE TasksOK'
  <2>1. pc' \in [Tasks -> Points]
      BY <1>7 DEF RestoreFetch, Start, Goto, Points
  <2>2. ver' \in [Tasks -> Nat] /\ src' \in [Tasks -> Nat]
      BY <1>7 DEF RestoreFetch, MirrorOK, File
  <2> QED
      BY <1>7, <2>1, <2>2 DEF RestoreFetch
<1>8. ASSUME NEW t \in Tasks, RestoreInstall(t) PROVE TasksOK'
  <2>1. pc' \in [Tasks -> Points]
      BY <1>8 DEF RestoreInstall, Goto, Points
  <2>2. fails' \in Nat
      BY <1>8 DEF RestoreInstall
  <2> QED
      BY <1>8, <2>1, <2>2 DEF RestoreInstall
<1>9. ASSUME NEW t \in Tasks,
             SaveRefuse(t) \/ SnapSidecar(t) \/ SnapLoad(t) \/ SnapSkip(t)
             \/ WriteBody(t) \/ InsertIndex(t) \/ FlushIndex(t) \/ FileFails(t)
      PROVE  TasksOK'
    BY <1>9 DEF SaveRefuse, SnapSidecar, SnapLoad, SnapSkip, WriteBody,
                InsertIndex, FlushIndex, FileFails, Goto, Points
<1>10. ASSUME NEW t \in Tasks,
              DeleteFile(t) \/ DeleteSidecar(t) \/ DeleteIndex(t)
              \/ DeleteFlush(t) \/ DeleteTomb(t)
              \/ RestoreIndex(t) \/ RestoreFlush(t) \/ RestorePin(t)
       PROVE  TasksOK'
    BY <1>10 DEF DeleteFile, DeleteSidecar, DeleteIndex, DeleteFlush,
                 DeleteTomb, RestoreIndex, RestoreFlush, RestorePin, Goto,
                 Points
<1>11. CASE WorkerTake \/ WorkerRead \/ WorkerPut \/ WorkerDelete
    BY <1>11 DEF WorkerTake, WorkerRead, WorkerPut, WorkerDelete
<1>12. CASE WorkerFail
  <2>1. fails' \in Nat
      BY <1>12 DEF WorkerFail
  <2> QED
      BY <1>12, <2>1 DEF WorkerFail
<1>13. CASE EvictChoose \/ EvictRemove \/ EvictMark
    BY <1>13 DEF EvictChoose, EvictRemove, EvictMark
<1>14. CASE Restart
  <2>1. pc' \in [Tasks -> Points] /\ crashes' \in Nat
      BY <1>14 DEF Restart, Points
  <2> QED
      BY <1>14, <2>1 DEF Restart
<1>15. CASE UNCHANGED vars
    BY <1>15 DEF vars
<1> QED
    BY <1>1, <1>2, <1>3, <1>4, <1>5, <1>6, <1>7, <1>8, <1>9, <1>10, <1>11,
       <1>12, <1>13, <1>14, <1>15 DEF Next, TaskStep, WorkerStep, EvictStep

\* Every behaviour of the store is type-correct.
THEOREM TypeCorrect == Spec => []TypeOK
<1>1. ASSUME Init PROVE TypeOK
  <2>1. FilesOK /\ TasksOK
      BY <1>1 DEF Init, FilesOK, TasksOK, File, Absent, Points
  <2>2. MirrorOK
      BY <1>1 DEF Init, MirrorOK, File, Absent
  <2>3. FlagsOK
      BY <1>1 DEF Init, FlagsOK
  <2> QED
      BY <2>1, <2>2, <2>3 DEF TypeOK
<1>2. TypeOK /\ [Next]_vars => TypeOK'
    BY FilesStep, MirrorStep, TasksStep, FlagsStep DEF TypeOK
<1> QED
    BY <1>1, <1>2, PTL DEF Spec
-----------------------------------------------------------------------------
(* One operation at a time.  What two overlapping operations break (see the *)
(* README) holds for a single task, whatever the mirror, the evictor and    *)
(* restarts do beside it.                                                    *)

Alone == \A t, u \in Tasks : t = u

\* A file that cannot be written or removed ends one task's operation, and
\* nothing else changes than what is known of index.json.
LEMMA FailFacts ==
    ASSUME TypeOK, NEW t \in Tasks, FileFails(t)
    PROVE  /\ UNCHANGED <<body, sidecar, indexFile, index, tomb, localGen, mirrorGen, present,
                          queue, remote, worker, evictor, ver, src, cond, writes, acked>>
           /\ Flaky
           /\ pc[t] \in FilePoints /\ pc'[t] = "idle"
           /\ \A u \in Tasks : u # t => pc'[u] = pc[u]
           /\ unflushed' = (unflushed \/ pc[t] \in IndexPoints)
    BY DEF FileFails, cache, locals, bounds, ghosts, TypeOK, TasksOK

\* A tombstoned document is listed nowhere and nobody works on it; a delete
\* that has come to its tombstone has removed both entries.
BuriedInv ==
    /\ tomb => Quiet /\ index = 0 /\ indexFile = 0
    /\ \A t \in Tasks : /\ pc[t] = "delFlush" => index = 0
                        /\ pc[t] = "delTomb" => index = 0 /\ indexFile = 0

LEMMA BuriedTaskStep ==
    ASSUME Alone, TypeOK, BuriedInv, NEW t \in Tasks, TaskStep(t)
    PROVE  BuriedInv'
<1>0. /\ pc \in [Tasks -> Points] /\ \A u \in Tasks : u = t
      /\ tomb => pc[t] = "idle" /\ index = 0 /\ indexFile = 0
    BY DEF Alone, TypeOK, TasksOK, BuriedInv, Quiet
<1>1. CASE SaveBegin(t) \/ SnapBegin(t) \/ DeleteBegin(t) \/ RestoreFetch(t)
  <2>1. ~tomb' /\ pc'[t] \notin {"delFlush", "delTomb"}
      BY <1>0, <1>1 DEF SaveBegin, SaveGate, SnapBegin, DeleteBegin, RestoreFetch,
         Start, Goto
  <2> QED
      BY <1>0, <2>1 DEF BuriedInv
<1>2. CASE OverrideBegin(t)
  <2>1. ~tomb' /\ pc'[t] = "saveRead"
      BY <1>0, <1>2 DEF OverrideBegin, Start, Goto
  <2> QED
      BY <1>0, <2>1 DEF BuriedInv
\* The other steps are those of a task inside an operation: no tombstone yet.
<1>3. ASSUME pc[t] # "idle", tomb' = tomb, pc'[t] \notin {"delFlush", "delTomb"}
      PROVE  BuriedInv'
    BY <1>0, <1>3 DEF BuriedInv
<1>4. CASE SaveRead(t) \/ SaveRefuse(t) \/ SnapSidecar(t) \/ SnapLoad(t) \/ SnapSkip(t)
           \/ SnapVersion(t) \/ WriteBody(t) \/ InsertIndex(t) \/ FlushIndex(t)
           \/ NoteWrite(t)
  <2>1. /\ pc[t] # "idle" /\ tomb' = tomb
        /\ pc'[t] \notin {"delFlush", "delTomb"}
      BY <1>0, <1>4 DEF SaveRead, SaveRefuse, SnapSidecar, SnapLoad, SnapSkip,
         SnapVersion, WriteBody, InsertIndex, FlushIndex, NoteWrite, Goto
  <2> QED
      BY <1>3, <2>1
<1>5. CASE DeleteFile(t) \/ DeleteSidecar(t) \/ RestoreInstall(t) \/ RestoreIndex(t)
           \/ RestoreFlush(t) \/ RestorePin(t)
  <2>1. /\ pc[t] # "idle" /\ tomb' = tomb
        /\ pc'[t] \notin {"delFlush", "delTomb"}
      BY <1>0, <1>5 DEF DeleteFile, DeleteSidecar, RestoreInstall, RestoreIndex,
         RestoreFlush, RestorePin, Goto
  <2> QED
      BY <1>3, <2>1
<1>6. CASE DeleteIndex(t)
  <2>1. pc[t] # "idle" /\ tomb' = tomb /\ pc'[t] = "delFlush" /\ index' = 0
      BY <1>0, <1>6 DEF DeleteIndex, Goto
  <2> QED
      BY <1>0, <2>1 DEF BuriedInv
<1>7. CASE DeleteFlush(t)
  <2>1. /\ pc[t] = "delFlush" /\ tomb' = tomb /\ pc'[t] = "delTomb"
        /\ index' = index /\ indexFile' = index
      BY <1>0, <1>7 DEF DeleteFlush, Goto
  <2> QED
      BY <1>0, <2>1 DEF BuriedInv
<1>8. CASE DeleteTomb(t)
  <2>1. pc[t] = "delTomb" /\ pc'[t] = "idle" /\ UNCHANGED <<index, indexFile>>
      BY <1>0, <1>8 DEF DeleteTomb, Goto, volume
  <2> QED
      BY <1>0, <2>1 DEF BuriedInv, Quiet
<1> QED
    BY <1>1, <1>2, <1>4, <1>5, <1>6, <1>7, <1>8 DEF TaskStep

\* The worker, the evictor and a restart leave what is listed and buried alone:
\* a restart reads back the file, which does not list a tombstoned id.
LEMMA BuriedStep ==
    ASSUME Alone, TypeOK, BuriedInv, [Next]_vars
    PROVE  BuriedInv'
<1>1. ASSUME UNCHANGED <<index, indexFile, tomb, pc>> PROVE BuriedInv'
    BY <1>1 DEF BuriedInv, Quiet
<1>2. CASE WorkerStep
    BY <1>1, <1>2 DEF WorkerStep, WorkerTake, WorkerRead, WorkerPut, WorkerDelete,
                      WorkerFail, volume
<1>3. CASE EvictStep
    BY <1>1, <1>3 DEF EvictStep, EvictChoose, EvictRemove, EvictMark, volume
<1>4. CASE Restart
    BY <1>4 DEF Restart, volume, BuriedInv, Quiet
<1>5. CASE UNCHANGED vars
    BY <1>1, <1>5 DEF vars, volume
<1>6. ASSUME NEW t \in Tasks, FileFails(t) PROVE BuriedInv'
    BY <1>6, FailFacts DEF BuriedInv, Quiet, FilePoints, IndexPoints
<1> QED
    BY <1>2, <1>3, <1>4, <1>5, <1>6, BuriedTaskStep DEF Next

\* A deleted document stays deleted (DeletedStaysGone) when operations do not
\* overlap, whatever saves, snapshots and restores are tried afterwards, and
\* through any restart and failed transfer: only an owner's override revives it.
THEOREM DeletedStays ==
    ASSUME Alone
    PROVE  Spec => []DeletedStaysGone
<1>1. Init => BuriedInv
    BY DEF Init, BuriedInv
<1>2. TypeOK /\ BuriedInv /\ [Next]_vars => BuriedInv'
    BY BuriedStep
<1>3. BuriedInv => DeletedStaysGone
    BY DEF BuriedInv, DeletedStaysGone
<1> QED
    BY <1>1, <1>2, <1>3, TypeCorrect, PTL DEF Spec

-----------------------------------------------------------------------------
(* The mirror never leads the volume.  The argument holds for saves,       *)
(* snapshots, evictions, restores by id and restarts in any number and any *)
(* interleaving, where restores overlap nothing; for deletes it holds if   *)
(* operations follow one another and no owner revives a deleted document,  *)
(* whose mirror Delete may still be queued (see "Further disagreements" in *)
(* the README).                                                            *)

\* A deleted document stays deleted, and deletes overlap no operation.
DeletesFinal == "override" \notin Ops /\ ("delete" \in Ops => Alone)

\* Files can be written and removed.
FilesWritten == Flaky = FALSE

\* Restores overlap neither another operation nor an eviction pass.
RestoresApart == "restore" \in Ops => Overlap = FALSE

SavePoints == {"idle", "saveRead", "write", "insert", "flush", "note",
               "snapSidecar", "snapLoad", "snapVersion"}

\* A restore before and after it has installed the body.
InstalledPoints == {"restoreIndex", "restoreFlush", "restorePin"}
RestorePoints   == {"install"} \cup InstalledPoints

\* A task inside a delete.
DeletePoints == {"delFile", "delSidecar", "delIndex", "delFlush", "delTomb"}

\* The document is being deleted, or has been.
Doomed == tomb \/ \E t \in Tasks : pc[t] \in DeletePoints

\* A delete is on its way to R2.
DeleteSent == worker.pc = "delete" \/ queue \notin Seq({"json", "ydoc"})

\* Restores stand apart, a delete is the only operation, and it sends R2 its
\* delete when there is nothing left on the volume.
InTurn ==
    /\ Restoring => Overlap = FALSE
    /\ Doomed => Alone
    /\ BuriedInv
    /\ tomb => ~Has(body)
    /\ \A t \in Tasks : pc[t] \in DeletePoints \ {"delFile"} => ~Has(body)
    /\ DeleteSent => tomb \/ \E t \in Tasks : pc[t] = "delTomb"

\* The worker takes or carries a JSON body.
CarriesJson == worker.pc \in {"json", "putJson"}

\* Generations are captured in order: neither what is confirmed nor what the
\* worker carries is ahead of the current one, and once that is confirmed the
\* worker carries no older one.
GensOrdered ==
    /\ mirrorGen <= localGen
    /\ worker.gen <= localGen
    /\ CarriesJson /\ mirrorGen >= localGen => worker.gen = localGen

\* A worker that carries the current generation carries the current body.
CarriesBody ==
    worker.pc = "putJson" /\ worker.gen = localGen /\ ~Unrecorded /\ Has(body)
        => worker.file = body

\* The document is listed, cached, being snapshotted or has had a write.
Tracked ==
    \/ localGen # 0 \/ index # 0 \/ present
    \/ \E t \in Tasks : pc[t] \in {"snapSidecar", "snapLoad", "snapVersion"}

\* A confirmed current generation means R2 has the current body.
Confirmed ==
    Has(body) /\ Tracked /\ mirrorGen >= localGen /\ ~Unrecorded /\ ~Restoring
        => remote.json = body

-----------------------------------------------------------------------------
(* What holds when eviction passes and restores overlap no operation.  A   *)
(* body is removed when R2 has it, and what the worker still carries then  *)
(* is that body: so what a restore brings back is what was removed.        *)

\* A task that writes has content to write, and finds the body it wrote.
Written ==
    \A t \in Tasks : /\ pc[t] \notin {"idle"} \cup DeletePoints => src[t] # 0
                     /\ pc[t] \in {"insert", "flush", "note"} => Has(body)

\* No operation begins during an eviction pass, nor beside a restore.
EvictsAlone   == evictor # "idle" => Quiet
RestoresAlone == \A t, u \in Tasks : t # u /\ pc[t] \in RestorePoints => pc[u] = "idle"

\* A worker that carries a JSON body carries this one, at this generation.
Carries(file) ==
    /\ CarriesJson => worker.gen = localGen
    /\ worker.pc = "putJson" => worker.file = file

\* R2 has the victim's body, and the worker carries no other.
VictimMirrored ==
    evictor = "chosen" /\ Has(body) => remote.json = body /\ Carries(body)

\* Without a body on the volume, unless it is being deleted, the worker carries
\* what R2 has.
Reclaimed == ~Has(body) /\ ~Doomed => Carries(remote.json)

\* A restore fetched what R2 has, and installs it where there is no body.
Restored ==
    \A t \in Tasks :
        /\ pc[t] = "install" =>
               /\ ~Has(body) /\ Has(remote.json)
               /\ remote.json = [ver |-> ver[t], src |-> src[t]]
        /\ pc[t] \in InstalledPoints =>
               Has(body) /\ remote.json = body /\ Carries(body)

ApartInv ==
    /\ Written /\ EvictsAlone /\ RestoresAlone
    /\ VictimMirrored /\ Reclaimed /\ Restored

MirrorInv ==
    /\ InTurn /\ GensOrdered /\ CarriesBody /\ Confirmed
    /\ Overlap = FALSE => ApartInv

\* The steps of a task that neither touch the body nor move the task in or
\* out of the section between writing the body and recording the write.
Aside(t) ==
    \/ SaveBegin(t) \/ OverrideBegin(t) \/ SaveRead(t) \/ SaveRefuse(t)
    \/ SnapBegin(t) \/ SnapSidecar(t) \/ SnapLoad(t) \/ SnapSkip(t) \/ SnapVersion(t)

\* The steps of a restore.
Restores(t) ==
    \/ RestoreFetch(t) \/ RestoreInstall(t) \/ RestoreIndex(t)
    \/ RestoreFlush(t) \/ RestorePin(t)

\* The steps of a delete.
Deletes(t) ==
    \/ DeleteBegin(t) \/ DeleteFile(t) \/ DeleteSidecar(t) \/ DeleteIndex(t)
    \/ DeleteFlush(t) \/ DeleteTomb(t)

\* Every step of a task is one of these groups.
LEMMA TaskSteps ==
    ASSUME NEW t \in Tasks, TaskStep(t)
    PROVE  \/ Aside(t) \/ Restores(t) \/ Deletes(t)
           \/ WriteBody(t) \/ InsertIndex(t) \/ FlushIndex(t) \/ NoteWrite(t)
    BY DEF TaskStep, Aside, Restores, Deletes

\* The steps aside leave what the mirror invariant compares unchanged, and begin
\* only outside an eviction pass and a restore, unless operations may overlap.
LEMMA AsideFacts ==
    ASSUME TypeOK, NEW t \in Tasks, Aside(t)
    PROVE  /\ UNCHANGED <<body, index, localGen, mirrorGen, remote, worker, evictor>>
           /\ pc[t] \in SavePoints \ {"insert", "flush", "note"}
           /\ pc'[t] \in SavePoints \ {"insert", "flush", "note"}
           /\ \A u \in Tasks : u # t =>
                  pc'[u] = pc[u] /\ ver'[u] = ver[u] /\ src'[u] = src[u]
           /\ Unrecorded' <=> Unrecorded
           /\ Restoring' <=> Restoring
           /\ Tracked' => Tracked
           /\ pc[t] = "idle" => Overlap \/ (evictor = "idle" /\ ~Restoring)
<1>1. UNCHANGED <<body, index, localGen, mirrorGen, remote, worker, evictor>>
    BY DEF Aside, SaveBegin, OverrideBegin, SaveRead, SaveRefuse, SnapBegin, SnapSidecar,
           SnapLoad, SnapSkip, SnapVersion, volume, cache
<1>2. /\ pc[t] \in SavePoints \ {"insert", "flush", "note"}
      /\ pc'[t] \in SavePoints \ {"insert", "flush", "note"}
      /\ \A u \in Tasks : u # t => pc'[u] = pc[u]
    BY DEF Aside, SaveBegin, OverrideBegin, SaveRead, SaveRefuse, SnapBegin, SnapSidecar,
           SnapLoad, SnapSkip, SnapVersion, Start, Goto, SavePoints, TypeOK, TasksOK
<1>3. \A u \in Tasks : u # t => ver'[u] = ver[u] /\ src'[u] = src[u]
    BY DEF Aside, SaveBegin, OverrideBegin, SaveRead, SaveRefuse, SnapBegin, SnapSidecar, SnapLoad,
           SnapSkip, SnapVersion, NewContent, locals, TypeOK, TasksOK
<1>4. pc[t] = "idle" => Overlap \/ (evictor = "idle" /\ ~Restoring)
    BY DEF Aside, SaveBegin, OverrideBegin, SaveRead, SaveRefuse, SnapBegin, SnapSidecar,
           SnapLoad, SnapSkip, SnapVersion, Start, Goto
<1>5. Tracked' => Tracked
    BY <1>1 DEF Tracked, Aside, SaveBegin, OverrideBegin, SaveRead, SaveRefuse, SnapBegin,
       SnapSidecar,
       SnapLoad, SnapSkip, SnapVersion, Start, Goto, cache, TypeOK, TasksOK
<1>6. /\ Unrecorded' <=> Unrecorded
      /\ Restoring' <=> Restoring
    BY <1>2 DEF Unrecorded, Restoring, SavePoints
<1> QED
    BY <1>1, <1>2, <1>3, <1>4, <1>5, <1>6

\* A task between writing the body and recording it keeps Unrecorded true.
LEMMA RecordingFacts ==
    ASSUME TypeOK, NEW t \in Tasks,
           WriteBody(t) \/ InsertIndex(t) \/ FlushIndex(t)
    PROVE  /\ Unrecorded'
           /\ UNCHANGED <<localGen, mirrorGen, remote, worker, evictor, ver, src>>
           /\ pc[t] \in {"write", "insert", "flush"}
           /\ pc'[t] \in {"insert", "flush", "note"}
           /\ \A u \in Tasks : u # t => pc'[u] = pc[u]
           /\ WriteBody(t) => body' = [ver |-> ver[t], src |-> src[t]]
           /\ ~WriteBody(t) => pc[t] # "write" /\ body' = body
<1>1. /\ pc[t] \in {"write", "insert", "flush"}
      /\ pc'[t] \in {"insert", "flush", "note"}
      /\ \A u \in Tasks : u # t => pc'[u] = pc[u]
    BY DEF WriteBody, InsertIndex, FlushIndex, Goto, TypeOK, TasksOK
<1>2. UNCHANGED <<localGen, mirrorGen, remote, worker, evictor, ver, src>>
    BY DEF WriteBody, InsertIndex, FlushIndex, cache, locals
<1>3. /\ WriteBody(t) => body' = [ver |-> ver[t], src |-> src[t]]
      /\ ~WriteBody(t) => pc[t] # "write" /\ body' = body
    BY DEF WriteBody, InsertIndex, FlushIndex, Goto, volume
<1> QED
    BY <1>1, <1>2, <1>3 DEF Unrecorded

\* A recorded write is a generation of its own.
LEMMA NoteFacts ==
    ASSUME TypeOK, NEW t \in Tasks, NoteWrite(t)
    PROVE  /\ UNCHANGED <<body, mirrorGen, remote, worker, evictor, ver, src>>
           /\ localGen' = localGen + 1
           /\ pc[t] = "note" /\ pc'[t] = "idle"
           /\ \A u \in Tasks : u # t => pc'[u] = pc[u]
    BY DEF NoteWrite, Goto, volume, locals, TypeOK, TasksOK

\* A restore moves one task, records no write and touches nothing remote.
LEMMA RestoreFacts ==
    ASSUME TypeOK, NEW t \in Tasks, Restores(t)
    PROVE  /\ UNCHANGED <<localGen, remote, worker, evictor, queue, acked>>
           /\ \A u \in Tasks : u # t =>
                  pc'[u] = pc[u] /\ ver'[u] = ver[u] /\ src'[u] = src[u]
           /\ pc[t] \in {"idle"} \cup RestorePoints
           /\ pc'[t] \in {"idle"} \cup RestorePoints
           /\ Unrecorded' <=> Unrecorded
           /\ ~RestorePin(t) => Restoring' /\ mirrorGen' = mirrorGen
<1>1. UNCHANGED <<localGen, remote, worker, evictor, queue, acked>>
    BY DEF Restores, RestoreFetch, RestoreInstall, RestoreIndex, RestoreFlush,
           RestorePin, cache, ghosts
<1>2. /\ \A u \in Tasks : u # t => pc'[u] = pc[u]
      /\ pc[t] \in {"idle"} \cup RestorePoints
      /\ pc'[t] \in {"idle"} \cup RestorePoints
      /\ ~RestorePin(t) => pc'[t] \in RestorePoints
    BY DEF Restores, RestoreFetch, RestoreInstall, RestoreIndex, RestoreFlush,
           RestorePin, Start, Goto, RestorePoints, InstalledPoints, TypeOK, TasksOK
<1>3. \A u \in Tasks : u # t => ver'[u] = ver[u] /\ src'[u] = src[u]
    BY DEF Restores, RestoreFetch, RestoreInstall, RestoreIndex, RestoreFlush,
           RestorePin, locals, TypeOK, TasksOK
<1>4. ~RestorePin(t) => mirrorGen' = mirrorGen
    BY DEF Restores, RestoreFetch, RestoreInstall, RestoreIndex, RestoreFlush, cache
<1>5. ~RestorePin(t) => Restoring'
    BY <1>2 DEF Restoring, RestorePoints, InstalledPoints
<1>6. Unrecorded' <=> Unrecorded
    BY <1>2 DEF Unrecorded, RestorePoints, InstalledPoints
<1> QED
    BY <1>1, <1>2, <1>3, <1>4, <1>5, <1>6


\* A delete moves one task, takes the body away and leaves the mirror alone.
LEMMA DeletionFacts ==
    ASSUME TypeOK, NEW t \in Tasks, Deletes(t)
    PROVE  /\ UNCHANGED <<localGen, mirrorGen, present, remote, worker, evictor, ver,
                          src, crashes>>
           /\ \A u \in Tasks : u # t => pc'[u] = pc[u]
           /\ pc[t] \in {"idle"} \cup DeletePoints
           /\ pc'[t] \in {"idle"} \cup DeletePoints
           /\ pc[t] = "idle" => ~DeleteTomb(t) /\ (Overlap \/ (evictor = "idle" /\ ~Restoring))
           /\ body' = body \/ ~Has(body')
           /\ Unrecorded' <=> Unrecorded
           /\ Restoring' <=> Restoring
           /\ Tracked' => Tracked
           /\ Doomed'
<1>1. UNCHANGED <<localGen, mirrorGen, present, remote, worker, evictor, ver, src, crashes>>
    BY DEF Deletes, DeleteBegin, DeleteFile, DeleteSidecar, DeleteIndex, DeleteFlush,
           DeleteTomb, cache, locals, bounds
<1>2. /\ \A u \in Tasks : u # t => pc'[u] = pc[u]
      /\ pc[t] \in {"idle"} \cup DeletePoints
      /\ pc'[t] \in {"idle"} \cup DeletePoints
      /\ pc[t] # "idle" \/ pc'[t] = "delFile"
      /\ DeleteTomb(t) \/ pc'[t] \in DeletePoints
    BY DEF Deletes, DeleteBegin, DeleteFile, DeleteSidecar, DeleteIndex, DeleteFlush,
           DeleteTomb, Start, Goto, DeletePoints, TypeOK, TasksOK
<1>3. pc[t] = "idle" => ~DeleteTomb(t) /\ (Overlap \/ (evictor = "idle" /\ ~Restoring))
    BY DEF Deletes, DeleteBegin, DeleteFile, DeleteSidecar, DeleteIndex, DeleteFlush,
           DeleteTomb, Start, Goto
<1>4. body' = body \/ ~Has(body')
    BY DEF Deletes, DeleteBegin, DeleteFile, DeleteSidecar, DeleteIndex, DeleteFlush,
           DeleteTomb, volume, Has, Absent
<1>5. index' = index \/ index' = 0
    BY DEF Deletes, DeleteBegin, DeleteFile, DeleteSidecar, DeleteIndex, DeleteFlush,
           DeleteTomb
<1>6. /\ Unrecorded' <=> Unrecorded
      /\ Restoring' <=> Restoring
    BY <1>2 DEF Unrecorded, Restoring, DeletePoints
<1>7. Tracked' => Tracked
    BY <1>1, <1>2, <1>5 DEF Tracked, DeletePoints
<1>8. Doomed'
    BY <1>2 DEF Doomed, DeleteTomb
<1> QED
    BY <1>1, <1>2, <1>3, <1>4, <1>6, <1>7, <1>8


\* Whatever is done to a document but deleting it, it is not doomed then.
LEMMA LivesOn ==
    ASSUME DeletesFinal, TypeOK, InTurn, NEW t \in Tasks, TaskStep(t), ~Deletes(t)
    PROVE  /\ ~Doomed /\ ~Doomed'
           /\ ~OverrideBegin(t)
<1>0. /\ pc \in [Tasks -> Points]
      /\ tomb => Quiet /\ index = 0
      /\ Doomed => \A u \in Tasks : u = t
    BY DEF TypeOK, TasksOK, InTurn, BuriedInv, Alone
<1>1. ~OverrideBegin(t)
    BY DEF DeletesFinal, OverrideBegin, Start
<1>2. /\ tomb' = tomb
      /\ pc[t] \notin DeletePoints /\ pc'[t] \notin DeletePoints
      /\ \A u \in Tasks : u # t => pc'[u] = pc[u]
      /\ pc[t] = "idle" => ~tomb
  <2>1. CASE Aside(t)
    <3>1. /\ pc[t] \notin DeletePoints /\ pc'[t] \notin DeletePoints
          /\ \A u \in Tasks : u # t => pc'[u] = pc[u]
        BY <2>1, AsideFacts DEF SavePoints, DeletePoints
    <3>2. tomb' = tomb
        BY <1>1, <2>1 DEF Aside, SaveBegin, SaveRead, SaveRefuse, SnapBegin, SnapSidecar,
           SnapLoad, SnapSkip, SnapVersion
    <3>3. pc[t] = "idle" => ~tomb
        BY <1>0, <1>1, <2>1 DEF Aside, SaveBegin, SaveGate, SaveRead, SaveRefuse,
           SnapBegin, SnapSidecar, SnapLoad, SnapSkip, SnapVersion, Goto
    <3> QED
        BY <3>1, <3>2, <3>3
  <2>2. CASE Restores(t)
    <3>1. /\ pc[t] \notin DeletePoints /\ pc'[t] \notin DeletePoints
          /\ \A u \in Tasks : u # t => pc'[u] = pc[u]
        BY <2>2, RestoreFacts DEF RestorePoints, InstalledPoints, DeletePoints
    <3>2. /\ tomb' = tomb
          /\ pc[t] = "idle" => ~tomb
        BY <2>2 DEF Restores, RestoreFetch, RestoreInstall, RestoreIndex, RestoreFlush,
           RestorePin, Goto
    <3> QED
        BY <3>1, <3>2
  <2>3. CASE WriteBody(t) \/ InsertIndex(t) \/ FlushIndex(t) \/ NoteWrite(t)
    <3>1. /\ pc[t] \notin {"idle"} \cup DeletePoints /\ pc'[t] \notin DeletePoints
          /\ \A u \in Tasks : u # t => pc'[u] = pc[u]
        BY <2>3, RecordingFacts, NoteFacts DEF DeletePoints
    <3>2. tomb' = tomb
        BY <2>3 DEF WriteBody, InsertIndex, FlushIndex, NoteWrite
    <3> QED
        BY <3>1, <3>2
  <2> QED
      BY <2>1, <2>2, <2>3, TaskSteps
<1>3. ~tomb
    BY <1>0, <1>2 DEF Quiet
<1>4. ~Doomed
    BY <1>0, <1>2, <1>3 DEF Doomed
<1>5. ~Doomed'
    BY <1>2, <1>3, <1>4 DEF Doomed
<1> QED
    BY <1>1, <1>4, <1>5

\* A document that is being restored is not being deleted, and what has a body
\* has no delete on its way.
LEMMA InTurnFacts ==
    ASSUME TypeOK, InTurn
    PROVE  /\ Has(body) \/ ~Doomed => ~DeleteSent
           /\ \A t \in Tasks : pc[t] \notin {"idle"} \cup DeletePoints => ~Doomed
<1>1. Has(body) \/ ~Doomed => ~DeleteSent
    BY DEF InTurn, Doomed, DeletePoints
<1>2. ASSUME NEW t \in Tasks, pc[t] \notin {"idle"} \cup DeletePoints PROVE ~Doomed
    BY <1>2 DEF InTurn, BuriedInv, Quiet, Doomed, Alone
<1> QED
    BY <1>1, <1>2

\* Who deletes is alone.
LEMMA DeletesAlone ==
    ASSUME DeletesFinal, InTurn, NEW t \in Tasks, Deletes(t)
    PROVE  Alone
<1>1. CASE DeleteBegin(t)
    BY <1>1 DEF DeleteBegin, Start, DeletesFinal
<1>2. CASE ~DeleteBegin(t)
  <2>1. Doomed
      BY <1>2 DEF Deletes, DeleteFile, DeleteSidecar, DeleteIndex, DeleteFlush,
         DeleteTomb, Goto, Doomed, DeletePoints
  <2> QED
      BY <2>1 DEF InTurn
<1> QED
    BY <1>1, <1>2

\* A delete stands alone and comes in its order.
LEMMA InTurnStep ==
    ASSUME DeletesFinal, RestoresApart, TypeOK, InTurn, [Next]_vars
    PROVE  InTurn'
<1>0. /\ pc \in [Tasks -> Points] /\ queue \in Seq({"json", "ydoc", "delete"})
      /\ BuriedInv
    BY DEF TypeOK, TasksOK, MirrorOK, InTurn
<1>1. ASSUME NEW t \in Tasks, TaskStep(t), ~Deletes(t) PROVE InTurn'
  <2>0. /\ Aside(t) \/ Restores(t) \/ WriteBody(t) \/ InsertIndex(t) \/ FlushIndex(t)
           \/ NoteWrite(t)
        /\ ~Doomed' /\ ~Doomed
      BY <1>1, LivesOn, TaskSteps
  <2>1. ~DeleteSent
      BY <2>0, InTurnFacts
  <2>2. queue' \in Seq({"json", "ydoc"})
    <3>1. CASE Aside(t)
        BY <2>1, <3>1 DEF Aside, SaveBegin, OverrideBegin, SaveRead, SaveRefuse, SnapBegin,
           SnapSidecar, SnapLoad, SnapSkip, SnapVersion, DeleteSent
    <3>2. CASE Restores(t)
        BY <2>1, <3>2, RestoreFacts DEF DeleteSent
    <3>3. CASE WriteBody(t) \/ InsertIndex(t) \/ FlushIndex(t) \/ NoteWrite(t)
        BY <2>1, <3>3 DEF WriteBody, InsertIndex, FlushIndex, NoteWrite, EnqueueJson,
           DeleteSent
    <3> QED
        BY <2>0, <3>1, <3>2, <3>3
  <2>3. UNCHANGED worker
      BY <2>0, AsideFacts, RecordingFacts, NoteFacts, RestoreFacts
  <2>4. Restoring' => Overlap = FALSE
    <3>1. CASE Aside(t)
        BY <3>1, AsideFacts DEF InTurn
    <3>2. CASE Restores(t)
      <4>1. CASE pc[t] = "idle"
        <5>1. RestoreFetch(t)
            BY <3>2, <4>1 DEF Restores, RestoreInstall, RestoreIndex, RestoreFlush,
               RestorePin, Goto
        <5> QED
            BY <5>1 DEF RestoreFetch, Start, RestoresApart
      <4>2. CASE pc[t] # "idle"
          BY <3>2, <4>2, RestoreFacts DEF InTurn, Restoring, RestorePoints, InstalledPoints
      <4> QED
          BY <4>1, <4>2
    <3>3. CASE WriteBody(t) \/ InsertIndex(t) \/ FlushIndex(t) \/ NoteWrite(t)
      <4>1. /\ pc'[t] \notin RestorePoints
            /\ \A u \in Tasks : u # t => pc'[u] = pc[u]
          BY <3>3, RecordingFacts, NoteFacts DEF RestorePoints, InstalledPoints
      <4>2. Restoring' => Restoring
          BY <4>1 DEF Restoring, RestorePoints, InstalledPoints
      <4> QED
          BY <4>2 DEF InTurn
    <3> QED
        BY <2>0, <3>1, <3>2, <3>3
  <2>5. BuriedInv'
      BY <2>0 DEF Doomed, BuriedInv, DeletePoints
  <2>6. ~DeleteSent'
      BY <2>1, <2>2, <2>3 DEF DeleteSent
  <2>7. /\ tomb' => ~Has(body')
        /\ \A u \in Tasks : pc'[u] \in DeletePoints \ {"delFile"} => ~Has(body')
      BY <2>0 DEF Doomed
  <2> QED
      BY <2>0, <2>4, <2>5, <2>6, <2>7 DEF InTurn
<1>2. ASSUME NEW t \in Tasks, Deletes(t) PROVE InTurn'
  <2>1. Alone
      BY <1>2, DeletesAlone
  <2>2. \A u \in Tasks : u = t
      BY <2>1 DEF Alone
  <2>3. BuriedInv'
    <3>1. TaskStep(t)
        BY <1>2 DEF Deletes, TaskStep
    <3> QED
        BY <1>0, <2>1, <3>1, BuriedTaskStep
  <2>4. Restoring' => Overlap = FALSE
      BY <1>2, DeletionFacts DEF InTurn
  <2>5. CASE DeleteBegin(t)
    <3>1. ~tomb /\ tomb' = tomb /\ pc[t] = "idle" /\ pc'[t] = "delFile" /\ UNCHANGED <<queue, worker>>
        BY <1>0, <2>5 DEF DeleteBegin, Start, Goto, BuriedInv
    <3>2. ~DeleteSent'
        BY <2>2, <3>1 DEF InTurn, DeleteSent
    <3> QED
        BY <2>1, <2>2, <2>3, <2>4, <3>1, <3>2 DEF InTurn
  <2>6. CASE DeleteFile(t) \/ DeleteSidecar(t) \/ DeleteIndex(t)
    <3>1. /\ ~tomb /\ tomb' = tomb /\ pc[t] \in {"delFile", "delSidecar", "delIndex"}
          /\ UNCHANGED <<queue, worker>>
        BY <1>0, <2>6 DEF DeleteFile, DeleteSidecar, DeleteIndex, Goto, BuriedInv, Quiet
    <3>2. ~DeleteSent'
        BY <2>2, <3>1 DEF InTurn, DeleteSent
    <3>3. ~Has(body')
      <4>1. CASE DeleteFile(t)
          BY <4>1 DEF DeleteFile, Has, Absent
      <4>2. CASE DeleteSidecar(t) \/ DeleteIndex(t)
        <5>1. pc[t] \in {"delSidecar", "delIndex"} /\ body' = body
            BY <4>2 DEF DeleteSidecar, DeleteIndex, Goto, volume
        <5>2. ~Has(body)
            BY <5>1 DEF InTurn, DeletePoints
        <5> QED
            BY <5>1, <5>2 DEF Has
      <4> QED
          BY <2>6, <4>1, <4>2
    <3> QED
        BY <2>1, <2>3, <2>4, <3>2, <3>3 DEF InTurn
  <2>7. CASE DeleteFlush(t) \/ DeleteTomb(t)
    <3>1. ~Has(body')
        BY <2>7 DEF DeleteFlush, DeleteTomb, Goto, InTurn, DeletePoints, volume, Has
    <3>2. pc'[t] = "delTomb" \/ tomb'
        BY <1>0, <2>7 DEF DeleteFlush, DeleteTomb, Goto
    <3> QED
        BY <2>1, <2>3, <2>4, <3>1, <3>2 DEF InTurn
  <2> QED
      BY <1>2, <2>5, <2>6, <2>7 DEF Deletes
\* The worker, the evictor and a restart move no task into a delete.
<1>3. ASSUME UNCHANGED <<index, indexFile, tomb, pc>>, body' = body \/ ~Has(body'),
             DeleteSent' => DeleteSent
      PROVE  InTurn'
    BY <1>3 DEF InTurn, BuriedInv, Quiet, Doomed, Restoring, Has
<1>4. CASE WorkerTake
  <2>1. UNCHANGED <<index, indexFile, tomb, pc, body>>
      BY <1>4 DEF WorkerTake, volume
  <2>2. ASSUME ~DeleteSent PROVE ~DeleteSent'
    <3>1. queue \in Seq({"json", "ydoc"})
        BY <2>2 DEF DeleteSent
    <3>2. Head(queue) \in {"json", "ydoc"} /\ Tail(queue) \in Seq({"json", "ydoc"})
        BY <1>4, <3>1 DEF WorkerTake
    <3> QED
        BY <1>4, <3>2 DEF WorkerTake, DeleteSent
  <2> QED
      BY <1>3, <2>1, <2>2
<1>5. CASE WorkerRead \/ WorkerPut \/ WorkerDelete \/ WorkerFail
  <2>1. UNCHANGED <<index, indexFile, tomb, pc, body, queue>> /\ worker'.pc # "delete"
      BY <1>5 DEF WorkerRead, WorkerPut, WorkerDelete, WorkerFail, volume, TypeOK, MirrorOK
  <2> QED
      BY <1>3, <2>1 DEF DeleteSent
<1>6. CASE EvictStep
  <2>1. UNCHANGED <<index, indexFile, tomb, pc, queue, worker>>
      BY <1>6 DEF EvictStep, EvictChoose, EvictRemove, EvictMark, volume
  <2>2. body' = body \/ ~Has(body')
      BY <1>6 DEF EvictStep, EvictChoose, EvictRemove, EvictMark, volume, Has, Absent
  <2> QED
      BY <1>3, <2>1, <2>2 DEF DeleteSent
<1>7. CASE Restart
  <2>1. queue' = <<"json", "ydoc">> \/ queue' = <<>>
      BY <1>7, Zenon DEF Restart
  <2>2. queue' \in Seq({"json", "ydoc"})
    <3>1. <<"json", "ydoc">> \in Seq({"json", "ydoc"})
        OBVIOUS
    <3>2. <<>> \in Seq({"json", "ydoc"})
        OBVIOUS
    <3> QED
        BY <2>1, <3>1, <3>2, Zenon
  <2>3. ~DeleteSent'
      BY <1>7, <2>2 DEF Restart, DeleteSent
  <2>4. /\ \A t \in Tasks : pc'[t] = "idle"
        /\ index' = indexFile /\ UNCHANGED <<tomb, body, indexFile>>
      BY <1>7 DEF Restart, volume
  <2> QED
      BY <1>0, <2>3, <2>4 DEF InTurn, BuriedInv, Quiet, Doomed, DeletePoints, Restoring
<1>8. CASE UNCHANGED vars
    BY <1>3, <1>8 DEF vars, volume, DeleteSent
<1>9. ASSUME NEW t \in Tasks, FileFails(t) PROVE InTurn'
  <2>1. /\ UNCHANGED <<body, index, indexFile, tomb, queue, worker>>
        /\ pc[t] \in FilePoints /\ pc'[t] = "idle"
        /\ \A u \in Tasks : u # t => pc'[u] = pc[u]
      BY <1>9, FailFacts
  <2>2. /\ Restoring' => Restoring
        /\ Doomed' => Doomed
      BY <2>1 DEF Restoring, Doomed, DeletePoints
  <2>3. BuriedInv'
      BY <1>0, <2>1 DEF BuriedInv, Quiet
  <2>4. DeleteSent' => tomb' \/ \E u \in Tasks : pc'[u] = "delTomb"
      BY <2>1 DEF InTurn, DeleteSent, FilePoints, IndexPoints
  <2> QED
      BY <2>1, <2>2, <2>3, <2>4 DEF InTurn, DeletePoints, Has
<1> QED
    BY <1>1, <1>2, <1>4, <1>5, <1>6, <1>7, <1>8, <1>9 DEF Next, WorkerStep, TaskStep

\* The confirmed generation never overtakes the captured nor the current one.
LEMMA GensOrderedStep ==
    ASSUME DeletesFinal, FilesWritten, TypeOK, MirrorInv, [Next]_vars
    PROVE  GensOrdered'
<1> USE DEF GensOrdered, CarriesJson
<1>0. /\ localGen \in Nat /\ mirrorGen \in Nat /\ worker.gen \in Nat
      /\ GensOrdered /\ InTurn
    BY DEF TypeOK, FilesOK, MirrorOK, MirrorInv
<1>1. ASSUME NEW t \in Tasks, TaskStep(t) PROVE GensOrdered'
  <2>1. CASE Aside(t)
      BY <1>0, <2>1, AsideFacts
  <2>2. CASE WriteBody(t) \/ InsertIndex(t) \/ FlushIndex(t)
      BY <1>0, <2>2, RecordingFacts
  <2>3. CASE NoteWrite(t)
      BY <1>0, <2>3, NoteFacts
  <2>4. CASE Restores(t) /\ ~RestorePin(t)
      BY <1>0, <2>4, RestoreFacts
  <2>5. CASE RestorePin(t)
    <3>1. Restored
        BY <1>0, <2>5 DEF RestorePin, Goto, InTurn, Restoring, MirrorInv, ApartInv
    <3>2. CarriesJson => worker.gen = localGen
        BY <2>5, <3>1 DEF RestorePin, Goto, Restored, Carries, InstalledPoints
    <3>3. mirrorGen' = localGen /\ UNCHANGED <<localGen, worker>>
        BY <1>0, <2>5 DEF RestorePin
    <3> QED
        BY <1>0, <3>2, <3>3
  <2>6. CASE Deletes(t)
      BY <1>0, <2>6, DeletionFacts
  <2> QED
      BY <1>0, <1>1, <2>1, <2>2, <2>3, <2>4, <2>5, <2>6, TaskSteps DEF Restores
<1>2. CASE WorkerTake
    BY <1>0, <1>2 DEF WorkerTake, cache
<1>3. CASE WorkerRead
    BY <1>0, <1>3 DEF WorkerRead, cache, TypeOK, MirrorOK
<1>4. CASE WorkerPut
    BY <1>0, <1>4 DEF WorkerPut, ConfirmedGen, TypeOK, MirrorOK
<1>5. CASE WorkerDelete \/ WorkerFail
    BY <1>0, <1>5 DEF WorkerDelete, WorkerFail, cache, TypeOK, MirrorOK
<1>6. CASE EvictStep
    BY <1>0, <1>6 DEF EvictStep, EvictChoose, EvictRemove, EvictMark, cache
<1>7. CASE Restart
    BY <1>7 DEF Restart
<1>8. CASE UNCHANGED vars
    BY <1>0, <1>8 DEF vars, cache
<1> QED
    BY <1>1, <1>2, <1>3, <1>4, <1>5, <1>6, <1>7, <1>8, FailFacts
       DEF Next, WorkerStep, FilesWritten

\* What the worker carries under the current generation is the current body.
LEMMA CarriesBodyStep ==
    ASSUME DeletesFinal, FilesWritten, TypeOK, MirrorInv, [Next]_vars
    PROVE  CarriesBody'
<1> USE DEF CarriesBody, Has
<1>0. /\ localGen \in Nat /\ worker.gen \in Nat
      /\ GensOrdered /\ InTurn /\ CarriesBody
    BY DEF TypeOK, FilesOK, MirrorOK, MirrorInv
<1>1. ASSUME NEW t \in Tasks, TaskStep(t) PROVE CarriesBody'
  <2>1. CASE Aside(t)
      BY <1>0, <2>1, AsideFacts
  <2>2. CASE WriteBody(t) \/ InsertIndex(t) \/ FlushIndex(t)
      BY <2>2, RecordingFacts
  <2>3. CASE NoteWrite(t)
      BY <1>0, <2>3, NoteFacts DEF GensOrdered
  <2>4. CASE Restores(t) /\ ~RestoreInstall(t)
    <3>1. UNCHANGED body
        BY <2>4 DEF Restores, RestoreFetch, RestoreIndex, RestoreFlush, RestorePin,
           volume
    <3> QED
        BY <1>0, <2>4, <3>1, RestoreFacts
  <2>5. CASE RestoreInstall(t)
    <3>1. Reclaimed /\ Restored
        BY <1>0, <2>5 DEF RestoreInstall, Goto, InTurn, Restoring, MirrorInv, ApartInv
    <3>2. ~Doomed
        BY <1>0, <2>5, InTurnFacts DEF RestoreInstall, Goto, DeletePoints
    <3>4. worker.pc = "putJson" => worker.file = [ver |-> ver[t], src |-> src[t]]
        BY <2>5, <3>1, <3>2 DEF RestoreInstall, Goto, Restored, Reclaimed, Carries
    <3>3. body' = [ver |-> ver[t], src |-> src[t]] /\ UNCHANGED worker
        BY <2>5 DEF RestoreInstall
    <3> QED
        BY <3>3, <3>4
  <2>6. CASE Deletes(t)
      BY <1>0, <2>6, DeletionFacts
  <2> QED
      BY <1>0, <1>1, <2>1, <2>2, <2>3, <2>4, <2>5, <2>6, TaskSteps DEF Restores
<1>2. CASE WorkerTake
  <2>1. worker'.pc # "putJson"
      BY <1>2 DEF WorkerTake, TypeOK, MirrorOK
  <2> QED
      BY <2>1
<1>3. CASE WorkerRead
    BY <1>0, <1>3 DEF WorkerRead, volume, cache, TypeOK, MirrorOK
<1>4. CASE WorkerPut \/ WorkerDelete \/ WorkerFail
    BY <1>4 DEF WorkerPut, WorkerDelete, WorkerFail, TypeOK, MirrorOK
<1>5. CASE EvictChoose \/ EvictMark
    BY <1>0, <1>5 DEF EvictChoose, EvictMark, Unrecorded, volume, cache
<1>6. CASE EvictRemove
    BY <1>6 DEF EvictRemove, Absent
<1>7. CASE Restart
    BY <1>7 DEF Restart
<1>8. CASE UNCHANGED vars
    BY <1>0, <1>8 DEF vars, volume, cache, Unrecorded
<1> QED
    BY <1>1, <1>2, <1>3, <1>4, <1>5, <1>6, <1>7, <1>8, FailFacts
       DEF Next, WorkerStep, EvictStep, FilesWritten

\* A confirmed current generation means R2 holds the current body.
LEMMA ConfirmedStep ==
    ASSUME DeletesFinal, FilesWritten, TypeOK, MirrorInv, [Next]_vars
    PROVE  Confirmed'
<1> USE DEF Confirmed, Has
<1>0. /\ localGen \in Nat /\ mirrorGen \in Nat /\ worker.gen \in Nat
      /\ GensOrdered /\ InTurn /\ CarriesBody /\ Confirmed
    BY DEF TypeOK, FilesOK, MirrorOK, MirrorInv
<1>1. ASSUME NEW t \in Tasks, TaskStep(t) PROVE Confirmed'
  <2>1. CASE Aside(t)
      BY <1>0, <2>1, AsideFacts
  <2>2. CASE WriteBody(t) \/ InsertIndex(t) \/ FlushIndex(t)
      BY <2>2, RecordingFacts
  <2>3. CASE NoteWrite(t)
      BY <1>0, <2>3, NoteFacts DEF GensOrdered
  <2>4. CASE Restores(t) /\ ~RestorePin(t)
      BY <2>4, RestoreFacts
  <2>5. CASE RestorePin(t)
    <3>1. Restored
        BY <1>0, <2>5 DEF RestorePin, Goto, InTurn, Restoring, MirrorInv, ApartInv
    <3>2. remote.json = body /\ UNCHANGED <<remote, body>>
        BY <2>5, <3>1 DEF RestorePin, Goto, Restored, InstalledPoints, volume
    <3> QED
        BY <3>2
  <2>6. CASE Deletes(t)
      BY <1>0, <2>6, DeletionFacts
  <2> QED
      BY <1>0, <1>1, <2>1, <2>2, <2>3, <2>4, <2>5, <2>6, TaskSteps DEF Restores
<1>2. CASE WorkerTake \/ WorkerRead
    BY <1>0, <1>2 DEF WorkerTake, WorkerRead, Unrecorded, Restoring, Tracked, volume,
       cache
<1>3. CASE WorkerPut
  <2>1. /\ UNCHANGED <<body, localGen>> /\ (Unrecorded' <=> Unrecorded)
        /\ (Restoring' <=> Restoring) /\ (Tracked' <=> Tracked)
      BY <1>3 DEF WorkerPut, Unrecorded, Restoring, Tracked, volume
  <2>2. CASE worker.pc = "putYdoc"
      BY <1>0, <1>3, <2>1, <2>2 DEF WorkerPut, TypeOK, MirrorOK
  <2>3. CASE worker.pc = "putJson"
    <3>1. remote'.json = worker.file
        BY <1>3, <2>3 DEF WorkerPut, TypeOK, MirrorOK
    <3>2. mirrorGen' >= localGen => worker.gen = localGen
        BY <1>0, <1>3, <2>3 DEF WorkerPut, ConfirmedGen, GensOrdered, CarriesJson
    <3> QED
        BY <1>0, <2>1, <2>3, <3>1, <3>2 DEF CarriesBody
  <2> QED
      BY <1>3, <2>2, <2>3 DEF WorkerPut
<1>4. CASE WorkerDelete
  <2>1. ~Has(body)
      BY <1>0, <1>4, InTurnFacts DEF WorkerDelete, DeleteSent
  <2> QED
      BY <1>4, <2>1 DEF WorkerDelete, volume
<1>9. CASE WorkerFail
    BY <1>0, <1>9 DEF WorkerFail, Unrecorded, Restoring, Tracked, volume, cache
<1>5. CASE EvictChoose \/ EvictMark
    BY <1>0, <1>5 DEF EvictChoose, EvictMark, Unrecorded, Restoring, Tracked, volume,
       cache
<1>6. CASE EvictRemove
    BY <1>6 DEF EvictRemove, Absent
<1>7. CASE Restart
  <2>1. Tracked' => localGen' = 1
      BY <1>7 DEF Restart, Tracked
  <2> QED
      BY <1>7, <2>1 DEF Restart
<1>8. CASE UNCHANGED vars
    BY <1>0, <1>8 DEF vars, volume, cache, Unrecorded, Restoring, Tracked
<1> QED
    BY <1>1, <1>2, <1>3, <1>4, <1>5, <1>6, <1>7, <1>8, <1>9, FailFacts
       DEF Next, WorkerStep, EvictStep, FilesWritten

\* A task's step keeps what holds when passes and restores stand apart.
LEMMA ApartTaskStep ==
    ASSUME DeletesFinal, Overlap = FALSE, TypeOK, MirrorInv,
           NEW t \in Tasks, TaskStep(t)
    PROVE  ApartInv'
<1>0. /\ pc \in [Tasks -> Points] /\ src \in [Tasks -> Nat] /\ ver \in [Tasks -> Nat]
      /\ writes \in Nat /\ InTurn
      /\ Written /\ EvictsAlone /\ RestoresAlone
      /\ VictimMirrored /\ Reclaimed /\ Restored
    BY DEF TypeOK, TasksOK, MirrorInv, ApartInv
<1>1. pc[t] # "idle" => evictor = "idle"
    BY <1>0 DEF EvictsAlone, Quiet
<1>2. pc[t] \notin {"idle"} \cup RestorePoints =>
          \A u \in Tasks : pc[u] \notin RestorePoints
    BY <1>0 DEF RestoresAlone
<1>3. CASE Aside(t) /\ ~Deletes(t)
  <2>1. /\ UNCHANGED <<body, localGen, remote, worker, evictor>>
        /\ pc[t] \in SavePoints \ {"insert", "flush", "note"}
        /\ pc'[t] \in SavePoints \ {"insert", "flush", "note"}
        /\ \A u \in Tasks : u # t => pc'[u] = pc[u] /\ src'[u] = src[u]
      BY <1>3, AsideFacts
  <2>2. evictor = "idle" /\ \A u \in Tasks : pc'[u] \notin RestorePoints
    <3>1. CASE pc[t] = "idle"
      <4>1. evictor = "idle" /\ ~Restoring
          BY <1>3, <3>1, AsideFacts
      <4> QED
          BY <2>1, <4>1 DEF Restoring, RestorePoints, InstalledPoints, SavePoints
    <3>2. CASE pc[t] # "idle"
        BY <1>1, <1>2, <2>1, <3>2 DEF RestorePoints, InstalledPoints, SavePoints
    <3> QED
        BY <3>1, <3>2
  <2>3. pc'[t] # "idle" => src'[t] # 0
    <3>1. CASE SaveBegin(t) \/ OverrideBegin(t) \/ SnapBegin(t)
        BY <1>0, <3>1 DEF SaveBegin, OverrideBegin, SnapBegin, NewContent
    <3>2. CASE ~SaveBegin(t) /\ ~OverrideBegin(t) /\ ~SnapBegin(t)
        BY <1>0, <1>3, <3>2 DEF Aside, SaveRead, SaveRefuse, SnapSidecar, SnapLoad,
           SnapSkip, SnapVersion, Goto, Written, DeletePoints, locals
    <3> QED
        BY <3>1, <3>2
  <2>4. Written'
      BY <1>0, <2>1, <2>3 DEF Written, Has
  <2>5. EvictsAlone' /\ RestoresAlone' /\ VictimMirrored' /\ Restored'
      BY <2>1, <2>2 DEF EvictsAlone, RestoresAlone, VictimMirrored, Restored,
         RestorePoints
  <2>6. Reclaimed'
    <3>1. ~Doomed
        BY <1>0, <1>3, LivesOn
    <3> QED
        BY <1>0, <2>1, <3>1 DEF Reclaimed, Carries, CarriesJson, Has
  <2> QED
      BY <2>4, <2>5, <2>6 DEF ApartInv
<1>4. CASE WriteBody(t) \/ InsertIndex(t) \/ FlushIndex(t) \/ NoteWrite(t)
  <2>1. /\ pc[t] \in {"write", "insert", "flush", "note"}
        /\ pc'[t] \notin RestorePoints
        /\ \A u \in Tasks : u # t => pc'[u] = pc[u]
        /\ UNCHANGED <<evictor, src>>
      BY <1>4, RecordingFacts, NoteFacts DEF RestorePoints, InstalledPoints
  <2>2. evictor = "idle" /\ \A u \in Tasks : pc'[u] \notin RestorePoints
      BY <1>1, <1>2, <2>1 DEF RestorePoints, InstalledPoints
  <2>3. Has(body')
    <3>1. CASE WriteBody(t)
      <4>1. body'.src = src[t]
          BY <3>1, RecordingFacts
      <4> QED
          BY <1>0, <2>1, <4>1 DEF Written, DeletePoints, Has
    <3>2. CASE ~WriteBody(t)
      <4>1. body' = body /\ pc[t] # "write"
          BY <1>4, <3>2, RecordingFacts, NoteFacts
      <4> QED
          BY <1>0, <2>1, <4>1 DEF Written
    <3> QED
        BY <3>1, <3>2
  <2>4. Written'
      BY <1>0, <2>1, <2>3 DEF Written, DeletePoints, Has
  <2>5. EvictsAlone' /\ RestoresAlone' /\ VictimMirrored' /\ Restored' /\ Reclaimed'
      BY <2>1, <2>2, <2>3 DEF EvictsAlone, RestoresAlone, VictimMirrored, Restored,
         Reclaimed, RestorePoints, Has
  <2> QED
      BY <2>4, <2>5 DEF ApartInv
<1>5. CASE Restores(t) /\ ~Deletes(t)
  <2>1. /\ UNCHANGED <<localGen, remote, worker, evictor>>
        /\ \A u \in Tasks : u # t => pc'[u] = pc[u] /\ src'[u] = src[u]
        /\ pc[t] \in {"idle"} \cup RestorePoints
        /\ pc'[t] \in {"idle"} \cup RestorePoints
      BY <1>5, RestoreFacts
  <2>2. /\ evictor = "idle" /\ \A u \in Tasks : u # t => pc'[u] = "idle"
    <3>1. CASE RestoreFetch(t)
        BY <2>1, <3>1 DEF RestoreFetch, Start, Quiet
    <3>2. CASE ~RestoreFetch(t)
      <4>1. pc[t] \in RestorePoints
          BY <1>5, <3>2 DEF Restores, RestoreInstall, RestoreIndex, RestoreFlush,
             RestorePin, Goto, RestorePoints, InstalledPoints
      <4> QED
          BY <1>0, <1>1, <2>1, <4>1 DEF RestoresAlone, RestorePoints, InstalledPoints
    <3> QED
        BY <3>1, <3>2
  \* The task itself, step by step.
  <2>9. ~Doomed
      BY <1>0, <1>5, LivesOn
  <2>3. /\ pc'[t] # "idle" => src'[t] # 0
        /\ pc'[t] = "install" =>
               /\ ~Has(body') /\ Has(remote.json)
               /\ remote.json = [ver |-> ver'[t], src |-> src'[t]]
        /\ pc'[t] \in InstalledPoints =>
               Has(body') /\ remote.json = body' /\ Carries(body')
        /\ Has(body') \/ body' = body
    <3>1. CASE RestoreFetch(t)
      <4>1. /\ pc'[t] = "install" /\ ~Has(body) /\ Has(remote.json) /\ body' = body
            /\ ver'[t] = remote.json.ver /\ src'[t] = remote.json.src
          BY <1>0, <3>1 DEF RestoreFetch, Start, Goto, volume
      <4>2. remote.json \in File
          BY DEF TypeOK, MirrorOK
      <4> QED
          BY <4>1, <4>2 DEF File, Has, InstalledPoints
    <3>2. CASE RestoreInstall(t)
      <4>1. /\ pc[t] = "install" /\ pc'[t] = "restoreIndex" /\ src' = src
            /\ body' = [ver |-> ver[t], src |-> src[t]]
          BY <1>0, <3>2 DEF RestoreInstall, Goto, locals
      <4>2. /\ remote.json = [ver |-> ver[t], src |-> src[t]] /\ Has(remote.json)
            /\ Carries(remote.json)
          BY <1>0, <2>9, <4>1 DEF Restored, Reclaimed
      <4>3. src[t] # 0
          BY <1>0, <4>1 DEF Written, DeletePoints
      <4> QED
          BY <4>1, <4>2, <4>3 DEF Has
    <3>3. CASE RestoreIndex(t) \/ RestoreFlush(t) \/ RestorePin(t)
      <4>1. /\ pc[t] \in InstalledPoints /\ pc'[t] \in {"restoreFlush", "restorePin", "idle"}
            /\ src' = src /\ body' = body
          BY <1>0, <3>3 DEF RestoreIndex, RestoreFlush, RestorePin, Goto, locals, volume,
             InstalledPoints
      <4>2. Has(body) /\ remote.json = body /\ Carries(body)
          BY <1>0, <4>1 DEF Restored
      <4>3. src[t] # 0
          BY <1>0, <4>1 DEF Written, InstalledPoints, DeletePoints
      <4> QED
          BY <4>1, <4>2, <4>3
    <3> QED
        BY <1>5, <3>1, <3>2, <3>3 DEF Restores
  <2>4. \A u \in Tasks : pc'[u] # "idle" => u = t
      BY <2>2
  <2>5. Written'
      BY <2>1, <2>3, <2>4 DEF Written, RestorePoints, InstalledPoints
  <2>6. EvictsAlone' /\ RestoresAlone' /\ VictimMirrored'
      BY <2>1, <2>2, <2>4 DEF EvictsAlone, RestoresAlone, VictimMirrored, RestorePoints,
         InstalledPoints
  <2>7. Reclaimed'
      BY <1>0, <2>1, <2>3, <2>9 DEF Reclaimed, Carries, CarriesJson, Has
  <2>8. Restored'
      BY <2>1, <2>3, <2>4 DEF Restored, Carries, CarriesJson, InstalledPoints
  <2> QED
      BY <2>5, <2>6, <2>7, <2>8 DEF ApartInv
<1>6. CASE Deletes(t)
  <2>1. /\ UNCHANGED evictor
        /\ \A u \in Tasks : u # t => pc'[u] = pc[u]
        /\ pc[t] \in {"idle"} \cup DeletePoints
        /\ pc'[t] \in {"idle"} \cup DeletePoints
        /\ pc[t] = "idle" => evictor = "idle"
        /\ Doomed'
      BY <1>6, DeletionFacts
  <2>2. /\ evictor = "idle"
        /\ \A u \in Tasks : u = t
    <3>1. Alone
        BY <1>0, <1>6, DeletesAlone
    <3> QED
        BY <1>1, <2>1, <3>1 DEF Alone
  <2>3. \A u \in Tasks : pc'[u] \in {"idle"} \cup DeletePoints
      BY <2>1, <2>2
  <2> QED
      BY <2>1, <2>2, <2>3 DEF ApartInv, Written, EvictsAlone, RestoresAlone,
         VictimMirrored, Reclaimed, Restored, RestorePoints, InstalledPoints, DeletePoints
<1> QED
    BY <1>3, <1>4, <1>5, <1>6, <1>0, TaskSteps

\* So does every other step.
LEMMA ApartStep ==
    ASSUME DeletesFinal, FilesWritten, Overlap = FALSE, TypeOK, MirrorInv, [Next]_vars
    PROVE  ApartInv'
<1>0. /\ localGen \in Nat /\ mirrorGen \in Nat /\ worker.gen \in Nat /\ InTurn
      /\ GensOrdered /\ CarriesBody /\ Confirmed /\ Written /\ EvictsAlone
      /\ RestoresAlone /\ VictimMirrored /\ Reclaimed /\ Restored
    BY DEF TypeOK, FilesOK, MirrorOK, MirrorInv, ApartInv
<1>1. ASSUME NEW t \in Tasks, TaskStep(t) PROVE ApartInv'
    BY <1>1, ApartTaskStep
\* The worker moves no task and leaves the volume alone.
<1>2. ASSUME UNCHANGED <<body, tomb, evictor, pc, ver, src, localGen>>,
             CarriesJson' => worker'.gen = localGen,
             worker'.pc = "putJson" => Has(body) /\ worker'.file = body,
             \/ remote'.json = remote.json
             \/ worker.pc = "putJson" /\ remote'.json = worker.file
      PROVE  ApartInv'
  <2>1. Written' /\ EvictsAlone' /\ RestoresAlone'
      BY <1>0, <1>2 DEF Written, EvictsAlone, RestoresAlone, Quiet, Has
  <2>2. Carries(body)'
      BY <1>2 DEF Carries, CarriesJson
  <2>3. VictimMirrored'
      BY <1>0, <1>2, <2>2 DEF VictimMirrored, Carries, CarriesJson, Has
  <2>4. Reclaimed'
      BY <1>0, <1>2 DEF Reclaimed, Doomed, Carries, CarriesJson, Has
  <2>5. ~Has(body) /\ ~Doomed => remote'.json = remote.json
      BY <1>0, <1>2 DEF Reclaimed, Carries
  <2>6. Restored'
    <3>1. \A t \in Tasks : pc[t] = "install" => ~Doomed
        BY <1>0, InTurnFacts DEF DeletePoints
    <3> QED
        BY <1>0, <1>2, <2>2, <2>5, <3>1 DEF Restored, Carries, CarriesJson, Has,
           InstalledPoints
  <2> QED
      BY <2>1, <2>3, <2>4, <2>6 DEF ApartInv
<1>3. CASE WorkerTake
  <2>1. /\ UNCHANGED <<body, tomb, evictor, pc, ver, src, localGen, remote>>
        /\ worker'.gen = localGen /\ worker'.pc # "putJson"
      BY <1>0, <1>3 DEF WorkerTake, TypeOK, MirrorOK, volume, cache, locals
  <2> QED
      BY <1>2, <2>1
<1>4. CASE WorkerRead
  <2>1. /\ UNCHANGED <<body, tomb, evictor, pc, ver, src, localGen, remote>>
        /\ worker'.gen = worker.gen
        /\ CarriesJson' => worker.pc = "json"
        /\ worker'.pc = "putJson" => Has(body) /\ worker'.file = body
      BY <1>4 DEF WorkerRead, CarriesJson, volume, cache, locals, TypeOK, MirrorOK
  <2>2. CASE Has(body) /\ evictor = "chosen"
      BY <1>0, <1>2, <2>1, <2>2 DEF VictimMirrored, Carries, CarriesJson
  <2>3. CASE ~Has(body)
    <3>1. ~CarriesJson' /\ worker'.pc # "putJson"
        BY <1>4, <2>1, <2>3 DEF WorkerRead, CarriesJson
    <3> QED
        BY <1>2, <2>1, <3>1
  <2>4. CASE Has(body) /\ evictor # "chosen"
    <3>1. Written' /\ EvictsAlone' /\ RestoresAlone' /\ VictimMirrored' /\ Reclaimed'
        BY <1>0, <2>1, <2>4 DEF Written, EvictsAlone, RestoresAlone, Quiet,
           VictimMirrored, Reclaimed, Has
    <3>2. Restored'
        BY <1>0, <2>1, <2>4 DEF Restored, Carries, CarriesJson, Has
    <3> QED
        BY <3>1, <3>2 DEF ApartInv
  <2> QED
      BY <2>2, <2>3, <2>4
<1>5. CASE WorkerPut
  <2>1. /\ UNCHANGED <<body, tomb, evictor, pc, ver, src, localGen>>
        /\ worker'.pc = "idle"
        /\ \/ remote'.json = remote.json
           \/ worker.pc = "putJson" /\ remote'.json = worker.file
      BY <1>5 DEF WorkerPut, volume, locals, TypeOK, MirrorOK
  <2> QED
      BY <1>2, <2>1 DEF CarriesJson
<1>6. CASE WorkerFail
  <2>1. /\ UNCHANGED <<body, tomb, evictor, pc, ver, src, localGen, remote>>
        /\ worker'.pc = "idle"
      BY <1>6 DEF WorkerFail, volume, cache, locals, TypeOK, MirrorOK
  <2> QED
      BY <1>2, <2>1 DEF CarriesJson
<1>12. CASE WorkerDelete
  <2>1. UNCHANGED <<body, tomb, evictor, pc, ver, src>>
      BY <1>12 DEF WorkerDelete, volume, cache, locals
  <2>2. ~Has(body) /\ Doomed
      BY <1>0, <1>12, InTurnFacts DEF WorkerDelete, DeleteSent
  <2>3. ~Has(body') /\ Doomed'
      BY <2>1, <2>2 DEF Doomed, Has
  <2>4. \A t \in Tasks : pc[t] \notin RestorePoints
      BY <1>0, <2>2, InTurnFacts DEF RestorePoints, InstalledPoints, DeletePoints
  <2> QED
      BY <1>0, <2>1, <2>3, <2>4 DEF ApartInv, Written, EvictsAlone, RestoresAlone, Quiet,
         VictimMirrored, Reclaimed, Restored, RestorePoints, Has
<1>7. CASE EvictChoose
  <2>1. /\ Quiet /\ Evictable /\ evictor' = "chosen"
        /\ UNCHANGED <<body, tomb, remote, worker, pc, ver, src, localGen>>
      BY <1>7 DEF EvictChoose, volume, cache, locals
  <2>2. ~Unrecorded /\ ~Restoring
      BY <2>1 DEF Quiet, Unrecorded, Restoring
  <2>3. Has(body) => remote.json = body
      BY <1>0, <2>1, <2>2 DEF Evictable, Confirmed, Tracked
  <2>4. Has(body) => Carries(body)
      BY <1>0, <2>1, <2>2 DEF Evictable, GensOrdered, CarriesBody, Carries, CarriesJson
  <2> QED
      BY <1>0, <2>1, <2>3, <2>4 DEF ApartInv, Written, EvictsAlone, RestoresAlone,
         VictimMirrored, Reclaimed, Restored, Carries, CarriesJson, Has, Quiet, Doomed
<1>8. CASE EvictRemove
  <2>1. /\ evictor = "chosen" /\ evictor' = "removed" /\ ~Has(body')
        /\ UNCHANGED <<tomb, remote, worker, pc, ver, src, localGen>>
      BY <1>8 DEF EvictRemove, locals, cache, Has, Absent
  <2>2. Quiet
      BY <1>0, <2>1 DEF EvictsAlone
  <2>3. ~Doomed => Carries(remote.json)
      BY <1>0, <2>1 DEF VictimMirrored, Reclaimed
  <2> QED
      BY <1>0, <2>1, <2>2, <2>3 DEF ApartInv, Written, EvictsAlone, RestoresAlone,
         VictimMirrored, Reclaimed, Restored, Carries, CarriesJson, Quiet, Doomed,
         RestorePoints, InstalledPoints
<1>9. CASE EvictMark
  <2>1. /\ evictor' = "idle"
        /\ UNCHANGED <<body, tomb, remote, worker, pc, ver, src, localGen>>
      BY <1>9 DEF EvictMark, volume, locals
  <2> QED
      BY <1>0, <2>1 DEF ApartInv, Written, EvictsAlone, RestoresAlone,
         VictimMirrored, Reclaimed, Restored, Carries, CarriesJson, Has, Doomed
<1>10. CASE Restart
  <2>1. /\ evictor' = "idle" /\ worker'.pc = "idle"
        /\ \A t \in Tasks : pc'[t] = "idle"
      BY <1>10 DEF Restart
  <2> QED
      BY <2>1 DEF ApartInv, Written, EvictsAlone, RestoresAlone, VictimMirrored,
         Reclaimed, Restored, Carries, CarriesJson, RestorePoints, InstalledPoints
<1>11. CASE UNCHANGED vars
    BY <1>0, <1>11 DEF vars, volume, cache, locals, ApartInv, Written, EvictsAlone,
       RestoresAlone, VictimMirrored, Reclaimed, Restored, Carries, CarriesJson, Has,
       Quiet, Doomed
<1> QED
    BY <1>1, <1>3, <1>4, <1>5, <1>6, <1>7, <1>8, <1>9, <1>10, <1>11, <1>12, FailFacts
       DEF Next, WorkerStep, EvictStep, FilesWritten

\* MirrorInv holds in every reachable state of an instance whose deletes are final
\* and whose restores stand apart.
LEMMA MirrorKept ==
    ASSUME DeletesFinal, FilesWritten, RestoresApart
    PROVE  Spec => [](TypeOK /\ MirrorInv)
<1>1. Init => MirrorInv
  <2> SUFFICES ASSUME Init PROVE MirrorInv
      OBVIOUS
  <2>1. queue \in Seq({"json", "ydoc"})
      BY DEF Init
  <2>2. InTurn
      BY <2>1 DEF Init, InTurn, BuriedInv, Doomed, DeleteSent, DeletePoints, Restoring,
         Quiet, Has, Absent
  <2>3. GensOrdered /\ CarriesBody /\ Confirmed
      BY DEF Init, GensOrdered, CarriesBody, Confirmed, CarriesJson, Has, Absent
  <2>4. ApartInv
      BY DEF Init, ApartInv, Written, EvictsAlone, RestoresAlone, VictimMirrored,
         Reclaimed, Restored, Carries, CarriesJson, RestorePoints, InstalledPoints
  <2> QED
      BY <2>2, <2>3, <2>4 DEF MirrorInv
<1>2. TypeOK /\ MirrorInv /\ [Next]_vars => MirrorInv'
  <2> SUFFICES ASSUME TypeOK, MirrorInv, [Next]_vars PROVE MirrorInv'
      OBVIOUS
  <2>1. InTurn'
      BY InTurnStep DEF MirrorInv
  <2>2. GensOrdered' /\ CarriesBody' /\ Confirmed'
      BY GensOrderedStep, CarriesBodyStep, ConfirmedStep
  <2>3. Overlap = FALSE => ApartInv'
      BY ApartStep
  <2> QED
      BY <2>1, <2>2, <2>3 DEF MirrorInv
<1> QED
    BY <1>1, <1>2, TypeCorrect, PTL DEF Spec

\* EvictableMirrored holds in every reachable state of an instance whose restores
\* overlap nothing, whatever the number of tasks, writes, restarts and failures,
\* and however saves, snapshots and evictions overlap; with deletes, of an instance
\* that runs one operation at a time and where no owner overrides a tombstone.
THEOREM MirrorNeverLeads ==
    ASSUME DeletesFinal, FilesWritten, RestoresApart
    PROVE  Spec => []EvictableMirrored
<1>1. TypeOK /\ MirrorInv => EvictableMirrored
  <2> SUFFICES ASSUME TypeOK, MirrorInv, Has(body), Evictable, ~Unrecorded
               PROVE  remote.json = body
      BY DEF EvictableMirrored
  <2>1. CASE Restoring
    <3>1. PICK t \in Tasks : pc[t] \in RestorePoints
        BY <2>1 DEF Restoring, RestorePoints, InstalledPoints
    <3>2. Restored
        BY <2>1 DEF MirrorInv, InTurn, ApartInv
    <3> QED
        BY <3>1, <3>2 DEF Restored, RestorePoints
  <2>2. CASE ~Restoring
      BY <2>2 DEF MirrorInv, Confirmed, Evictable, Tracked
  <2> QED
      BY <2>1, <2>2
<1> QED
    BY <1>1, MirrorKept, PTL

-----------------------------------------------------------------------------
(* index.json keeps up.  Whoever changes the in-memory index flushes it     *)
(* afterwards, and a flush writes the map as it is then.                    *)

\* A task has changed the index and not yet flushed it.
FlushDue == \E t \in Tasks : pc[t] \in {"flush", "delFlush", "restoreFlush"}

FlushInv ==
    /\ indexFile = index \/ FlushDue \/ unflushed
    /\ unflushed => Flaky

\* No step leaves index.json behind without a flush to come.
LEMMA FlushStep ==
    ASSUME TypeOK, FlushInv, [Next]_vars
    PROVE  FlushInv'
<1> USE DEF FlushInv
<1>1. ASSUME NEW t \in Tasks, TaskStep(t) PROVE FlushInv'
  <2>1. CASE InsertIndex(t) \/ DeleteIndex(t) \/ RestoreIndex(t)
    <3>1. pc'[t] \in {"flush", "delFlush", "restoreFlush"} /\ unflushed' = unflushed
        BY <2>1 DEF InsertIndex, DeleteIndex, RestoreIndex, Goto, volume, TypeOK, TasksOK
    <3> QED
        BY <3>1 DEF FlushDue
  <2>2. CASE FlushIndex(t) \/ DeleteFlush(t) \/ RestoreFlush(t)
      BY <2>2 DEF FlushIndex, DeleteFlush, RestoreFlush, Flushed
  <2>3. CASE SaveBegin(t) \/ OverrideBegin(t) \/ SaveRead(t) \/ SaveRefuse(t)
             \/ SnapBegin(t) \/ SnapSidecar(t) \/ SnapLoad(t) \/ SnapSkip(t)
             \/ SnapVersion(t) \/ WriteBody(t) \/ NoteWrite(t)
    <3>1. UNCHANGED <<index, indexFile, unflushed>>
        BY <2>3 DEF SaveBegin, OverrideBegin, SaveRead, SaveRefuse, SnapBegin,
           SnapSidecar, SnapLoad, SnapSkip, SnapVersion, WriteBody, NoteWrite, volume
    <3>2. /\ pc[t] \notin {"flush", "delFlush", "restoreFlush"}
          /\ \A u \in Tasks : u # t => pc'[u] = pc[u]
        BY <2>3 DEF SaveBegin, OverrideBegin, SaveRead, SaveRefuse, SnapBegin,
           SnapSidecar, SnapLoad, SnapSkip, SnapVersion, WriteBody, NoteWrite, Start,
           Goto, TypeOK, TasksOK
    <3> QED
        BY <3>1, <3>2 DEF FlushDue
  <2>4. CASE DeleteBegin(t) \/ DeleteFile(t) \/ DeleteSidecar(t) \/ DeleteTomb(t)
             \/ RestoreFetch(t) \/ RestoreInstall(t) \/ RestorePin(t)
    <3>1. UNCHANGED <<index, indexFile, unflushed>>
        BY <2>4 DEF DeleteBegin, DeleteFile, DeleteSidecar, DeleteTomb, RestoreFetch,
           RestoreInstall, RestorePin, volume
    <3>2. /\ pc[t] \notin {"flush", "delFlush", "restoreFlush"}
          /\ \A u \in Tasks : u # t => pc'[u] = pc[u]
        BY <2>4 DEF DeleteBegin, DeleteFile, DeleteSidecar, DeleteTomb, RestoreFetch,
           RestoreInstall, RestorePin, Start, Goto, TypeOK, TasksOK
    <3> QED
        BY <3>1, <3>2 DEF FlushDue
  <2> QED
      BY <1>1, <2>1, <2>2, <2>3, <2>4 DEF TaskStep
<1>2. CASE WorkerStep
    BY <1>2 DEF WorkerStep, WorkerTake, WorkerRead, WorkerPut, WorkerDelete,
                WorkerFail, FlushDue, volume
<1>3. CASE EvictStep
    BY <1>3 DEF EvictStep, EvictChoose, EvictRemove, EvictMark, FlushDue, volume
<1>4. CASE Restart
    BY <1>4 DEF Restart, volume
<1>5. CASE UNCHANGED vars
    BY <1>5 DEF vars, volume, FlushDue
<1>6. ASSUME NEW t \in Tasks, FileFails(t) PROVE FlushInv'
    BY <1>6, FailFacts DEF FlushDue, IndexPoints
<1> QED
    BY <1>1, <1>2, <1>3, <1>4, <1>5, <1>6 DEF Next

\* Whenever no task is inside an operation and the last write of index.json did
\* not fail, that file is the in-memory index (IndexFlushed), whatever tasks
\* interleaved, failed earlier, were cut off or overlapped.
THEOREM IndexKeepsUp == Spec => []IndexFlushed
<1>1. Init => FlushInv
    BY DEF Init, FlushInv
<1>2. TypeOK /\ FlushInv /\ [Next]_vars => FlushInv'
    BY FlushStep
<1>3. FlushInv => IndexFlushed
    BY DEF FlushInv, FlushDue, IndexFlushed, Quiet
<1> QED
    BY <1>1, <1>2, <1>3, TypeCorrect, PTL DEF Spec

-----------------------------------------------------------------------------
(* A write reported as done survives, if eviction passes and restores       *)
(* overlap no operation, and even where files cannot be written.  A write   *)
(* that failed half way may leave a body that no generation counts, so R2   *)
(* is then behind the body (the mirror theorem fails); but it is behind by  *)
(* what was never reported: the confirmed generation covers every reported  *)
(* write, which is all that an eviction has to leave in R2.                 *)

\* What was reported as done, and not deleted since, is in the body; without
\* one it is in R2.
Reported ==
    /\ Doomed => acked = 0
    /\ acked # 0 => /\ Has(body) => body.src >= acked
                    /\ ~Has(body) => remote.json.src >= acked

\* The generations never run ahead of the current one.
GensBounded == mirrorGen <= localGen /\ worker.gen <= localGen

\* A body carries a version; what is listed, and reported, has one.
Stamped(file) == Has(file) => file.ver # 0

Versioned ==
    /\ Stamped(body) /\ Stamped(remote.json)
    /\ worker.pc = "putJson" => Stamped(worker.file)
    /\ \A t \in Tasks :
           /\ pc[t] \in {"write", "insert", "install", "restoreIndex"} => ver[t] # 0
           /\ pc[t] \in {"flush", "restoreFlush"} => index # 0
           /\ pc[t] = "note" => indexFile # 0
    /\ acked # 0 => indexFile # 0

\* R2 has what was reported, and the worker carries nothing older.
Backed ==
    /\ remote.json.src >= acked
    /\ CarriesJson => worker.gen = localGen

\* A current generation, carried or confirmed, covers what was reported; so R2
\* has it before a body is removed, while there is none, and until it is restored.
Covered ==
    /\ worker.pc = "putJson" /\ worker.gen = localGen => worker.file.src >= acked
    /\ mirrorGen >= localGen => Backed
    /\ evictor = "chosen" => Backed
    /\ ~Has(body) => Backed
    /\ \A t \in Tasks : /\ pc[t] \in RestorePoints => Backed
                        /\ pc[t] = "install" => src[t] >= acked

SurvivesInv ==
    /\ InTurn /\ GensBounded /\ Written /\ EvictsAlone /\ RestoresAlone
    /\ Reported /\ Versioned /\ (acked # 0 => Covered)

\* Operations, eviction passes and restores follow one another as they should.
LEMMA OrderStep ==
    ASSUME DeletesFinal, Overlap = FALSE, TypeOK, InTurn, Written, EvictsAlone, RestoresAlone,
           [Next]_vars
    PROVE  Written' /\ EvictsAlone' /\ RestoresAlone'
<1> DEFINE Goal == Written' /\ EvictsAlone' /\ RestoresAlone'
<1>0. /\ pc \in [Tasks -> Points] /\ src \in [Tasks -> Nat] /\ ver \in [Tasks -> Nat]
      /\ writes \in Nat
    BY DEF TypeOK, TasksOK
<1>1. ASSUME NEW t \in Tasks, TaskStep(t) PROVE Goal
  <2>1. pc[t] # "idle" => evictor = "idle"
      BY DEF EvictsAlone, Quiet
  <2>2. pc[t] \notin {"idle"} \cup RestorePoints =>
            \A u \in Tasks : pc[u] \notin RestorePoints
      BY DEF RestoresAlone
  <2>3. CASE Aside(t)
    <3>1. /\ UNCHANGED <<body, evictor>>
          /\ pc[t] \in SavePoints \ {"insert", "flush", "note"}
          /\ pc'[t] \in SavePoints \ {"insert", "flush", "note"}
          /\ \A u \in Tasks : u # t => pc'[u] = pc[u] /\ src'[u] = src[u]
          /\ pc[t] = "idle" => evictor = "idle" /\ ~Restoring
        BY <2>3, AsideFacts
    <3>2. evictor = "idle" /\ \A u \in Tasks : pc'[u] \notin RestorePoints
        BY <2>1, <2>2, <3>1 DEF Restoring, RestorePoints, InstalledPoints, SavePoints
    <3>3. pc'[t] # "idle" => src'[t] # 0
      <4>1. CASE SaveBegin(t) \/ OverrideBegin(t) \/ SnapBegin(t)
          BY <1>0, <4>1 DEF SaveBegin, OverrideBegin, SnapBegin, NewContent
      <4>2. CASE ~SaveBegin(t) /\ ~OverrideBegin(t) /\ ~SnapBegin(t)
          BY <1>0, <2>3, <4>2 DEF Aside, SaveRead, SaveRefuse, SnapSidecar, SnapLoad,
             SnapSkip, SnapVersion, Goto, Written, DeletePoints, locals
      <4> QED
          BY <4>1, <4>2
    <3>4. Written'
        BY <1>0, <3>1, <3>3 DEF Written, Has
    <3> QED
        BY <3>1, <3>2, <3>4 DEF EvictsAlone, RestoresAlone
  <2>4. CASE WriteBody(t) \/ InsertIndex(t) \/ FlushIndex(t) \/ NoteWrite(t)
    <3>1. /\ pc[t] \in {"write", "insert", "flush", "note"}
          /\ pc'[t] \notin RestorePoints
          /\ \A u \in Tasks : u # t => pc'[u] = pc[u]
          /\ UNCHANGED <<evictor, src>>
        BY <2>4, RecordingFacts, NoteFacts DEF RestorePoints, InstalledPoints
    <3>2. evictor = "idle" /\ \A u \in Tasks : pc'[u] \notin RestorePoints
        BY <2>1, <2>2, <3>1 DEF RestorePoints, InstalledPoints
    <3>3. Has(body')
      <4>1. CASE WriteBody(t)
        <5>1. body'.src = src[t]
            BY <4>1, RecordingFacts
        <5> QED
            BY <3>1, <5>1 DEF Written, DeletePoints, Has
      <4>2. CASE ~WriteBody(t)
        <5>1. body' = body /\ pc[t] # "write"
            BY <2>4, <4>2, RecordingFacts, NoteFacts
        <5> QED
            BY <3>1, <5>1 DEF Written
      <4> QED
          BY <4>1, <4>2
    <3>4. Written'
        BY <3>1, <3>3 DEF Written, DeletePoints, Has
    <3> QED
        BY <3>1, <3>2, <3>4 DEF EvictsAlone, RestoresAlone
  <2>5. CASE Restores(t)
    <3>1. /\ UNCHANGED evictor
          /\ \A u \in Tasks : u # t => pc'[u] = pc[u] /\ src'[u] = src[u]
          /\ pc[t] \in {"idle"} \cup RestorePoints
          /\ pc'[t] \in {"idle"} \cup RestorePoints
        BY <2>5, RestoreFacts
    <3>2. evictor = "idle" /\ \A u \in Tasks : u # t => pc'[u] = "idle"
      <4>1. CASE RestoreFetch(t)
          BY <3>1, <4>1 DEF RestoreFetch, Start, Quiet
      <4>2. CASE ~RestoreFetch(t)
        <5>1. pc[t] \in RestorePoints
            BY <2>5, <4>2 DEF Restores, RestoreInstall, RestoreIndex, RestoreFlush,
               RestorePin, Goto, RestorePoints, InstalledPoints
        <5> QED
            BY <2>1, <3>1, <5>1 DEF RestoresAlone, RestorePoints, InstalledPoints
      <4> QED
          BY <4>1, <4>2
    <3>3. pc'[t] # "idle" => src'[t] # 0
      <4>1. CASE RestoreFetch(t)
          BY <1>0, <4>1 DEF RestoreFetch, Has
      <4>2. CASE ~RestoreFetch(t)
          BY <1>0, <2>5, <4>2 DEF Restores, RestoreInstall, RestoreIndex, RestoreFlush,
             RestorePin, Goto, locals, Written, DeletePoints
      <4> QED
          BY <4>1, <4>2
    <3>4. Written'
        BY <3>1, <3>2, <3>3 DEF Written, RestorePoints, InstalledPoints
    <3> QED
        BY <3>1, <3>2, <3>4 DEF EvictsAlone, RestoresAlone, RestorePoints, InstalledPoints
  <2>6. CASE Deletes(t)
    <3>1. /\ UNCHANGED evictor
          /\ pc'[t] \in {"idle"} \cup DeletePoints
          /\ pc[t] = "idle" => evictor = "idle"
        BY <2>6, DeletionFacts
    <3>2. \A u \in Tasks : u = t
        BY <2>6, DeletesAlone DEF Alone
    <3> QED
        BY <2>1, <3>1, <3>2 DEF Written, EvictsAlone, RestoresAlone, DeletePoints
  <2> QED
      BY <1>1, <2>3, <2>4, <2>5, <2>6, TaskSteps
<1>2. ASSUME NEW t \in Tasks, FileFails(t) PROVE Goal
    BY <1>2, FailFacts DEF Written, EvictsAlone, RestoresAlone, Quiet, Has, RestorePoints,
       InstalledPoints
<1>3. CASE WorkerStep
    BY <1>3 DEF WorkerStep, WorkerTake, WorkerRead, WorkerPut, WorkerDelete, WorkerFail,
       volume, locals, Written, EvictsAlone, RestoresAlone, Quiet, Has
<1>4. CASE EvictChoose
    BY <1>4 DEF EvictChoose, volume, locals, Written, EvictsAlone, RestoresAlone, Quiet, Has
<1>5. CASE EvictRemove
  <2>1. Quiet /\ UNCHANGED <<pc, src>>
      BY <1>5 DEF EvictRemove, EvictsAlone, locals
  <2> QED
      BY <2>1 DEF Written, EvictsAlone, RestoresAlone, Quiet
<1>6. CASE EvictMark
    BY <1>6 DEF EvictMark, volume, locals, Written, EvictsAlone, RestoresAlone, Has
<1>7. CASE Restart
    BY <1>7 DEF Restart, Written, EvictsAlone, RestoresAlone, RestorePoints, InstalledPoints
<1>8. CASE UNCHANGED vars
    BY <1>8 DEF vars, volume, locals, Written, EvictsAlone, RestoresAlone, Quiet, Has
<1> QED
    BY <1>1, <1>2, <1>3, <1>4, <1>5, <1>6, <1>7, <1>8 DEF Next, EvictStep

\* Generations are only handed on, never invented.
LEMMA BoundedStep ==
    ASSUME TypeOK, GensBounded, [Next]_vars
    PROVE  GensBounded'
<1> USE DEF GensBounded
<1>0. localGen \in Nat /\ mirrorGen \in Nat /\ worker.gen \in Nat
    BY DEF TypeOK, FilesOK, MirrorOK
<1>1. ASSUME NEW t \in Tasks, TaskStep(t) PROVE GensBounded'
  <2>1. CASE Aside(t)
      BY <1>0, <2>1, AsideFacts
  <2>2. CASE WriteBody(t) \/ InsertIndex(t) \/ FlushIndex(t)
      BY <1>0, <2>2, RecordingFacts
  <2>3. CASE NoteWrite(t)
      BY <1>0, <2>3, NoteFacts
  <2>4. CASE Restores(t) /\ ~RestorePin(t)
      BY <1>0, <2>4, RestoreFacts
  <2>5. CASE RestorePin(t)
      BY <1>0, <2>5 DEF RestorePin
  <2>6. CASE Deletes(t)
      BY <1>0, <2>6, DeletionFacts
  <2> QED
      BY <1>0, <1>1, <2>1, <2>2, <2>3, <2>4, <2>5, <2>6, TaskSteps DEF Restores
<1>2. CASE WorkerTake
    BY <1>0, <1>2 DEF WorkerTake, cache
<1>3. CASE WorkerRead \/ WorkerDelete \/ WorkerFail
    BY <1>0, <1>3 DEF WorkerRead, WorkerDelete, WorkerFail, cache, TypeOK, MirrorOK
<1>4. CASE WorkerPut
    BY <1>0, <1>4 DEF WorkerPut, ConfirmedGen, TypeOK, MirrorOK
<1>5. CASE EvictStep
    BY <1>0, <1>5 DEF EvictStep, EvictChoose, EvictRemove, EvictMark, cache
<1>6. CASE Restart
    BY <1>6 DEF Restart
<1>7. CASE UNCHANGED vars
    BY <1>0, <1>7 DEF vars, cache
<1> QED
    BY <1>1, <1>2, <1>3, <1>4, <1>5, <1>6, <1>7, FailFacts DEF Next, WorkerStep

\* Every body has a version, and what is listed keeps one until it is deleted.
LEMMA VersionedStep ==
    ASSUME DeletesFinal, Overlap = FALSE, TypeOK, InTurn, RestoresAlone, Reported, Versioned,
           [Next]_vars
    PROVE  Versioned'
<1>0. /\ pc \in [Tasks -> Points] /\ src \in [Tasks -> Nat] /\ ver \in [Tasks -> Nat]
      /\ index \in Nat /\ indexFile \in Nat /\ acked \in Nat
      /\ Doomed => acked = 0
    BY DEF TypeOK, TasksOK, FilesOK, Reported
<1>1. ASSUME NEW t \in Tasks, TaskStep(t) PROVE Versioned'
  <2>0. UNCHANGED <<remote, worker>>
      BY <1>1, TaskSteps, AsideFacts, RecordingFacts, NoteFacts, RestoreFacts, DeletionFacts
  <2>1. CASE Aside(t)
    <3>1. /\ UNCHANGED <<body, index, indexFile, acked>>
          /\ pc'[t] \in SavePoints \ {"insert", "flush", "note"}
          /\ \A u \in Tasks : u # t => pc'[u] = pc[u] /\ ver'[u] = ver[u]
        BY <2>1, AsideFacts DEF Aside, SaveBegin, OverrideBegin, SaveRead, SaveRefuse,
           SnapBegin, SnapSidecar, SnapLoad, SnapSkip, SnapVersion, volume, ghosts
    <3>2. pc'[t] = "write" => ver'[t] # 0
        BY <1>0, <2>1 DEF Aside, SaveBegin, OverrideBegin, SaveRead, SaveRefuse, SnapBegin,
           SnapSidecar, SnapLoad, SnapSkip, SnapVersion, NextVersion, Start, Goto
    <3> QED
        BY <2>0, <3>1, <3>2 DEF Versioned, Stamped, Has, SavePoints
  <2>2. CASE WriteBody(t)
    <3>1. /\ pc[t] = "write" /\ pc'[t] = "insert" /\ body'.ver = ver[t]
          /\ UNCHANGED <<index, indexFile, ver>>
          /\ \A u \in Tasks : u # t => pc'[u] = pc[u]
          /\ acked' # 0 => acked # 0
        BY <1>0, <2>2 DEF WriteBody, Goto, locals
    <3> QED
        BY <2>0, <3>1 DEF Versioned, Stamped
  <2>3. CASE InsertIndex(t) \/ RestoreIndex(t)
    <3>1. /\ pc[t] \in {"insert", "restoreIndex"} /\ pc'[t] \in {"flush", "restoreFlush"}
          /\ index' = ver[t] /\ UNCHANGED <<body, indexFile, ver, acked>>
          /\ \A u \in Tasks : u # t => pc'[u] = pc[u]
        BY <1>0, <2>3 DEF InsertIndex, RestoreIndex, RestoredVersion, Goto, volume, locals,
           ghosts
    <3> QED
        BY <2>0, <3>1 DEF Versioned, Stamped, Has
  <2>4. CASE FlushIndex(t) \/ RestoreFlush(t)
    <3>1. /\ pc[t] \in {"flush", "restoreFlush"} /\ pc'[t] \in {"note", "restorePin"}
          /\ indexFile' = index /\ UNCHANGED <<body, index, ver, acked>>
          /\ \A u \in Tasks : u # t => pc'[u] = pc[u]
        BY <1>0, <2>4 DEF FlushIndex, Flushed, RestoreFlush, Goto, locals, ghosts
    <3> QED
        BY <2>0, <3>1 DEF Versioned, Stamped, Has
  <2>5. CASE NoteWrite(t) \/ RestorePin(t)
    <3>1. /\ pc'[t] = "idle" /\ UNCHANGED <<body, index, indexFile, ver>>
          /\ \A u \in Tasks : u # t => pc'[u] = pc[u]
          /\ acked' = acked \/ pc[t] = "note"
        BY <1>0, <2>5 DEF NoteWrite, RestorePin, Goto, volume, locals, ghosts
    <3> QED
        BY <2>0, <3>1 DEF Versioned, Stamped, Has
  <2>6. CASE RestoreFetch(t)
    <3>1. /\ pc'[t] = "install" /\ ver'[t] = remote.json.ver /\ Has(remote.json)
          /\ UNCHANGED <<body, index, indexFile, acked>>
          /\ \A u \in Tasks : u # t => pc'[u] = pc[u] /\ ver'[u] = ver[u]
        BY <1>0, <2>6 DEF RestoreFetch, Start, Goto, volume, ghosts
    <3> QED
        BY <2>0, <3>1 DEF Versioned, Stamped, Has
  <2>7. CASE RestoreInstall(t)
    <3>1. /\ pc[t] = "install" /\ pc'[t] = "restoreIndex" /\ body'.ver = ver[t]
          /\ UNCHANGED <<index, indexFile, ver, acked>>
          /\ \A u \in Tasks : u # t => pc'[u] = pc[u]
        BY <1>0, <2>7 DEF RestoreInstall, Goto, locals, ghosts
    <3> QED
        BY <2>0, <3>1 DEF Versioned, Stamped
  <2>8. CASE Deletes(t)
    <3>1. /\ pc'[t] \in {"idle"} \cup DeletePoints
          /\ body' = body \/ ~Has(body')
        BY <2>8, DeletionFacts
    <3>2. acked' = 0
        BY <1>0, <2>8 DEF Deletes, DeleteBegin, DeleteFile, DeleteSidecar, DeleteIndex,
           DeleteFlush, DeleteTomb, Goto, Doomed, DeletePoints, ghosts
    <3>3. \A u \in Tasks : u = t
        BY <2>8, DeletesAlone DEF Alone
    <3> QED
        BY <2>0, <3>1, <3>2, <3>3 DEF Versioned, Stamped, Has, DeletePoints
  <2> QED
      BY <1>1, <2>1, <2>2, <2>3, <2>4, <2>5, <2>6, <2>7, <2>8, TaskSteps DEF Restores
<1>2. ASSUME NEW t \in Tasks, FileFails(t) PROVE Versioned'
    BY <1>2, FailFacts DEF Versioned, Stamped, Has
<1>3. CASE WorkerRead
  <2>1. /\ UNCHANGED <<body, remote, index, indexFile, acked, pc, ver>>
        /\ worker'.pc = "putJson" =>
               worker'.file = body \/ (worker.pc = "putJson" /\ worker'.file = worker.file)
      BY <1>3 DEF WorkerRead, volume, locals, ghosts, TypeOK, MirrorOK
  <2> QED
      BY <2>1 DEF Versioned, Stamped, Has
<1>4. CASE WorkerTake \/ WorkerPut \/ WorkerDelete \/ WorkerFail
  <2>1. /\ UNCHANGED <<body, index, indexFile, acked, pc, ver>>
        /\ worker'.pc # "putJson"
        /\ \/ remote'.json = remote.json \/ ~Has(remote'.json)
           \/ worker.pc = "putJson" /\ remote'.json = worker.file
      BY <1>4 DEF WorkerTake, WorkerPut, WorkerDelete, WorkerFail, volume, locals, ghosts,
         Has, Absent, TypeOK, MirrorOK
  <2> QED
      BY <2>1 DEF Versioned, Stamped, Has
<1>5. CASE EvictStep
  <2>1. /\ UNCHANGED <<remote, worker, index, indexFile, acked, pc, ver>>
        /\ body' = body \/ ~Has(body')
      BY <1>5 DEF EvictStep, EvictChoose, EvictRemove, EvictMark, volume, locals, ghosts,
         Has, Absent
  <2> QED
      BY <2>1 DEF Versioned, Stamped, Has
<1>6. CASE Restart
    BY <1>6 DEF Restart, Versioned, Stamped, Has, volume, locals, ghosts
<1>7. CASE UNCHANGED vars
    BY <1>7 DEF vars, volume, locals, ghosts, Versioned, Stamped, Has
<1> QED
    BY <1>1, <1>2, <1>3, <1>4, <1>5, <1>6, <1>7 DEF Next, WorkerStep

\* A task's step keeps what was reported, and R2's share of it.
LEMMA SurvivesTaskStep ==
    ASSUME DeletesFinal, Overlap = FALSE, TypeOK, SurvivesInv, NEW t \in Tasks, TaskStep(t)
    PROVE  Reported' /\ (acked' # 0 => Covered')
<1>0. /\ src \in [Tasks -> Nat] /\ acked \in Nat /\ body.src \in Nat
      /\ remote.json.src \in Nat /\ worker.file.src \in Nat
      /\ localGen \in Nat /\ mirrorGen \in Nat /\ worker.gen \in Nat
      /\ InTurn /\ GensBounded /\ Written /\ EvictsAlone /\ RestoresAlone /\ Reported
      /\ acked # 0 => Covered
    BY DEF TypeOK, TasksOK, FilesOK, MirrorOK, File, SurvivesInv
<1>1. ~Deletes(t) => ~Doomed /\ ~Doomed'
    BY <1>0, LivesOn
<1>2. pc[t] \notin {"idle"} \cup RestorePoints =>
          evictor = "idle" /\ \A u \in Tasks : pc[u] \notin RestorePoints
    BY <1>0 DEF EvictsAlone, Quiet, RestoresAlone
<1>3. CASE Aside(t) /\ ~Deletes(t)
  <2>1. UNCHANGED <<body, remote, acked, worker, localGen, mirrorGen, evictor>>
      BY <1>3, AsideFacts DEF Aside, SaveBegin, OverrideBegin, SaveRead, SaveRefuse, SnapBegin,
         SnapSidecar, SnapLoad, SnapSkip, SnapVersion, ghosts
  <2>2. /\ pc'[t] \notin RestorePoints
        /\ \A u \in Tasks : u # t => pc'[u] = pc[u] /\ src'[u] = src[u]
      BY <1>3, AsideFacts DEF SavePoints, RestorePoints, InstalledPoints
  <2>3. Reported'
      BY <1>0, <1>1, <1>3, <2>1 DEF Reported, Has
  <2>4. acked' # 0 => Covered'
      BY <1>0, <2>1, <2>2 DEF Covered, Backed, CarriesJson, Has, RestorePoints
  <2> QED
      BY <2>3, <2>4
<1>4. CASE WriteBody(t) /\ ~Deletes(t)
  <2>0. /\ pc[t] = "write" /\ pc'[t] = "insert"
        /\ body'.src = src[t] /\ acked' = IF src[t] < acked THEN src[t] ELSE acked
      BY <1>4 DEF WriteBody, Goto, TypeOK, TasksOK
  <2>1. /\ body'.src = src[t] /\ src[t] # 0 /\ acked' <= src[t] /\ acked' <= acked
        /\ acked' \in Nat
        /\ pc[t] = "write" /\ pc'[t] = "insert"
        /\ UNCHANGED <<remote, worker, localGen, mirrorGen, evictor, src>>
        /\ \A u \in Tasks : u # t => pc'[u] = pc[u]
      BY <1>0, <1>4, <2>0, RecordingFacts DEF Written, DeletePoints
  <2>2. Reported'
      BY <1>1, <1>4, <2>1 DEF Reported, Has
  <2>3. acked' # 0 => acked # 0
      BY <1>0, <2>1
  <2>4. Backed => Backed'
      BY <1>0, <2>1 DEF Backed, CarriesJson
  <2>5. acked' # 0 => Covered'
      BY <1>0, <1>2, <2>1, <2>3, <2>4 DEF Covered, Has, RestorePoints, InstalledPoints
  <2> QED
      BY <2>2, <2>5
<1>5. CASE (InsertIndex(t) \/ FlushIndex(t)) /\ ~Deletes(t)
  <2>1. UNCHANGED <<body, remote, acked, worker, localGen, mirrorGen, evictor, src>>
      BY <1>5, RecordingFacts DEF InsertIndex, FlushIndex, volume, ghosts
  <2>2. /\ pc'[t] \notin RestorePoints
        /\ \A u \in Tasks : u # t => pc'[u] = pc[u]
      BY <1>5, RecordingFacts DEF RestorePoints, InstalledPoints
  <2>3. Reported'
      BY <1>0, <1>1, <1>5, <2>1 DEF Reported, Has
  <2>4. acked' # 0 => Covered'
      BY <1>0, <2>1, <2>2 DEF Covered, Backed, CarriesJson, Has, RestorePoints
  <2> QED
      BY <2>3, <2>4
<1>6. CASE NoteWrite(t) /\ ~Deletes(t)
  <2>1. /\ UNCHANGED <<body, mirrorGen, remote, worker, evictor>> /\ Has(body)
        /\ localGen' = localGen + 1
        /\ pc[t] = "note" /\ pc'[t] = "idle"
        /\ \A u \in Tasks : u # t => pc'[u] = pc[u]
      BY <1>0, <1>6, NoteFacts DEF Written
  <2>2. acked' <= body.src
      BY <1>0, <1>6, <2>1 DEF NoteWrite
  <2>3. mirrorGen' < localGen' /\ worker'.gen < localGen'
      BY <1>0, <2>1 DEF GensBounded
  <2>4. evictor' # "chosen" /\ \A u \in Tasks : pc'[u] \notin RestorePoints
      BY <1>2, <2>1 DEF RestorePoints, InstalledPoints
  <2>5. Covered'
      BY <1>0, <2>1, <2>3, <2>4 DEF Covered, Has, RestorePoints
  <2> QED
      BY <1>1, <1>6, <2>1, <2>2, <2>5 DEF Reported, Has
<1>7. CASE Restores(t) /\ ~Deletes(t)
  <2>1. /\ UNCHANGED <<localGen, remote, worker, evictor, acked>>
        /\ \A u \in Tasks : u # t => pc'[u] = pc[u] /\ src'[u] = src[u]
      BY <1>7, RestoreFacts
  <2>2. Backed' <=> Backed
      BY <2>1 DEF Backed, CarriesJson
  <2>3. CASE RestoreFetch(t)
    <3>1. /\ UNCHANGED <<body, mirrorGen>> /\ ~Has(body) /\ src'[t] = remote.json.src
        BY <1>0, <2>3 DEF RestoreFetch, volume, cache
    <3>2. acked # 0 => Backed /\ remote.json.src >= acked
        BY <1>0, <3>1 DEF Covered, Backed
    <3>3. acked' # 0 => Covered'
        BY <1>0, <2>1, <2>2, <3>1, <3>2 DEF Covered, Has
    <3> QED
        BY <1>0, <1>1, <1>7, <2>1, <3>1, <3>3 DEF Reported, Has
  <2>4. CASE RestoreInstall(t)
    <3>1. /\ pc[t] = "install" /\ body'.src = src[t] /\ src' = src /\ mirrorGen' = mirrorGen
          /\ pc'[t] = "restoreIndex"
        BY <1>0, <2>4 DEF RestoreInstall, Goto, cache, locals, TypeOK, TasksOK
    <3>2. src[t] # 0 /\ (acked # 0 => Backed /\ src[t] >= acked)
        BY <1>0, <3>1 DEF Written, Covered, RestorePoints, DeletePoints
    <3>3. acked' # 0 => Covered'
        BY <1>0, <2>1, <2>2, <3>1, <3>2 DEF Covered, Has
    <3> QED
        BY <1>0, <1>1, <1>7, <2>1, <3>1, <3>2, <3>3 DEF Reported, Has
  <2>5. CASE RestoreIndex(t) \/ RestoreFlush(t) \/ RestorePin(t)
    <3>1. /\ pc[t] \in RestorePoints /\ pc'[t] # "install"
          /\ UNCHANGED <<body, src>>
        BY <1>0, <2>5 DEF RestoreIndex, RestoreFlush, RestorePin, Goto, volume, locals,
           RestorePoints, InstalledPoints, TypeOK, TasksOK
    <3>2. acked # 0 => Backed
        BY <1>0, <3>1 DEF Covered
    <3>3. acked' # 0 => Covered'
        BY <1>0, <2>1, <2>2, <3>1, <3>2 DEF Covered, Has
    <3> QED
        BY <1>0, <1>1, <1>7, <2>1, <3>1, <3>3 DEF Reported, Has
  <2> QED
      BY <1>7, <2>3, <2>4, <2>5 DEF Restores
<1>8. CASE Deletes(t)
  <2>1. acked' = 0
      BY <1>0, <1>8 DEF Deletes, DeleteBegin, DeleteFile, DeleteSidecar, DeleteIndex,
         DeleteFlush, DeleteTomb, Goto, Doomed, DeletePoints, Reported, ghosts
  <2> QED
      BY <2>1 DEF Reported
<1> QED
    BY <1>3, <1>4, <1>5, <1>6, <1>7, <1>8, TaskSteps

\* So does every other step.
LEMMA SurvivesStep ==
    ASSUME DeletesFinal, Overlap = FALSE, TypeOK, SurvivesInv, [Next]_vars
    PROVE  Reported' /\ (acked' # 0 => Covered')
<1> DEFINE Goal == Reported' /\ (acked' # 0 => Covered')
<1>0. /\ acked \in Nat /\ body.src \in Nat /\ remote.json.src \in Nat /\ worker.file.src \in Nat
      /\ localGen \in Nat /\ mirrorGen \in Nat /\ worker.gen \in Nat
      /\ InTurn /\ GensBounded /\ EvictsAlone /\ Reported /\ Versioned
      /\ acked # 0 => Covered
    BY DEF TypeOK, TasksOK, FilesOK, MirrorOK, File, SurvivesInv
<1>1. ASSUME NEW t \in Tasks, TaskStep(t) PROVE Goal
    BY <1>1, SurvivesTaskStep
<1>2. ASSUME NEW t \in Tasks, FileFails(t) PROVE Goal
  <2>1. /\ UNCHANGED <<body, remote, acked, worker, localGen, mirrorGen, evictor, src, tomb>>
        /\ pc'[t] = "idle" /\ \A u \in Tasks : u # t => pc'[u] = pc[u]
      BY <1>2, FailFacts
  <2>2. Doomed' => Doomed
      BY <2>1 DEF Doomed, DeletePoints
  <2> QED
      BY <1>0, <2>1, <2>2 DEF Reported, Covered, Backed, CarriesJson, Has, RestorePoints,
         InstalledPoints
\* The worker moves no task and leaves the volume alone.
<1>3. ASSUME UNCHANGED <<body, tomb, evictor, pc, src, localGen, acked>>,
             acked # 0 => /\ worker'.pc = "putJson" /\ worker'.gen = localGen =>
                                 worker'.file.src >= acked
                          /\ Backed => Backed'
                          /\ mirrorGen' >= localGen => Backed'
      PROVE  Goal
  <2>1. ~Has(body) /\ acked # 0 => Backed'
      BY <1>0, <1>3 DEF Covered
  <2> QED
      BY <1>0, <1>3, <2>1 DEF Reported, Covered, Backed, Doomed, Has
<1>4. CASE WorkerTake
  <2>1. /\ UNCHANGED <<body, tomb, evictor, pc, src, localGen, mirrorGen, acked, remote>>
        /\ worker'.gen = localGen /\ worker'.pc # "putJson"
      BY <1>4 DEF WorkerTake, TypeOK, MirrorOK, volume, cache, locals, ghosts
  <2> QED
      BY <1>0, <1>3, <2>1 DEF Covered, Backed
<1>5. CASE WorkerRead
  <2>1. /\ UNCHANGED <<body, tomb, evictor, pc, src, localGen, mirrorGen, acked, remote>>
        /\ worker'.gen = worker.gen
        /\ CarriesJson' => CarriesJson
        /\ worker'.pc = "putJson" => Has(body) /\ worker'.file = body
      BY <1>5 DEF WorkerRead, CarriesJson, volume, cache, locals, ghosts, TypeOK, MirrorOK
  <2> QED
      BY <1>0, <1>3, <2>1 DEF Covered, Backed, Reported
<1>6. CASE WorkerPut
  <2>1. /\ UNCHANGED <<body, tomb, evictor, pc, src, localGen, acked>>
        /\ ~CarriesJson' /\ worker'.pc # "putJson"
        /\ \/ remote'.json = remote.json /\ mirrorGen' = mirrorGen
           \/ /\ worker.pc = "putJson" /\ remote'.json = worker.file
              /\ mirrorGen' \in {mirrorGen, worker.gen}
      BY <1>6 DEF WorkerPut, ConfirmedGen, CarriesJson, volume, cache, locals, ghosts, TypeOK,
         MirrorOK
  <2>2. CASE remote'.json = remote.json /\ mirrorGen' = mirrorGen
      BY <1>0, <1>3, <2>1, <2>2 DEF Covered, Backed
  <2>3. CASE /\ worker.pc = "putJson" /\ remote'.json = worker.file
             /\ mirrorGen' \in {mirrorGen, worker.gen}
    <3>1. acked # 0 /\ worker.gen = localGen => Backed'
        BY <1>0, <2>1, <2>3 DEF Covered, Backed
    <3>2. acked # 0 /\ mirrorGen' >= localGen => worker.gen = localGen
        BY <1>0, <2>3 DEF Covered, Backed, CarriesJson, GensBounded
    <3>3. acked # 0 /\ Backed => worker.gen = localGen
        BY <2>3 DEF Backed, CarriesJson
    <3> QED
        BY <1>3, <2>1, <3>1, <3>2, <3>3
  <2> QED
      BY <2>1, <2>2, <2>3
<1>7. CASE WorkerFail
  <2>1. /\ UNCHANGED <<body, tomb, evictor, pc, src, localGen, mirrorGen, acked, remote>>
        /\ worker'.pc = "idle"
      BY <1>7 DEF WorkerFail, volume, cache, locals, ghosts, TypeOK, MirrorOK
  <2> QED
      BY <1>0, <1>3, <2>1 DEF Covered, Backed, CarriesJson
<1>8. CASE WorkerDelete
  <2>1. Doomed
      BY <1>0, <1>8, InTurnFacts DEF WorkerDelete, DeleteSent
  <2>2. acked' = 0
      BY <1>0, <1>8, <2>1 DEF WorkerDelete, Reported, ghosts
  <2> QED
      BY <2>2 DEF Reported
<1>9. CASE EvictChoose
  <2>1. /\ UNCHANGED <<body, tomb, remote, worker, pc, src, localGen, mirrorGen, acked>>
        /\ mirrorGen >= localGen
      BY <1>9 DEF EvictChoose, Evictable, volume, cache, locals, ghosts
  <2> QED
      BY <1>0, <2>1 DEF Reported, Covered, Backed, CarriesJson, Doomed, Has
<1>10. CASE EvictRemove
  <2>1. /\ evictor = "chosen" /\ evictor' = "removed" /\ ~Has(body')
        /\ UNCHANGED <<remote, worker, tomb, pc, src, localGen, mirrorGen, acked>>
      BY <1>10 DEF EvictRemove, cache, locals, ghosts, Has, Absent
  <2>2. acked # 0 => Backed
      BY <1>0, <2>1 DEF Covered
  <2> QED
      BY <1>0, <2>1, <2>2 DEF Reported, Covered, Backed, CarriesJson, Doomed
<1>11. CASE EvictMark
  <2>1. /\ evictor' = "idle"
        /\ UNCHANGED <<body, tomb, remote, worker, pc, src, localGen, mirrorGen, acked>>
      BY <1>11 DEF EvictMark, volume, cache, locals, ghosts
  <2> QED
      BY <1>0, <2>1 DEF Reported, Covered, Backed, CarriesJson, Doomed, Has
<1>12. CASE Restart
  <2>1. /\ UNCHANGED <<body, tomb, remote, acked>> /\ worker'.pc = "idle" /\ evictor' = "idle"
        /\ \A u \in Tasks : pc'[u] = "idle"
        /\ mirrorGen' = 0 /\ (acked # 0 => localGen' = 1)
      BY <1>0, <1>12 DEF Restart, Versioned, volume, ghosts
  <2>2. Doomed' => Doomed
      BY <2>1 DEF Doomed, DeletePoints
  <2>3. ~Has(body) /\ acked # 0 => Backed'
      BY <1>0, <2>1 DEF Covered, Backed, CarriesJson
  <2> QED
      BY <1>0, <2>1, <2>2, <2>3 DEF Reported, Covered, Has, RestorePoints, InstalledPoints
<1>13. CASE UNCHANGED vars
    BY <1>0, <1>13 DEF vars, volume, cache, locals, ghosts, Reported, Covered, Backed,
       CarriesJson, Doomed, Has
<1> QED
    BY <1>1, <1>2, <1>4, <1>5, <1>6, <1>7, <1>8, <1>9, <1>10, <1>11, <1>12, <1>13
       DEF Next, WorkerStep, EvictStep

\* SurvivesInv holds in every reachable state of an instance whose deletes are
\* final and where eviction passes and restores overlap no operation.
LEMMA SurvivesKept ==
    ASSUME DeletesFinal, Overlap = FALSE
    PROVE  Spec => [](TypeOK /\ SurvivesInv)
<1>1. Init => SurvivesInv
  <2> SUFFICES ASSUME Init PROVE SurvivesInv
      OBVIOUS
  <2>1. queue \in Seq({"json", "ydoc"})
      BY DEF Init
  <2>2. InTurn
      BY <2>1 DEF Init, InTurn, BuriedInv, Doomed, DeleteSent, DeletePoints, Restoring,
         Quiet, Has, Absent
  <2>3. GensBounded /\ Written /\ EvictsAlone /\ RestoresAlone /\ Reported /\ acked = 0
      BY DEF Init, GensBounded, Written, EvictsAlone, RestoresAlone, Reported, Doomed,
         DeletePoints, RestorePoints, InstalledPoints
  <2>4. Versioned
      BY DEF Init, Versioned, Stamped, Has, Absent
  <2> QED
      BY <2>2, <2>3, <2>4 DEF SurvivesInv
<1>2. TypeOK /\ SurvivesInv /\ [Next]_vars => SurvivesInv'
  <2> SUFFICES ASSUME TypeOK, SurvivesInv, [Next]_vars PROVE SurvivesInv'
      OBVIOUS
  <2>1. InTurn'
      BY InTurnStep DEF SurvivesInv, RestoresApart
  <2>2. GensBounded'
      BY BoundedStep DEF SurvivesInv
  <2>3. Written' /\ EvictsAlone' /\ RestoresAlone'
      BY OrderStep DEF SurvivesInv
  <2>4. Versioned'
      BY VersionedStep DEF SurvivesInv
  <2>5. Reported' /\ (acked' # 0 => Covered')
      BY SurvivesStep
  <2> QED
      BY <2>1, <2>2, <2>3, <2>4, <2>5 DEF SurvivesInv
<1> QED
    BY <1>1, <1>2, TypeCorrect, PTL DEF Spec

\* If eviction passes and restores overlap no operation, a write reported as
\* done is in the body or, while that is evicted, in R2 (Durable): for any
\* number of tasks, overlapping saves and snapshots, evictions, restores by id,
\* failed transfers, files that cannot be written or removed, and restarts; and
\* with deletes, final ones and cut short, for one operation at a time.
THEOREM ReportedSurvives ==
    ASSUME DeletesFinal, Overlap = FALSE
    PROVE  Spec => []Durable
<1>1. TypeOK /\ SurvivesInv => Durable
    BY DEF SurvivesInv, Reported, Durable
<1> QED
    BY <1>1, SurvivesKept, PTL

-----------------------------------------------------------------------------
(* What a hydrate yields, one request at a time.  A save's version is above *)
(* the sidecar's tag, and a snapshot writes the same content into both      *)
(* halves: so the half a hydrate prefers is never the older one.  A restore *)
(* breaks this (see "Further disagreements" in the README): it may lay an   *)
(* older JSON beside a newer sidecar.                                       *)

\* A task about to list a version lists no older one than it found; what is
\* being deleted is no longer reported; a restore stands apart.
ListsNewer ==
    \A t \in Tasks :
        /\ pc[t] \in {"write", "insert"} => ver[t] >= index
        /\ pc[t] \in {"flush", "note"} => index = ver[t]
        /\ pc[t] \in DeletePoints => acked = 0
        /\ pc[t] \in RestorePoints => Overlap = FALSE

\* A delete marks the document as no longer reported, and stays that way.
LEMMA DeleteUnreports ==
    ASSUME TypeOK, ListsNewer, NEW t \in Tasks, Deletes(t)
    PROVE  acked' = 0
<1>1. CASE DeleteBegin(t)
    BY <1>1 DEF DeleteBegin
<1>2. CASE ~DeleteBegin(t)
  <2>1. pc[t] \in DeletePoints
      BY <1>2 DEF Deletes, DeleteFile, DeleteSidecar, DeleteIndex, DeleteFlush, DeleteTomb,
         Goto, DeletePoints
  <2>2. acked' = acked
      BY <1>2 DEF Deletes, DeleteFile, DeleteSidecar, DeleteIndex, DeleteFlush, DeleteTomb,
         ghosts
  <2> QED
      BY <2>1, <2>2 DEF ListsNewer
<1> QED
    BY <1>1, <1>2

\* The entry a task lists is never older than the one it found.
LEMMA ListsNewerStep ==
    ASSUME Alone, RestoresApart, TypeOK, ListsNewer, [Next]_vars
    PROVE  ListsNewer'
<1>0. /\ pc \in [Tasks -> Points] /\ index \in Nat /\ ver \in [Tasks -> Nat]
      /\ acked \in Nat /\ src \in [Tasks -> Nat]
    BY DEF TypeOK, TasksOK, FilesOK
<1>1. ASSUME NEW t \in Tasks, TaskStep(t) PROVE ListsNewer'
  <2>0. \A u \in Tasks : u = t
      BY DEF Alone
  <2>1. CASE Aside(t)
    <3>1. pc'[t] \in SavePoints \ {"insert", "flush", "note"} /\ index' = index
        BY <2>1, AsideFacts
    <3>2. pc'[t] = "write" => ver'[t] >= index
        BY <1>0, <2>1 DEF Aside, SaveBegin, OverrideBegin, SaveRead, SaveRefuse,
           SnapBegin, SnapSidecar, SnapLoad, SnapSkip, SnapVersion, NextVersion, Start,
           Goto
    <3> QED
        BY <2>0, <3>1, <3>2 DEF ListsNewer, SavePoints, DeletePoints, RestorePoints,
           InstalledPoints
  <2>2. CASE Restores(t)
    <3>1. pc'[t] \in {"idle"} \cup RestorePoints
        BY <2>2, RestoreFacts
    <3>2. Overlap = FALSE
      <4>1. CASE RestoreFetch(t)
          BY <4>1 DEF RestoreFetch, Start, RestoresApart
      <4>2. CASE ~RestoreFetch(t)
          BY <2>2, <4>2 DEF Restores, RestoreInstall, RestoreIndex, RestoreFlush,
             RestorePin, Goto, ListsNewer, RestorePoints, InstalledPoints
      <4> QED
          BY <4>1, <4>2
    <3> QED
        BY <2>0, <3>1, <3>2 DEF ListsNewer, DeletePoints, RestorePoints, InstalledPoints
  <2>3. CASE WriteBody(t)
    <3>1. pc[t] = "write" /\ pc'[t] = "insert" /\ index' = index /\ ver' = ver
        BY <1>0, <2>3 DEF WriteBody, Goto, locals
    <3> QED
        BY <2>0, <3>1 DEF ListsNewer, DeletePoints, RestorePoints, InstalledPoints
  <2>4. CASE InsertIndex(t)
    <3>1. pc'[t] = "flush" /\ index' = ver[t] /\ ver' = ver
        BY <1>0, <2>4 DEF InsertIndex, Goto, locals
    <3> QED
        BY <2>0, <3>1 DEF ListsNewer, DeletePoints, RestorePoints, InstalledPoints
  <2>5. CASE FlushIndex(t)
    <3>1. pc[t] = "flush" /\ pc'[t] = "note" /\ index' = index /\ ver' = ver
        BY <1>0, <2>5 DEF FlushIndex, Goto, locals
    <3> QED
        BY <2>0, <3>1 DEF ListsNewer, DeletePoints, RestorePoints, InstalledPoints
  <2>6. CASE NoteWrite(t)
      BY <2>0, <2>6, NoteFacts DEF ListsNewer, DeletePoints, RestorePoints,
         InstalledPoints
  <2>7. CASE Deletes(t)
      BY <2>0, <2>7, DeleteUnreports, DeletionFacts DEF ListsNewer, DeletePoints, RestorePoints,
         InstalledPoints
  <2> QED
      BY <1>1, <2>1, <2>2, <2>3, <2>4, <2>5, <2>6, <2>7, TaskSteps
<1>2. ASSUME UNCHANGED <<index, pc, ver, acked>> PROVE ListsNewer'
    BY <1>2 DEF ListsNewer
<1>3. CASE WorkerStep
    BY <1>2, <1>3 DEF WorkerStep, WorkerTake, WorkerRead, WorkerPut, WorkerDelete,
                      WorkerFail, locals, ghosts
<1>4. CASE EvictStep
    BY <1>2, <1>4 DEF EvictStep, EvictChoose, EvictRemove, EvictMark, locals, ghosts
<1>5. CASE Restart
    BY <1>0, <1>5 DEF Restart, ListsNewer, DeletePoints, RestorePoints, InstalledPoints
<1>6. CASE UNCHANGED vars
    BY <1>2, <1>6 DEF vars, locals, ghosts
<1>7. ASSUME NEW t \in Tasks, FileFails(t) PROVE ListsNewer'
    BY <1>7, FailFacts DEF ListsNewer, DeletePoints, RestorePoints, InstalledPoints
<1> QED
    BY <1>1, <1>3, <1>4, <1>5, <1>6, <1>7 DEF Next

\* The content a task writes is the newest there is.
Newest ==
    /\ body.src <= writes /\ sidecar.src <= writes
    /\ \A t \in Tasks :
           pc[t] \notin {"idle"} \cup DeletePoints =>
               /\ src[t] # 0 /\ src[t] <= writes
               /\ body.src <= src[t] /\ sidecar.src <= src[t]

\* The sidecar's tag is a listed version.
Tagged ==
    /\ Has(sidecar) => sidecar.ver <= index /\ sidecar.ver <= indexFile
    /\ \A t \in Tasks :
           /\ pc[t] = "snapSidecar" => ver[t] = index
           /\ pc[t] \in {"delIndex", "delFlush", "delTomb"} => ~Has(sidecar)

\* The sidecar holds what the task writes, or its tag is older.
Outdated(t) == Has(sidecar) => sidecar.src = src[t] \/ sidecar.ver < ver[t]

\* The half a hydrate prefers is never the older one.
Layered ==
    /\ Has(body) /\ Has(sidecar) /\ sidecar.ver >= body.ver => sidecar.src >= body.src
    /\ \A t \in Tasks :
           /\ pc[t] \in {"snapLoad", "snapVersion"} => sidecar.src = src[t]
           /\ pc[t] = "write" => Outdated(t)

\* What was reported is in the body.
InBody ==
    /\ acked # 0 => Has(body) /\ body.src >= acked
    /\ \A t \in Tasks : pc[t] \in {"insert", "flush", "note"} => Has(body)

\* Nothing is evicted, and nothing restored.
KeptLocal ==
    /\ evictor = "idle"
    /\ \A t \in Tasks : pc[t] \notin RestorePoints

FreshInv == Newest /\ Tagged /\ Layered /\ InBody /\ KeptLocal

LEMMA FreshTaskStep ==
    ASSUME Alone, FilesWritten, {"evict", "restore"} \intersect Ops = {}, TypeOK, FlushInv, ListsNewer,
           FreshInv, NEW t \in Tasks, TaskStep(t)
    PROVE  FreshInv'
<1>0. /\ pc \in [Tasks -> Points] /\ src \in [Tasks -> Nat] /\ ver \in [Tasks -> Nat]
      /\ acked \in Nat /\ writes \in Nat /\ index \in Nat /\ indexFile \in Nat
      /\ body.src \in Nat /\ body.ver \in Nat /\ sidecar.src \in Nat /\ sidecar.ver \in Nat
      /\ Newest /\ Tagged /\ Layered /\ InBody /\ KeptLocal
      /\ \A u \in Tasks : u = t
    BY DEF TypeOK, TasksOK, FilesOK, File, FreshInv, Alone
<1>1. ~Restores(t)
  <2>1. ~RestoreFetch(t)
      BY DEF RestoreFetch, Start
  <2> QED
      BY <1>0, <2>1 DEF Restores, RestoreInstall, RestoreIndex, RestoreFlush, RestorePin,
         Goto, KeptLocal, RestorePoints, InstalledPoints
<1>2. CASE SaveBegin(t) \/ OverrideBegin(t) \/ SnapBegin(t)
  <2>1. /\ pc[t] = "idle" /\ pc'[t] \in {"saveRead", "snapSidecar"}
        /\ writes' = writes + 1 /\ src'[t] = writes + 1
        /\ pc'[t] = "snapSidecar" => ver'[t] = index
        /\ UNCHANGED <<body, sidecar, index, indexFile, acked, evictor>>
      BY <1>0, <1>2 DEF SaveBegin, OverrideBegin, SnapBegin, NewContent, Start, Goto,
         volume, ghosts
  <2>2. Newest'
      BY <1>0, <2>1 DEF Newest
  <2>3. Tagged'
      BY <1>0, <2>1 DEF Tagged, Has
  <2> QED
      BY <1>0, <2>1, <2>2, <2>3 DEF FreshInv, Layered, InBody, KeptLocal, RestorePoints,
         InstalledPoints, Has
<1>3. CASE SaveRead(t) \/ SaveRefuse(t) \/ SnapLoad(t) \/ SnapSkip(t) \/ SnapVersion(t)
  <2>1. /\ pc[t] \in {"saveRead", "snapLoad", "snapVersion"}
        /\ pc'[t] \in {"idle", "write", "snapVersion"}
        /\ UNCHANGED <<body, sidecar, index, indexFile, acked, evictor, src, writes>>
      BY <1>0, <1>3 DEF SaveRead, SaveRefuse, SnapLoad, SnapSkip, SnapVersion, Goto,
         volume, locals, bounds, ghosts
  <2>2. pc'[t] = "write" => sidecar.src = src[t] \/ (Has(sidecar) => sidecar.ver < ver'[t])
    <3>1. CASE SaveRead(t)
        BY <1>0, <3>1 DEF SaveRead, NextVersion, Tagged
    <3>2. CASE SnapVersion(t)
        BY <1>0, <3>2 DEF SnapVersion, Layered
    <3>3. CASE ~SaveRead(t) /\ ~SnapVersion(t)
        BY <1>0, <1>3, <3>3 DEF SaveRefuse, SnapLoad, SnapSkip, Goto
    <3> QED
        BY <3>1, <3>2, <3>3
  <2>3. pc'[t] = "snapVersion" => pc[t] = "snapLoad"
      BY <1>0, <1>3 DEF SaveRead, SaveRefuse, SnapLoad, SnapSkip, SnapVersion, Goto
  <2>4. Newest' /\ Tagged'
      BY <1>0, <2>1 DEF Newest, Tagged, DeletePoints, Has
  <2>5. Layered'
      BY <1>0, <2>1, <2>2, <2>3 DEF Layered, Outdated, Has
  <2> QED
      BY <1>0, <2>1, <2>4, <2>5 DEF FreshInv, InBody, KeptLocal, RestorePoints,
         InstalledPoints, Has
<1>4. CASE SnapSidecar(t)
  <2>1. /\ pc[t] = "snapSidecar" /\ pc'[t] = "snapLoad"
        /\ sidecar'.ver = ver[t] /\ sidecar'.src = src[t]
        /\ UNCHANGED <<body, index, indexFile, acked, evictor, src, writes>>
      BY <1>0, <1>4 DEF SnapSidecar, Goto, locals, bounds, ghosts
  <2>2. ver[t] = index /\ indexFile = index
      BY <1>0, <2>1 DEF Tagged, FlushInv, FlushDue, FilesWritten
  <2>3. src[t] # 0 /\ src[t] <= writes /\ body.src <= src[t]
      BY <1>0, <2>1 DEF Newest, DeletePoints
  <2>4. Newest' /\ Tagged'
      BY <1>0, <2>1, <2>2, <2>3 DEF Newest, Tagged
  <2>5. Layered'
      BY <1>0, <2>1, <2>3 DEF Layered
  <2> QED
      BY <1>0, <2>1, <2>4, <2>5 DEF FreshInv, InBody, KeptLocal, RestorePoints,
         InstalledPoints, Has
<1>5. CASE WriteBody(t)
  <2>1. /\ pc[t] = "write" /\ pc'[t] = "insert"
        /\ body'.ver = ver[t] /\ body'.src = src[t]
        /\ acked' <= src[t]
        /\ UNCHANGED <<sidecar, index, indexFile, evictor, src, ver, writes>>
      BY <1>0, <1>5 DEF WriteBody, Goto, locals, bounds
  <2>2. src[t] # 0 /\ src[t] <= writes /\ sidecar.src <= src[t]
      BY <1>0, <2>1 DEF Newest, DeletePoints
  <2>3. Outdated(t)
      BY <1>0, <2>1 DEF Layered
  <2>4. Newest' /\ Tagged'
      BY <1>0, <2>1, <2>2 DEF Newest, Tagged, Has
  <2>5. Layered'
      BY <1>0, <2>1, <2>2, <2>3 DEF Layered, Outdated, Has
  <2> QED
      BY <1>0, <2>1, <2>2, <2>4, <2>5 DEF FreshInv, InBody, KeptLocal, RestorePoints,
         InstalledPoints, Has
<1>6. CASE InsertIndex(t) \/ FlushIndex(t)
  <2>1. /\ pc[t] \in {"insert", "flush"} /\ pc'[t] \in {"flush", "note"}
        /\ UNCHANGED <<body, sidecar, acked, evictor, src, ver, writes>>
      BY <1>0, <1>6 DEF InsertIndex, FlushIndex, Goto, volume, locals, bounds, ghosts
  <2>2. \/ index' = ver[t] /\ ver[t] >= index /\ indexFile' = indexFile
        \/ index' = index /\ indexFile' = index
      BY <1>6 DEF InsertIndex, FlushIndex, Flushed, Goto, ListsNewer, volume
  <2>3. Newest' /\ Layered'
      BY <1>0, <2>1 DEF Newest, Layered, DeletePoints, Has
  <2>4. Tagged'
      BY <1>0, <2>1, <2>2 DEF Tagged, Has
  <2> QED
      BY <1>0, <2>1, <2>3, <2>4 DEF FreshInv, InBody, KeptLocal, RestorePoints,
         InstalledPoints, Has
<1>7. CASE NoteWrite(t)
  <2>1. /\ pc[t] = "note" /\ pc'[t] = "idle" /\ Has(body)
        /\ UNCHANGED <<body, sidecar, index, indexFile, evictor, src, writes>>
      BY <1>0, <1>7 DEF NoteWrite, Goto, InBody, volume, locals, bounds
  <2>2. acked' <= body.src
      BY <1>0, <1>7, <2>1 DEF NoteWrite
  <2> QED
      BY <1>0, <2>1, <2>2 DEF FreshInv, Newest, Tagged, Layered, InBody, KeptLocal,
         RestorePoints, InstalledPoints, Has
<1>8. CASE Deletes(t)
  <2>1. acked' = 0 /\ pc'[t] \in {"idle"} \cup DeletePoints /\ UNCHANGED <<evictor, src>>
      BY <1>8, DeleteUnreports, DeletionFacts
  <2>2. body' \in {body, Absent} /\ sidecar' \in {sidecar, Absent} /\ writes' = writes
      BY <1>8 DEF Deletes, DeleteBegin, DeleteFile, DeleteSidecar, DeleteIndex, DeleteFlush,
         DeleteTomb, volume, bounds
  <2>3. ~Has(sidecar') \/ (UNCHANGED <<index, indexFile>> /\ sidecar' = sidecar)
      BY <1>0, <1>8 DEF Deletes, DeleteBegin, DeleteFile, DeleteSidecar, DeleteIndex, DeleteFlush,
         DeleteTomb, Goto, Tagged, volume, Has, Absent
  <2>4. pc'[t] \in {"delIndex", "delFlush", "delTomb"} => ~Has(sidecar')
      BY <1>0, <1>8 DEF Deletes, DeleteBegin, DeleteFile, DeleteSidecar, DeleteIndex, DeleteFlush,
         DeleteTomb, Start, Goto, Tagged, volume, Has, Absent
  <2>5. Newest' /\ Tagged'
      BY <1>0, <2>1, <2>2, <2>3, <2>4 DEF Newest, Tagged, DeletePoints, Absent
  <2>6. Layered'
      BY <1>0, <2>1, <2>2 DEF Layered, DeletePoints, Has, Absent
  <2> QED
      BY <1>0, <2>1, <2>5, <2>6 DEF FreshInv, InBody, KeptLocal, DeletePoints,
         RestorePoints, InstalledPoints
<1> QED
    BY <1>1, <1>2, <1>3, <1>4, <1>5, <1>6, <1>7, <1>8, TaskSteps DEF Aside

LEMMA FreshStep ==
    ASSUME Alone, FilesWritten, {"evict", "restore"} \intersect Ops = {}, TypeOK, FlushInv, ListsNewer,
           FreshInv, [Next]_vars
    PROVE  FreshInv'
<1> USE DEF FreshInv
<1>1. ASSUME NEW t \in Tasks, TaskStep(t) PROVE FreshInv'
    BY <1>1, FreshTaskStep
<1>2. ASSUME UNCHANGED <<body, sidecar, index, indexFile, acked, writes, pc, src, ver,
                         evictor>>
      PROVE  FreshInv'
    BY <1>2 DEF Newest, Tagged, Layered, Outdated, InBody, KeptLocal, Has
<1>3. CASE WorkerStep
    BY <1>2, <1>3 DEF WorkerStep, WorkerTake, WorkerRead, WorkerPut, WorkerDelete,
       WorkerFail, volume, locals, bounds, ghosts
<1>4. ~EvictStep
    BY DEF EvictStep, EvictChoose, EvictRemove, EvictMark, KeptLocal
<1>5. CASE Restart
  <2>1. /\ index' = indexFile /\ evictor' = "idle"
        /\ UNCHANGED <<body, sidecar, indexFile, acked, writes, src, ver>>
        /\ \A t \in Tasks : pc'[t] = "idle"
      BY <1>5 DEF Restart, volume, locals, ghosts
  <2> QED
      BY <2>1 DEF Newest, Tagged, Layered, InBody, KeptLocal, RestorePoints,
         InstalledPoints, Has
<1>6. CASE UNCHANGED vars
    BY <1>2, <1>6 DEF vars, volume, locals, bounds, ghosts
<1> QED
    BY <1>1, <1>3, <1>4, <1>5, <1>6, FailFacts DEF Next, FilesWritten

\* Whatever was last reported as done is what a hydrate yields (HydrateFresh)
\* when operations follow one another and none evicts or restores: through
\* saves, snapshots skipped half way, deletes, overrides and restarts anywhere.
THEOREM HydratesFresh ==
    ASSUME Alone, FilesWritten, {"evict", "restore"} \intersect Ops = {}
    PROVE  Spec => []HydrateFresh
<1>1. Init => FreshInv
    BY DEF Init, FreshInv, Newest, Tagged, Layered, InBody, KeptLocal, Absent, Has,
       RestorePoints, InstalledPoints
<1>2. TypeOK /\ FlushInv /\ ListsNewer /\ FreshInv /\ [Next]_vars => FreshInv'
    BY FreshStep
<1>3. TypeOK /\ FreshInv => HydrateFresh
    BY DEF FreshInv, Layered, InBody, HydrateFresh, Hydrated, TypeOK, FilesOK, TasksOK,
       File
<1>4. Init => FlushInv /\ ListsNewer
    BY DEF Init, FlushInv, ListsNewer, DeletePoints, RestorePoints, InstalledPoints
<1>5. TypeOK /\ FlushInv /\ [Next]_vars => FlushInv'
    BY FlushStep
<1>6. TypeOK /\ ListsNewer /\ [Next]_vars => ListsNewer'
    BY ListsNewerStep DEF RestoresApart
<1> QED
    BY <1>1, <1>2, <1>3, <1>4, <1>5, <1>6, TypeCorrect, PTL DEF Spec

-----------------------------------------------------------------------------
(* The store is a register, in the instances where what was reported        *)
(* survives: a write takes effect when it reaches the body, and what the    *)
(* mirror, the evictor and a restore move about is what is read already.    *)

\* A task with a write that is not answered yet.
WritePoints == OpenPoints \cup {"insert", "flush", "note"}

\* Every write has a number of its own.
OwnWrites ==
    /\ \A t \in Tasks : pc[t] \in WritePoints => src[t] \in 1 .. writes
    /\ \A t, u \in Tasks :
           t # u /\ pc[t] \in WritePoints /\ pc[u] \in WritePoints => src[t] # src[u]

\* The writes that will not take effect any more, and none.
Past == (0 .. writes) \ OpenWrites

\* What the bodies hold on the volume, in R2 and on the way there took effect.
PastWrites ==
    /\ body.src \in Past /\ remote.json.src \in Past
    /\ worker.pc = "putJson" => worker.file.src \in Past

\* A task begins a write.
Begins(t) == SaveBegin(t) \/ OverrideBegin(t) \/ SnapBegin(t)

\* Writes are begun one by one, become past and stay so.
LEMMA OpenFacts ==
    ASSUME FilesWritten, TypeOK, OwnWrites, [Next]_vars
    PROVE  /\ OwnWrites'
           /\ \/ writes' = writes + 1 /\ OpenWrites' = OpenWrites \cup {writes + 1}
              \/ writes' = writes /\ OpenWrites' \subseteq OpenWrites
           /\ \A t \in Tasks :
                /\ Begins(t) => /\ writes' = writes + 1
                                /\ OpenWrites' = OpenWrites \cup {writes + 1}
                /\ ~Begins(t) /\ TaskStep(t) => writes' = writes
                /\ WriteBody(t) => /\ src[t] \in OpenWrites
                                   /\ OpenWrites' = OpenWrites \ {src[t]}
                /\ NoteWrite(t) \/ DeleteBegin(t) => OpenWrites' = OpenWrites
<1> DEFINE Facts ==
           /\ OwnWrites'
           /\ \/ writes' = writes + 1 /\ OpenWrites' = OpenWrites \cup {writes + 1}
              \/ writes' = writes /\ OpenWrites' \subseteq OpenWrites
<1>0. /\ pc \in [Tasks -> Points] /\ src \in [Tasks -> Nat] /\ writes \in Nat
    BY DEF TypeOK, TasksOK
<1>o. \A w : /\ w \in OpenWrites <=> \E t \in Tasks : pc[t] \in OpenPoints /\ w = src[t]
             /\ w \in OpenWrites' <=> \E t \in Tasks : pc'[t] \in OpenPoints /\ w = src'[t]
    BY DEF OpenWrites, OpenPoints
<1> USE DEF OpenPoints
<1>1. ASSUME NEW t \in Tasks, Begins(t)
      PROVE  /\ Facts /\ writes' = writes + 1
             /\ OpenWrites' = OpenWrites \cup {writes + 1}
  <2>1. /\ pc[t] = "idle" /\ pc'[t] \in OpenPoints /\ writes' = writes + 1
        /\ src'[t] = writes + 1
        /\ \A u \in Tasks : u # t => pc'[u] = pc[u] /\ src'[u] = src[u]
      BY <1>0, <1>1 DEF Begins, SaveBegin, OverrideBegin, SnapBegin, Start, Goto, NewContent,
         OpenPoints
  <2>2. OpenWrites' = OpenWrites \cup {writes + 1}
      BY <1>o, <2>1
  <2>3. OwnWrites'
      BY <1>0, <2>1 DEF OwnWrites, WritePoints, OpenPoints
  <2> QED
      BY <2>1, <2>2, <2>3
\* Every other step of a task.
<1>2. ASSUME NEW t \in Tasks, TaskStep(t), ~Begins(t)
      PROVE  /\ writes' = writes
             /\ \A u \in Tasks : u # t => pc'[u] = pc[u] /\ src'[u] = src[u]
             /\ pc'[t] \in WritePoints => pc[t] \in WritePoints /\ src'[t] = src[t]
             /\ pc'[t] \in OpenPoints => pc[t] \in OpenPoints
  <2>1. CASE SaveRead(t) \/ SaveRefuse(t) \/ SnapSidecar(t) \/ SnapLoad(t) \/ SnapSkip(t)
             \/ SnapVersion(t)
      BY <1>0, <2>1 DEF SaveRead, SaveRefuse, SnapSidecar, SnapLoad, SnapSkip, SnapVersion,
         Goto, bounds, locals, OpenPoints, WritePoints
  <2>2. CASE WriteBody(t) \/ InsertIndex(t) \/ FlushIndex(t) \/ NoteWrite(t)
      BY <1>0, <2>2 DEF WriteBody, InsertIndex, FlushIndex, NoteWrite, Goto, bounds, locals,
         OpenPoints, WritePoints
  <2>3. CASE Deletes(t)
      BY <1>0, <2>3 DEF Deletes, DeleteBegin, DeleteFile, DeleteSidecar, DeleteIndex,
         DeleteFlush, DeleteTomb, Start, Goto, bounds, locals, OpenPoints, WritePoints
  <2>4. CASE Restores(t)
    <3>1. /\ \A u \in Tasks : u # t => pc'[u] = pc[u] /\ src'[u] = src[u]
          /\ pc'[t] \in {"idle"} \cup RestorePoints
        BY <2>4, RestoreFacts
    <3>2. writes' = writes
        BY <2>4 DEF Restores, RestoreFetch, RestoreInstall, RestoreIndex, RestoreFlush,
           RestorePin, bounds
    <3> QED
        BY <3>1, <3>2 DEF RestorePoints, InstalledPoints, OpenPoints, WritePoints
  <2> QED
      BY <1>2, <2>1, <2>2, <2>3, <2>4, TaskSteps DEF Aside, Begins
<1>3. ASSUME NEW t \in Tasks, TaskStep(t), ~Begins(t) PROVE Facts
  <2>0. /\ writes' = writes
        /\ \A u \in Tasks : u # t => pc'[u] = pc[u] /\ src'[u] = src[u]
        /\ pc'[t] \in WritePoints => pc[t] \in WritePoints /\ src'[t] = src[t]
        /\ pc'[t] \in OpenPoints => pc[t] \in OpenPoints
      BY <1>2, <1>3
  <2>1. OpenWrites' \subseteq OpenWrites
    <3> SUFFICES ASSUME NEW u \in Tasks, pc'[u] \in OpenPoints
                 PROVE  pc[u] \in OpenPoints /\ src'[u] = src[u]
        BY <1>o
    <3> QED
        BY <2>0 DEF WritePoints
  <2>2. OwnWrites'
      BY <2>0 DEF OwnWrites
  <2> QED
      BY <2>0, <2>1, <2>2
<1>4. ASSUME NEW t \in Tasks, WriteBody(t)
      PROVE  src[t] \in OpenWrites /\ OpenWrites' = OpenWrites \ {src[t]}
  <2>1. /\ pc[t] = "write" /\ pc'[t] = "insert" /\ src' = src
        /\ \A u \in Tasks : u # t => pc'[u] = pc[u]
      BY <1>0, <1>4 DEF WriteBody, Goto, locals
  <2>2. \A u \in Tasks : u # t /\ pc[u] \in OpenPoints => src[u] # src[t]
      BY <2>1 DEF OwnWrites, WritePoints, OpenPoints
  <2> QED
      BY <1>o, <2>1, <2>2
<1>5. ASSUME NEW t \in Tasks, NoteWrite(t) \/ DeleteBegin(t)
      PROVE  OpenWrites' = OpenWrites
  <2>1. /\ pc[t] \in {"note", "idle"} /\ pc'[t] \in {"idle", "delFile"} /\ src' = src
        /\ \A u \in Tasks : u # t => pc'[u] = pc[u]
      BY <1>0, <1>5 DEF NoteWrite, DeleteBegin, Start, Goto, locals
  <2> QED
      BY <1>o, <2>1
<1>6. ASSUME WorkerStep \/ EvictStep \/ UNCHANGED vars PROVE Facts
  <2>1. UNCHANGED <<writes, pc, src>>
      BY <1>6 DEF WorkerStep, WorkerTake, WorkerRead, WorkerPut, WorkerDelete, WorkerFail,
         EvictStep, EvictChoose, EvictRemove, EvictMark, vars, bounds, locals
  <2> QED
      BY <1>o, <2>1 DEF OwnWrites
<1>7. ASSUME Restart PROVE Facts
  <2>1. writes' = writes /\ \A t \in Tasks : pc'[t] = "idle"
      BY <1>7 DEF Restart
  <2>2. OpenWrites' = {}
      BY <1>o, <2>1
  <2>3. OwnWrites'
      BY <2>1 DEF OwnWrites, WritePoints
  <2> QED
      BY <2>1, <2>2, <2>3
<1>8. Facts
    BY <1>1, <1>3, <1>6, <1>7, FailFacts DEF Next, FilesWritten
<1> QED
    BY <1>1, <1>2, <1>4, <1>5, <1>8

\* What took effect stays past, and what the bodies hold did.
LEMMA PastStep ==
    ASSUME FilesWritten, Overlap = FALSE, TypeOK, MirrorInv, OwnWrites, PastWrites, [Next]_vars
    PROVE  PastWrites'
<1>0. writes \in Nat /\ Restored
    BY DEF TypeOK, TasksOK, MirrorInv, ApartInv
<1>1. 0 \in Past /\ Past \subseteq Past'
  <2>1. 0 \notin OpenWrites
      BY DEF OpenWrites, OwnWrites, OpenPoints, WritePoints
  <2>2. \/ writes' = writes + 1 /\ OpenWrites' = OpenWrites \cup {writes + 1}
        \/ writes' = writes /\ OpenWrites' \subseteq OpenWrites
      BY OpenFacts
  <2> QED
      BY <1>0, <2>1, <2>2 DEF Past
<1>2. ASSUME NEW t \in Tasks, WriteBody(t) PROVE body'.src \in Past'
  <2>1. body'.src = src[t] /\ writes' = writes /\ src[t] \in 1 .. writes
      BY <1>2 DEF WriteBody, Goto, bounds, OwnWrites, OpenPoints, WritePoints
  <2>2. src[t] \notin OpenWrites'
      BY <1>2, OpenFacts
  <2> QED
      BY <1>0, <2>1, <2>2 DEF Past
<1>3. body'.src \in Past' \/ body' \in {Absent, body, remote.json}
  <2>2. ASSUME NEW t \in Tasks, TaskStep(t), ~WriteBody(t)
        PROVE  body' \in {Absent, body, remote.json}
    <3>1. CASE RestoreInstall(t)
        BY <1>0, <3>1 DEF RestoreInstall, Goto, Restored
    <3>2. CASE ~RestoreInstall(t)
      <4>1. CASE Aside(t)
          BY <4>1, AsideFacts
      <4>2. CASE Restores(t)
          BY <3>2, <4>2 DEF Restores, RestoreFetch, RestoreIndex, RestoreFlush, RestorePin,
             volume
      <4>3. CASE Deletes(t)
          BY <4>3 DEF Deletes, DeleteBegin, DeleteFile, DeleteSidecar, DeleteIndex,
             DeleteFlush, DeleteTomb, volume
      <4>4. CASE InsertIndex(t) \/ FlushIndex(t) \/ NoteWrite(t)
          BY <4>4 DEF InsertIndex, FlushIndex, NoteWrite, volume
      <4> QED
          BY <2>2, <4>1, <4>2, <4>3, <4>4, TaskSteps
    <3> QED
        BY <3>1, <3>2
  <2>3. CASE WorkerStep \/ EvictStep \/ Restart \/ UNCHANGED vars
      BY <2>3 DEF WorkerStep, WorkerTake, WorkerRead, WorkerPut, WorkerDelete, WorkerFail,
         EvictStep, EvictChoose, EvictRemove, EvictMark, Restart, vars, volume
  <2> QED
      BY <1>2, <2>2, <2>3, FailFacts DEF Next, FilesWritten
<1>4. /\ remote'.json \in {Absent, remote.json} \/
              (worker.pc = "putJson" /\ remote'.json = worker.file)
      /\ worker'.pc = "putJson" =>
             worker'.file = body \/ (worker.pc = "putJson" /\ worker'.file = worker.file)
  <2>1. ASSUME NEW t \in Tasks, TaskStep(t) PROVE UNCHANGED <<remote, worker>>
      BY <2>1 DEF TaskStep, SaveBegin, OverrideBegin, SaveRead, SaveRefuse, SnapBegin,
         SnapSidecar, SnapLoad, SnapSkip, SnapVersion, WriteBody, InsertIndex, FlushIndex,
         NoteWrite, DeleteBegin, DeleteFile, DeleteSidecar, DeleteIndex, DeleteFlush,
         DeleteTomb, RestoreFetch, RestoreInstall, RestoreIndex, RestoreFlush, RestorePin
  <2>2. CASE WorkerRead
      BY <2>2 DEF WorkerRead, TypeOK, MirrorOK
  <2>3. CASE WorkerPut
      BY <2>3 DEF WorkerPut, TypeOK, MirrorOK
  <2>4. CASE WorkerTake \/ WorkerDelete \/ WorkerFail
      BY <2>4 DEF WorkerTake, WorkerDelete, WorkerFail, TypeOK, MirrorOK
  <2>5. CASE EvictStep \/ Restart \/ UNCHANGED vars
      BY <2>5 DEF EvictStep, EvictChoose, EvictRemove, EvictMark, Restart, vars
  <2> QED
      BY <2>1, <2>2, <2>3, <2>4, <2>5, FailFacts DEF Next, WorkerStep, FilesWritten
<1>5. Absent.src = 0
    BY DEF Absent
<1> QED
    BY <1>1, <1>3, <1>4, <1>5 DEF PastWrites

\* Each step of the store is a step of the register, or leaves it alone.
LEMMA RegisterStep ==
    ASSUME DeletesFinal, FilesWritten, Overlap = FALSE, TypeOK, MirrorInv, Reported, OwnWrites, PastWrites,
           [Next]_vars
    PROVE  [Register!Next]_<<writes, OpenWrites, Content, acked>>
<1> DEFINE Goal == [Register!Next]_<<writes, OpenWrites, Content, acked>>
<1>0. /\ writes \in Nat /\ acked \in Nat /\ src \in [Tasks -> Nat]
      /\ body.src \in Nat /\ InTurn /\ Written /\ Restored /\ VictimMirrored /\ Reclaimed
      /\ Doomed => acked = 0
    BY DEF TypeOK, TasksOK, FilesOK, File, MirrorInv, ApartInv, Reported
\* A step that no reader can see: at most, writes are withdrawn.
<1>1. ASSUME UNCHANGED <<writes, acked>>,
             acked # 0 => \/ UNCHANGED <<body, remote>>
                          \/ /\ Has(body') /\ ~Has(body)
                             /\ body'.src = remote.json.src
                          \/ /\ ~Has(body') /\ Has(body)
                             /\ remote'.json.src = body.src
                          \/ /\ Has(body') <=> Has(body)
                             /\ body' = body /\ (~Has(body) => remote'.json = remote.json)
      PROVE  Goal
  <2>1. Content' = Content
      BY <1>1 DEF Content, Has
  <2>2. OpenWrites' \subseteq OpenWrites
      BY <1>0, <1>1, OpenFacts
  <2> QED
      BY <1>1, <2>1, <2>2 DEF Register!Next, Register!Withdraw
<1>2. ASSUME NEW t \in Tasks, Begins(t) PROVE Goal
  <2>1. UNCHANGED <<body, remote, acked>>
      BY <1>2 DEF Begins, SaveBegin, OverrideBegin, SnapBegin, volume, ghosts
  <2>2. writes' = writes + 1 /\ OpenWrites' = OpenWrites \cup {writes + 1}
      BY <1>2, OpenFacts
  <2>3. Content' = Content
      BY <2>1 DEF Content, Has
  <2> QED
      BY <2>1, <2>2, <2>3 DEF Register!Next, Register!Request
<1>3. ASSUME NEW t \in Tasks, WriteBody(t) PROVE Goal
  <2>1. /\ src[t] \in OpenWrites /\ OpenWrites' = OpenWrites \ {src[t]}
        /\ writes' = writes /\ src[t] # 0 /\ src[t] \in Nat
      BY <1>0, <1>3, OpenFacts DEF WriteBody, Goto, bounds, Written, DeletePoints
  <2>2. body'.src = src[t] /\ acked' = IF src[t] < acked THEN src[t] ELSE acked
      BY <1>3 DEF WriteBody
  <2>3. Content' = IF acked = 0 THEN Content ELSE src[t]
      BY <1>0, <2>1, <2>2 DEF Content, Has
  <2>4. Register!TakeEffect(src[t])
      BY <1>0, <2>1, <2>2, <2>3 DEF Register!TakeEffect, Register!Oldest
  <2> QED
      BY <2>1, <2>4 DEF Register!Next
<1>4. ASSUME NEW t \in Tasks, NoteWrite(t) PROVE Goal
  <2>1. /\ OpenWrites' = OpenWrites /\ UNCHANGED <<writes, body>> /\ Has(body)
        /\ src[t] # 0 /\ src[t] \in Nat
      BY <1>0, <1>4, OpenFacts DEF NoteWrite, Goto, bounds, volume, Written, DeletePoints
  <2>2. src[t] \in (1 .. writes) \ OpenWrites
      BY <1>4 DEF NoteWrite, Goto, OwnWrites, OpenWrites, OpenPoints, WritePoints
  <2>3. body.src \in (1 .. writes) \ OpenWrites
      BY <1>0, <2>1 DEF PastWrites, Past, Has
  <2>4. acked' = (IF body.src < src[t] THEN body.src ELSE src[t]) /\ acked' # 0
      BY <1>0, <1>4, <2>1, <2>3 DEF NoteWrite
  <2>5. Content' = body.src /\ (acked # 0 => Content = body.src) /\ (acked = 0 => Content = 0)
      BY <2>1, <2>4 DEF Content, Has
  <2>6. Register!Answer(src[t])
      BY <1>0, <2>1, <2>3, <2>4, <2>5 DEF Register!Answer, Register!Oldest
  <2> QED
      BY <2>2, <2>6 DEF Register!Next
<1>5. ASSUME NEW t \in Tasks, Deletes(t) PROVE Goal
  <2>1. writes' = writes
      BY <1>5 DEF Deletes, DeleteBegin, DeleteFile, DeleteSidecar, DeleteIndex, DeleteFlush,
         DeleteTomb, bounds
  <2>2. CASE DeleteBegin(t)
    <3>1. acked' = 0 /\ Content' = 0 /\ OpenWrites' = OpenWrites
        BY <2>2, OpenFacts DEF DeleteBegin, Content
    <3> QED
        BY <2>1, <3>1 DEF Register!Next, Register!Discard
  <2>3. CASE ~DeleteBegin(t)
    <3>1. acked = 0 /\ acked' = acked
        BY <1>0, <1>5, <2>3 DEF Deletes, DeleteFile, DeleteSidecar, DeleteIndex, DeleteFlush,
           DeleteTomb, Goto, Doomed, DeletePoints, ghosts
    <3> QED
        BY <1>1, <2>1, <3>1
  <2> QED
      BY <2>2, <2>3
<1>6. ASSUME NEW t \in Tasks, Restores(t) PROVE Goal
  <2>1. UNCHANGED <<writes, acked, remote>>
      BY <1>6, RestoreFacts DEF Restores, RestoreFetch, RestoreInstall, RestoreIndex,
         RestoreFlush, RestorePin, bounds
  <2>2. CASE RestoreInstall(t)
    <3>1. ~Has(body) /\ Has(body') /\ body'.src = remote.json.src
        BY <1>0, <2>2 DEF RestoreInstall, Goto, Restored, Has
    <3> QED
        BY <1>1, <2>1, <3>1
  <2>3. CASE ~RestoreInstall(t)
    <3>1. body' = body
        BY <1>6, <2>3 DEF Restores, RestoreFetch, RestoreIndex, RestoreFlush, RestorePin, volume
    <3> QED
        BY <1>1, <2>1, <3>1
  <2> QED
      BY <2>2, <2>3
<1>7. ASSUME NEW t \in Tasks, TaskStep(t) PROVE Goal
  <2>1. CASE Aside(t) /\ ~Begins(t)
    <3>1. UNCHANGED <<writes, acked, body, remote>>
        BY <2>1 DEF Aside, Begins, SaveRead, SaveRefuse, SnapSidecar, SnapLoad, SnapSkip,
           SnapVersion, volume, bounds, ghosts
    <3> QED
        BY <1>1, <3>1
  <2>2. CASE InsertIndex(t) \/ FlushIndex(t)
    <3>1. UNCHANGED <<writes, acked, body, remote>>
        BY <2>2 DEF InsertIndex, FlushIndex, volume, bounds, ghosts
    <3> QED
        BY <1>1, <3>1
  <2> QED
      BY <1>2, <1>3, <1>4, <1>5, <1>6, <1>7, <2>1, <2>2, TaskSteps
<1>8. CASE WorkerTake \/ WorkerRead \/ WorkerFail \/ EvictChoose \/ EvictMark \/ Restart
           \/ UNCHANGED vars
  <2>1. UNCHANGED <<writes, acked, body, remote>>
      BY <1>8 DEF WorkerTake, WorkerRead, WorkerFail, EvictChoose, EvictMark, Restart, vars,
         volume, bounds, ghosts
  <2> QED
      BY <1>1, <2>1
<1>9. CASE WorkerPut
  <2>1. /\ UNCHANGED <<writes, acked, body>>
        /\ \/ remote'.json = remote.json
           \/ worker.pc = "putJson" /\ remote'.json = worker.file
      BY <1>9 DEF WorkerPut, volume, bounds, ghosts, TypeOK, MirrorOK
  <2>2. ~Has(body) /\ acked # 0 => remote'.json = remote.json
      BY <1>0, <2>1 DEF Reclaimed, Carries
  <2> QED
      BY <1>1, <2>1, <2>2
<1>10. CASE WorkerDelete
  <2>1. acked = 0 /\ UNCHANGED <<writes, acked>>
      BY <1>0, <1>10, InTurnFacts DEF WorkerDelete, DeleteSent, bounds, ghosts
  <2> QED
      BY <1>1, <2>1
<1>11. CASE EvictRemove
  <2>1. evictor = "chosen" /\ body' = Absent /\ UNCHANGED <<writes, acked, remote>>
      BY <1>11 DEF EvictRemove, bounds, ghosts
  <2>2. Has(body) => remote.json = body
      BY <1>0, <2>1 DEF VictimMirrored
  <2>3. ~Has(body')
      BY <2>1 DEF Has, Absent
  <2>4. Content' = Content
      BY <2>1, <2>2, <2>3 DEF Content
  <2>5. OpenWrites' \subseteq OpenWrites
      BY <1>0, <2>1, OpenFacts
  <2> QED
      BY <2>1, <2>4, <2>5 DEF Register!Next, Register!Withdraw
<1> QED
    BY <1>7, <1>8, <1>9, <1>10, <1>11, FailFacts DEF Next, WorkerStep, EvictStep, FilesWritten

\* The store is a register (ImplementsRegister), where ReportedSurvives holds:
\* whatever overlaps, fails, is uploaded, evicted, restored or restarted, a
\* document whose write was answered reads as the last write that reached the
\* body, each write reaches it once, between its request and its answer, and
\* only a delete ends the promise.
THEOREM StoreIsRegister ==
    ASSUME DeletesFinal, FilesWritten, Overlap = FALSE
    PROVE  Spec => ImplementsRegister
<1>1. Init => OwnWrites /\ PastWrites /\ Register!Init
  <2> SUFFICES ASSUME Init PROVE OwnWrites /\ PastWrites /\ Register!Init
      OBVIOUS
  <2>1. \A t \in Tasks : pc[t] = "idle"
      BY DEF Init
  <2>2. OpenWrites = {}
      BY <2>1 DEF OpenWrites, OpenPoints
  <2>3. OwnWrites
      BY <2>1 DEF OwnWrites, OpenPoints, WritePoints
  <2>4. PastWrites /\ Register!Init
      BY <2>2 DEF Init, PastWrites, Past, Absent, Register!Init, Content
  <2> QED
      BY <2>3, <2>4
<1>2. /\ TypeOK /\ MirrorInv /\ Reported /\ OwnWrites /\ PastWrites
      /\ [Next]_vars
      => /\ OwnWrites' /\ PastWrites'
         /\ [Register!Next]_<<writes, OpenWrites, Content, acked>>
    BY OpenFacts, PastStep, RegisterStep
<1>3. Spec => [](TypeOK /\ MirrorInv)
    BY MirrorKept DEF RestoresApart
<1>4. Spec => [](TypeOK /\ Reported)
    BY SurvivesKept, PTL DEF SurvivesInv
<1> QED
    BY <1>1, <1>2, <1>3, <1>4, PTL DEF Spec, ImplementsRegister, Register!Spec
=============================================================================
