----------------------------- MODULE BlobStore -----------------------------
(***************************************************************************)
(* One content-addressed blob on the relay (server/blobs.rs): the grants   *)
(* that let a workspace read it, the documents recorded to reference it,   *)
(* its index entry, its bytes, and the collector that takes grants and     *)
(* bytes away.  The callers are the upload and finalize handlers, the save *)
(* and delete handlers (api.rs), the snapshot of a session, the sweeper,   *)
(* the object-delete and ledger workers and the recovery of a lost volume  *)
(* (server/mod.rs).                                                        *)
(*                                                                         *)
(* Every map has a lock of its own, held for one access; a step is one     *)
(* such access, one file operation or one object request.  The index and   *)
(* grant insertions of an upload are one step.  In object mode (S3) each   *)
(* workspace owns an object; otherwise all share one file.                 *)
(***************************************************************************)
EXTENDS Integers, FiniteSets

CONSTANTS
    Workspaces, Docs,
    Shared,      \* the place of the bytes on the filesystem
    Tasks,       \* requests and session flushes
    Sweeper,     \* the periodic sweeper
    Modes,       \* settings to start from, see Settings
    Coincide,    \* what may happen at the same time, see AllCoincidences
    MaxOps, MaxRestarts \* bounds

(***************************************************************************)
(* Nothing keeps these apart in the code:                                  *)
(*   "regrant":    the blob is uploaded while its bytes are being removed; *)
(*   "finalize":   an object whose deferred deletion is due is finalized;  *)
(*   "found":      a grant a client relies on, having found or uploaded    *)
(*                 the blob, is released before its document is saved;     *)
(*   "sameDoc":    two writes of one document overlap;                     *)
(*   "saveSave":   two calls of save_acls overlap;                         *)
(*   "crash":      the relay stops between two writes that belong together *)
(*                 or before the ledger was mirrored;                      *)
(*   "coldUpload": the first request of a workspace whose volume is lost   *)
(*                 is an upload through the relay.                         *)
(***************************************************************************)
AllCoincidences == {"regrant", "finalize", "found", "sameDoc", "saveSave", "crash",
                    "coldUpload"}

\* Is the backend S3?  Is blob_gc_grace_secs above 0?  Whose is each document?
Settings == [objects: BOOLEAN, grace: BOOLEAN, owner: [Docs -> Workspaces]]

ASSUME PeopleAssumption ==
    /\ IsFiniteSet(Workspaces) /\ IsFiniteSet(Docs) /\ IsFiniteSet(Tasks)
    /\ Shared \notin Workspaces /\ Sweeper \notin Tasks /\ Docs # {}
ASSUME SettingsAssumption ==
    /\ Modes \subseteq Settings
    /\ Coincide \subseteq AllCoincidences
ASSUME BoundsAssumption == MaxOps \in Nat /\ MaxRestarts \in Nat

VARIABLES
    mode,     \* the configuration, fixed at the start
    body,     \* per document: does its saved body use the blob?
    refs,     \* doc_refs: documents recorded to reference it (memory and file)
    acl,      \* acls: workspaces granted
    aclFile,  \* blob_acl.json
    index,    \* the index entry: created within the grace period, before, or none
    bytes,    \* the places that hold the bytes
    orphan,   \* per place: orphaned_at / orphaned_objects_at, waiting or due
    deletes,  \* per workspace: object deletions queued
    ledger,   \* per workspace: blob_ledger.json in the bucket
    dirty,    \* workspaces in the ledger channel
    known,    \* blob_recovery_done
    cold,     \* documents whose body is in the bucket only
    pc, job,  \* per task: program point; the document and what it is to become
    todo,     \* per task: expired orphans still to be handled
    buf,      \* per task: the grants save_acls is about to write
    ops, restarts

stored  == <<body, bytes, index>>
rights  == <<refs, acl, aclFile>>
removal == <<orphan, deletes>>
mirror  == <<ledger, dirty, known, cold>>
control == <<pc, job, todo, buf>>
bounds  == <<ops, restarts>>
vars    == <<mode, stored, rights, removal, mirror, control, bounds>>

Actors == Tasks \union {Sweeper}
Places == Workspaces \union {Shared}
Uses   == {"none", "plain", "using"}
Ledger == [there: BOOLEAN, acl: BOOLEAN, refs: SUBSET Docs]
NoJob  == [op |-> "none", doc |-> CHOOSE d \in Docs : TRUE, to |-> "plain"]

NoLedger   == [there |-> FALSE, acl |-> FALSE, refs |-> {}]
Owner      == mode.owner
Place(w)   == IF mode.objects THEN w ELSE Shared
RefsOf(w)  == {d \in refs : Owner[d] = w}
Using(w)   == {d \in Docs : Owner[d] = w /\ body[d] = "using"}
Ws(t)      == Owner[job[t].doc]
LastGrantGone == acl = {}
Granted(p) == IF mode.objects THEN p \in acl ELSE acl # {}
LedgerOf(w) == [there |-> TRUE, acl |-> w \in acl, refs |-> RefsOf(w)]

Init ==
    /\ mode \in Modes
    /\ body = [d \in Docs |-> "plain"] /\ bytes = {} /\ index = "none"
    /\ refs = {} /\ acl = {} /\ aclFile = {}
    /\ orphan = [p \in Places |-> "no"]
    /\ deletes = [w \in Workspaces |-> 0]
    /\ ledger = [w \in Workspaces |-> NoLedger]
    /\ dirty = {} /\ known = Workspaces /\ cold = {}
    /\ pc = [t \in Actors |-> "idle"] /\ job = [t \in Actors |-> NoJob]
    /\ todo = [t \in Actors |-> {}] /\ buf = [t \in Actors |-> {}]
    /\ ops = 0 /\ restarts = 0

-----------------------------------------------------------------------------
(* Program points and the coincidences an instance leaves out. *)

UploadPoints  == {"bytes", "grant", "writeAcl"} \union
                     (IF mode.objects THEN {"reclaim", "recheck", "forget"} ELSE {})
ReleasePoints == {"revoke", "gc", "drop"}
Releasing(t)  == \/ pc[t] \in ReleasePoints
                 \/ pc[t] = "writeAcl" /\ job[t].to # "using"

Uploading(p, others) == \E t \in others : job[t].to = "using" /\ Place(Ws(t)) = p
                                             /\ pc[t] \in UploadPoints
Removing(p)  == \/ p \in Workspaces /\ deletes[p] > 0
                \/ \E t \in Actors :
                     \/ p \in todo[t] /\ pc[t] # "reclaim"
                     \/ Releasing(t) /\ Place(Ws(t)) = p
Relying(w)   == \E t \in Tasks : job[t].to = "using" /\ Ws(t) = w
                                   /\ pc[t] \in {"store", "sync"}

MayUpload(p)  == "regrant" \in Coincide \/ ~Removing(p)
MayRemove(t, p) == "regrant" \in Coincide \/ ~Uploading(p, Tasks \ {t})
MayRelease(w) == "found" \in Coincide \/ ~Relying(w)
MayRely(w)    == "found" \in Coincide \/ ~\E t \in Tasks : Releasing(t) /\ Ws(t) = w
MaySaveAcls   == "saveSave" \in Coincide \/ ~\E t \in Actors : pc[t] = "writeAcl"
MayFinalize(p) == "finalize" \in Coincide \/ ~mode.objects \/ orphan[p] # "due"
DocFree(d)    == "sameDoc" \in Coincide
                   \/ ~\E t \in Tasks : pc[t] # "idle" /\ job[t].doc = d

Go(t, to) == pc' = [pc EXCEPT ![t] = to]
At(t, from) == pc[t] = from

Mark(w) == dirty' = IF mode.objects THEN dirty \union {w} ELSE dirty

\* Where a document is to use the blob: it is saved and its reference is recorded, or
\* the other way round, see "Documents".
AttachAt(op) == IF op = "flush" THEN "sync" ELSE "store"

\* After save_acls a release goes on with the collection; an upload is over.
AfterAcls(t) == IF job[t].to = "using" THEN AttachAt(job[t].op) ELSE "gc"

-----------------------------------------------------------------------------
(* Uploading: the client asks whether the blob exists, uploads it if not,  *)
(* and attaches it to a document afterwards.                               *)

\* Tasks are interchangeable: an idle one takes the request.
Begin(t, op, d, to) ==
    /\ At(t, "idle") /\ t = CHOOSE u \in Tasks : At(u, "idle")
    /\ ops < MaxOps /\ DocFree(d)
    /\ Owner[d] \in known \/ (to = "using" /\ "coldUpload" \in Coincide)
    /\ ops' = ops + 1
    /\ job' = [job EXCEPT ![t] = [op |-> op, doc |-> d, to |-> to]]

Exists(w) == w \in acl /\ (index # "none" \/ (~mode.objects /\ Shared \in bytes))

Probe(t, d) ==
    /\ body[d] = "plain"
    /\ \/ Begin(t, "attach", d, "using")
       \/ d \notin cold /\ Begin(t, "flush", d, "using")
    /\ LET p == Place(Owner[d]) IN
       IF Exists(Owner[d]) THEN MayRely(Owner[d]) /\ Go(t, AttachAt(job'[t].op))
       ELSE /\ MayUpload(p) /\ MayFinalize(p)
            /\ Go(t, IF mode.objects THEN "bytes" ELSE "reclaim")
    /\ UNCHANGED <<mode, stored, rights, removal, mirror, todo, buf, restarts>>

\* The presigned PUT and the HEAD of the finalize handler; or the write of the relay, to
\* the file or, without a look at the bookkeeping, to the object.
PutBytes(t) ==
    /\ At(t, "bytes") /\ MayUpload(Place(Ws(t)))
    /\ bytes' = bytes \union {Place(Ws(t))}
    /\ Go(t, IF mode.objects THEN "reclaim" ELSE "grant")
    /\ UNCHANGED <<mode, body, index, rights, removal, mirror, job, todo, buf, bounds>>

Grant(t) ==
    /\ At(t, "grant") /\ (Ws(t) \notin acl => MaySaveAcls)
    /\ index' = IF index = "none" THEN "fresh" ELSE index
    /\ acl' = acl \union {Ws(t)}
    /\ orphan' = [orphan EXCEPT ![Place(Ws(t))] = "no"]
    /\ IF Ws(t) \in acl /\ index # "none"
       THEN Go(t, AttachAt(job[t].op)) /\ UNCHANGED buf
       ELSE Go(t, "writeAcl") /\ buf' = [buf EXCEPT ![t] = acl']
    /\ UNCHANGED <<mode, body, bytes, refs, aclFile, deletes, mirror, job, todo, bounds>>

WriteAcl(t) ==
    /\ At(t, "writeAcl")
    /\ aclFile' = buf[t] /\ buf' = [buf EXCEPT ![t] = {}]
    /\ Go(t, AfterAcls(t)) /\ Mark(Ws(t))
    /\ UNCHANGED <<mode, stored, refs, acl, removal, ledger, known, cold, job, todo, bounds>>

\* The client goes away after its upload.
Abandon(t) ==
    /\ At(t, AttachAt(job[t].op)) /\ job[t].to = "using"
    /\ Go(t, "idle") /\ job' = [job EXCEPT ![t] = NoJob]
    /\ UNCHANGED <<mode, stored, rights, removal, mirror, todo, buf, bounds>>

-----------------------------------------------------------------------------
(* Documents: a save stores the body and records its references after it,  *)
(* a deletion removes the body and then the references.  A session does it *)
(* the other way round: add_doc_ref records what is attached live, and a   *)
(* flush what the Y.Doc uses, before the body is written.                  *)

BeginWrite(t, d) ==
    /\ body[d] # "none"
    /\ \/ Begin(t, "save", d, "plain") /\ Go(t, "store")
       \/ d \notin cold /\ Begin(t, "flush", d, "plain") /\ Go(t, "sync")
       \/ Begin(t, "delete", d, "none") /\ Go(t, "store")
    /\ UNCHANGED <<mode, stored, rights, removal, mirror, todo, buf, restarts>>

Store(t) ==
    /\ At(t, "store") /\ Ws(t) \in known
    /\ body' = [body EXCEPT ![job[t].doc] = job[t].to]
    /\ cold' = cold \ {job[t].doc}
    /\ IF job[t].op = "flush"
       THEN Go(t, "idle") /\ job' = [job EXCEPT ![t] = NoJob]
       ELSE Go(t, "sync") /\ UNCHANGED job
    /\ UNCHANGED <<mode, index, bytes, rights, removal, ledger, dirty, known, todo, buf, bounds>>

\* What follows the handling of a document's references.
AfterRefs(t) == IF job[t].op = "flush" THEN "store" ELSE "idle"
Finish(t) ==
    /\ Go(t, AfterRefs(t))
    /\ job' = [job EXCEPT ![t] = IF AfterRefs(t) = "idle" THEN NoJob ELSE @]

\* The end of a call that changed what is referenced tells the ledger worker.
Released(t) == Finish(t) /\ Mark(Ws(t))
Goes(t, to) == Go(t, to) /\ UNCHANGED <<job, dirty>>

\* Mutant of SyncedRefs: references are only ever added, as add_doc_ref does.
SyncedRefsOnlyAdd(t) == IF job[t].to = "using" THEN refs \union {job[t].doc} ELSE refs
SyncedRefs(t) ==
    IF job[t].to = "using" THEN refs \union {job[t].doc} ELSE refs \ {job[t].doc}

\* sync_doc_refs and release_doc_refs: what the document no longer uses is released.
SyncRefs(t) ==
    /\ At(t, "sync") /\ refs' = SyncedRefs(t)
    /\ IF refs' = refs THEN Finish(t) /\ UNCHANGED dirty
       ELSE IF job[t].doc \in refs THEN Goes(t, "release")
       ELSE Released(t)
    /\ UNCHANGED <<mode, stored, acl, aclFile, removal, ledger, known, cold, todo, buf, bounds>>

-----------------------------------------------------------------------------
(* Release and collection. *)

\* uploaded_within_grace.
Spared == mode.grace /\ index = "fresh"

\* Mutant of Releasable: the references of other documents are not looked at.
ReleasableAnyway(w) == ~Spared
Releasable(w) == ~Spared /\ RefsOf(w) = {}

Release(t) ==
    /\ At(t, "release")
    /\ IF Releasable(Ws(t))
       THEN /\ MayRelease(Ws(t)) /\ MayRemove(t, Place(Ws(t)))
            /\ Goes(t, "revoke")
       ELSE Released(t)
    /\ UNCHANGED <<mode, stored, rights, removal, ledger, known, cold, todo, buf, bounds>>

Revoke(t) ==
    /\ At(t, "revoke")
    /\ IF Ws(t) \in acl
       THEN /\ MaySaveAcls
            /\ acl' = acl \ {Ws(t)} /\ buf' = [buf EXCEPT ![t] = acl']
            /\ Goes(t, "writeAcl")
       ELSE Released(t) /\ UNCHANGED <<acl, buf>>
    /\ UNCHANGED <<mode, stored, refs, aclFile, removal, ledger, known, cold, todo, bounds>>

\* Objects are deleted one workspace at a time, the shared file after the last grant.
Collect(t) ==
    /\ At(t, "gc")
    /\ IF mode.grace /\ (mode.objects \/ LastGrantGone)
       THEN /\ orphan' = [orphan EXCEPT ![Place(Ws(t))] = IF @ = "no" THEN "waiting" ELSE @]
            /\ Released(t) /\ UNCHANGED <<index, deletes>>
       ELSE /\ UNCHANGED orphan
            /\ IF mode.objects
               THEN /\ deletes' = [deletes EXCEPT ![Ws(t)] = @ + 1]
                    /\ index' = IF acl = {} THEN "none" ELSE index
                    /\ Released(t)
               ELSE /\ UNCHANGED <<index, deletes>>
                    /\ IF LastGrantGone THEN Goes(t, "drop") ELSE Released(t)
    /\ UNCHANGED <<mode, body, bytes, rights, ledger, known, cold, todo, buf, bounds>>

\* delete_blob; the reclaiming task then forgets the deferral.
DeleteBlob(t) ==
    /\ At(t, "drop")
    /\ index' = "none" /\ bytes' = bytes \ {Shared}
    /\ IF todo[t] = {} THEN Released(t) ELSE Goes(t, "forget")
    /\ UNCHANGED <<mode, body, rights, removal, ledger, known, cold, todo, buf, bounds>>

\* reclaim_expired_orphans, called by the sweeper and by every upload.
AfterReclaim(t) ==
    IF t = Sweeper THEN "idle" ELSE IF mode.objects THEN "grant" ELSE "bytes"

DueObjects == {p \in Workspaces : orphan[p] = "due"} \* mutant of Due: one of the two maps
Due == {p \in Places : orphan[p] = "due"}

Sweep ==
    /\ At(Sweeper, "idle") /\ mode.grace /\ Due # {} /\ Go(Sweeper, "reclaim")
    /\ UNCHANGED <<mode, stored, rights, removal, mirror, job, todo, buf, bounds>>

Reclaim(t) ==
    /\ At(t, "reclaim") /\ (t \in Tasks /\ ~mode.objects => MayUpload(Shared))
    /\ LET due == IF mode.grace THEN Due ELSE {} IN
       /\ \A p \in due : MayRemove(t, p)
       /\ todo' = [todo EXCEPT ![t] = due]
       /\ Go(t, IF due = {} THEN AfterReclaim(t) ELSE "recheck")
    /\ UNCHANGED <<mode, stored, rights, removal, mirror, job, buf, bounds>>

\* The orphan a reclaiming task has before it.
Handled(t) == CHOOSE p \in todo[t] : TRUE

\* A grant given in the meantime rescues the blob.
Recheck(t) ==
    /\ At(t, "recheck")
    /\ IF Granted(Handled(t)) THEN Go(t, "forget") /\ UNCHANGED <<index, deletes>>
       ELSE IF mode.objects
       THEN /\ deletes' = [deletes EXCEPT ![Handled(t)] = @ + 1]
            /\ index' = IF acl = {} THEN "none" ELSE index
            /\ Go(t, "forget")
       ELSE Go(t, "drop") /\ UNCHANGED <<index, deletes>>
    /\ UNCHANGED <<mode, body, bytes, rights, orphan, mirror, job, todo, buf, bounds>>

Forget(t) ==
    /\ At(t, "forget")
    /\ orphan' = [orphan EXCEPT ![Handled(t)] = "no"]
    /\ todo' = [todo EXCEPT ![t] = @ \ {Handled(t)}]
    /\ Go(t, IF todo[t] = {Handled(t)} THEN AfterReclaim(t) ELSE "recheck")
    /\ UNCHANGED <<mode, stored, rights, deletes, mirror, job, buf, bounds>>

-----------------------------------------------------------------------------
(* Time, workers, and the end of a process. *)

AgeIndex ==
    /\ index = "fresh" /\ index' = "old"
    /\ UNCHANGED <<mode, body, bytes, rights, removal, mirror, control, bounds>>

AgeOrphan(p) ==
    /\ orphan[p] = "waiting"
    /\ "finalize" \in Coincide \/ ~\E t \in Tasks : job[t].to = "using" /\ Place(Ws(t)) = p
    /\ orphan' = [orphan EXCEPT ![p] = "due"]
    /\ UNCHANGED <<mode, stored, rights, deletes, mirror, control, bounds>>

\* run_blob_delete_worker does not look at the grants again.
DeleteObject(w) ==
    /\ deletes[w] > 0
    /\ deletes' = [deletes EXCEPT ![w] = @ - 1] /\ bytes' = bytes \ {w}
    /\ UNCHANGED <<mode, body, index, rights, orphan, mirror, control, bounds>>

\* run_blob_ledger_worker writes what the maps hold by then.
MirrorLedger(w) ==
    /\ w \in dirty
    /\ dirty' = dirty \ {w} /\ ledger' = [ledger EXCEPT ![w] = LedgerOf(w)]
    /\ UNCHANGED <<mode, stored, rights, removal, known, cold, control, bounds>>

\* The task has done one of the writes of a save, flush, deletion or release.
HalfDone(t) == \/ pc[t] \in {"sync", "release", "writeAcl"} \union ReleasePoints
               \/ job[t].op = "flush" /\ pc[t] = "store"
MayStop == "crash" \in Coincide \/ (dirty = {} /\ ~\E t \in Tasks : HalfDone(t))

Stop ==
    /\ restarts < MaxRestarts /\ MayStop
    /\ restarts' = restarts + 1
    /\ pc' = [t \in Actors |-> "idle"] /\ job' = [t \in Actors |-> NoJob]
    /\ todo' = [t \in Actors |-> {}] /\ buf' = [t \in Actors |-> {}]

\* backfill_and_sweep_blob_refs: the bodies say what is referenced, what is not is
\* released.  The deferrals and both channels were in memory only.
Seeded  == {d \in Docs : IF d \in cold \/ body[d] = "none" THEN d \in refs ELSE body[d] = "using"}
Swept   == {w \in aclFile : ~Spared /\ ~\E d \in Seeded : Owner[d] = w}

Restart ==
    /\ Stop
    /\ refs' = Seeded /\ acl' = aclFile \ Swept /\ aclFile' = acl'
    /\ LET gone == IF mode.objects THEN Swept
                   ELSE IF Swept # {} /\ acl' = {} THEN {Shared} ELSE {} IN
       /\ orphan' = [p \in Places |-> IF mode.grace /\ p \in gone THEN "waiting" ELSE "no"]
       /\ deletes' = [w \in Workspaces |-> IF w \in gone /\ ~mode.grace THEN 1 ELSE 0]
       /\ bytes' = IF mode.grace THEN bytes ELSE bytes \ (gone \ Workspaces)
       /\ index' = IF gone # {} /\ acl' = {} /\ ~mode.grace THEN "none" ELSE index
    /\ dirty' = IF mode.objects THEN Swept ELSE {}
    /\ UNCHANGED <<mode, body, ledger, known, cold, ops>>

\* The relay comes up on another machine, with an empty volume.
LoseVolume ==
    /\ mode.objects /\ Stop
    /\ refs' = {} /\ acl' = {} /\ aclFile' = {} /\ index' = "none"
    /\ orphan' = [p \in Places |-> "no"] /\ deletes' = [w \in Workspaces |-> 0]
    /\ dirty' = {} /\ known' = {} /\ cold' = {d \in Docs : body[d] # "none"}
    /\ UNCHANGED <<mode, body, bytes, ledger, ops>>

\* has_workspace_bookkeeping
Bookkept(w) == w \in acl \/ RefsOf(w) # {}

\* install_ledger, or else reconstruct_blob_bookkeeping_from_docs.
Load(w) ==
    /\ LET found == IF ledger[w].there THEN ledger[w]
                    ELSE [there |-> TRUE, acl |-> Using(w) # {}, refs |-> Using(w)] IN
       /\ acl' = IF found.acl THEN acl \union {w} ELSE acl
       /\ refs' = refs \union found.refs
       /\ IF found.acl /\ index = "none" THEN index' \in {"fresh", "old"} ELSE UNCHANGED index
    /\ aclFile' = acl'
    /\ IF ledger[w].there THEN UNCHANGED dirty ELSE Mark(w)

\* ensure_blob_bookkeeping: the ledger, or else the documents in the bucket.  What a cold
\* upload has left, of this blob or another, passes for the bookkeeping.
Recover(w) ==
    /\ w \notin known /\ known' = known \union {w}
    /\ \/ ~Bookkept(w) /\ MaySaveAcls /\ Load(w)
       \/ "coldUpload" \in Coincide /\ Mark(w) /\ UNCHANGED <<rights, index>>
    /\ UNCHANGED <<mode, body, bytes, removal, ledger, cold, control, bounds>>

\* ensure_doc_local restores the body and records its references, but grants nothing.
Reopen(d) ==
    /\ d \in cold /\ Owner[d] \in known /\ DocFree(d)
    /\ cold' = cold \ {d}
    /\ refs' = IF body[d] = "using" THEN refs \union {d} ELSE refs
    /\ UNCHANGED <<mode, stored, acl, aclFile, removal, ledger, dirty, known, control, bounds>>

-----------------------------------------------------------------------------

Step(t) ==
    \/ PutBytes(t) \/ Grant(t) \/ WriteAcl(t) \/ Store(t) \/ SyncRefs(t)
    \/ Release(t) \/ Revoke(t) \/ Collect(t) \/ DeleteBlob(t)
    \/ Reclaim(t) \/ Recheck(t) \/ Forget(t)

Next ==
    \/ \E t \in Tasks, d \in Docs : Probe(t, d) \/ BeginWrite(t, d)
    \/ \E t \in Tasks : Abandon(t)
    \/ \E t \in Actors : Step(t)
    \/ Sweep \/ AgeIndex \/ \E p \in Places : AgeOrphan(p)
    \/ \E w \in Workspaces : DeleteObject(w) \/ MirrorLedger(w) \/ Recover(w)
    \/ \E d \in Docs : Reopen(d)
    \/ Restart \/ LoseVolume

Spec == Init /\ [][Next]_vars

(* Handlers run to their end, the sweeper ticks, the workers drain their   *)
(* channels and time passes; clients need do nothing.                      *)
Fairness ==
    /\ \A t \in Actors : WF_vars(Step(t))
    /\ WF_vars(Sweep) /\ \A p \in Places : WF_vars(AgeOrphan(p))
    /\ \A w \in Workspaces : WF_vars(DeleteObject(w)) /\ WF_vars(MirrorLedger(w))

LiveSpec == Spec /\ Fairness

-----------------------------------------------------------------------------
(* Properties. *)

\* Types of the variables.
TypeOK ==
    /\ mode \in Settings
    /\ body \in [Docs -> Uses] /\ bytes \subseteq Places
    /\ index \in {"none", "fresh", "old"}
    /\ refs \subseteq Docs /\ acl \subseteq Workspaces /\ aclFile \subseteq Workspaces
    /\ orphan \in [Places -> {"no", "waiting", "due"}]
    /\ deletes \in [Workspaces -> Nat]
    /\ ledger \in [Workspaces -> Ledger]
    /\ dirty \subseteq Workspaces /\ known \subseteq Workspaces /\ cold \subseteq Docs
    /\ pc \in [Actors -> {"idle", "bytes", "reclaim", "grant", "recheck", "forget",
                          "store", "sync", "release", "writeAcl"} \union ReleasePoints]
    /\ pc[Sweeper] \in {"idle", "reclaim", "recheck", "drop", "forget"}
    /\ job \in [Actors -> [op: {"none", "attach", "save", "flush", "delete"},
                           doc: Docs, to: Uses]]
    /\ todo \in [Actors -> SUBSET Places] /\ buf \in [Actors -> SUBSET Workspaces]
    /\ ops \in Nat /\ restarts \in Nat

\* Whatever a saved document uses can be read: its workspace is granted and the bytes
\* are there (load_blob).  A flush drops references before it writes the body.
Flushing(d) == \E t \in Tasks : job[t].op = "flush" /\ job[t].doc = d
UsedIsReadable ==
    \A d \in Docs : body[d] = "using" /\ Owner[d] \in known /\ ~Flushing(d)
                      => Owner[d] \in acl /\ Place(Owner[d]) \in bytes

\* What is granted is there and is counted: exists and get_workspace_size go by the
\* index, load_blob by the bytes.
GrantIsBacked ==
    \A w \in acl : index # "none" /\ Place(w) \in bytes

AtRest == \A t \in Actors : pc[t] = "idle"

\* The books and the bytes agree, and once the requests are done, doc_refs says
\* what the saved bodies say and blob_acl.json what is granted, so that the next
\* start takes nothing wrongly.
BooksBalance ==
    /\ GrantIsBacked
    /\ AtRest => /\ aclFile = acl
                 /\ \A d \in Docs : Owner[d] \in known =>
                                     (d \in refs <=> body[d] = "using")

\* What was released is removed in the end, or granted again, once the relay restarts no
\* more: the deferrals and the deletion channel are lost with the process.
Condemned(p) == orphan[p] # "no" \/ (p \in Workspaces /\ deletes[p] > 0)
                 \/ \E t \in Tasks : pc[t] \in {"gc", "drop"} /\ Place(Ws(t)) = p
OrphansReclaimed ==
    \A w \in Workspaces :
        (Condemned(Place(w)) /\ restarts = MaxRestarts)
            ~> (Place(w) \notin bytes \/ Granted(Place(w)))

=============================================================================
