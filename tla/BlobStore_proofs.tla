--------------------------- MODULE BlobStore_proofs ---------------------------
(* Proofs about BlobStore, for any workspaces, documents, requests and stops,  *)
(* in layers, each with what may coincide: the state stays well typed and the  *)
(* actors where they belong, whatever coincides; grants are backed as long as  *)
(* uploads and removals keep apart and the relay stops cleanly; the books say  *)
(* what the bodies use if moreover writes of a document do not overlap; what a *)
(* document uses can be read if nothing coincides.                             *)
EXTENDS BlobStore, TLAPS

-----------------------------------------------------------------------------
(* Types, one group of variables at a time. *)

Spots == {"idle", "bytes", "reclaim", "grant", "recheck", "forget", "store", "sync",
          "release", "writeAcl", "revoke", "gc", "drop"}
JobSet == [op: {"none", "attach", "save", "flush", "delete"}, doc: Docs, to: Uses]

StoredOK ==
    /\ mode \in Settings
    /\ body \in [Docs -> Uses] /\ bytes \subseteq Places
    /\ index \in {"none", "fresh", "old"}

RightsOK ==
    refs \subseteq Docs /\ acl \subseteq Workspaces /\ aclFile \subseteq Workspaces

RemovalOK ==
    /\ orphan \in [Places -> {"no", "waiting", "due"}]
    /\ deletes \in [Workspaces -> Nat]

MirrorOK ==
    /\ ledger \in [Workspaces -> Ledger]
    /\ dirty \subseteq Workspaces /\ known \subseteq Workspaces /\ cold \subseteq Docs

ControlOK ==
    /\ pc \in [Actors -> Spots]
    /\ pc[Sweeper] \in {"idle", "reclaim", "recheck", "drop", "forget"}
    /\ job \in [Actors -> JobSet] /\ job[Sweeper] = NoJob
    /\ todo \in [Actors -> SUBSET Places] /\ buf \in [Actors -> SUBSET Workspaces]
    /\ ops \in Nat /\ restarts \in Nat

LEMMA Parts == StoredOK /\ RightsOK /\ RemovalOK /\ MirrorOK /\ ControlOK => TypeOK
<1>1. {"idle", "bytes", "reclaim", "grant", "recheck", "forget", "store", "sync",
       "release", "writeAcl"} \union ReleasePoints = Spots
  BY DEF ReleasePoints, Spots
<1> QED
  BY <1>1 DEF TypeOK, StoredOK, RightsOK, RemovalOK, MirrorOK, ControlOK, JobSet

LEMMA Constants ==
    /\ Shared \notin Workspaces /\ Sweeper \notin Tasks
    /\ Tasks \subseteq Actors /\ Sweeper \in Actors
    /\ Workspaces \subseteq Places /\ Shared \in Places
  BY PeopleAssumption DEF Actors, Places

LEMMA NoJobOK == NoJob \in JobSet /\ NoJob.op = "none" /\ NoJob.to = "plain"
  BY PeopleAssumption DEF NoJob, JobSet, Uses

\* The workspace of a document and the place of its bytes.
LEMMA OwnerOK ==
    ASSUME StoredOK, NEW d \in Docs
    PROVE  /\ Owner[d] \in Workspaces
           /\ Place(Owner[d]) \in Places
           /\ mode.objects => Place(Owner[d]) = Owner[d]
           /\ ~mode.objects => Place(Owner[d]) = Shared
  BY Constants DEF StoredOK, Settings, Owner, Place

LEMMA WsOK ==
    ASSUME StoredOK, ControlOK, NEW t \in Actors
    PROVE  /\ job[t].doc \in Docs /\ Ws(t) \in Workspaces /\ Place(Ws(t)) \in Places
           /\ mode.objects => Place(Ws(t)) = Ws(t)
           /\ ~mode.objects => Place(Ws(t)) = Shared
<1>1. job[t].doc \in Docs
  BY DEF ControlOK, JobSet
<1> QED
  BY <1>1, OwnerOK DEF Ws

LEMMA HandledOK ==
    ASSUME NEW t, todo[t] # {}
    PROVE  Handled(t) \in todo[t]
  BY DEF Handled

LEMMA BeginOK ==
    ASSUME ControlOK, NEW t \in Tasks, NEW d \in Docs,
           NEW op \in {"attach", "save", "flush", "delete"}, NEW to \in Uses,
           Begin(t, op, d, to)
    PROVE  /\ pc[t] = "idle" /\ DocFree(d)
           /\ "coldUpload" \notin Coincide => Owner[d] \in known
           /\ ops' \in Nat
           /\ job' = [job EXCEPT ![t] = [op |-> op, doc |-> d, to |-> to]]
           /\ job' \in [Actors -> JobSet] /\ job'[Sweeper] = NoJob
<1>1. /\ pc[t] = "idle" /\ DocFree(d) /\ ops' = ops + 1
      /\ "coldUpload" \notin Coincide => Owner[d] \in known
      /\ job' = [job EXCEPT ![t] = [op |-> op, doc |-> d, to |-> to]]
  BY DEF Begin, At
<1>2. [op |-> op, doc |-> d, to |-> to] \in JobSet
  BY DEF JobSet
<1> QED
  BY <1>1, <1>2, Constants DEF ControlOK

\* How a call that has changed the rights ends.
LEMMA FinishOK ==
    ASSUME StoredOK, ControlOK, MirrorOK, NEW t \in Actors
    PROVE  /\ Finish(t) => /\ pc' = [pc EXCEPT ![t] = AfterRefs(t)]
                           /\ job' \in [Actors -> JobSet] /\ job'[Sweeper] = NoJob
           /\ AfterRefs(t) \in {"store", "idle"} /\ AfterRefs(Sweeper) = "idle"
           /\ Mark(Ws(t)) => dirty' \subseteq Workspaces
<1>1. Finish(t) => pc' = [pc EXCEPT ![t] = AfterRefs(t)]
  BY DEF Finish, Go
<1>2. Finish(t) => job' \in [Actors -> JobSet] /\ job'[Sweeper] = NoJob
  BY NoJobOK, Constants DEF Finish, ControlOK
<1>3. AfterRefs(t) \in {"store", "idle"} /\ AfterRefs(Sweeper) = "idle"
  BY NoJobOK DEF AfterRefs, ControlOK
<1>4. Mark(Ws(t)) => dirty' \subseteq Workspaces
  BY WsOK DEF Mark, MirrorOK
<1> QED
  BY <1>1, <1>2, <1>3, <1>4

LEMMA TypeStep ==
    ASSUME StoredOK, RightsOK, RemovalOK, MirrorOK, ControlOK, [Next]_vars
    PROVE  StoredOK' /\ RightsOK' /\ RemovalOK' /\ MirrorOK' /\ ControlOK'
<1> DEFINE Types == StoredOK /\ RightsOK /\ RemovalOK /\ MirrorOK /\ ControlOK
<1> USE DEF stored, rights, removal, mirror, control, bounds
<1>1. ASSUME NEW t \in Tasks, NEW d \in Docs, Probe(t, d) PROVE Types'
  <2>1. \E op \in {"attach", "flush"} : Begin(t, op, d, "using")
    BY <1>1 DEF Probe
  <2>2. /\ ops' \in Nat /\ job' \in [Actors -> JobSet] /\ job'[Sweeper] = NoJob
        /\ pc[t] = "idle"
    BY <2>1, BeginOK DEF Uses
  <2>3. \E to \in {"store", "sync", "bytes", "reclaim"} : Go(t, to)
    BY <1>1 DEF Probe, AttachAt
  <2>4. pc' \in [Actors -> Spots] /\ pc'[Sweeper] = pc[Sweeper]
    BY <2>3, Constants DEF Go, ControlOK, Spots
  <2> QED
    BY <1>1, <2>2, <2>4 DEF Probe, StoredOK, RightsOK, RemovalOK, MirrorOK, ControlOK
<1>2. ASSUME NEW t \in Tasks, NEW d \in Docs, BeginWrite(t, d) PROVE Types'
  <2>1. /\ ops' \in Nat /\ job' \in [Actors -> JobSet] /\ job'[Sweeper] = NoJob
        /\ pc' \in [Actors -> Spots] /\ pc'[Sweeper] = pc[Sweeper]
    <3>1. \E to \in Uses, op \in {"save", "flush", "delete"} : Begin(t, op, d, to)
      BY <1>2 DEF BeginWrite, Uses
    <3>2. Go(t, "store") \/ Go(t, "sync")
      BY <1>2 DEF BeginWrite
    <3> QED
      BY <3>1, <3>2, BeginOK, Constants DEF Go, ControlOK, Spots
  <2> QED
    BY <1>2, <2>1 DEF BeginWrite, StoredOK, RightsOK, RemovalOK, MirrorOK, ControlOK
<1>3. ASSUME NEW t \in Tasks, Abandon(t) PROVE Types'
  BY <1>3, Constants, WsOK, NoJobOK DEF Abandon, Go, At, AttachAt,
     StoredOK, RightsOK, RemovalOK, MirrorOK, ControlOK, Uses, Spots
<1>4. ASSUME NEW t \in Actors, PutBytes(t) PROVE Types'
  BY <1>4, Constants, WsOK, OwnerOK, FinishOK, BeginOK, NoJobOK DEF PutBytes, Go, At, Released, Goes, Go,
     StoredOK, RightsOK, RemovalOK, MirrorOK, ControlOK, Uses, Spots
<1>5. ASSUME NEW t \in Actors, Grant(t) PROVE Types'
  BY <1>5, Constants, WsOK DEF Grant, Go, At, AttachAt,
     StoredOK, RightsOK, RemovalOK, MirrorOK, ControlOK, Uses, Spots
<1>6. ASSUME NEW t \in Actors, WriteAcl(t) PROVE Types'
  BY <1>6, Constants, WsOK DEF WriteAcl, Go, At, Mark, AfterAcls, AttachAt,
     StoredOK, RightsOK, RemovalOK, MirrorOK, ControlOK, Uses, Spots
<1>7. ASSUME NEW t \in Actors, Store(t) PROVE Types'
  <2>1. job[t].to \in Uses /\ t # Sweeper
    BY <1>7 DEF ControlOK, JobSet, Store, At
  <2>2. StoredOK' /\ MirrorOK'
    BY <1>7, <2>1 DEF Store, StoredOK, MirrorOK
  <2>3. /\ pc' \in [Actors -> Spots] /\ pc'[Sweeper] = pc[Sweeper]
        /\ job' \in [Actors -> JobSet] /\ job'[Sweeper] = job[Sweeper]
    BY <1>7, <2>1, NoJobOK, Constants DEF Store, Go, ControlOK, Spots
  <2> QED
    BY <1>7, <2>2, <2>3 DEF Store, RightsOK, RemovalOK, ControlOK
<1>8. ASSUME NEW t \in Actors, SyncRefs(t) PROVE Types'
  BY <1>8, Constants, WsOK, OwnerOK, FinishOK, BeginOK, NoJobOK DEF SyncRefs, SyncedRefs, At, Released, Goes, Go,
     StoredOK, RightsOK, RemovalOK, MirrorOK, ControlOK, Uses, Spots
<1>9. ASSUME NEW t \in Actors, Release(t) PROVE Types'
  BY <1>9, Constants, WsOK, OwnerOK, FinishOK, BeginOK, NoJobOK DEF Release, At, Released, Goes, Go,
     StoredOK, RightsOK, RemovalOK, MirrorOK, ControlOK, Uses, Spots
<1>10. ASSUME NEW t \in Actors, Revoke(t) PROVE Types'
  BY <1>10, Constants, WsOK, OwnerOK, FinishOK, BeginOK, NoJobOK DEF Revoke, At, Released, Goes, Go,
     StoredOK, RightsOK, RemovalOK, MirrorOK, ControlOK, Uses, Spots
<1>11. ASSUME NEW t \in Actors, Collect(t) PROVE Types'
  BY <1>11, Constants, WsOK, OwnerOK, FinishOK, BeginOK, NoJobOK DEF Collect, At, Released, Goes, Go,
     StoredOK, RightsOK, RemovalOK, MirrorOK, ControlOK, Uses, Spots
<1>12. ASSUME NEW t \in Actors, DeleteBlob(t) PROVE Types'
  BY <1>12, Constants, WsOK, OwnerOK, FinishOK, BeginOK, NoJobOK DEF DeleteBlob, At, Released, Goes, Go,
     StoredOK, RightsOK, RemovalOK, MirrorOK, ControlOK, Uses, Spots
<1>13. ASSUME NEW t \in Actors, Reclaim(t) PROVE Types'
  BY <1>13, Constants, WsOK, OwnerOK, FinishOK, BeginOK, NoJobOK DEF Reclaim, At, Go, AfterReclaim, Due, Released, Goes, Go,
     StoredOK, RightsOK, RemovalOK, MirrorOK, ControlOK, Uses, Spots
<1>14. ASSUME NEW t \in Actors, Recheck(t) PROVE Types'
  BY <1>14, Constants, WsOK, OwnerOK, FinishOK, BeginOK, NoJobOK DEF Recheck, At, Released, Goes, Go,
     StoredOK, RightsOK, RemovalOK, MirrorOK, ControlOK, Uses, Spots
<1>15. ASSUME NEW t \in Actors, Forget(t) PROVE Types'
  BY <1>15, Constants, WsOK, OwnerOK, FinishOK, BeginOK, NoJobOK DEF Forget, At, Go, AfterReclaim, Released, Goes, Go,
     StoredOK, RightsOK, RemovalOK, MirrorOK, ControlOK, Uses, Spots
<1>16. ASSUME Sweep PROVE Types'
  BY <1>16, Constants, WsOK, OwnerOK, FinishOK, BeginOK, NoJobOK DEF Sweep, At, Released, Goes, Go,
     StoredOK, RightsOK, RemovalOK, MirrorOK, ControlOK, Uses, Spots
<1>17. ASSUME AgeIndex PROVE Types'
  BY <1>17, Constants, WsOK, OwnerOK, FinishOK, BeginOK, NoJobOK DEF AgeIndex, Released, Goes, Go,
     StoredOK, RightsOK, RemovalOK, MirrorOK, ControlOK, Uses, Spots
<1>18. ASSUME NEW p \in Places, AgeOrphan(p) PROVE Types'
  BY <1>18, Constants, WsOK, OwnerOK, FinishOK, BeginOK, NoJobOK DEF AgeOrphan, Released, Goes, Go,
     StoredOK, RightsOK, RemovalOK, MirrorOK, ControlOK, Uses, Spots
<1>19. ASSUME NEW w \in Workspaces, DeleteObject(w) PROVE Types'
  BY <1>19, Constants, WsOK, OwnerOK, FinishOK, BeginOK, NoJobOK DEF DeleteObject, Released, Goes, Go,
     StoredOK, RightsOK, RemovalOK, MirrorOK, ControlOK, Uses, Spots
<1>20. ASSUME NEW w \in Workspaces, MirrorLedger(w) PROVE Types'
  <2>1. LedgerOf(w) \in Ledger
    BY DEF LedgerOf, Ledger, RefsOf, RightsOK
  <2> QED
    BY <1>20, <2>1 DEF MirrorLedger, StoredOK, RightsOK, RemovalOK, MirrorOK, ControlOK
<1>21. ASSUME NEW w \in Workspaces, Recover(w) PROVE Types'
  <2> DEFINE found == IF ledger[w].there THEN ledger[w]
                      ELSE [there |-> TRUE, acl |-> Using(w) # {}, refs |-> Using(w)]
  <2>1. found.refs \subseteq Docs
    BY DEF MirrorOK, Ledger, Using
  <2>2. /\ acl' \in {acl, acl \union {w}} /\ refs' \in {refs, refs \union found.refs}
        /\ index' \in {index, "fresh", "old"} /\ aclFile' \in {acl', aclFile}
        /\ dirty' \in {dirty, dirty \union {w}} /\ known' = known \union {w}
    BY <1>21 DEF Recover, Load, Mark
  <2> HIDE DEF found
  <2> QED
    BY <1>21, <2>1, <2>2 DEF Recover, StoredOK, RightsOK, RemovalOK, MirrorOK, ControlOK
<1>22. ASSUME NEW d \in Docs, Reopen(d) PROVE Types'
  BY <1>22, Constants, WsOK, OwnerOK, FinishOK, BeginOK, NoJobOK DEF Reopen, Released, Goes, Go,
     StoredOK, RightsOK, RemovalOK, MirrorOK, ControlOK, Uses, Spots
<1>23. ASSUME Restart PROVE Types'
  BY <1>23, Constants, WsOK, OwnerOK, FinishOK, BeginOK, NoJobOK DEF Restart, Stop, Seeded, Swept, Released, Goes, Go,
     StoredOK, RightsOK, RemovalOK, MirrorOK, ControlOK, Uses, Spots
<1>24. ASSUME LoseVolume PROVE Types'
  BY <1>24, Constants, WsOK, OwnerOK, FinishOK, BeginOK, NoJobOK DEF LoseVolume, Stop, Released, Goes, Go,
     StoredOK, RightsOK, RemovalOK, MirrorOK, ControlOK, Uses, Spots
<1>25. CASE UNCHANGED vars
  BY <1>25 DEF vars, StoredOK, RightsOK, RemovalOK, MirrorOK, ControlOK
<1> QED
  BY <1>1, <1>2, <1>3, <1>4, <1>5, <1>6, <1>7, <1>8, <1>9, <1>10, <1>11, <1>12, <1>13, <1>14, <1>15, <1>16, <1>17, <1>18, <1>19, <1>20, <1>21, <1>22, <1>23, <1>24, <1>25 DEF Next, Step

LEMMA TypeInit == Init => StoredOK /\ RightsOK /\ RemovalOK /\ MirrorOK /\ ControlOK
<1> SUFFICES ASSUME Init PROVE StoredOK /\ RightsOK /\ RemovalOK /\ MirrorOK /\ ControlOK
  OBVIOUS
<1>1. NoLedger \in Ledger
  BY DEF NoLedger, Ledger
<1>2. StoredOK /\ RightsOK /\ RemovalOK /\ MirrorOK
  BY <1>1, SettingsAssumption DEF Init, StoredOK, RightsOK, RemovalOK, MirrorOK, Uses
<1>3. ControlOK
  BY NoJobOK, Constants DEF Init, ControlOK, Spots
<1> QED
  BY <1>2, <1>3

\* Every step of the blob store keeps the types of its variables, whatever coincides.
THEOREM TypeCorrect == Spec => []TypeOK
<1> DEFINE Types == StoredOK /\ RightsOK /\ RemovalOK /\ MirrorOK /\ ControlOK
<1>1. Init => Types
  BY TypeInit
<1>2. Types /\ [Next]_vars => Types'
  BY TypeStep
<1>3. Types => TypeOK
  BY Parts
<1> QED
  BY <1>1, <1>2, <1>3, PTL DEF Spec

-----------------------------------------------------------------------------
(* Where an actor can be with what it does. *)

Types == StoredOK /\ RightsOK /\ RemovalOK /\ MirrorOK /\ ControlOK

Reclaiming == {"recheck", "forget"}

\* An actor has orphans before it while it reclaims.
Holding(t) ==
    pc[t] \in Reclaiming \/ (pc[t] = "drop" /\ (job[t].op = "none" \/ job[t].to = "using"))

PointOK(t) ==
    /\ t \in Tasks => (pc[t] = "idle") = (job[t].op = "none")
    /\ t \in Tasks /\ pc[t] \in {"bytes", "grant", "reclaim"} \union Reclaiming
         => job[t].to = "using"
    /\ pc[t] \in {"release", "revoke", "gc"} => job[t].to # "using"
    /\ job[t].op = "attach" => job[t].to = "using"
    /\ job[t].to = "using" => job[t].op \in {"attach", "flush"}
    /\ "coldUpload" \notin Coincide /\ t \in Tasks /\ pc[t] # "idle" => Ws(t) \in known
    /\ (todo[t] # {}) = Holding(t)
    /\ pc[t] = "drop" => ~mode.objects
    /\ ~mode.objects => todo[t] \subseteq {Shared}

\* On the filesystem the shared file is the only place.
SharedOK == ~mode.objects =>
    /\ known = Workspaces
    /\ \A w \in Workspaces : orphan[w] = "no" /\ deletes[w] = 0

Points == SharedOK /\ \A t \in Actors : PointOK(t)

\* What an actor leaves alone: the others.
OnlyMoves(t) ==
    /\ mode' = mode /\ known' = known
    /\ \A u \in Actors \ {t} :
         pc'[u] = pc[u] /\ job'[u] = job[u] /\ todo'[u] = todo[u] /\ buf'[u] = buf[u]

\* The steps of an actor.
Acts(t) ==
    \/ t \in Tasks /\ \E d \in Docs : Probe(t, d) \/ BeginWrite(t, d)
    \/ t \in Tasks /\ Abandon(t)
    \/ Step(t)
    \/ t = Sweeper /\ Sweep

\* The steps that leave all actors where they are.
Ambient ==
    \/ AgeIndex \/ \E p \in Places : AgeOrphan(p)
    \/ \E w \in Workspaces : DeleteObject(w) \/ MirrorLedger(w) \/ Recover(w)
    \/ \E d \in Docs : Reopen(d)

LEMMA NextCases ==
    Next <=> (\E t \in Actors : Acts(t)) \/ Ambient \/ Restart \/ LoseVolume
  BY Constants DEF Next, Acts, Ambient, Actors

LEMMA Others ==
    ASSUME ControlOK, NEW t \in Actors, Acts(t)
    PROVE  OnlyMoves(t)
<1> USE DEF mirror, control, ControlOK, OnlyMoves
<1>1. ASSUME NEW d \in Docs, Probe(t, d) PROVE OnlyMoves(t)
  BY <1>1 DEF Probe, Begin, Go
<1>2. ASSUME NEW d \in Docs, BeginWrite(t, d) PROVE OnlyMoves(t)
  BY <1>2 DEF BeginWrite, Begin, Go
<1>3. ASSUME Abandon(t) PROVE OnlyMoves(t)
  BY <1>3 DEF Abandon, Go
<1>4. ASSUME PutBytes(t) PROVE OnlyMoves(t)
  BY <1>4 DEF PutBytes, Go
<1>5. ASSUME Grant(t) PROVE OnlyMoves(t)
  BY <1>5 DEF Grant, Go
<1>6. ASSUME WriteAcl(t) PROVE OnlyMoves(t)
  BY <1>6 DEF WriteAcl, Go
<1>7. ASSUME Store(t) PROVE OnlyMoves(t)
  BY <1>7 DEF Store, Go
<1>8. ASSUME SyncRefs(t) PROVE OnlyMoves(t)
  BY <1>8 DEF SyncRefs, Go, Goes, Released, Finish
<1>9. ASSUME Release(t) PROVE OnlyMoves(t)
  BY <1>9 DEF Release, Go, Goes, Released, Finish
<1>10. ASSUME Revoke(t) PROVE OnlyMoves(t)
  BY <1>10 DEF Revoke, Go, Goes, Released, Finish
<1>11. ASSUME Collect(t) PROVE OnlyMoves(t)
  BY <1>11 DEF Collect, Go, Goes, Released, Finish
<1>12. ASSUME DeleteBlob(t) PROVE OnlyMoves(t)
  BY <1>12 DEF DeleteBlob, Go, Goes, Released, Finish
<1>13. ASSUME Reclaim(t) PROVE OnlyMoves(t)
  BY <1>13 DEF Reclaim, Go
<1>14. ASSUME Recheck(t) PROVE OnlyMoves(t)
  BY <1>14 DEF Recheck, Go
<1>15. ASSUME Forget(t) PROVE OnlyMoves(t)
  BY <1>15 DEF Forget, Go
<1>16. ASSUME t = Sweeper /\ Sweep PROVE OnlyMoves(t)
  BY <1>16 DEF Sweep, Go
<1> QED
  BY <1>1, <1>2, <1>3, <1>4, <1>5, <1>6, <1>7, <1>8, <1>9, <1>10, <1>11, <1>12, <1>13,
     <1>14, <1>15, <1>16 DEF Acts, Step

\* What is true of an actor stays true while others act.
LEMMA PointSame ==
    ASSUME NEW u, PointOK(u), mode' = mode, known \subseteq known',
           pc'[u] = pc[u], job'[u] = job[u], todo'[u] = todo[u]
    PROVE  PointOK(u)'
  BY DEF PointOK, Holding, Ws, Owner

LEMMA PointActs ==
    ASSUME Types, Points, NEW t \in Actors, Acts(t)
    PROVE  PointOK(t)'
<1>0. /\ PointOK(t) /\ mode' = mode /\ known' = known /\ Ws(t) \in Workspaces
      /\ (t \in Tasks /\ t # Sweeper) \/ (t = Sweeper /\ t \notin Tasks /\ job[t].op = "none")
      /\ pc \in [Actors -> Spots] /\ job \in [Actors -> JobSet]
      /\ todo \in [Actors -> SUBSET Places]
      /\ pc[Sweeper] \in {"idle", "reclaim", "recheck", "drop", "forget"}
  BY Others, Constants, WsOK, NoJobOK DEF Types, Points, OnlyMoves, ControlOK, Actors
<1>00. ~mode.objects => Due \subseteq {Shared}
  BY DEF Points, SharedOK, Due, Places
<1> USE DEF control, PointOK, Holding, Reclaiming, Ws, Owner, At, Go
<1>1. ASSUME NEW d \in Docs, t \in Tasks, Probe(t, d) PROVE PointOK(t)'
  <2>1. /\ job'[t].op \in {"attach", "flush"} /\ job'[t].to = "using" /\ job'[t].doc = d
        /\ pc[t] = "idle" /\ pc'[t] \in {"store", "sync", "bytes", "reclaim"}
        /\ todo'[t] = todo[t] /\ ("coldUpload" \notin Coincide => Owner[d] \in known)
    BY <1>0, <1>1 DEF Probe, Begin, AttachAt
  <2>2. Ws(t)' = Owner[d] /\ job[t].op = "none" /\ todo[t] = {}
    BY <1>0, <2>1
  <2> QED
    BY <1>0, <2>1, <2>2
<1>2. ASSUME NEW d \in Docs, t \in Tasks, BeginWrite(t, d) PROVE PointOK(t)'
  <2>1. /\ job'[t].op \in {"save", "flush", "delete"} /\ job'[t].to \in {"plain", "none"}
        /\ job'[t].doc = d /\ pc[t] = "idle" /\ pc'[t] \in {"store", "sync"}
        /\ todo'[t] = todo[t] /\ Owner[d] \in known
    BY <1>0, <1>2 DEF BeginWrite, Begin
  <2>2. Ws(t)' = Owner[d] /\ job[t].op = "none" /\ todo[t] = {}
    BY <1>0, <2>1
  <2> QED
    BY <1>0, <2>1, <2>2
<1>3. ASSUME t \in Tasks, Abandon(t) PROVE PointOK(t)'
  <2>1. /\ pc[t] \in {"store", "sync"} /\ pc'[t] = "idle" /\ job'[t] = NoJob
        /\ todo'[t] = todo[t]
    BY <1>0, <1>3 DEF Abandon, AttachAt
  <2> QED
    BY <1>0, <2>1, NoJobOK
<1>4. ASSUME PutBytes(t) PROVE PointOK(t)'
  BY <1>0, <1>4 DEF PutBytes
<1>5. ASSUME Grant(t) PROVE PointOK(t)'
  BY <1>0, <1>5 DEF Grant, AttachAt
<1>6. ASSUME WriteAcl(t) PROVE PointOK(t)'
  BY <1>0, <1>6 DEF WriteAcl, AfterAcls, AttachAt
<1>7. ASSUME Store(t) PROVE PointOK(t)'
  BY <1>0, <1>7, NoJobOK DEF Store
<1>8. ASSUME SyncRefs(t) PROVE PointOK(t)'
  BY <1>0, <1>8, NoJobOK DEF SyncRefs, SyncedRefs, Goes, Released, Finish, AfterRefs
<1>9. ASSUME Release(t) PROVE PointOK(t)'
  BY <1>0, <1>9, NoJobOK DEF Release, Goes, Released, Finish, AfterRefs
<1>10. ASSUME Revoke(t) PROVE PointOK(t)'
  BY <1>0, <1>10, NoJobOK DEF Revoke, Goes, Released, Finish, AfterRefs
<1>11. ASSUME Collect(t) PROVE PointOK(t)'
  BY <1>0, <1>11, NoJobOK DEF Collect, Goes, Released, Finish, AfterRefs
<1>12. ASSUME DeleteBlob(t) PROVE PointOK(t)'
  BY <1>0, <1>12, NoJobOK DEF DeleteBlob, Goes, Released, Finish, AfterRefs
<1>13. ASSUME Reclaim(t) PROVE PointOK(t)'
  <2>1. PICK due \in {Due, {}} :
            /\ todo' = [todo EXCEPT ![t] = due]
            /\ pc' = [pc EXCEPT ![t] = IF due = {} THEN AfterReclaim(t) ELSE "recheck"]
            /\ job' = job /\ pc[t] = "reclaim"
    BY <1>13 DEF Reclaim
  <2>2. due = {} => /\ AfterReclaim(t) \in {"idle", "grant", "bytes"}
                    /\ t \in Tasks => AfterReclaim(t) # "idle"
                    /\ t = Sweeper => AfterReclaim(t) = "idle"
    BY <1>0 DEF AfterReclaim
  <2>3. ~mode.objects => due \subseteq {Shared}
    BY <1>00
  <2>4. CASE due = {}
    BY <1>0, <2>1, <2>2, <2>4
  <2>5. CASE due # {}
    BY <1>0, <2>1, <2>3, <2>5
  <2> QED
    BY <2>4, <2>5
<1>14. ASSUME Recheck(t) PROVE PointOK(t)'
  BY <1>0, <1>14 DEF Recheck
<1>15. ASSUME Forget(t) PROVE PointOK(t)'
  <2>1. /\ pc[t] = "forget" /\ job' = job /\ todo'[t] = todo[t] \ {Handled(t)}
        /\ pc'[t] = IF todo[t] = {Handled(t)} THEN AfterReclaim(t) ELSE "recheck"
    BY <1>0, <1>15 DEF Forget
  <2>2. todo[t] # {} /\ Handled(t) \in todo[t]
    BY <1>0, <2>1, HandledOK
  <2>3. (todo'[t] = {}) = (todo[t] = {Handled(t)})
    BY <2>1, <2>2
  <2>4. /\ AfterReclaim(t) \in {"idle", "grant", "bytes"}
        /\ t \in Tasks => AfterReclaim(t) # "idle"
        /\ t = Sweeper => AfterReclaim(t) = "idle"
    BY <1>0 DEF AfterReclaim
  <2>5. CASE todo[t] = {Handled(t)}
    BY <1>0, <2>1, <2>3, <2>4, <2>5
  <2>6. CASE todo[t] # {Handled(t)}
    BY <1>0, <2>1, <2>3, <2>6
  <2> QED
    BY <2>5, <2>6
<1>16. ASSUME t = Sweeper /\ Sweep PROVE PointOK(t)'
  <2>1. /\ t \notin Tasks /\ pc[t] = "idle" /\ pc'[t] = "reclaim"
        /\ job'[t] = job[t] /\ todo'[t] = todo[t]
    BY <1>0, <1>16 DEF Sweep
  <2> QED
    BY <1>0, <2>1
<1> QED
  BY <1>1, <1>2, <1>3, <1>4, <1>5, <1>6, <1>7, <1>8, <1>9, <1>10, <1>11, <1>12, <1>13,
     <1>14, <1>15, <1>16 DEF Acts, Step

LEMMA PointsStep ==
    ASSUME Types, Points, [Next]_vars
    PROVE  Points'
<1> USE DEF Points
<1>1. ASSUME NEW t \in Actors, Acts(t) PROVE Points'
  <2>1. OnlyMoves(t) /\ PointOK(t)'
    BY <1>1, Others, PointActs DEF Types
  <2>2. \A u \in Actors : PointOK(u)'
    BY <2>1, PointSame DEF OnlyMoves
  <2>3. SharedOK'
    <3>1. /\ mode' = mode /\ known' = known
          /\ Ws(t) \in Workspaces /\ (~mode.objects => Place(Ws(t)) = Shared)
      BY <2>1, WsOK DEF OnlyMoves, Types
    <3>2. ASSUME ~mode.objects, NEW w \in Workspaces
          PROVE  orphan'[w] = "no" /\ deletes'[w] = 0
      <4>0. /\ orphan[w] = "no" /\ deletes[w] = 0 /\ w # Shared /\ w \in Places
            /\ orphan \in [Places -> {"no", "waiting", "due"}] /\ deletes \in [Workspaces -> Nat]
        BY <3>2, Constants DEF SharedOK, Types, RemovalOK
      <4>1. CASE Collect(t)
        BY <3>1, <3>2, <4>0, <4>1 DEF Collect
      <4>2. CASE Recheck(t)
        BY <3>2, <4>0, <4>2 DEF Recheck
      <4>3. CASE Forget(t)
        BY <4>0, <4>3 DEF Forget
      <4>4. CASE Grant(t)
        BY <3>1, <3>2, <4>0, <4>4 DEF Grant
      <4>5. CASE ~(Collect(t) \/ Recheck(t) \/ Forget(t) \/ Grant(t))
        BY <1>1, <4>0, <4>5 DEF Acts, Step, Probe, BeginWrite, Abandon, PutBytes, WriteAcl,
           Store, SyncRefs, Release, Revoke, DeleteBlob, Reclaim, Sweep, removal
      <4> QED
        BY <4>1, <4>2, <4>3, <4>4, <4>5
    <3> QED
      BY <3>1, <3>2 DEF SharedOK
  <2> QED
    BY <2>2, <2>3
<1>2. CASE Ambient
  <2>1. mode' = mode /\ pc' = pc /\ job' = job /\ todo' = todo /\ known \subseteq known'
    BY <1>2 DEF Ambient, AgeIndex, AgeOrphan, DeleteObject, MirrorLedger, Recover, Reopen,
       control, mirror
  <2>2. \A u \in Actors : PointOK(u)'
    BY <2>1, PointSame
  <2>3. SharedOK'
    <3>1. known' \subseteq Workspaces
      BY TypeStep DEF Types, MirrorOK
    <3>2. ASSUME ~mode.objects, NEW w \in Workspaces
          PROVE  orphan'[w] = "no" /\ deletes'[w] = 0
      <4>1. /\ orphan[w] = "no" /\ deletes[w] = 0 /\ \A x \in Workspaces : deletes[x] = 0
            /\ orphan \in [Places -> {"no", "waiting", "due"}]
        BY <3>2 DEF SharedOK, Types, RemovalOK
      <4>2. ~(\E x \in Workspaces : DeleteObject(x))
        BY <4>1 DEF DeleteObject
      <4>3. CASE \E p \in Places : AgeOrphan(p)
        BY <4>1, <4>3 DEF AgeOrphan
      <4>4. CASE ~ \E p \in Places : AgeOrphan(p)
        BY <1>2, <4>1, <4>2, <4>4 DEF Ambient, AgeIndex, MirrorLedger, Recover, Reopen, removal
      <4> QED
        BY <4>3, <4>4
    <3> QED
      BY <2>1, <3>1, <3>2 DEF SharedOK
  <2> QED
    BY <2>2, <2>3
<1>3. CASE Restart \/ LoseVolume
  <2>1. \A u \in Actors : pc'[u] = "idle" /\ job'[u] = NoJob /\ todo'[u] = {}
    BY <1>3 DEF Restart, LoseVolume, Stop
  <2>2. \A u \in Actors : PointOK(u)'
    BY <2>1, NoJobOK DEF PointOK, Holding, Reclaiming
  <2>3. CASE LoseVolume
    BY <2>2, <2>3 DEF LoseVolume, SharedOK
  <2>4. CASE Restart
    <3>1. /\ mode' = mode /\ known' = known
          /\ \E gone : /\ ~mode.objects => gone \subseteq {Shared}
                       /\ orphan' = [p \in Places |->
                             IF mode.grace /\ p \in gone THEN "waiting" ELSE "no"]
                       /\ deletes' = [w \in Workspaces |->
                             IF w \in gone /\ ~mode.grace THEN 1 ELSE 0]
      BY <2>4 DEF Restart
    <3> QED
      BY <2>2, <3>1, Constants DEF SharedOK
  <2> QED
    BY <1>3, <2>3, <2>4
<1>4. CASE UNCHANGED vars
  BY <1>4, PointSame DEF vars, control, mirror, removal, SharedOK
<1> QED
  BY <1>1, <1>2, <1>3, <1>4, NextCases

-----------------------------------------------------------------------------
(* Uploads and removals keep apart: the bytes of an upload that has put them,  *)
(* and has yet to grant them, are there and nobody is about to remove them.    *)

\* No upload overlaps a removal of its bytes, finalizes an object about to go, or goes
\* to a workspace whose books are not loaded.
Separately == Coincide \intersect {"regrant", "finalize", "coldUpload"} = {}

Past(u) == /\ job[u].to = "using"
           /\ pc[u] \in {"grant"} \union
                          (IF mode.objects THEN {"reclaim"} \union Reclaiming ELSE {})

Removes(t, p) == \/ p \in todo[t] /\ pc[t] # "reclaim"
                 \/ Releasing(t) /\ Place(Ws(t)) = p

ApartOf(u) ==
    /\ Past(u) => /\ Place(Ws(u)) \in bytes
                  /\ \A t \in Actors : ~Removes(t, Place(Ws(u)))
                  /\ mode.objects => deletes[Ws(u)] = 0
    /\ mode.objects /\ (Past(u) \/ (job[u].to = "using" /\ pc[u] = "bytes"))
         => orphan[Ws(u)] # "due"

Apart == \A u \in Tasks : ApartOf(u)

\* What an actor removes, and does not already, no upload is under way to.
LEMMA RemovesGrow ==
    ASSUME Types, Points, NEW t \in Actors, Acts(t), NEW p \in Places, Removes(t, p)'
    PROVE  \/ Removes(t, p)
           \/ Release(t) /\ MayRemove(t, p) /\ pc'[t] = "revoke"
           \/ Reclaim(t) /\ MayRemove(t, p) /\ p \in Due /\ pc'[t] = "recheck"
<1>0. /\ PointOK(t) /\ PointOK(t)' /\ mode' = mode
      /\ Place(Ws(t)) \in Places /\ (~mode.objects => Place(Ws(t)) = Shared)
      /\ pc \in [Actors -> Spots] /\ job \in [Actors -> JobSet]
      /\ todo \in [Actors -> SUBSET Places]
  BY PointActs, WsOK, Others DEF Points, Types, ControlOK, OnlyMoves
<1> USE DEF Removes, Releasing, ReleasePoints, At, Go, control
<1>1. ASSUME NEW d \in Docs, t \in Tasks, Probe(t, d) \/ BeginWrite(t, d) PROVE FALSE
  <2>1. pc[t] = "idle" /\ pc'[t] \in {"store", "sync", "bytes", "reclaim"} /\ todo' = todo
    BY <1>0, <1>1 DEF Probe, BeginWrite, Begin, AttachAt
  <2> QED
    BY <1>0, <2>1 DEF PointOK, Holding, Reclaiming
<1>2. ASSUME Abandon(t) \/ PutBytes(t) \/ Store(t) \/ SyncRefs(t) \/ (t = Sweeper /\ Sweep)
             \/ Grant(t)
      PROVE  FALSE
  <2>1. /\ pc[t] \in {"store", "bytes", "sync", "idle", "grant"} /\ todo' = todo
        /\ pc'[t] \in {"idle", "reclaim", "grant", "sync", "release", "store", "writeAcl"}
        /\ pc'[t] = "writeAcl" => pc[t] = "grant" /\ job' = job
    BY <1>0, <1>2 DEF Abandon, PutBytes, Store, SyncRefs, Sweep, Grant, Goes, Released,
       Finish, AfterRefs, AttachAt
  <2>2. pc[t] = "grant" => job[t].to = "using"
    BY Constants DEF PointOK, Points, Types, ControlOK, Actors
  <2>3. todo'[t] = {}
    BY <1>0, <2>1 DEF PointOK, Holding, Reclaiming
  <2> QED
    BY <1>0, <2>1, <2>2, <2>3
<1>3. CASE WriteAcl(t)
  BY <1>0, <1>3 DEF WriteAcl, AfterAcls, Ws, Owner, Place, AttachAt
<1>4. CASE Release(t)
  <2>1. pc[t] = "release" /\ todo' = todo
    BY <1>4 DEF Release
  <2>2. todo[t] = {}
    BY <1>0, <2>1 DEF PointOK, Holding, Reclaiming
  <2>3. pc'[t] = "revoke" /\ job' = job /\ MayRemove(t, Place(Ws(t)))
    BY <1>0, <1>4, <2>1, <2>2 DEF Release, Goes, Released, Finish, AfterRefs
  <2> QED
    BY <1>0, <1>4, <2>1, <2>2, <2>3 DEF Ws, Owner, Place
<1>5. CASE Revoke(t) \/ Collect(t)
  <2>1. /\ pc[t] \in {"revoke", "gc"} /\ todo' = todo
        /\ \/ pc'[t] \in {"idle", "store"}
           \/ pc'[t] \in {"writeAcl", "drop"} /\ job' = job
    BY <1>0, <1>5 DEF Revoke, Collect, Goes, Released, Finish, AfterRefs
  <2> QED
    BY <1>0, <2>1 DEF PointOK, Holding, Reclaiming, Ws, Owner, Place
<1>6. CASE DeleteBlob(t)
  <2>1. /\ pc[t] = "drop" /\ todo' = todo
        /\ \/ todo[t] = {} /\ pc'[t] \in {"idle", "store"}
           \/ pc'[t] = "forget" /\ job' = job
    BY <1>0, <1>6 DEF DeleteBlob, Goes, Released, Finish, AfterRefs
  <2> QED
    BY <1>0, <2>1
<1>7. CASE Reclaim(t)
  <2>1. PICK due \in {Due, {}} :
            /\ \A q \in due : MayRemove(t, q)
            /\ todo' = [todo EXCEPT ![t] = due] /\ job' = job /\ pc[t] = "reclaim"
            /\ pc' = [pc EXCEPT ![t] = IF due = {} THEN AfterReclaim(t) ELSE "recheck"]
    BY <1>7 DEF Reclaim
  <2>2. CASE due = {}
    BY <1>0, <2>1, <2>2 DEF AfterReclaim
  <2>3. CASE due # {}
    BY <1>0, <1>7, <2>1, <2>3
  <2> QED
    BY <2>2, <2>3
<1>8. CASE Recheck(t)
  <2>1. /\ pc[t] = "recheck" /\ todo' = todo /\ job' = job
        /\ pc'[t] = "forget" \/ (pc'[t] = "drop" /\ ~mode.objects)
    BY <1>0, <1>8 DEF Recheck
  <2>2. ~mode.objects => Shared \in todo[t]
    BY <1>0, <2>1 DEF PointOK, Holding, Reclaiming
  <2> QED
    BY <1>0, <2>1, <2>2 DEF Ws, Owner, Place
<1>9. CASE Forget(t)
  <2>1. /\ pc[t] = "forget" /\ todo'[t] \subseteq todo[t] /\ job' = job
        /\ pc'[t] \in {"idle", "grant", "bytes", "recheck"}
    BY <1>0, <1>9 DEF Forget, AfterReclaim
  <2> QED
    BY <1>0, <2>1
<1> QED
  BY <1>1, <1>2, <1>3, <1>4, <1>5, <1>6, <1>7, <1>8, <1>9 DEF Acts, Step

\* What an actor does to bytes, deletions and deferrals.
LEMMA RemovalActs ==
    ASSUME Types, Points, NEW t \in Actors, Acts(t)
    PROVE  /\ bytes \subseteq bytes' \/ (/\ DeleteBlob(t) /\ ~mode.objects
                                         /\ bytes' = bytes \ {Shared} /\ Removes(t, Shared))
           /\ \A w \in Workspaces : \/ deletes'[w] = deletes[w]
                                   \/ /\ Collect(t) \/ Recheck(t)
                                      /\ mode.objects /\ Removes(t, w)
           /\ \A p \in Places : orphan'[p] = "due" => orphan[p] = "due"
<1> DEFINE Kept == bytes \subseteq bytes' /\ deletes' = deletes
           NoneDue == \A p \in Places : orphan'[p] = "due" => orphan[p] = "due"
<1>0. /\ PointOK(t) /\ Place(Ws(t)) \in Places /\ (~mode.objects => Place(Ws(t)) = Shared)
      /\ (mode.objects => Place(Ws(t)) = Ws(t)) /\ Ws(t) \in Workspaces
      /\ orphan \in [Places -> {"no", "waiting", "due"}] /\ deletes \in [Workspaces -> Nat]
  BY WsOK DEF Points, Types, RemovalOK
<1>1. CASE PutBytes(t)
  BY <1>0, <1>1 DEF PutBytes, removal
<1>2. CASE Grant(t)
  BY <1>0, <1>2 DEF Grant
<1>3. CASE Collect(t)
  <2>1. bytes' = bytes /\ NoneDue
    BY <1>0, <1>3 DEF Collect
  <2>2. Removes(t, Place(Ws(t)))
    BY <1>3 DEF Collect, At, Removes, Releasing, ReleasePoints
  <2>3. \A w \in Workspaces : deletes'[w] = deletes[w] \/ (mode.objects /\ w = Ws(t))
    BY <1>0, <1>3 DEF Collect
  <2> QED
    BY <1>0, <1>3, <2>1, <2>2, <2>3
<1>4. CASE DeleteBlob(t)
  BY <1>0, <1>4 DEF DeleteBlob, At, removal, Removes, Releasing, ReleasePoints, PointOK
<1>5. CASE Recheck(t)
  <2>1. bytes' = bytes /\ NoneDue
    BY <1>0, <1>5 DEF Recheck
  <2>2. Handled(t) \in todo[t] /\ pc[t] = "recheck"
    BY <1>0, <1>5, HandledOK DEF Recheck, At, PointOK, Holding, Reclaiming
  <2>3. \A w \in Workspaces : deletes'[w] = deletes[w] \/ (mode.objects /\ w = Handled(t))
    BY <1>0, <1>5 DEF Recheck
  <2> QED
    BY <1>5, <2>1, <2>2, <2>3 DEF Removes
<1>6. CASE Forget(t)
  BY <1>0, <1>6 DEF Forget, stored
<1>7. CASE ~(PutBytes(t) \/ Grant(t) \/ Collect(t) \/ DeleteBlob(t) \/ Recheck(t) \/ Forget(t))
  <2>1. bytes' = bytes /\ deletes' = deletes /\ orphan' = orphan
    BY <1>7 DEF Acts, Step, Probe, BeginWrite, Abandon, WriteAcl, Store, SyncRefs, Release,
       Revoke, Reclaim, Sweep, stored, removal
  <2> QED
    BY <2>1
<1> QED
  BY <1>1, <1>2, <1>3, <1>4, <1>5, <1>6, <1>7

\* An actor other than u leaves the upload of u alone.
LEMMA ApartOthers ==
    ASSUME Separately, Types, Points, Apart, NEW t \in Actors, Acts(t),
           NEW u \in Tasks, u # t
    PROVE  ApartOf(u)'
<1>0. /\ OnlyMoves(t) /\ mode' = mode /\ u \in Actors
      /\ Place(Ws(u)) \in Places /\ Ws(u) \in Workspaces
      /\ (mode.objects => Place(Ws(u)) = Ws(u)) /\ (~mode.objects => Place(Ws(u)) = Shared)
  BY Others, WsOK, Constants DEF Types, OnlyMoves
<1>1. /\ pc'[u] = pc[u] /\ job'[u] = job[u] /\ Ws(u)' = Ws(u) /\ Place(Ws(u))' = Place(Ws(u))
      /\ Past(u)' = Past(u)
  BY <1>0 DEF OnlyMoves, Past, Ws, Owner, Place
<1>2. ApartOf(u)
  BY DEF Apart
<1>3. ASSUME Past(u), NEW p, p = Place(Ws(u)) PROVE \A x \in Actors : ~Removes(x, p)'
  <2>1. \A x \in Actors : ~Removes(x, p)
    BY <1>2, <1>3 DEF ApartOf
  <2>2. ~Removes(t, p)'
    <3>1. Uploading(p, Tasks \ {t})
      BY <1>3 DEF Uploading, Past, UploadPoints, Reclaiming
    <3>2. ~MayRemove(t, p)
      BY <3>1 DEF MayRemove, Separately
    <3> QED
      BY <1>0, <1>3, <2>1, <3>2, RemovesGrow
  <2>3. ASSUME NEW x \in Actors, x # t PROVE ~Removes(x, p)'
    BY <1>0, <2>1, <2>3 DEF OnlyMoves, Removes, Releasing, Ws, Owner, Place
  <2> QED
    BY <2>2, <2>3
<1>4. Past(u) => /\ Place(Ws(u)) \in bytes'
                 /\ mode.objects => deletes'[Ws(u)] = 0
  <2> SUFFICES ASSUME Past(u) PROVE Place(Ws(u)) \in bytes'
                                    /\ (mode.objects => deletes'[Ws(u)] = 0)
    OBVIOUS
  <2>1. /\ Place(Ws(u)) \in bytes /\ ~Removes(t, Place(Ws(u)))
        /\ mode.objects => deletes[Ws(u)] = 0
    BY <1>2 DEF ApartOf
  <2> QED
    BY <1>0, <2>1, RemovalActs
<1>5. mode.objects /\ orphan'[Ws(u)] = "due" => orphan[Ws(u)] = "due"
  BY <1>0, RemovalActs
<1> QED
  BY <1>0, <1>1, <1>2, <1>3, <1>4, <1>5 DEF ApartOf

\* The actor itself uploads only where nobody removes.
LEMMA ApartSelf ==
    ASSUME Separately, Types, Points, Apart, NEW t \in Tasks, Acts(t)
    PROVE  ApartOf(t)'
<1>0. /\ OnlyMoves(t) /\ mode' = mode /\ t \in Actors /\ PointOK(t) /\ PointOK(t)' /\ ApartOf(t)
      /\ Place(Ws(t)) \in Places /\ Ws(t) \in Workspaces
      /\ (mode.objects => Place(Ws(t)) = Ws(t)) /\ (~mode.objects => Place(Ws(t)) = Shared)
      /\ pc \in [Actors -> Spots] /\ job \in [Actors -> JobSet]
      /\ todo \in [Actors -> SUBSET Places]
  BY Others, PointActs, WsOK, Constants DEF Types, OnlyMoves, Points, Apart, ControlOK
<1>1. CASE \E d \in Docs : Probe(t, d)
  <2>1. PICK d \in Docs : Probe(t, d)
    BY <1>1
  <2>2. /\ pc'[t] \in {"store", "sync", "bytes", "reclaim"} /\ orphan' = orphan
        /\ pc'[t] = "reclaim" => ~mode.objects
        /\ Ws(t)' = Owner[d]
        /\ mode.objects /\ pc'[t] = "bytes" => orphan[Owner[d]] # "due"
    BY <1>0, <2>1, OwnerOK DEF Types, Probe, Begin, Go, MayFinalize, Separately, removal, Ws, Owner,
       AttachAt
  <2> QED
    BY <1>0, <2>2 DEF ApartOf, Past, Reclaiming
<1>2. CASE PutBytes(t)
  <2>1. /\ bytes' = bytes \union {Place(Ws(t))} /\ ~Removing(Place(Ws(t))) /\ pc[t] = "bytes"
        /\ pc'[t] \in {"reclaim", "grant"} /\ job' = job /\ todo' = todo
        /\ deletes' = deletes /\ orphan' = orphan
    BY <1>0, <1>2 DEF PutBytes, At, Go, MayUpload, Separately, removal
  <2>2. /\ Ws(t)' = Ws(t) /\ Place(Ws(t))' = Place(Ws(t)) /\ job[t].to = "using"
        /\ todo[t] = {}
    BY <1>0, <2>1 DEF Ws, Owner, Place, PointOK, Holding, Reclaiming
  <2>3. ASSUME NEW p, p = Place(Ws(t)), NEW x \in Actors PROVE ~Removes(x, p)'
    <3>1. ~Removes(x, p)
      BY <2>1, <2>3 DEF Removing, Removes
    <3>2. CASE x = t
      BY <2>1, <2>2, <3>2 DEF Removes, Releasing, ReleasePoints
    <3>3. CASE x # t
      BY <1>0, <3>1, <3>3 DEF OnlyMoves, Removes, Releasing, Ws, Owner, Place
    <3> QED
      BY <3>2, <3>3
  <2>4. mode.objects => deletes[Ws(t)] = 0 /\ orphan[Ws(t)] # "due"
    <3>1. deletes[Ws(t)] \in Nat
      BY <1>0 DEF Types, RemovalOK
    <3> QED
      BY <1>0, <2>1, <2>2, <3>1 DEF Removing, ApartOf
  <2> QED
    BY <1>0, <2>1, <2>2, <2>3, <2>4 DEF ApartOf
<1>3. CASE Reclaim(t) \/ Recheck(t) \/ Forget(t)
  <2>1. /\ pc[t] \in {"reclaim", "recheck", "forget"} /\ job' = job
        /\ pc'[t] \in {"grant", "bytes", "recheck", "forget", "drop"}
        /\ pc'[t] = "grant" => mode.objects
    BY <1>0, <1>3, Constants DEF Reclaim, Recheck, Forget, At, Go, AfterReclaim
  <2>2. /\ Ws(t)' = Ws(t) /\ Place(Ws(t))' = Place(Ws(t)) /\ job[t].to = "using"
        /\ Past(t)' => mode.objects
        /\ mode.objects => Past(t)
    BY <1>0, <2>1 DEF Ws, Owner, Place, PointOK, Past, Reclaiming
  <2>3. ASSUME mode.objects, NEW p, p = Place(Ws(t)), NEW x \in Actors PROVE ~Removes(x, p)'
    <3>1. ~Removes(x, p) /\ orphan[p] # "due"
      BY <1>0, <2>2, <2>3 DEF ApartOf
    <3>2. CASE x = t
      BY <1>0, <2>1, <2>3, <3>1, <3>2, RemovesGrow DEF Due, Release, At
    <3>3. CASE x # t
      BY <1>0, <3>1, <3>3 DEF OnlyMoves, Removes, Releasing, Ws, Owner, Place
    <3> QED
      BY <3>2, <3>3
  <2>4. mode.objects => /\ Place(Ws(t)) \in bytes' /\ deletes'[Ws(t)] = 0
                        /\ orphan'[Ws(t)] # "due"
    BY <1>0, <2>2, RemovalActs DEF ApartOf
  <2> QED
    BY <1>0, <2>2, <2>3, <2>4 DEF ApartOf
<1>4. CASE ~(PutBytes(t) \/ Reclaim(t) \/ Recheck(t) \/ Forget(t) \/ \E d \in Docs : Probe(t, d))
  <2>1. \/ pc'[t] \in {"idle", "store", "sync", "writeAcl", "release", "revoke", "gc", "drop"}
        \/ pc'[t] = "forget" /\ DeleteBlob(t)
    BY <1>0, <1>4, Constants DEF Acts, Step, BeginWrite, Begin, Abandon, Grant, WriteAcl, AfterAcls,
       Store, SyncRefs, Release, Revoke, Collect, DeleteBlob, Go, Goes, Released, Finish, AfterRefs,
       AttachAt
  <2>2. DeleteBlob(t) => ~mode.objects
    BY <1>0 DEF DeleteBlob, At, PointOK
  <2> QED
    BY <1>0, <2>1, <2>2 DEF ApartOf, Past, Reclaiming
<1> QED
  BY <1>1, <1>2, <1>3, <1>4

LEMMA ApartStep ==
    ASSUME Separately, Types, Points, Apart, [Next]_vars
    PROVE  Apart'
<1>1. ASSUME NEW t \in Actors, Acts(t) PROVE Apart'
  BY <1>1, ApartOthers, ApartSelf DEF Apart
<1>2. CASE Ambient
  <2> SUFFICES ASSUME NEW u \in Tasks PROVE ApartOf(u)'
    BY DEF Apart
  <2>0. /\ ApartOf(u) /\ u \in Actors /\ Ws(u) \in Workspaces
        /\ (mode.objects => Place(Ws(u)) = Ws(u)) /\ (~mode.objects => Place(Ws(u)) = Shared)
        /\ Ws(u) # Shared /\ deletes \in [Workspaces -> Nat]
    BY WsOK, Constants DEF Types, Apart, RemovalOK
  <2>1. mode' = mode /\ pc' = pc /\ job' = job /\ todo' = todo
    BY <1>2 DEF Ambient, AgeIndex, AgeOrphan, DeleteObject, MirrorLedger, Recover, Reopen,
       control
  <2>2. /\ Past(u)' = Past(u) /\ Ws(u)' = Ws(u) /\ Place(Ws(u))' = Place(Ws(u))
        /\ \A x, p : Removes(x, p)' <=> Removes(x, p)
    BY <2>1 DEF Past, Ws, Owner, Place, Removes, Releasing
  <2>3. CASE \E w \in Workspaces : DeleteObject(w)
    <3>1. PICK w \in Workspaces : DeleteObject(w)
      BY <2>3
    <3>2. /\ deletes[w] > 0 /\ bytes' = bytes \ {w} /\ orphan' = orphan
          /\ deletes' = [deletes EXCEPT ![w] = @ - 1]
      BY <3>1 DEF DeleteObject
    <3>3. w # Shared
      BY Constants
    <3>4. mode.objects /\ Past(u) => w # Ws(u)
      BY <2>0, <3>2 DEF ApartOf
    <3>5. Past(u) => Place(Ws(u)) \in bytes' /\ (mode.objects => deletes'[Ws(u)] = 0)
      BY <2>0, <3>2, <3>3, <3>4 DEF ApartOf
    <3> QED
      BY <2>0, <2>1, <2>2, <3>2, <3>5 DEF ApartOf
  <2>4. CASE \E p \in Places : AgeOrphan(p)
    <3>1. PICK p \in Places : AgeOrphan(p)
      BY <2>4
    <3>2. /\ bytes' = bytes /\ deletes' = deletes /\ orphan' = [orphan EXCEPT ![p] = "due"]
          /\ ~(job[u].to = "using" /\ Place(Ws(u)) = p)
      BY <3>1 DEF AgeOrphan, Separately, stored
    <3>3. mode.objects /\ job[u].to = "using" => orphan'[Ws(u)] = orphan[Ws(u)]
      BY <2>0, <3>2 DEF Types, RemovalOK
    <3> QED
      BY <2>0, <2>1, <2>2, <3>2, <3>3 DEF ApartOf, Past
  <2>5. CASE ~((\E w \in Workspaces : DeleteObject(w)) \/ \E p \in Places : AgeOrphan(p))
    <3>1. bytes' = bytes /\ deletes' = deletes /\ orphan' = orphan
      BY <1>2, <2>5 DEF Ambient, AgeIndex, MirrorLedger, Recover, Reopen, stored, removal
    <3> QED
      BY <2>0, <2>1, <2>2, <3>1 DEF ApartOf
  <2> QED
    BY <2>3, <2>4, <2>5
<1>3. CASE Restart \/ LoseVolume
  <2>1. \A u \in Tasks : job'[u] = NoJob
    BY <1>3, Constants DEF Restart, LoseVolume, Stop
  <2> QED
    BY <2>1, NoJobOK DEF Apart, ApartOf, Past
<1>4. CASE UNCHANGED vars
  BY <1>4 DEF vars, control, removal, stored, Apart, ApartOf, Past, Removes, Releasing, Ws,
     Owner, Place
<1> QED
  BY <1>1, <1>2, <1>3, <1>4, NextCases

-----------------------------------------------------------------------------
(* Grants: they are backed, and what is taken away is not granted when its     *)
(* bytes go.                                                                   *)

ReleaseOK(t) ==
    /\ pc[t] = "drop" => acl = {}
    /\ pc[t] = "gc" \/ (pc[t] = "writeAcl" /\ job[t].to # "using") => Ws(t) \notin acl
    /\ pc[t] = "revoke" /\ Ws(t) \in acl => ~Spared

Grants ==
    /\ GrantIsBacked
    /\ acl \subseteq known
    /\ \A w \in Workspaces : deletes[w] > 0 => w \notin acl
    /\ \A t \in Actors : ReleaseOK(t)

\* What an actor does to grants and the index.
LEMMA AclActs ==
    ASSUME NEW t \in Actors, Acts(t)
    PROVE  /\ \/ acl' = acl
              \/ Grant(t) /\ acl' = acl \union {Ws(t)}
              \/ Revoke(t) /\ Ws(t) \in acl /\ acl' = acl \ {Ws(t)}
           /\ \/ index' = index
              \/ Grant(t) /\ index = "none" /\ index' = "fresh"
              \/ (Collect(t) \/ Recheck(t)) /\ acl = {} /\ acl' = acl /\ index' = "none"
              \/ DeleteBlob(t) /\ acl' = acl /\ index' = "none"
           /\ Grant(t) => index' # "none"
<1>1. CASE Grant(t)
  BY <1>1 DEF Grant
<1>2. CASE Revoke(t)
  BY <1>2 DEF Revoke, stored, Grant, At
<1>3. CASE Collect(t) \/ Recheck(t) \/ DeleteBlob(t)
  BY <1>3 DEF Collect, Recheck, DeleteBlob, rights, Grant, At
<1>4. CASE ~(Grant(t) \/ Revoke(t) \/ Collect(t) \/ Recheck(t) \/ DeleteBlob(t))
  BY <1>4 DEF Acts, Step, Probe, BeginWrite, Abandon, PutBytes, WriteAcl, Store, SyncRefs, Release,
     Reclaim, Forget, Sweep, stored, rights
<1> QED
  BY <1>1, <1>2, <1>3, <1>4

\* How an actor comes to release.
LEMMA ReleasingGrow ==
    ASSUME Types, Points, NEW t \in Actors, Acts(t), Releasing(t)'
    PROVE  \/ Releasing(t) /\ Ws(t)' = Ws(t) /\ job' = job
           \/ /\ Release(t) /\ pc'[t] = "revoke" /\ ~Spared /\ index' = index
              /\ RefsOf(Ws(t)) = {} /\ refs' = refs
              /\ MayRelease(Ws(t)) /\ MayRemove(t, Place(Ws(t))) /\ Ws(t)' = Ws(t)
           \/ Recheck(t) /\ pc'[t] = "drop" /\ acl = {}
<1>0. /\ PointOK(t) /\ mode' = mode
      /\ pc \in [Actors -> Spots] /\ job \in [Actors -> JobSet]
      /\ todo \in [Actors -> SUBSET Places]
  BY Others DEF Points, Types, ControlOK, OnlyMoves
<1> USE DEF Releasing, ReleasePoints, At, Go, control
<1>1. CASE WriteAcl(t)
  BY <1>0, <1>1 DEF WriteAcl, AfterAcls, Ws, Owner, AttachAt
<1>2. CASE Release(t)
  BY <1>0, <1>2 DEF Release, Goes, Released, Finish, AfterRefs, Ws, Owner, stored, rights, Releasable
<1>3. CASE Revoke(t) \/ Collect(t)
  BY <1>0, <1>3 DEF Revoke, Collect, Goes, Released, Finish, AfterRefs, Ws, Owner
<1>4. CASE Recheck(t)
  BY <1>0, <1>4 DEF Recheck, Granted
<1>5. CASE Grant(t)
  <2>1. job[t].to = "using" /\ job' = job /\ pc'[t] \in {"store", "sync", "writeAcl"}
    BY <1>0, <1>5, Constants DEF Grant, AttachAt, PointOK, Types, ControlOK, Actors
  <2> QED
    BY <1>0, <2>1
<1>6. CASE ~(WriteAcl(t) \/ Release(t) \/ Revoke(t) \/ Collect(t) \/ Recheck(t) \/ Grant(t))
  <2>1. pc'[t] \in {"idle", "store", "sync", "bytes", "reclaim", "grant", "release", "recheck", "forget"}
    BY <1>0, <1>6 DEF Acts, Step, Probe, BeginWrite, Begin, Abandon, PutBytes, Store, SyncRefs,
       DeleteBlob, Reclaim, AfterReclaim, Forget, Sweep, Goes, Released, Finish, AfterRefs, AttachAt
  <2> QED
    BY <2>1
<1> QED
  BY <1>1, <1>2, <1>3, <1>4, <1>5, <1>6

\* An upload meets nobody who releases at its place.
LEMMA PastMeets ==
    ASSUME Types, Points, Apart, NEW t \in Tasks, Past(t), NEW x \in Actors
    PROVE  Releasing(x) => Ws(x) # Ws(t) /\ pc[x] # "drop"
<1>1. ~Removes(x, Place(Ws(t)))
  BY DEF Apart, ApartOf
<1>2. Releasing(x) => Place(Ws(x)) # Place(Ws(t))
  BY <1>1 DEF Removes
<1>3. pc[x] = "drop" => ~mode.objects /\ Releasing(x)
  BY DEF Points, PointOK, Releasing, ReleasePoints
<1>4. ~mode.objects => Place(Ws(x)) = Place(Ws(t))
  BY DEF Place
<1> QED
  BY <1>2, <1>3, <1>4

LEMMA GrantPast ==
    ASSUME Types, Points, NEW t \in Actors, Grant(t)
    PROVE  t \in Tasks /\ Past(t) /\ ~Releasing(t)
<1>1. pc[t] = "grant" /\ t \in Tasks
  BY Constants DEF Grant, At, Types, ControlOK, Actors
<1> QED
  BY <1>1 DEF Points, PointOK, Past, Releasing, ReleasePoints

LEMMA GrantsActs ==
    ASSUME Separately, Types, Points, Apart, Grants, NEW t \in Actors, Acts(t)
    PROVE  Grants'
<1>0. /\ OnlyMoves(t) /\ mode' = mode /\ known' = known /\ PointOK(t) /\ PointOK(t)'
      /\ GrantIsBacked /\ ReleaseOK(t) /\ Ws(t) \in Workspaces
      /\ acl \subseteq Workspaces /\ acl' \subseteq Workspaces
      /\ \A w \in Workspaces : Place(w)' = Place(w)
      /\ pc \in [Actors -> Spots] /\ job \in [Actors -> JobSet]
      /\ deletes \in [Workspaces -> Nat]
      /\ \A u \in Actors : Ws(u) \in Workspaces
  BY Others, PointActs, WsOK, TypeStep, NextCases
     DEF Points, Types, OnlyMoves, Grants, RightsOK, ControlOK, RemovalOK, Place
<1>g. Grant(t) => t \in Tasks /\ Past(t) /\ Place(Ws(t)) \in bytes /\ Ws(t) \in known
                  /\ (mode.objects => deletes[Ws(t)] = 0)
                  /\ \A x \in Actors : Releasing(x) => Ws(x) # Ws(t) /\ pc[x] # "drop"
  BY GrantPast, PastMeets DEF Apart, ApartOf, Grants, Points, PointOK, Past, Reclaiming, Separately
<1>d. ~mode.objects => \A w \in Workspaces : deletes[w] = 0
  BY DEF Points, SharedOK
<1>1. GrantIsBacked'
  <2> SUFFICES ASSUME NEW w \in acl' PROVE index' # "none" /\ Place(w) \in bytes'
    BY <1>0 DEF GrantIsBacked
  <2>1. DeleteBlob(t) => acl = {} /\ acl' = acl
    BY <1>0 DEF DeleteBlob, At, ReleaseOK, rights
  <2>2. ~DeleteBlob(t) => bytes \subseteq bytes'
    BY RemovalActs
  <2>3. w \in acl \/ (Grant(t) /\ w = Ws(t))
    BY AclActs
  <2>4. Place(w) \in bytes'
    BY <1>0, <1>g, <2>1, <2>2, <2>3 DEF GrantIsBacked
  <2>5. index' # "none"
    BY <1>0, <2>1, <2>3, AclActs DEF GrantIsBacked
  <2> QED
    BY <2>4, <2>5
<1>2. acl' \subseteq known'
  BY <1>0, <1>g, AclActs DEF Grants
<1>3. ASSUME NEW w \in Workspaces, deletes'[w] > 0 PROVE w \notin acl'
  <2>1. CASE deletes'[w] = deletes[w]
    BY <1>0, <1>3, <1>g, <1>d, <2>1, AclActs DEF Grants
  <2>2. CASE deletes'[w] # deletes[w]
    <3>1. (Collect(t) \/ Recheck(t)) /\ mode.objects
      BY <2>2, RemovalActs
    <3>2. CASE Collect(t)
      BY <1>0, <2>2, <3>1, <3>2 DEF Collect, At, ReleaseOK, rights
    <3>3. CASE Recheck(t)
      BY <1>0, <2>2, <3>1, <3>3 DEF Recheck, Granted, rights
    <3> QED
      BY <3>1, <3>2, <3>3
  <2> QED
    BY <2>1, <2>2
<1>4. ASSUME NEW u \in Actors, u # t PROVE ReleaseOK(u)'
  <2>1. /\ pc'[u] = pc[u] /\ job'[u] = job[u] /\ Ws(u)' = Ws(u) /\ ReleaseOK(u)
        /\ Ws(u) \in Workspaces
    BY <1>0, <1>4 DEF OnlyMoves, Ws, Owner, Grants
  <2>2. Releasing(u) => (Ws(u) \in acl' => Ws(u) \in acl)
    BY <1>g, AclActs
  <2>3. pc[u] = "drop" => (acl = {} => acl' = {})
    BY <1>g, AclActs DEF Releasing, ReleasePoints
  <2>4. Ws(u) \in acl /\ ~Spared => ~Spared'
    BY <1>0, AclActs DEF Spared, GrantIsBacked
  <2> QED
    BY <2>1, <2>2, <2>3, <2>4 DEF ReleaseOK, Releasing, ReleasePoints
<1>5. ReleaseOK(t)'
  <2>1. CASE pc'[t] = "drop"
    <3>1. Collect(t) \/ Recheck(t)
      BY <1>0, <2>1 DEF Acts, Step, Probe, BeginWrite, Begin, Abandon, PutBytes, Grant, WriteAcl,
         AfterAcls, Store, SyncRefs, Release, Revoke, DeleteBlob, Reclaim, AfterReclaim, Forget,
         Sweep, Go, Goes, Released, Finish, AfterRefs, At, AttachAt
    <3>2. acl' = {}
      BY <1>0, <2>1, <3>1 DEF Collect, Recheck, Go, Goes, Released, Finish, AfterRefs, At, rights,
         LastGrantGone, Granted, PointOK
    <3> QED
      BY <2>1, <3>2 DEF ReleaseOK
  <2>2. CASE pc'[t] # "drop" /\ Releasing(t)'
    <3>1. CASE Release(t) /\ pc'[t] = "revoke" /\ ~Spared /\ index' = index
      BY <1>0, <3>1 DEF ReleaseOK, Spared
    <3>2. CASE Releasing(t) /\ Ws(t)' = Ws(t) /\ job' = job
      <4>1. CASE Revoke(t)
        BY <1>0, <3>2, <4>1 DEF Revoke, ReleaseOK, Goes, Released, Finish, AfterRefs, Go, At
      <4>2. CASE WriteAcl(t)
        BY <1>0, <3>2, <4>2, <2>2 DEF WriteAcl, AfterAcls, ReleaseOK, Go, At, Releasing, ReleasePoints
      <4>3. CASE ~(Revoke(t) \/ WriteAcl(t))
        <5>1. pc[t] \in {"revoke", "gc", "drop", "writeAcl"}
          BY <3>2 DEF Releasing, ReleasePoints
        <5>2. Collect(t) \/ DeleteBlob(t)
          BY <5>1, <1>0, <4>3, Constants DEF Acts, Step, Probe, BeginWrite, Begin, Abandon, PutBytes,
             Grant, Store, SyncRefs, Release, Reclaim, Recheck, Forget, Sweep, At, AttachAt
        <5>3. pc'[t] \in {"idle", "store", "forget", "drop"}
          BY <5>2, <1>0 DEF Collect, DeleteBlob, Go, Goes, Released, Finish, AfterRefs
        <5> QED
          BY <5>3, <2>2 DEF Releasing, ReleasePoints
      <4> QED
        BY <4>1, <4>2, <4>3
    <3> QED
      BY <2>2, <3>1, <3>2, ReleasingGrow
  <2>3. CASE ~Releasing(t)'
    BY <2>3 DEF ReleaseOK, Releasing, ReleasePoints
  <2> QED
    BY <2>1, <2>2, <2>3
<1> QED
  BY <1>1, <1>2, <1>3, <1>4, <1>5 DEF Grants

-----------------------------------------------------------------------------
(* blob_acl.json is what is granted unless it is being written.               *)

Saving(t) == pc[t] = "writeAcl"
Saved ==
    /\ \A t \in Actors : Saving(t) => buf[t] = acl
    /\ \A t, u \in Actors : Saving(t) /\ Saving(u) => t = u
    /\ (\A t \in Actors : ~Saving(t)) => aclFile = acl

LEMMA SavedActs ==
    ASSUME "saveSave" \notin Coincide, Types, Points, Grants, Saved, NEW t \in Actors, Acts(t)
    PROVE  Saved'
<1>0. /\ OnlyMoves(t) /\ acl \subseteq Workspaces /\ GrantIsBacked
      /\ pc \in [Actors -> Spots] /\ buf \in [Actors -> SUBSET Workspaces]
  BY Others DEF Types, RightsOK, Grants, ControlOK
<1>1. CASE WriteAcl(t)
  <2>1. /\ Saving(t) /\ aclFile' = buf[t] /\ acl' = acl /\ pc'[t] # "writeAcl"
    BY <1>0, <1>1 DEF WriteAcl, At, Go, AfterAcls, Saving, AttachAt
  <2>2. \A u \in Actors : ~Saving(u)'
    BY <1>0, <2>1 DEF Saved, Saving, OnlyMoves
  <2> QED
    BY <2>1, <2>2 DEF Saved
<1>2. CASE ~WriteAcl(t) /\ pc'[t] = "writeAcl"
  <2>1. Grant(t) \/ Revoke(t)
    BY <1>0, <1>2 DEF Acts, Step, Probe, BeginWrite, Begin, Abandon, PutBytes, Store, SyncRefs,
       Release, Collect, DeleteBlob, Reclaim, Recheck, AfterReclaim, Forget, Sweep, Go, Goes,
       Released, Finish, AfterRefs, At, AttachAt
  <2>2. /\ buf'[t] = acl' /\ MaySaveAcls
    <3>1. Ws(t) \in acl => index # "none"
      BY <1>0 DEF GrantIsBacked
    <3> QED
      BY <1>0, <1>2, <2>1, <3>1 DEF Grant, Revoke, Go, Goes, Released, Finish, AfterRefs, AttachAt
  <2>3. \A u \in Actors : ~Saving(u)
    BY <2>2 DEF MaySaveAcls, Saving
  <2>4. \A u \in Actors : Saving(u)' => u = t
    BY <1>0, <2>3 DEF OnlyMoves, Saving
  <2> QED
    BY <1>2, <2>2, <2>4 DEF Saved, Saving
<1>3. CASE ~WriteAcl(t) /\ pc'[t] # "writeAcl"
  <2>1. pc[t] # "writeAcl"
    BY <1>0, <1>3, Constants DEF Acts, Step, Probe, BeginWrite, Begin, Abandon, PutBytes, Grant, Store,
       SyncRefs, Release, Revoke, Collect, DeleteBlob, Reclaim, Recheck, Forget, Sweep, At, Types, ControlOK,
       AttachAt
  <2>2. acl' = acl
    BY <1>0, <1>3 DEF Acts, Step, Probe, BeginWrite, Abandon, PutBytes, Grant, Store, SyncRefs,
       Release, Revoke, Collect, DeleteBlob, Reclaim, Recheck, Forget, Sweep, rights, Go, Goes,
       Released, Finish, AfterRefs
  <2>3. aclFile' = aclFile
    BY <1>3 DEF Acts, Step, Probe, BeginWrite, Abandon, PutBytes, Grant, Store, SyncRefs,
       Release, Revoke, Collect, DeleteBlob, Reclaim, Recheck, Forget, Sweep, rights
  <2>4. \A u \in Actors : Saving(u)' <=> Saving(u)
    BY <1>0, <1>3, <2>1 DEF OnlyMoves, Saving
  <2>5. \A u \in Actors : Saving(u) => buf'[u] = buf[u]
    BY <1>0, <2>1 DEF OnlyMoves, Saving
  <2> QED
    BY <2>2, <2>3, <2>4, <2>5 DEF Saved
<1> QED
  BY <1>1, <1>2, <1>3

-----------------------------------------------------------------------------
(* The ledgers: what a workspace has at stake is in its ledger, or on its way  *)
(* there, so that a lost volume comes back with grants that are backed.        *)

\* A workspace that has not been recovered: its ledger speaks of it alone.
Lost(w) ==
    /\ deletes[w] = 0 /\ orphan[w] = "no" /\ w \notin dirty
    /\ \A t \in Actors : w \notin todo[t]
    /\ ledger[w].acl => w \in bytes
    /\ ledger[w].there \/ Using(w) = {}

AllLost == \A w \in Workspaces \ known : Lost(w)

\* A call that has changed grants or references of w tells the ledger at its end.
Unsettled(w) == \E t \in Tasks : Ws(t) = w /\ pc[t] \in {"release", "revoke", "writeAcl", "gc"}

Mirrored == mode.objects =>
    \A w \in known : w \in dirty \/ Unsettled(w) \/ (ledger[w].acl = TRUE <=> w \in acl)

\* An upload that is over but for the document.
Relies(u) == job[u].to = "using" /\ pc[u] \in {"store", "sync", "writeAcl"}

AtStake(w) == w \in acl \/ Using(w) # {} \/ \E u \in Tasks : Relies(u) /\ Ws(u) = w
Noted == mode.objects =>
    \A w \in known : AtStake(w) => ledger[w].there \/ w \in dirty \/ Unsettled(w)

\* What an actor does to references and bodies.
LEMMA DocActs ==
    ASSUME NEW t \in Actors, Acts(t)
    PROVE  /\ refs' = refs \/ (SyncRefs(t) /\ refs' = SyncedRefs(t))
           /\ \/ body' = body /\ cold' = cold
              \/ /\ Store(t) /\ body' = [body EXCEPT ![job[t].doc] = job[t].to]
                 /\ cold' = cold \ {job[t].doc}
  BY DEF Acts, Step, Probe, BeginWrite, Abandon, PutBytes, Grant, WriteAcl, Store, SyncRefs,
     Release, Revoke, Collect, DeleteBlob, Reclaim, Recheck, Forget, Sweep, stored, rights, mirror

\* What an actor does to ledgers and what is to be mirrored.
LEMMA MirrorActs ==
    ASSUME NEW t \in Actors, Acts(t)
    PROVE  /\ ledger' = ledger /\ known' = known
           /\ dirty' = dirty \/ Mark(Ws(t))
<1> USE DEF mirror
<1>1. CASE WriteAcl(t) \/ SyncRefs(t) \/ Release(t) \/ Revoke(t) \/ Collect(t) \/ DeleteBlob(t)
  BY <1>1 DEF WriteAcl, SyncRefs, Release, Revoke, Collect, DeleteBlob, Goes, Released
<1>2. CASE ~(WriteAcl(t) \/ SyncRefs(t) \/ Release(t) \/ Revoke(t) \/ Collect(t) \/ DeleteBlob(t))
  BY <1>2 DEF Acts, Step, Probe, BeginWrite, Abandon, PutBytes, Grant, Store, Reclaim,
     Recheck, Forget, Sweep
<1> QED
  BY <1>1, <1>2

\* How an actor comes to rely on a grant.
LEMMA RelyingGrow ==
    ASSUME Types, Points, NEW t \in Tasks, Acts(t), Relies(t)'
    PROVE  \/ Relies(t) /\ Ws(t)' = Ws(t) /\ ~Grant(t) /\ ~Revoke(t)
           \/ Grant(t) /\ Past(t) /\ Ws(t)' = Ws(t)
           \/ \E d \in Docs : /\ Probe(t, d) /\ Ws(t)' = Owner[d] /\ Owner[d] \in acl
                              /\ MayRely(Owner[d])
<1>0. /\ PointOK(t) /\ mode' = mode /\ t \in Actors
      /\ pc \in [Actors -> Spots] /\ job \in [Actors -> JobSet]
  BY Others, Constants DEF Points, Types, ControlOK, OnlyMoves
<1> USE DEF Relies, At, Go, control
<1>1. CASE \E d \in Docs : Probe(t, d)
  <2>1. PICK d \in Docs : Probe(t, d)
    BY <1>1
  <2>2. /\ Ws(t)' = Owner[d] /\ pc'[t] \in {"store", "sync"}
        /\ Exists(Owner[d]) /\ MayRely(Owner[d])
    BY <1>0, <2>1 DEF Probe, Begin, Ws, Owner, AttachAt
  <2> QED
    BY <2>1, <2>2 DEF Exists
<1>2. CASE Grant(t)
  BY <1>0, <1>2 DEF Grant, Past, PointOK, Ws, Owner
<1>3. CASE WriteAcl(t) \/ Store(t) \/ SyncRefs(t)
  BY <1>0, <1>3, NoJobOK DEF WriteAcl, Store, SyncRefs, Finish, Released, Goes, AfterRefs, Grant,
     Revoke, AfterAcls, AttachAt, Ws, Owner
<1>4. CASE ~(WriteAcl(t) \/ Store(t) \/ SyncRefs(t) \/ Grant(t) \/ \E d \in Docs : Probe(t, d))
  <2>1. job'[t].to # "using" \/ pc'[t] \notin {"store", "sync", "writeAcl"}
    BY <1>0, <1>4, NoJobOK, Constants DEF Acts, Step, BeginWrite, Begin, Abandon, PutBytes,
       Release, Revoke, Collect, DeleteBlob, Reclaim, Recheck, AfterReclaim, Forget, Goes, Released,
       Finish, AfterRefs, PointOK, Holding, Reclaiming, Sweep, AttachAt
  <2> QED
    BY <2>1
<1> QED
  BY <1>1, <1>2, <1>3, <1>4

LEMMA LostActs ==
    ASSUME Separately, Types, Points, AllLost, NEW t \in Actors, Acts(t)
    PROVE  AllLost'
<1>0. /\ OnlyMoves(t) /\ mode' = mode /\ ledger' = ledger /\ known' = known /\ PointOK(t)'
      /\ PointOK(t) /\ Owner' = Owner /\ (t \in Tasks \/ t = Sweeper)
      /\ deletes \in [Workspaces -> Nat] /\ orphan \in [Places -> {"no", "waiting", "due"}]
      /\ todo \in [Actors -> SUBSET Places] /\ pc[Sweeper] \notin {"gc", "grant", "store"}
      /\ Ws(t) \in Workspaces /\ body \in [Docs -> Uses] /\ job[t].doc \in Docs
      /\ (mode.objects => Place(Ws(t)) = Ws(t))
  BY Others, MirrorActs, PointActs, WsOK DEF OnlyMoves, Types, RemovalOK, ControlOK, StoredOK, Owner,
     Actors, Points
<1>1. ASSUME NEW w \in Workspaces \ known PROVE Lost(w)'
  <2>0. Lost(w) /\ mode.objects /\ w # Shared /\ w \in Places
    BY Constants DEF AllLost, Points, SharedOK
  <2>1. t \in Tasks /\ pc[t] # "idle" => Ws(t) # w
    BY <1>0 DEF PointOK, Separately
  <2>2. deletes'[w] = 0
    <3>1. CASE Collect(t)
      BY <1>0, <2>0, <2>1, <3>1 DEF Collect, At, Lost
    <3>2. CASE Recheck(t)
      <4>1. Handled(t) \in todo[t]
        BY <1>0, <3>2, HandledOK DEF Recheck, At, PointOK, Holding, Reclaiming
      <4> QED
        BY <1>0, <2>0, <3>2, <4>1 DEF Recheck, Lost
    <3> QED
      BY <2>0, <3>1, <3>2, RemovalActs DEF Lost
  <2>3. orphan'[w] = "no"
    <3>1. CASE Collect(t)
      BY <1>0, <2>0, <2>1, <3>1 DEF Collect, At, Lost
    <3>2. CASE Forget(t) \/ Grant(t)
      BY <1>0, <2>0, <3>2 DEF Forget, Grant, Lost
    <3>3. CASE ~(Collect(t) \/ Forget(t) \/ Grant(t))
      BY <2>0, <3>3 DEF Acts, Step, Probe, BeginWrite, Abandon, PutBytes, WriteAcl, Store, SyncRefs,
         Release, Revoke, DeleteBlob, Reclaim, Recheck, Sweep, removal, Lost
    <3> QED
      BY <3>1, <3>2, <3>3
  <2>4. ASSUME NEW x \in Actors PROVE w \notin todo'[x]
    <3>1. CASE x = t
      <4>1. CASE Reclaim(t)
        BY <1>0, <2>0, <3>1, <4>1 DEF Reclaim, Due, Lost
      <4>2. CASE Forget(t)
        BY <1>0, <2>0, <3>1, <4>2 DEF Forget, Lost
      <4>3. CASE ~(Reclaim(t) \/ Forget(t))
        BY <2>0, <4>3 DEF Acts, Step, Probe, BeginWrite, Abandon, PutBytes, Grant, WriteAcl, Store,
           SyncRefs, Release, Revoke, Collect, DeleteBlob, Recheck, Sweep, Lost
      <4> QED
        BY <4>1, <4>2, <4>3
    <3> QED
      BY <1>0, <2>0, <3>1 DEF OnlyMoves, Lost
  <2>5. w \notin dirty'
    <3>1. dirty' # dirty => t \in Tasks /\ pc[t] # "idle"
      <4>1. CASE t \in Tasks
        BY <1>0, <4>1 DEF Acts, Step, Probe, BeginWrite, Begin, Abandon, PutBytes, Grant, WriteAcl, Store,
           SyncRefs, Release, Revoke, Collect, DeleteBlob, Reclaim, Recheck, Forget, Sweep, At, mirror
      <4>2. CASE t = Sweeper
        <5>1. pc[t] \in {"idle", "reclaim", "recheck", "drop", "forget"} /\ (pc[t] = "drop" => FALSE)
          BY <1>0, <2>0, <4>2 DEF Types, ControlOK, PointOK
        <5> QED
          BY <5>1, <4>2, Constants DEF Acts, Step, PutBytes, Grant, WriteAcl, Store, SyncRefs,
             Release, Revoke, Collect, DeleteBlob, Reclaim, Recheck, Forget, Sweep, At, mirror
      <4> QED
        BY <1>0, <4>1, <4>2
    <3> QED
      BY <2>0, <2>1, <3>1, MirrorActs DEF Mark, Lost
  <2>6. w \in bytes => w \in bytes'
    BY <2>0, RemovalActs
  <2>7. ASSUME NEW d \in Docs, Owner[d] = w
        PROVE  body'[d] = body[d]
    <3>1. Store(t) => t \in Tasks /\ pc[t] = "store"
      BY <1>0 DEF Store, At
    <3>2. Store(t) => job[t].doc # d
      BY <2>1, <2>7, <3>1 DEF Ws
    <3> QED
      BY <1>0, <3>2, DocActs
  <2>8. Using(w)' = Using(w)
    BY <1>0, <2>7 DEF Using
  <2> QED
    BY <1>0, <2>0, <2>2, <2>3, <2>4, <2>5, <2>6, <2>7, <2>8 DEF Lost
<1> QED
  BY <1>0, <1>1 DEF AllLost

\* What a call has yet to tell the ledger is told, or still to be told.
LEMMA UnsettledActs ==
    ASSUME Types, Points, mode.objects, NEW t \in Actors, Acts(t), NEW w,
           w \in dirty \/ Unsettled(w)
    PROVE  w \in dirty' \/ Unsettled(w)'
<1>0. /\ OnlyMoves(t) /\ mode' = mode /\ PointOK(t) /\ Owner' = Owner
      /\ pc \in [Actors -> Spots] /\ job \in [Actors -> JobSet]
  BY Others DEF OnlyMoves, Types, ControlOK, Owner, Points
<1>1. dirty \subseteq dirty'
  BY MirrorActs DEF Mark
<1>2. ASSUME NEW x \in Tasks, Ws(x) = w, x # t, pc[x] \in {"release", "revoke", "writeAcl", "gc"}
      PROVE  Unsettled(w)'
  BY <1>0, <1>2, Constants DEF OnlyMoves, Unsettled, Ws
<1>3. ASSUME t \in Tasks, Ws(t) = w, pc[t] \in {"release", "revoke", "writeAcl", "gc"}
      PROVE  w \in dirty' \/ Unsettled(w)'
  <2>1. CASE WriteAcl(t)
    BY <1>3, <2>1 DEF WriteAcl, Mark
  <2>2. CASE Release(t) \/ Revoke(t) \/ Collect(t)
    <3>1. Mark(Ws(t)) \/ (job' = job /\ pc'[t] \in {"release", "revoke", "writeAcl", "gc"})
      BY <1>0, <2>2 DEF Release, Revoke, Collect, Released, Goes, Go
    <3> QED
      BY <1>0, <1>3, <3>1 DEF Mark, Unsettled, Ws
  <2>3. Release(t) \/ Revoke(t) \/ Collect(t) \/ WriteAcl(t)
    BY <1>3, Constants DEF Acts, Step, Probe, BeginWrite, Begin, Abandon, PutBytes, Grant,
       Store, SyncRefs, DeleteBlob, Reclaim, Recheck, Forget, Sweep, At, AttachAt
  <2> QED
    BY <2>1, <2>2, <2>3
<1> QED
  BY <1>1, <1>2, <1>3 DEF Unsettled

LEMMA MirroredActs ==
    ASSUME Types, Points, Grants, Mirrored, NEW t \in Actors, Acts(t)
    PROVE  Mirrored'
<1>0. /\ OnlyMoves(t) /\ mode' = mode /\ ledger' = ledger /\ known' = known /\ Owner' = Owner
      /\ GrantIsBacked /\ pc \in [Actors -> Spots]
  BY Others, MirrorActs DEF OnlyMoves, Types, ControlOK, Owner, Grants
<1> SUFFICES ASSUME mode.objects, NEW w \in known, w \in acl' <=> ~(w \in acl)
             PROVE  Unsettled(w)'
  BY <1>0, UnsettledActs DEF Mirrored
<1>1. CASE Grant(t)
  <2>1. /\ acl' = acl \union {Ws(t)} /\ job' = job /\ t \in Tasks
        /\ pc'[t] = "store" => Ws(t) \in acl
        /\ pc'[t] \in {"store", "writeAcl"}
    BY <1>0, <1>1, GrantPast DEF Grant, Go
  <2> QED
    BY <1>0, <2>1 DEF Unsettled, Ws
<1>2. CASE Revoke(t)
  <2>1. acl' # acl => (acl' = acl \ {Ws(t)} /\ pc'[t] = "writeAcl" /\ job' = job)
    BY <1>0, <1>2, AclActs DEF Revoke, Goes, Go, Grant, At
  <2>2. t \in Tasks
    BY <1>2, Constants DEF Revoke, At, Types, ControlOK, Actors
  <2> QED
    BY <1>0, <2>1, <2>2 DEF Unsettled, Ws
<1> QED
  BY <1>1, <1>2, AclActs

LEMMA NotedActs ==
    ASSUME Types, Points, Grants, Noted, NEW t \in Actors, Acts(t)
    PROVE  Noted'
<1>0. /\ OnlyMoves(t) /\ mode' = mode /\ ledger' = ledger /\ known' = known /\ Owner' = Owner
      /\ GrantIsBacked /\ pc \in [Actors -> Spots] /\ body \in [Docs -> Uses]
      /\ \A u \in Tasks \ {t} : /\ u \in Actors /\ Relies(u)' = Relies(u) /\ Ws(u)' = Ws(u)
  BY Others, MirrorActs, Constants
     DEF OnlyMoves, Types, ControlOK, StoredOK, Owner, Grants, Relies, Ws
<1> SUFFICES ASSUME mode.objects, NEW w \in known, AtStake(w)',
                    ~(ledger[w].there \/ w \in dirty \/ Unsettled(w))
             PROVE  Unsettled(w)'
  BY <1>0, UnsettledActs DEF Noted
<1>1. w \notin acl /\ Using(w) = {} /\ \A u \in Tasks : ~(Relies(u) /\ Ws(u) = w)
  BY <1>0 DEF Noted, AtStake
<1>2. ASSUME Grant(t), Ws(t) = w PROVE Unsettled(w)'
  <2>1. job' = job /\ t \in Tasks /\ pc'[t] = "writeAcl"
    BY <1>0, <1>1, <1>2, GrantPast DEF Grant, Go
  <2> QED
    BY <1>0, <1>2, <2>1 DEF Unsettled, Ws
<1>3. w \in acl' => Grant(t) /\ Ws(t) = w
  BY <1>1, AclActs
<1>4. Using(w)' = {}
  <2>1. ASSUME NEW d \in Docs, Owner[d] = w, body'[d] = "using", body[d] # "using"
        PROVE  t \in Tasks /\ Relies(t) /\ Ws(t) = w
    <3>1. Store(t) /\ job[t].doc = d /\ job[t].to = "using"
      BY <1>0, <2>1, DocActs
    <3>2. pc[t] = "store" /\ t \in Tasks
      BY <3>1, Constants DEF Store, At, Types, ControlOK, Actors
    <3> QED
      BY <2>1, <3>1, <3>2 DEF Relies, Ws, Points, PointOK
  <2> QED
    BY <1>0, <1>1, <2>1 DEF Using
<1>5. ASSUME NEW u \in Tasks, Relies(u)', Ws(u)' = w PROVE Grant(t) /\ Ws(t) = w
  <2>1. u = t
    BY <1>0, <1>1, <1>5
  <2>2. CASE Grant(t) /\ Ws(t)' = Ws(t)
    BY <1>5, <2>1, <2>2
  <2>3. CASE \E d \in Docs : Ws(t)' = Owner[d] /\ Owner[d] \in acl
    BY <1>1, <1>5, <2>1, <2>3
  <2> QED
    BY <1>1, <1>5, <2>1, <2>2, <2>3, RelyingGrow
<1> QED
  BY <1>2, <1>3, <1>4, <1>5 DEF AtStake

-----------------------------------------------------------------------------
(* What holds as long as uploads and removals keep apart and no stop comes    *)
(* between the writes that a start goes by.                                   *)

\* The relay stops, if it does, with blob_acl.json and the ledgers written.
CleanStops == MaxRestarts = 0 \/ Coincide \intersect {"saveSave", "crash"} = {}

Backed == /\ Points /\ Apart /\ Grants /\ AllLost /\ Mirrored /\ Noted
          /\ "saveSave" \notin Coincide => Saved

LEMMA BackedActs ==
    ASSUME Separately, Types, Backed, NEW t \in Actors, Acts(t)
    PROVE  Backed'
<1>1. Points' /\ Apart'
  BY PointsStep, ApartStep, NextCases DEF Backed
<1>2. Grants' /\ AllLost' /\ Mirrored' /\ Noted'
  BY GrantsActs, LostActs, MirroredActs, NotedActs DEF Backed
<1>3. "saveSave" \notin Coincide => Saved'
  BY SavedActs DEF Backed
<1> QED
  BY <1>1, <1>2, <1>3 DEF Backed

\* Whoever acts speaks of what has not changed.
LEMMA Unmoved ==
    ASSUME UNCHANGED <<mode, control>>
    PROVE  /\ Owner' = Owner
           /\ \A t : /\ Ws(t)' = Ws(t) /\ Place(Ws(t))' = Place(Ws(t))
                     /\ Releasing(t)' = Releasing(t) /\ Relies(t)' = Relies(t)
                     /\ Saving(t)' = Saving(t)
           /\ \A w : Place(w)' = Place(w) /\ Unsettled(w)' = Unsettled(w)
  BY DEF control, Owner, Ws, Place, Releasing, Relies, Saving, Unsettled

\* What leaves all actors where they are, but for a recovery.
LEMMA AmbientActs ==
    ASSUME Ambient, ~\E w \in Workspaces : Recover(w)
    PROVE  /\ UNCHANGED <<mode, control, acl, aclFile, body, known>>
           /\ index' = index \/ (index' = "old" /\ index # "none")
  BY DEF Ambient, AgeIndex, AgeOrphan, DeleteObject, MirrorLedger, Reopen, rights, stored,
     mirror, control

LEMMA AmbientBacked ==
    ASSUME Separately, Types, Backed, Ambient, ~\E w \in Workspaces : Recover(w)
    PROVE  Backed'
<1>0. /\ UNCHANGED <<mode, control, acl, aclFile, body, known>>
      /\ index' = index \/ (index' = "old" /\ index # "none")
  BY AmbientActs
<1>u. /\ Owner' = Owner /\ acl' = acl /\ aclFile' = aclFile /\ known' = known
      /\ pc' = pc /\ job' = job /\ buf' = buf /\ todo' = todo /\ mode' = mode /\ body' = body
      /\ deletes \in [Workspaces -> Nat]
      /\ ledger \in [Workspaces -> Ledger]
      /\ orphan \in [Places -> {"no", "waiting", "due"}]
  BY <1>0 DEF control, Owner, Types, RemovalOK, MirrorOK
<1>1. Points' /\ Apart'
  BY PointsStep, ApartStep, NextCases DEF Backed
<1>2. "saveSave" \notin Coincide => Saved'
  BY <1>u, <1>0, Unmoved DEF Backed, Saved, Saving
<1>d. \A w \in Workspaces : deletes'[w] > 0 => deletes[w] > 0
  <2>1. CASE \E w \in Workspaces : DeleteObject(w)
    BY <1>u, <2>1 DEF DeleteObject
  <2>2. CASE ~\E w \in Workspaces : DeleteObject(w)
    BY <2>2 DEF Ambient, AgeIndex, AgeOrphan, MirrorLedger, Recover, Reopen, removal
  <2> QED
    BY <2>1, <2>2
<1>b. \A v \in Workspaces : deletes[v] = 0 => deletes'[v] = 0 /\ (v \in bytes => v \in bytes')
  <2>1. CASE \E w \in Workspaces : DeleteObject(w)
    <3>1. PICK w \in Workspaces : DeleteObject(w)
      BY <2>1
    <3> QED
      BY <1>u, <3>1 DEF DeleteObject
  <2>2. CASE ~\E w \in Workspaces : DeleteObject(w)
    BY <2>2 DEF Ambient, AgeIndex, AgeOrphan, MirrorLedger, Recover, Reopen, removal, stored
  <2> QED
    BY <2>1, <2>2
<1>c. Shared \in bytes => Shared \in bytes'
  BY Constants DEF Ambient, AgeIndex, AgeOrphan, DeleteObject, MirrorLedger, Recover, Reopen, stored
<1>3. Grants'
  <2>1. GrantIsBacked'
    <3> SUFFICES ASSUME NEW w \in acl
                 PROVE  index' # "none" /\ Place(w)' \in bytes'
      BY <1>u DEF GrantIsBacked
    <3>1. /\ index # "none" /\ Place(w) \in bytes /\ w \in Workspaces /\ ~(deletes[w] > 0)
          /\ Place(w)' = Place(w)
      BY <1>u DEF Backed, Grants, GrantIsBacked, Types, RightsOK, Place
    <3>2. deletes[w] = 0
      BY <1>u, <3>1
    <3> QED
      BY <1>0, <1>b, <1>c, <3>1, <3>2 DEF Place
  <2>2. \A t \in Actors : ReleaseOK(t)'
    BY <1>u, <1>0, Unmoved DEF Backed, Grants, ReleaseOK, Spared, Ws
  <2> QED
    BY <1>u, <1>d, <2>1, <2>2 DEF Backed, Grants
<1>4. AllLost'
  <2>1. ASSUME NEW v \in Workspaces \ known PROVE Lost(v)'
    <3>1. Lost(v)
      BY DEF Backed, AllLost
    <3>2. orphan'[v] = "no"
      <4>1. CASE \E p \in Places : AgeOrphan(p)
        BY <1>u, <3>1, <4>1 DEF AgeOrphan, Lost
      <4>2. CASE ~\E p \in Places : AgeOrphan(p)
        BY <3>1, <4>2 DEF Ambient, AgeIndex, DeleteObject, MirrorLedger, Recover, Reopen, removal, Lost
      <4> QED
        BY <4>1, <4>2
    <3>3. v \notin dirty' /\ ledger'[v] = ledger[v]
      BY <1>u, <3>1 DEF Ambient, AgeIndex, AgeOrphan, DeleteObject, MirrorLedger, Recover, Reopen,
         mirror, Lost
    <3>4. Using(v)' = Using(v)
      BY <1>u DEF Using
    <3> QED
      BY <1>u, <1>b, <3>1, <3>2, <3>3, <3>4 DEF Lost
  <2> QED
    BY <1>u, <2>1 DEF AllLost
<1>5. ASSUME mode.objects, NEW w \in known, ~MirrorLedger(w)
      PROVE  ledger'[w] = ledger[w] /\ (w \in dirty => w \in dirty')
  BY <1>u, <1>5 DEF Ambient, AgeIndex, AgeOrphan, DeleteObject, MirrorLedger, Recover,
     Reopen, mirror, Types, MirrorOK
<1>6. ASSUME NEW w \in known, MirrorLedger(w)
      PROVE  ledger'[w].there = TRUE /\ (ledger'[w].acl = TRUE <=> w \in acl)
  <2>1. w \in Workspaces
    BY DEF Types, MirrorOK
  <2> QED
    BY <1>u, <1>6, <2>1 DEF MirrorLedger, LedgerOf
<1>7. Mirrored'
  <2> SUFFICES ASSUME mode.objects, NEW w \in known
               PROVE  w \in dirty' \/ Unsettled(w)' \/ (ledger'[w].acl = TRUE <=> w \in acl)
    BY <1>u DEF Mirrored
  <2>1. w \in dirty \/ Unsettled(w) \/ (ledger[w].acl = TRUE <=> w \in acl)
    BY DEF Backed, Mirrored
  <2>2. Unsettled(w)' = Unsettled(w)
    BY <1>0, Unmoved
  <2> QED
    BY <1>5, <1>6, <2>1, <2>2
<1>8. Noted'
  <2> SUFFICES ASSUME mode.objects, NEW w \in known, AtStake(w)
               PROVE  ledger'[w].there \/ w \in dirty' \/ Unsettled(w)'
    <3>1. ASSUME NEW w PROVE AtStake(w)' <=> AtStake(w)
      BY <1>0, <1>u, Unmoved DEF AtStake, Using
    <3> QED
      BY <1>u, <3>1 DEF Noted
  <2>1. ledger[w].there \/ w \in dirty \/ Unsettled(w)
    BY DEF Backed, Noted
  <2>2. Unsettled(w)' = Unsettled(w)
    BY <1>0, Unmoved
  <2> QED
    BY <1>5, <1>6, <2>1, <2>2
<1> QED
  BY <1>1, <1>2, <1>3, <1>4, <1>7, <1>8 DEF Backed

\* A workspace that is recovered gets back no grant whose bytes are gone.
LEMMA Recovered ==
    ASSUME Separately, Types, Backed, NEW w \in Workspaces, Recover(w)
    PROVE  /\ w \notin known /\ known' = known \union {w} /\ mode.objects /\ Lost(w) /\ w \notin acl
           /\ acl' = acl \/ (acl' = acl \union {w} /\ w \in bytes /\ index' # "none")
           /\ (ledger[w].acl = TRUE <=> w \in acl') \/ w \in dirty'
           /\ ledger[w].there \/ w \in dirty'
           /\ dirty \subseteq dirty' /\ dirty' \subseteq dirty \union {w}
           /\ index # "none" => index' = index
           /\ ledger' = ledger /\ cold' = cold /\ body' = body /\ bytes' = bytes
           /\ UNCHANGED <<mode, control, removal>> /\ aclFile' = acl' /\ MaySaveAcls
<1> DEFINE found == IF ledger[w].there THEN ledger[w]
                    ELSE [there |-> TRUE, acl |-> Using(w) # {}, refs |-> Using(w)]
<1>1. w \notin known /\ mode.objects /\ Lost(w)
  BY DEF Recover, Backed, Points, SharedOK, AllLost
<1>2. w \notin acl
  BY <1>1 DEF Backed, Grants
<1>3. ledger[w].acl \in BOOLEAN
  BY DEF Types, MirrorOK, Ledger
<1>4. /\ ledger[w].there => (found.acl = TRUE <=> ledger[w].acl)
      /\ found.acl => w \in bytes
  BY <1>1, <1>3 DEF Lost
<1>5. /\ acl' = IF found.acl THEN acl \union {w} ELSE acl
      /\ aclFile' = acl' /\ known' = known \union {w}
      /\ (IF found.acl /\ index = "none" THEN index' \in {"fresh", "old"} ELSE UNCHANGED index)
      /\ (IF ledger[w].there THEN UNCHANGED dirty ELSE Mark(w))
      /\ ledger' = ledger /\ cold' = cold /\ body' = body /\ bytes' = bytes
      /\ UNCHANGED <<mode, control, removal>> /\ MaySaveAcls
  BY DEF Recover, Load, Separately
<1> HIDE DEF found
<1> QED
  BY <1>1, <1>2, <1>3, <1>4, <1>5 DEF Mark

LEMMA RecoverBacked ==
    ASSUME Separately, Types, Backed, NEW w \in Workspaces, Recover(w)
    PROVE  Backed'
<1>r. /\ w \notin known /\ known' = known \union {w} /\ mode.objects /\ Lost(w) /\ w \notin acl
      /\ acl' = acl \/ (acl' = acl \union {w} /\ w \in bytes /\ index' # "none")
      /\ (ledger[w].acl = TRUE <=> w \in acl') \/ w \in dirty'
      /\ ledger[w].there \/ w \in dirty'
      /\ dirty \subseteq dirty' /\ dirty' \subseteq dirty \union {w}
      /\ index # "none" => index' = index
      /\ ledger' = ledger /\ cold' = cold /\ body' = body /\ bytes' = bytes
      /\ UNCHANGED <<mode, control, removal>> /\ aclFile' = acl' /\ MaySaveAcls
  BY Recovered
<1>u. /\ Owner' = Owner /\ pc' = pc /\ job' = job /\ buf' = buf /\ todo' = todo /\ mode' = mode
      /\ deletes' = deletes /\ orphan' = orphan
      /\ pc[Sweeper] \in {"idle", "reclaim", "recheck", "drop", "forget"}
  BY <1>r DEF control, removal, Owner, Types, ControlOK
<1>w. /\ \A t \in Tasks : pc[t] # "idle" => Ws(t) # w
      /\ \A t \in Actors : pc[t] # "drop"
      /\ \A t : Ws(t)' = Ws(t)
  BY <1>r, <1>u, Constants DEF Backed, Points, PointOK, Ws, Separately
<1>1. Points' /\ Apart'
  BY PointsStep, ApartStep, NextCases DEF Backed, Ambient
<1>2. "saveSave" \notin Coincide => Saved'
  BY <1>r, <1>u DEF Backed, Saved, Saving, MaySaveAcls
<1>3. Grants'
  <2>1. GrantIsBacked'
    BY <1>r DEF Backed, Grants, GrantIsBacked, Place
  <2>2. ASSUME NEW t \in Actors PROVE ReleaseOK(t)'
    <3>1. CASE t \in Tasks
      <4>1. ReleaseOK(t)
        BY DEF Backed, Grants
      <4>2. pc[t] # "idle" => (Ws(t) \in acl' => Ws(t) \in acl)
        BY <1>r, <1>w, <3>1
      <4>3. Ws(t) \in acl => Spared' = Spared
        BY <1>r, <1>u DEF Backed, Grants, GrantIsBacked, Spared
      <4> QED
        BY <1>u, <1>w, <4>1, <4>2, <4>3 DEF ReleaseOK
    <3>2. CASE t = Sweeper
      BY <1>u, <1>w, <3>2 DEF ReleaseOK
    <3> QED
      BY <3>1, <3>2 DEF Actors
  <2> QED
    BY <1>r, <1>u, <2>1, <2>2 DEF Backed, Grants, Lost
<1>4. AllLost'
  <2>1. ASSUME NEW v \in Workspaces \ known' PROVE Lost(v)'
    <3>1. Lost(v) /\ v # w
      BY <1>r DEF Backed, AllLost
    <3> QED
      BY <1>r, <1>u, <3>1 DEF Lost, Using
  <2> QED
    BY <1>r, <2>1 DEF AllLost
<1>s. \A v : Unsettled(v)' = Unsettled(v)
  BY <1>r, Unmoved
<1>5. Mirrored'
  <2> SUFFICES ASSUME NEW v \in known'
               PROVE  v \in dirty' \/ Unsettled(v)' \/ (ledger'[v].acl = TRUE <=> v \in acl')
    BY DEF Mirrored
  <2>1. CASE v = w
    BY <1>r, <2>1
  <2>2. CASE v # w
    <3>1. v \in known /\ (v \in dirty \/ Unsettled(v) \/ (ledger[v].acl = TRUE <=> v \in acl))
      BY <1>r, <2>2 DEF Backed, Mirrored
    <3> QED
      BY <1>r, <1>s, <2>2, <3>1
  <2> QED
    BY <2>1, <2>2
<1>6. Noted'
  <2> SUFFICES ASSUME NEW v \in known', v # w, AtStake(v)'
               PROVE  ledger'[v].there \/ v \in dirty' \/ Unsettled(v)'
    BY <1>r DEF Noted
  <2>1. AtStake(v)
    BY <1>r, <1>u, <1>w, Unmoved DEF AtStake, Using
  <2>2. ledger[v].there \/ v \in dirty \/ Unsettled(v)
    BY <1>r, <2>1 DEF Backed, Noted
  <2> QED
    BY <1>r, <1>s, <2>2
<1> QED
  BY <1>1, <1>2, <1>3, <1>4, <1>5, <1>6 DEF Backed

\* A relay that stops cleanly leaves its files and ledgers in order.
LEMMA StopClean ==
    ASSUME CleanStops, Types, Backed, Stop
    PROVE  /\ dirty = {} /\ aclFile = acl
           /\ mode.objects => \A w \in known : /\ ledger[w].acl = TRUE <=> w \in acl
                                               /\ AtStake(w) => ledger[w].there
           /\ \A t \in Tasks : ~HalfDone(t)
<1>1. "saveSave" \notin Coincide /\ "crash" \notin Coincide
  BY BoundsAssumption DEF Stop, CleanStops, Types, ControlOK
<1>2. dirty = {} /\ \A t \in Tasks : ~HalfDone(t)
  BY <1>1 DEF Stop, MayStop
<1>3. \A t \in Tasks : pc[t] \notin {"sync", "release", "revoke", "writeAcl", "gc"}
  BY <1>2 DEF HalfDone, ReleasePoints
<1>4. aclFile = acl
  BY <1>1, <1>3 DEF Backed, Saved, Saving, Types, ControlOK, Actors
<1>5. \A w : ~Unsettled(w)
  BY <1>3 DEF Unsettled
<1> QED
  BY <1>2, <1>4, <1>5 DEF Backed, Mirrored, Noted

LEMMA Stopped ==
    ASSUME Stop
    PROVE  \A t \in Actors : /\ pc'[t] = "idle" /\ job'[t] = NoJob /\ ~Saving(t)'
                             /\ todo'[t] = {} /\ ~Releasing(t)' /\ ~Relies(t)'
  BY NoJobOK DEF Stop, Saving, Releasing, ReleasePoints, Relies

LEMMA RestartBacked ==
    ASSUME Separately, CleanStops, Types, Backed, Restart
    PROVE  Backed'
<1> DEFINE gone == IF mode.objects THEN Swept
                   ELSE IF Swept # {} /\ acl' = {} THEN {Shared} ELSE {}
<1>1. Stop
  BY DEF Restart
<1>2. /\ dirty = {} /\ aclFile = acl
      /\ mode.objects => \A w \in known : /\ ledger[w].acl = TRUE <=> w \in acl
                                          /\ AtStake(w) => ledger[w].there
  BY <1>1, StopClean
<1>3. /\ acl' = aclFile \ Swept /\ aclFile' = acl'
      /\ orphan' = [p \in Places |-> IF mode.grace /\ p \in gone THEN "waiting" ELSE "no"]
      /\ deletes' = [w \in Workspaces |-> IF w \in gone /\ ~mode.grace THEN 1 ELSE 0]
      /\ bytes' = IF mode.grace THEN bytes ELSE bytes \ (gone \ Workspaces)
      /\ index' = IF gone # {} /\ acl' = {} /\ ~mode.grace THEN "none" ELSE index
      /\ dirty' = (IF mode.objects THEN Swept ELSE {})
      /\ mode' = mode /\ body' = body /\ ledger' = ledger /\ known' = known /\ Owner' = Owner
  BY DEF Restart, Owner
<1>4. Swept \subseteq acl /\ acl \subseteq known /\ known \subseteq Workspaces
  BY <1>2 DEF Swept, Backed, Grants, Types, MirrorOK
<1>5. \A t \in Actors : /\ pc'[t] = "idle" /\ job'[t] = NoJob /\ ~Saving(t)'
                        /\ todo'[t] = {} /\ ~Releasing(t)' /\ ~Relies(t)'
  BY <1>1, Stopped
<1>6. /\ mode.objects => gone = Swept /\ bytes' = bytes
      /\ ~mode.objects => gone \subseteq {Shared} /\ (gone # {} => acl' = {})
  BY <1>3, <1>4
<1> HIDE DEF gone
<1>7. Points' /\ Apart'
  BY PointsStep, ApartStep, NextCases DEF Backed
<1>8. Saved'
  BY <1>3, <1>5 DEF Saved
<1>9. Grants'
  <2>1. GrantIsBacked'
    <3> SUFFICES ASSUME NEW w \in acl'
                 PROVE  index' # "none" /\ Place(w)' \in bytes'
      BY DEF GrantIsBacked
    <3>1. index # "none" /\ Place(w) \in bytes /\ Place(w)' = Place(w)
      BY <1>2, <1>3 DEF Backed, Grants, GrantIsBacked, Place
    <3>2. bytes' = bytes
      BY <1>3, <1>6
    <3> QED
      BY <1>3, <3>1, <3>2
  <2>2. \A w \in Workspaces : deletes'[w] > 0 => w \notin acl'
    BY <1>3, <1>6, Constants
  <2>3. \A t \in Actors : ReleaseOK(t)'
    BY <1>5 DEF ReleaseOK
  <2> QED
    BY <1>2, <1>3, <1>4, <2>1, <2>2, <2>3 DEF Grants
<1>10. AllLost'
  <2>1. ASSUME NEW v \in Workspaces \ known PROVE Lost(v)'
    <3>1. Lost(v) /\ v \notin gone /\ mode.objects
      BY <1>4, <1>6 DEF Backed, AllLost, Points, SharedOK
    <3>2. deletes'[v] = 0 /\ orphan'[v] = "no" /\ v \notin dirty' /\ bytes' = bytes
      BY <1>3, <1>4, <1>6, <3>1, Constants
    <3> QED
      BY <1>3, <1>5, <3>1, <3>2 DEF Lost, Using
  <2> QED
    BY <1>3, <2>1 DEF AllLost
<1>11. Mirrored'
  BY <1>2, <1>3 DEF Mirrored
<1>12. Noted'
  <2> SUFFICES ASSUME mode.objects, NEW w \in known, AtStake(w)' PROVE ledger[w].there
    BY <1>3 DEF Noted
  <2>1. AtStake(w)
    BY <1>2, <1>3, <1>5, Constants DEF AtStake, Using
  <2> QED
    BY <1>2, <2>1
<1> QED
  BY <1>7, <1>8, <1>9, <1>10, <1>11, <1>12 DEF Backed

LEMMA LoseVolumeBacked ==
    ASSUME Separately, CleanStops, Types, Backed, LoseVolume
    PROVE  Backed'
<1>1. Stop /\ mode.objects
  BY DEF LoseVolume
<1>2. \A w \in known : (ledger[w].acl = TRUE <=> w \in acl) /\ (AtStake(w) => ledger[w].there)
  BY <1>1, StopClean
<1>3. /\ acl' = {} /\ aclFile' = {} /\ index' = "none"
      /\ orphan' = [p \in Places |-> "no"] /\ deletes' = [w \in Workspaces |-> 0]
      /\ dirty' = {} /\ known' = {}
      /\ mode' = mode /\ body' = body /\ bytes' = bytes /\ ledger' = ledger /\ Owner' = Owner
  BY DEF LoseVolume, Owner
<1>4. \A t \in Actors : /\ pc'[t] = "idle" /\ job'[t] = NoJob /\ ~Saving(t)'
                        /\ todo'[t] = {} /\ ~Releasing(t)' /\ ~Relies(t)'
  BY <1>1, Stopped
<1>5. Points' /\ Apart'
  BY PointsStep, ApartStep, NextCases DEF Backed
<1>6. Saved' /\ Mirrored' /\ Noted'
  BY <1>3, <1>4 DEF Saved, Mirrored, Noted
<1>7. Grants'
  BY <1>3, <1>4, Constants DEF Grants, GrantIsBacked, ReleaseOK
<1>8. AllLost'
  <2>1. ASSUME NEW v \in Workspaces
        PROVE  (ledger[v].acl => v \in bytes) /\ (ledger[v].there \/ Using(v) = {})
    <3>1. CASE v \in known
      <4>1. ledger[v].acl => v \in acl
        BY <1>2, <3>1 DEF Types, MirrorOK, Ledger
      <4>2. v \in acl => v \in bytes
        BY <1>1 DEF Backed, Grants, GrantIsBacked, Place
      <4> QED
        BY <1>2, <3>1, <4>1, <4>2 DEF AtStake
    <3>2. CASE v \notin known
      BY <3>2 DEF Backed, AllLost, Lost
    <3> QED
      BY <3>1, <3>2
  <2>2. ASSUME NEW v \in Workspaces PROVE Lost(v)'
    BY <1>3, <1>4, <2>1, Constants DEF Lost, Using
  <2> QED
    BY <2>2 DEF AllLost
<1> QED
  BY <1>5, <1>6, <1>7, <1>8 DEF Backed

LEMMA BackedInit == ASSUME Types, Init PROVE Backed
<1>1. /\ \A t \in Actors : /\ pc[t] = "idle" /\ job[t] = NoJob /\ todo[t] = {}
                           /\ ~Saving(t) /\ ~Releasing(t) /\ ~Relies(t)
      /\ ledger = [w \in Workspaces |-> NoLedger] /\ known = Workspaces
  BY NoJobOK DEF Init, Saving, Releasing, ReleasePoints, Relies
<1>2. Points /\ Apart
  BY <1>1, NoJobOK, Constants DEF Init, Points, SharedOK, PointOK, Holding, Reclaiming, Apart, ApartOf, Past
<1>3. Grants
  BY <1>1, Constants DEF Init, Grants, GrantIsBacked, ReleaseOK
<1>4. AllLost /\ Saved /\ Mirrored /\ Noted
  BY <1>1, Constants DEF Init, AllLost, Saved, Mirrored, Noted, AtStake, Using, NoLedger
<1> QED
  BY <1>2, <1>3, <1>4 DEF Backed

LEMMA BackedStep ==
    ASSUME Separately, CleanStops, Types, Backed, [Next]_vars
    PROVE  Backed'
<1>1. CASE UNCHANGED vars
  <2>1. UNCHANGED <<mode, stored, rights, removal, mirror, control>>
    BY <1>1 DEF vars
  <2> QED
    BY <2>1, Unmoved DEF stored, rights, removal, mirror, control, Backed, Points, SharedOK, PointOK,
       Holding, Apart, ApartOf, Past, Removes, Grants, GrantIsBacked, ReleaseOK, Spared,
       Using, AllLost, Lost, Saved, Mirrored, Noted, AtStake
<1>2. CASE Next
  BY <1>2, NextCases, BackedActs, AmbientBacked, RecoverBacked, RestartBacked, LoseVolumeBacked
<1> QED
  BY <1>1, <1>2

LEMMA BackedAlways ==
    ASSUME Separately, CleanStops
    PROVE  Spec => [](Types /\ Backed)
<1>1. Init => Types /\ Backed
  BY TypeInit, BackedInit DEF Types
<1>2. Types /\ Backed /\ [Next]_vars => Types' /\ Backed'
  <2>1. Types /\ [Next]_vars => Types'
    BY TypeStep DEF Types
  <2> QED
    BY <2>1, BackedStep
<1> QED
  BY <1>1, <1>2, PTL DEF Spec

\* What is granted is there and is counted (exists, load_blob, get_workspace_size), even
\* when a client relies on a grant that is being released and when writes of a document
\* overlap; without stops, whatever two calls of save_acls do.
THEOREM GrantsBacked ==
    ASSUME Separately, CleanStops
    PROVE  Spec => []GrantIsBacked
<1>1. Backed => GrantIsBacked
  BY DEF Backed, Grants
<1> QED
  BY <1>1, BackedAlways, PTL

-----------------------------------------------------------------------------
(* Documents: what refs says of a body, and who is about to put it right when *)
(* they differ.  One write of a document at a time, and clean stops.          *)

OneAtATime == Coincide \subseteq {"found"}

LEMMA Weaker == OneAtATime => /\ Separately /\ CleanStops /\ "sameDoc" \notin Coincide
                              /\ "coldUpload" \notin Coincide
  BY DEF OneAtATime, Separately, CleanStops

\* The body uses the blob and refs does not say so: an attached document is saved, or a
\* flush is about to store a body without it.
Recording(t, d) == job[t].doc = d /\
    \/ job[t].op = "attach" /\ pc[t] = "sync"
    \/ job[t].op = "flush" /\ job[t].to # "using" /\ pc[t] # "sync"
\* refs says so and the body does not use it: the other way round.
Dropping(t, d) == job[t].doc = d /\
    \/ job[t].op \in {"save", "delete"} /\ pc[t] = "sync"
    \/ job[t].op = "flush" /\ job[t].to = "using" /\ pc[t] = "store"

WriterOK(t) ==
    /\ job[t].op = "flush" /\ job[t].to # "using" /\ pc[t] # "sync" => job[t].doc \notin refs
    /\ job[t].op = "flush" /\ job[t].to = "using" /\ pc[t] = "store" => job[t].doc \in refs
    /\ pc[t] = "sync" /\ job[t].op # "flush" => body[job[t].doc] = job[t].to

OneWriter == \A t, u \in Tasks :
    pc[t] # "idle" /\ pc[u] # "idle" /\ job[t].doc = job[u].doc => t = u

Recorded ==
    /\ OneWriter
    /\ \A t \in Tasks : WriterOK(t)
    /\ \A d \in refs : Owner[d] \in known
    /\ \A d \in Docs : body[d] = "using" /\ Owner[d] \in known /\ d \notin refs
                        => \E t \in Tasks : Recording(t, d)
    /\ \A d \in refs : body[d] # "using" => \E t \in Tasks : Dropping(t, d)

\* The ledger of a workspace that has not been recovered says what its documents use,
\* all of them in the bucket only.
Listed(w) ==
    /\ ledger[w].refs = Using(w)
    /\ \A d \in Docs : Owner[d] = w /\ body[d] # "none" => d \in cold

AllListed == \A w \in Workspaces \ known : Listed(w)

RefsMirrored == mode.objects =>
    \A w \in known : w \in dirty \/ Unsettled(w) \/ ledger[w].refs = RefsOf(w)

Booked == Backed /\ Recorded /\ AllListed /\ RefsMirrored

\* A task begins, goes on with its job or is idle.
LEMMA JobActs ==
    ASSUME "sameDoc" \notin Coincide, Types, Points, NEW t \in Tasks, Acts(t)
    PROVE  \/ pc'[t] = "idle"
           \/ /\ pc[t] # "idle" /\ job'[t] = job[t]
              /\ pc'[t] = "sync" => Store(t) \/ job[t].op = "flush"
              /\ pc'[t] = "store" /\ job[t].op = "flush" /\ job[t].to = "using" => SyncRefs(t)
           \/ /\ pc[t] = "idle" /\ (pc'[t] = "sync" => job'[t].op = "flush")
              /\ job'[t].op = "flush" => pc'[t] = "sync" \/ (job'[t].to = "using" /\ pc'[t] # "store")
              /\ \A u \in Tasks : pc[u] # "idle" => job[u].doc # job'[t].doc
<1>0. /\ t \in Actors /\ pc \in [Actors -> Spots] /\ job \in [Actors -> JobSet] /\ PointOK(t)
  BY Constants DEF Types, ControlOK, Points
<1> USE DEF At, Go, control
<1>1. CASE \E d \in Docs : Probe(t, d) \/ BeginWrite(t, d)
  <2>1. PICK d \in Docs : Probe(t, d) \/ BeginWrite(t, d)
    BY <1>1
  <2>2. pc[t] = "idle" /\ job'[t].doc = d /\ DocFree(d)
    BY <1>0, <2>1 DEF Probe, BeginWrite, Begin
  <2>3. /\ pc'[t] = "sync" => job'[t].op = "flush"
        /\ job'[t].op = "flush" => pc'[t] = "sync" \/ (job'[t].to = "using" /\ pc'[t] # "store")
    BY <1>0, <2>1 DEF Probe, BeginWrite, Begin, AttachAt
  <2> QED
    BY <2>2, <2>3 DEF DocFree
<1>2. CASE SyncRefs(t) \/ Release(t) \/ Revoke(t) \/ Collect(t) \/ DeleteBlob(t)
  BY <1>0, <1>2 DEF SyncRefs, Release, Revoke, Collect, DeleteBlob, Goes, Released, Finish, AfterRefs,
     PointOK, Holding, Reclaiming
<1>3. CASE Reclaim(t) \/ Recheck(t) \/ Forget(t)
  BY <1>0, <1>3, Constants DEF Reclaim, Recheck, Forget, AfterReclaim
<1>4. CASE Abandon(t) \/ PutBytes(t) \/ Grant(t) \/ WriteAcl(t) \/ Store(t)
  BY <1>0, <1>4, Constants DEF Abandon, PutBytes, Grant, WriteAcl, Store, AfterAcls, AttachAt, PointOK
<1> QED
  BY <1>1, <1>2, <1>3, <1>4, Constants DEF Acts, Step

LEMMA RecordedActs ==
    ASSUME Coincide \intersect {"sameDoc", "coldUpload"} = {},
           Types, Points, Recorded, NEW t \in Actors, Acts(t)
    PROVE  Recorded'
<1>0. /\ OnlyMoves(t) /\ Owner' = Owner /\ known' = known /\ PointOK(t)
      /\ refs \subseteq Docs /\ body \in [Docs -> Uses] /\ job \in [Actors -> JobSet]
      /\ pc \in [Actors -> Spots]
      /\ \A u \in Actors : job[u].doc \in Docs
      /\ \A u \in Tasks \ {t} : /\ u \in Actors /\ pc'[u] = pc[u] /\ job'[u] = job[u]
                                /\ Ws(u)' = Ws(u)
  BY Others, WsOK, Constants DEF Types, RightsOK, StoredOK, ControlOK, OnlyMoves, Owner, Ws, Points
<1>s. SyncRefs(t) => /\ t \in Tasks /\ pc[t] = "sync" /\ refs' = SyncedRefs(t)
                     /\ body' = body /\ acl' = acl /\ WriterOK(t)
  BY Constants DEF SyncRefs, At, Types, ControlOK, Actors, stored, Recorded
<1>b. Store(t) => /\ t \in Tasks /\ pc[t] = "store" /\ refs' = refs /\ WriterOK(t)
                  /\ body' = [body EXCEPT ![job[t].doc] = job[t].to]
                  /\ (job[t].op # "flush" => pc'[t] = "sync" /\ job'[t] = job[t])
  BY <1>0, Constants DEF Store, At, Go, Types, ControlOK, Actors, rights, Recorded
<1>1. OneWriter'
  BY <1>0, JobActs DEF Recorded, OneWriter
<1>2. ASSUME NEW u \in Tasks PROVE WriterOK(u)'
  <2>0. WriterOK(u) /\ u \in Actors /\ PointOK(u)
    BY Constants DEF Recorded, Points
  <2>1. CASE u # t
    <3>2. job[u].op = "flush" => (job[u].doc \in refs' <=> job[u].doc \in refs)
      <4>1. job[u].op = "flush" => pc[u] # "idle"
        BY <2>0 DEF PointOK
      <4>2. SyncRefs(t) /\ pc[u] # "idle" => job[u].doc # job[t].doc
        BY <1>s, <2>1 DEF Recorded, OneWriter
      <4> QED
        BY <4>1, <4>2, DocActs DEF SyncedRefs
    <3>3. pc[u] = "sync" => body'[job[u].doc] = body[job[u].doc]
      <4>1. Store(t) /\ pc[u] = "sync" => job[u].doc # job[t].doc
        BY <1>b, <2>1 DEF Recorded, OneWriter
      <4> QED
        BY <1>0, <2>0, <4>1, DocActs
    <3> QED
      BY <1>0, <2>0, <2>1, <3>2, <3>3 DEF WriterOK
  <2>2. CASE u = t
    <3>2. job'[t].op = "flush" /\ job'[t].to # "using" /\ pc'[t] # "sync"
            => job'[t].doc \notin refs'
      <4>1. pc'[t] = "idle" => job'[t].op # "flush"
        <5>1. PointOK(t)'
          BY PointActs
        <5> QED
          BY <2>2, <5>1 DEF PointOK
      <4>2. pc[t] = "idle" => job[t].op # "flush"
        BY <2>0, <2>2 DEF PointOK
      <4>3. SyncRefs(t) /\ job[t].to # "using" => job[t].doc \notin refs'
        BY <1>0, <1>s DEF SyncedRefs
      <4>4. ~SyncRefs(t) => refs' = refs /\ (pc[t] # "idle" => pc[t] # "sync" \/ pc'[t] = "idle")
        BY <1>0, DocActs, Constants DEF AttachAt, Go, Acts, Step, Probe, BeginWrite, Begin, Abandon, PutBytes, Grant,
           WriteAcl, Store, Release, Revoke, Collect, DeleteBlob, Reclaim, Recheck, Forget, Sweep, At
      <4> QED
        BY <2>0, <2>2, <4>1, <4>2, <4>3, <4>4, JobActs DEF WriterOK
    <3>3. pc'[t] = "sync" /\ job'[t].op # "flush" => body'[job'[t].doc] = job'[t].to
      BY <1>0, <1>b, <2>2, JobActs
    <3>4. job'[t].op = "flush" /\ job'[t].to = "using" /\ pc'[t] = "store" => job'[t].doc \in refs'
      BY <1>s, <2>2, JobActs DEF SyncedRefs
    <3> QED
      BY <2>2, <3>2, <3>3, <3>4 DEF WriterOK
  <2> QED
    BY <2>1, <2>2
<1>3. ASSUME NEW d \in refs' PROVE Owner[d] \in known
  <2>1. d \notin refs => SyncRefs(t) /\ d = job[t].doc /\ job[t].to = "using"
    BY <1>3, DocActs DEF SyncedRefs
  <2>2. SyncRefs(t) => Ws(t) \in known
    BY <1>0, <1>s DEF PointOK
  <2> QED
    BY <2>1, <2>2 DEF Recorded, Ws
<1>4. ASSUME NEW d \in Docs, body'[d] = "using", Owner[d] \in known, d \notin refs'
      PROVE  \E x \in Tasks : Recording(x, d)'
  <2>1. CASE body[d] # "using"
    <3>1. Store(t) /\ job[t].doc = d /\ job[t].to = "using"
      BY <1>0, <1>4, <2>1, DocActs
    <3>2. job[t].op = "attach"
      BY <1>0, <1>4, <1>b, <3>1 DEF WriterOK, PointOK
    <3> QED
      BY <1>0, <1>b, <3>1, <3>2 DEF Recording
  <2>2. CASE body[d] = "using" /\ d \in refs
    <3>1. SyncRefs(t) /\ job[t].doc = d /\ job[t].to # "using"
      BY <1>4, <2>2, DocActs DEF SyncedRefs
    <3>2. job[t].op = "flush"
      BY <1>s, <2>2, <3>1 DEF WriterOK
    <3>3. pc'[t] # "sync" /\ job'[t] = job[t]
      BY <1>0, <1>s, <3>1, <3>2 DEF SyncRefs, Goes, Released, Finish, Go, AfterRefs
    <3> QED
      BY <1>s, <3>1, <3>2, <3>3 DEF Recording
  <2>3. CASE body[d] = "using" /\ d \notin refs
    <3>1. PICK x \in Tasks : Recording(x, d)
      BY <1>4, <2>3 DEF Recorded
    <3>2. CASE x # t
      BY <1>0, <3>1, <3>2 DEF Recording
    <3>3. CASE x = t
      <4>1. CASE job[t].op = "attach" /\ pc[t] = "sync"
        <5>1. SyncRefs(t)
          BY <4>1, Constants DEF AttachAt, Acts, Step, Probe, BeginWrite, Begin, Abandon, PutBytes, Grant,
             WriteAcl, Store, Release, Revoke, Collect, DeleteBlob, Reclaim, Recheck, Forget, Sweep, At
        <5> QED
          BY <1>0, <1>4, <1>s, <3>1, <3>3, <4>1, <5>1 DEF SyncedRefs, PointOK, Recording
      <4>2. CASE job[t].op = "flush" /\ job[t].to # "using" /\ pc[t] # "sync"
        <5>1. pc[t] # "idle"
          BY <1>0, <3>3, <4>2 DEF PointOK
        <5>2. ~Store(t)
          BY <1>0, <1>4, <1>b, <3>1, <3>3, <4>2 DEF Recording
        <5>3. pc'[t] # "idle"
          BY <1>0, <4>2, <5>1, <5>2, <3>3, Constants DEF AttachAt, Acts, Step, Probe, BeginWrite, Begin,
             Abandon, PutBytes, Grant, WriteAcl, AfterAcls, SyncRefs, Release, Revoke, Collect, DeleteBlob,
             Reclaim, Recheck, AfterReclaim, Forget, Sweep, Go, Goes, Released, Finish, AfterRefs, At
        <5>4. pc'[t] # "sync"
          BY <1>0, <4>2, <5>1, <5>2, <3>3, Constants DEF AttachAt, PointOK,
             Acts, Step, Probe, BeginWrite, Begin,
             Abandon, PutBytes, Grant, WriteAcl, AfterAcls, SyncRefs, Release, Revoke, Collect, DeleteBlob,
             Reclaim, Recheck, AfterReclaim, Forget, Sweep, Go, Goes, Released, Finish, AfterRefs, At
        <5> QED
          BY <3>1, <3>3, <4>2, <5>1, <5>3, <5>4, JobActs DEF Recording
      <4> QED
        BY <3>1, <3>3, <4>1, <4>2 DEF Recording
    <3> QED
      BY <3>2, <3>3
  <2> QED
    BY <2>1, <2>2, <2>3
<1>5. ASSUME NEW d \in refs', body'[d] # "using" PROVE \E x \in Tasks : Dropping(x, d)'
  <2>1. CASE d \notin refs
    <3>1. SyncRefs(t) /\ d = job[t].doc /\ job[t].to = "using"
      BY <1>5, <2>1, DocActs DEF SyncedRefs
    <3>2. job[t].op = "flush"
      BY <1>0, <1>5, <1>s, <3>1 DEF WriterOK
    <3>3. pc'[t] = "store" /\ job'[t] = job[t]
      BY <1>0, <1>5, <2>1, <3>1, <3>2 DEF SyncRefs, Goes, Released, Finish, Go, AfterRefs
    <3> QED
      BY <1>s, <3>1, <3>2, <3>3 DEF Dropping
  <2>2. CASE d \in refs /\ body[d] = "using"
    <3>1. Store(t) /\ job[t].doc = d /\ job[t].to # "using"
      BY <1>0, <1>5, <2>2, DocActs
    <3>2. job[t].op \in {"save", "delete"}
      BY <1>0, <1>b, <2>2, <3>1 DEF WriterOK, PointOK, JobSet
    <3> QED
      BY <1>b, <3>1, <3>2 DEF Dropping
  <2>3. CASE d \in refs /\ body[d] # "using"
    <3>1. PICK x \in Tasks : Dropping(x, d)
      BY <2>3 DEF Recorded
    <3>2. x # t
      <4>1. SUFFICES ASSUME x = t PROVE FALSE
        OBVIOUS
      <4>2. CASE job[t].op = "flush"
        <5>1. Store(t)
          BY <3>1, <4>1, <4>2, Constants DEF Dropping, Acts, Step, Probe, BeginWrite, Begin, Abandon,
             AttachAt, PutBytes, Grant, WriteAcl, SyncRefs, Release, Revoke, Collect, DeleteBlob, Reclaim,
             Recheck, Forget, Sweep, At
        <5> QED
          BY <1>0, <1>5, <1>b, <3>1, <4>1, <4>2, <5>1 DEF Dropping
      <4>3. CASE job[t].op # "flush"
        <5>1. SyncRefs(t)
          BY <1>0, <3>1, <4>1, <4>3, Constants DEF Dropping, Acts, Step, Probe, BeginWrite, Begin, Abandon,
             AttachAt, PointOK, PutBytes, Grant, WriteAcl, Store, Release, Revoke, Collect, DeleteBlob,
             Reclaim, Recheck, Forget, Sweep, At
        <5> QED
          BY <1>0, <1>5, <1>s, <3>1, <4>1, <4>3, <5>1 DEF Dropping, SyncedRefs, PointOK
      <4> QED
        BY <4>2, <4>3
    <3> QED
      BY <1>0, <3>1, <3>2 DEF Dropping
  <2> QED
    BY <2>1, <2>2, <2>3
<1> QED
  BY <1>0, <1>1, <1>2, <1>3, <1>4, <1>5 DEF Recorded

LEMMA ListedActs ==
    ASSUME "coldUpload" \notin Coincide, Types, Points, AllListed, NEW t \in Actors, Acts(t)
    PROVE  AllListed'
<1>0. /\ ledger' = ledger /\ known' = known /\ PointOK(t) /\ Owner' = Owner
      /\ body \in [Docs -> Uses] /\ job[t].doc \in Docs
  BY Others, MirrorActs, WsOK DEF OnlyMoves, Types, StoredOK, Owner, Points
<1>1. ASSUME NEW d \in Docs, Owner[d] \notin known
      PROVE  body'[d] = body[d] /\ (d \in cold => d \in cold')
  <2>1. Store(t) => t \in Tasks /\ pc[t] = "store"
    BY Constants DEF Store, At, Types, ControlOK, Actors
  <2>2. Store(t) => job[t].doc # d
    BY <1>0, <1>1, <2>1 DEF Ws, PointOK
  <2> QED
    BY <1>0, <2>2, DocActs
<1>2. ASSUME NEW w \in Workspaces \ known PROVE Listed(w)'
  <2>1. Using(w)' = Using(w)
    BY <1>0, <1>1, <1>2 DEF Using
  <2> QED
    BY <1>0, <1>1, <2>1 DEF AllListed, Listed
<1> QED
  BY <1>0, <1>2 DEF AllListed

LEMMA RefsMirroredActs ==
    ASSUME Types, Points, RefsMirrored, NEW t \in Actors, Acts(t)
    PROVE  RefsMirrored'
<1>0. /\ OnlyMoves(t) /\ mode' = mode /\ ledger' = ledger /\ known' = known /\ Owner' = Owner
      /\ pc \in [Actors -> Spots]
  BY Others, MirrorActs DEF OnlyMoves, Types, ControlOK, Owner
<1> SUFFICES ASSUME mode.objects, NEW w \in known, RefsOf(w)' # RefsOf(w)
             PROVE  w \in dirty' \/ Unsettled(w)'
  BY <1>0, UnsettledActs DEF RefsMirrored
<1>1. SyncRefs(t) /\ refs' = SyncedRefs(t) /\ refs' # refs
  BY <1>0, DocActs DEF RefsOf
<1>2. t \in Tasks /\ (Mark(Ws(t)) \/ (pc'[t] = "release" /\ job' = job))
  BY <1>0, <1>1, Constants DEF SyncRefs, At, Goes, Go, Released, Types, ControlOK, Actors
<1>3. Ws(t) = w
  BY <1>0, <1>1 DEF RefsOf, SyncedRefs, Ws
<1> QED
  BY <1>0, <1>2, <1>3 DEF Unsettled, Ws, Mark

LEMMA BookedActs ==
    ASSUME OneAtATime, Types, Booked, NEW t \in Actors, Acts(t)
    PROVE  Booked'
<1>1. Backed'
  BY Weaker, BackedActs DEF Booked
<1>2. Points
  BY DEF Booked, Backed
<1> QED
  BY <1>1, <1>2, Weaker, RecordedActs, ListedActs, RefsMirroredActs DEF Booked

\* What does not move the actors leaves what they have in hand.
LEMMA InHand ==
    ASSUME UNCHANGED <<mode, control>>
    PROVE  /\ \A t, d : Recording(t, d)' = Recording(t, d) /\ Dropping(t, d)' = Dropping(t, d)
           /\ OneWriter' = OneWriter
  BY DEF control, Recording, Dropping, OneWriter

\* A document that comes back from the bucket is recorded already.
LEMMA AmbientRefs ==
    ASSUME OneAtATime, Types, Booked, Ambient, ~\E w \in Workspaces : Recover(w)
    PROVE  refs' = refs
<1>1. CASE \E d \in Docs : Reopen(d)
  <2>1. PICK d \in Docs : Reopen(d)
    BY <1>1
  <2>2. \A t \in Tasks : pc[t] # "idle" => job[t].doc # d
    BY <2>1, Weaker DEF Reopen, DocFree
  <2>3. \A t \in Tasks : ~Recording(t, d)
    BY <2>2, Constants DEF Recording, Booked, Backed, Points, PointOK
  <2>4. body[d] = "using" => d \in refs
    BY <2>1, <2>3 DEF Booked, Recorded, Reopen
  <2> QED
    BY <2>1, <2>4 DEF Reopen
<1>2. CASE ~\E d \in Docs : Reopen(d)
  BY <1>2 DEF Ambient, AgeIndex, AgeOrphan, DeleteObject, MirrorLedger, rights
<1> QED
  BY <1>1, <1>2

LEMMA AmbientBooked ==
    ASSUME OneAtATime, Types, Booked, Ambient, ~\E w \in Workspaces : Recover(w)
    PROVE  Booked'
<1>0. /\ UNCHANGED <<mode, control, body, known>> /\ refs' = refs /\ Owner' = Owner
      /\ pc' = pc /\ job' = job /\ known \subseteq Workspaces
      /\ ledger \in [Workspaces -> Ledger]
  BY AmbientActs, AmbientRefs DEF Owner, control, Types, MirrorOK
<1>1. Backed'
  BY Weaker, AmbientBacked DEF Booked
<1>2. Recorded'
  BY <1>0, InHand DEF Booked, Recorded, WriterOK
<1>3. AllListed'
  <2>1. ASSUME NEW v \in Workspaces \ known PROVE Listed(v)'
    <3>1. Lost(v) /\ Listed(v)
      BY DEF Booked, Backed, AllLost, AllListed
    <3>2. ledger'[v] = ledger[v]
      BY <1>0, <3>1 DEF Ambient, AgeIndex, AgeOrphan, DeleteObject, MirrorLedger, Recover, Reopen,
         mirror, Lost
    <3>3. ASSUME NEW d \in Docs, Owner[d] = v, d \in cold PROVE d \in cold'
      BY <3>3 DEF Ambient, AgeIndex, AgeOrphan, DeleteObject, MirrorLedger, Recover, Reopen, mirror
    <3>4. Using(v)' = Using(v)
      BY <1>0 DEF Using
    <3> QED
      BY <1>0, <3>1, <3>2, <3>3, <3>4 DEF Listed
  <2> QED
    BY <1>0, <2>1 DEF AllListed
<1>4. RefsMirrored'
  <2> SUFFICES ASSUME mode.objects, NEW w \in known
               PROVE  w \in dirty' \/ Unsettled(w)' \/ ledger'[w].refs = RefsOf(w)
    BY <1>0 DEF RefsMirrored, RefsOf
  <2>0. w \in Workspaces /\ (w \in dirty \/ Unsettled(w) \/ ledger[w].refs = RefsOf(w))
    BY <1>0 DEF Booked, RefsMirrored
  <2>1. Unsettled(w)' = Unsettled(w)
    BY <1>0, Unmoved
  <2>2. CASE MirrorLedger(w)
    BY <1>0, <2>0, <2>2 DEF MirrorLedger, LedgerOf
  <2>3. CASE ~MirrorLedger(w)
    <3>1. ledger'[w] = ledger[w] /\ (w \in dirty => w \in dirty')
      BY <1>0, <2>0, <2>3 DEF Ambient, AgeIndex, AgeOrphan, DeleteObject, MirrorLedger, Recover,
         Reopen, mirror
    <3> QED
      BY <2>0, <2>1, <3>1
  <2> QED
    BY <2>2, <2>3
<1> QED
  BY <1>1, <1>2, <1>3, <1>4 DEF Booked

\* A workspace that is recovered has the references of its documents.
LEMMA RefsRecovered ==
    ASSUME OneAtATime, Types, Booked, NEW w \in Workspaces, Recover(w)
    PROVE  refs' = refs \union Using(w) /\ RefsOf(w) = {} /\ Listed(w)
<1>1. w \notin known /\ Listed(w)
  BY DEF Recover, Booked, AllListed
<1>2. RefsOf(w) = {}
  BY <1>1 DEF Booked, Recorded, RefsOf
<1>3. (IF ledger[w].there THEN ledger[w]
       ELSE [there |-> TRUE, acl |-> Using(w) # {}, refs |-> Using(w)]).refs = Using(w)
  BY <1>1 DEF Listed
<1>4. refs' = refs \union (IF ledger[w].there THEN ledger[w]
       ELSE [there |-> TRUE, acl |-> Using(w) # {}, refs |-> Using(w)]).refs
  BY Weaker DEF Recover, Load
<1> QED
  BY <1>1, <1>2, <1>3, <1>4

LEMMA RecoverBooked ==
    ASSUME OneAtATime, Types, Booked, NEW w \in Workspaces, Recover(w)
    PROVE  Booked'
<1>r. /\ w \notin known /\ known' = known \union {w} /\ Listed(w) /\ RefsOf(w) = {}
      /\ refs' = refs \union Using(w) /\ dirty \subseteq dirty'
      /\ ledger' = ledger /\ cold' = cold /\ body' = body
      /\ UNCHANGED <<mode, control>> /\ Owner' = Owner /\ pc' = pc /\ job' = job
  BY Weaker, Recovered, RefsRecovered DEF Booked, Owner, control
<1>w. \A t \in Tasks : pc[t] # "idle" => Ws(t) # w
  BY <1>r, Weaker, Constants DEF Booked, Backed, Points, PointOK
<1>1. Backed'
  BY Weaker, RecoverBacked DEF Booked
<1>2. Recorded'
  <2>1. OneWriter'
    BY <1>r, InHand DEF Booked, Recorded
  <2>2. ASSUME NEW t \in Tasks PROVE WriterOK(t)'
    <3>1. WriterOK(t)
      BY DEF Booked, Recorded
    <3>2. pc[t] # "idle" => (job[t].doc \in refs' => job[t].doc \in refs)
      BY <1>r, <1>w DEF Using, Ws
    <3>3. job[t].op = "flush" => pc[t] # "idle"
      BY Constants DEF Booked, Backed, Points, PointOK
    <3> QED
      BY <1>r, <3>1, <3>2, <3>3 DEF WriterOK
  <2>3. \A d \in refs' : Owner'[d] \in known'
    BY <1>r DEF Booked, Recorded, Using
  <2>4. \A d \in Docs : (body[d] = "using" /\ Owner[d] \in known /\ d \notin refs
                           => \E t \in Tasks : Recording(t, d))'
    BY <1>r DEF Booked, Recorded, Using, Recording
  <2>5. \A d \in refs' : body'[d] # "using" => \E t \in Tasks : Dropping(t, d)'
    BY <1>r DEF Booked, Recorded, Using, Dropping
  <2> QED
    BY <1>r, <2>1, <2>2, <2>3, <2>4, <2>5 DEF Recorded
<1>3. AllListed'
  <2>1. ASSUME NEW v \in Workspaces \ known' PROVE Listed(v)'
    <3>1. Listed(v)
      BY <1>r DEF Booked, AllListed
    <3> QED
      BY <1>r, <3>1 DEF Listed, Using
  <2> QED
    BY <2>1 DEF AllListed
<1>4. RefsMirrored'
  <2> SUFFICES ASSUME mode.objects, NEW v \in known'
               PROVE  v \in dirty' \/ Unsettled(v)' \/ ledger[v].refs = RefsOf(v)'
    BY <1>r DEF RefsMirrored
  <2>1. CASE v = w
    <3>1. RefsOf(w)' = Using(w)
      BY <1>r DEF RefsOf, Using
    <3> QED
      BY <1>r, <2>1, <3>1 DEF Listed
  <2>2. CASE v # w
    <3>1. v \in dirty \/ Unsettled(v) \/ ledger[v].refs = RefsOf(v)
      BY <1>r, <2>2 DEF Booked, RefsMirrored
    <3>2. RefsOf(v)' = RefsOf(v)
      BY <1>r, <2>2 DEF RefsOf, Using
    <3> QED
      BY <1>r, <3>1, <3>2, Unmoved
  <2> QED
    BY <2>1, <2>2
<1> QED
  BY <1>1, <1>2, <1>3, <1>4 DEF Booked

\* A relay that stops between requests knows what its documents use.
LEMMA StopBooked ==
    ASSUME OneAtATime, Types, Booked, Stop
    PROVE  /\ mode.objects => \A w \in known : ledger[w].refs = RefsOf(w)
           /\ \A d \in Docs : Owner[d] \in known => (d \in refs <=> body[d] = "using")
<1>1. dirty = {} /\ \A t \in Tasks : ~HalfDone(t)
  BY StopClean, Weaker DEF Booked
<1>2. \A t \in Tasks : pc[t] \notin {"sync", "release", "revoke", "writeAcl", "gc"}
  BY <1>1 DEF HalfDone, ReleasePoints
<1>3. \A w : ~Unsettled(w)
  BY <1>2 DEF Unsettled
<1>4. ASSUME NEW d \in Docs, NEW t \in Tasks PROVE ~Recording(t, d) /\ ~Dropping(t, d)
  <2>1. PointOK(t) /\ pc[t] \in Spots
    BY Constants DEF Booked, Backed, Points, Types, ControlOK
  <2> QED
    BY <1>1, <1>2, <2>1 DEF HalfDone, PointOK, Recording, Dropping, Spots, Reclaiming, ReleasePoints
<1> QED
  BY <1>1, <1>3, <1>4 DEF Booked, RefsMirrored, Recorded

LEMMA RestartBooked ==
    ASSUME OneAtATime, Types, Booked, Restart
    PROVE  Booked' /\ refs' = refs
<1>1. Stop
  BY DEF Restart
<1>2. /\ mode.objects => \A w \in known : ledger[w].refs = RefsOf(w)
      /\ \A d \in Docs : Owner[d] \in known => (d \in refs <=> body[d] = "using")
  BY <1>1, StopBooked
<1>3. /\ refs' = Seeded /\ mode' = mode /\ body' = body /\ ledger' = ledger /\ known' = known
      /\ cold' = cold /\ Owner' = Owner
  BY DEF Restart, Owner
<1>4. Seeded = refs
  <2>1. ASSUME NEW d \in Docs, d \notin cold, body[d] # "none"
        PROVE  d \in refs <=> body[d] = "using"
    <3>1. Owner[d] \in Workspaces
      BY OwnerOK DEF Types
    <3>2. Owner[d] \in known
      BY <2>1, <3>1 DEF Booked, AllListed, Listed
    <3> QED
      BY <1>2, <3>2
  <2> QED
    BY <2>1 DEF Seeded, Types, RightsOK
<1>5. \A t \in Tasks : pc'[t] = "idle" /\ job'[t] = NoJob
  BY <1>1, Stopped, Constants
<1>6. Backed'
  BY Weaker, RestartBacked DEF Booked
<1>7. Recorded'
  <2>1. OneWriter' /\ \A t \in Tasks : WriterOK(t)'
    BY <1>5, NoJobOK DEF OneWriter, WriterOK
  <2>2. \A d \in refs : d \in Docs /\ Owner[d] \in known
    BY DEF Booked, Recorded, Types, RightsOK
  <2> QED
    BY <1>2, <1>3, <1>4, <2>1, <2>2 DEF Recorded
<1>8. AllListed'
  BY <1>3 DEF Booked, AllListed, Listed, Using
<1>9. RefsMirrored'
  BY <1>2, <1>3, <1>4 DEF RefsMirrored, RefsOf
<1> QED
  BY <1>3, <1>4, <1>6, <1>7, <1>8, <1>9 DEF Booked

LEMMA LoseVolumeBooked ==
    ASSUME OneAtATime, Types, Booked, LoseVolume
    PROVE  Booked'
<1>1. Stop /\ mode.objects
  BY DEF LoseVolume
<1>2. /\ \A w \in known : ledger[w].refs = RefsOf(w)
      /\ \A d \in Docs : Owner[d] \in known => (d \in refs <=> body[d] = "using")
  BY <1>1, StopBooked
<1>3. /\ refs' = {} /\ known' = {} /\ cold' = {d \in Docs : body[d] # "none"}
      /\ mode' = mode /\ body' = body /\ ledger' = ledger /\ Owner' = Owner
  BY DEF LoseVolume, Owner
<1>4. \A t \in Tasks : pc'[t] = "idle" /\ job'[t] = NoJob
  BY <1>1, Stopped, Constants
<1>5. Backed'
  BY Weaker, LoseVolumeBacked DEF Booked
<1>6. Recorded' /\ RefsMirrored'
  BY <1>3, <1>4, NoJobOK DEF Recorded, OneWriter, WriterOK, RefsMirrored
<1>7. AllListed'
  <2>1. ASSUME NEW v \in Workspaces PROVE ledger[v].refs = Using(v)
    <3>1. CASE v \in known
      <4>1. RefsOf(v) = Using(v)
        BY <1>2, <3>1 DEF RefsOf, Using, Types, RightsOK
      <4> QED
        BY <1>2, <3>1, <4>1
    <3>2. CASE v \notin known
      BY <3>2 DEF Booked, AllListed, Listed
    <3> QED
      BY <3>1, <3>2
  <2> QED
    BY <1>3, <2>1 DEF AllListed, Listed, Using
<1> QED
  BY <1>5, <1>6, <1>7 DEF Booked

LEMMA BookedInit == ASSUME Types, Init PROVE Booked
<1>1. /\ \A t \in Actors : pc[t] = "idle" /\ job[t] = NoJob
      /\ ledger = [w \in Workspaces |-> NoLedger] /\ known = Workspaces
  BY DEF Init
<1>2. Recorded
  BY <1>1, NoJobOK, Constants DEF Init, Recorded, OneWriter, WriterOK
<1>3. AllListed /\ RefsMirrored
  BY <1>1 DEF Init, AllListed, RefsMirrored, NoLedger, RefsOf
<1> QED
  BY <1>2, <1>3, BackedInit DEF Booked

LEMMA BookedStep ==
    ASSUME OneAtATime, Types, Booked, [Next]_vars
    PROVE  Booked'
<1>1. CASE UNCHANGED vars
  <2>1. UNCHANGED <<mode, stored, rights, removal, mirror, control>>
    BY <1>1 DEF vars
  <2>2. Backed'
    BY Weaker, BackedStep DEF Booked
  <2> QED
    BY <2>1, <2>2, Unmoved, InHand DEF stored, rights, mirror, control, Booked, Recorded, WriterOK,
       RefsOf, Using, AllListed, Listed, RefsMirrored
<1>2. CASE Next
  BY <1>2, NextCases, BookedActs, AmbientBooked, RecoverBooked, RestartBooked, LoseVolumeBooked
<1> QED
  BY <1>1, <1>2

LEMMA BookedAlways ==
    ASSUME OneAtATime
    PROVE  Spec => [](Types /\ Booked)
<1>1. Init => Types /\ Booked
  BY TypeInit, BookedInit DEF Types
<1>2. Types /\ Booked /\ [Next]_vars => Types' /\ Booked'
  <2>1. Types /\ [Next]_vars => Types'
    BY TypeStep DEF Types
  <2> QED
    BY <2>1, BookedStep
<1> QED
  BY <1>1, <1>2, PTL DEF Spec

\* What is granted is there and counted, and between requests the records of the next
\* start say what is granted and what the bodies use, also when grants that clients rely
\* on are released under them.
THEOREM BooksAgree ==
    ASSUME OneAtATime
    PROVE  Spec => []BooksBalance
<1>1. Types /\ Booked => BooksBalance
  <2> SUFFICES ASSUME Types, Booked, AtRest
               PROVE  /\ aclFile = acl
                      /\ \A d \in Docs : Owner[d] \in known =>
                                          (d \in refs <=> body[d] = "using")
    BY DEF BooksBalance, Booked, Backed, Grants
  <2>1. \A t \in Actors : pc[t] = "idle"
    BY DEF AtRest
  <2>2. aclFile = acl
    BY <2>1 DEF OneAtATime, Booked, Backed, Saved, Saving
  <2>3. \A t \in Tasks, d \in Docs : ~Recording(t, d) /\ ~Dropping(t, d)
    BY <2>1, Constants DEF Recording, Dropping, Booked, Backed, Points, PointOK
  <2> QED
    BY <2>2, <2>3 DEF Booked, Recorded
<1> QED
  BY <1>1, BookedAlways, PTL

-----------------------------------------------------------------------------
(* Reliance: whoever takes a grant away knows that nobody relies on it and     *)
(* that no document refers to it.  Here nothing may coincide.                  *)

Quietly == Coincide = {}

Reliable(u) == Relies(u) =>
    /\ Ws(u) \in acl
    /\ \A t \in Tasks : Releasing(t) => Ws(t) # Ws(u)

Kept ==
    /\ Booked
    /\ \A u \in Tasks : Reliable(u)
    /\ \A d \in refs : Owner[d] \in acl
    /\ \A t \in Tasks : pc[t] = "revoke" => RefsOf(Ws(t)) = {}
    /\ \A w \in Workspaces : ledger[w].refs # {} => ledger[w].acl

LEMMA Quiet == Quietly => OneAtATime /\ Separately
  BY DEF Quietly, OneAtATime, Separately

\* Nobody relies on what is released.
LEMMA ReliableActs ==
    ASSUME Quietly, Types, Kept, NEW t \in Actors, Acts(t), NEW u \in Tasks
    PROVE  Reliable(u)'
<1>a. OnlyMoves(t) /\ \A x \in Actors : Ws(x) \in Workspaces
  BY Others, WsOK DEF Types
<1>g. Grant(t) => t \in Tasks /\ \A x \in Actors : Releasing(x) => Ws(x) # Ws(t)
  BY GrantPast, PastMeets DEF Kept, Booked, Backed
<1>0. u \in Actors /\ Reliable(u) /\ PointOK(u)
  BY Constants DEF Kept, Booked, Backed, Points
<1> SUFFICES ASSUME Relies(u)'
             PROVE  /\ Ws(u)' \in acl'
                    /\ \A x \in Tasks : Releasing(x)' => Ws(x)' # Ws(u)'
  BY DEF Reliable
<1>1. CASE u = t
  <2>1. /\ Ws(t)' \in acl'
        /\ \A x \in Tasks : Releasing(x) => Ws(x) # Ws(t)'
    <3>1. CASE Relies(t) /\ Ws(t)' = Ws(t) /\ ~Grant(t) /\ ~Revoke(t)
      BY <1>0, <1>1, <3>1, AclActs DEF Reliable
    <3>2. CASE Grant(t) /\ Past(t) /\ Ws(t)' = Ws(t)
      BY <1>g, <3>2, Constants DEF Grant
    <3>3. CASE \E d \in Docs : /\ Probe(t, d) /\ Ws(t)' = Owner[d] /\ Owner[d] \in acl
                            /\ MayRely(Owner[d])
      BY <3>3 DEF Probe, rights, MayRely, Quietly
    <3> QED
      BY <1>1, <3>1, <3>2, <3>3, RelyingGrow DEF Kept, Booked, Backed
  <2>2. ~Releasing(t)'
    BY <1>1 DEF Relies, Releasing, ReleasePoints
  <2>3. \A x \in Tasks : x # t => Releasing(x)' = Releasing(x) /\ Ws(x)' = Ws(x)
    BY <1>a, Constants DEF OnlyMoves, Releasing, Ws, Owner
  <2> QED
    BY <1>1, <2>1, <2>2, <2>3
<1>2. CASE u # t
  <2>1. pc'[u] = pc[u] /\ job'[u] = job[u] /\ Ws(u)' = Ws(u) /\ Relies(u)
    BY <1>a, <1>0, <1>2 DEF OnlyMoves, Ws, Owner, Relies
  <2>2. /\ Ws(u) \in acl
        /\ \A x \in Tasks : Releasing(x) => Ws(x) # Ws(u)
    BY <1>0, <2>1 DEF Reliable
  <2>3. Ws(u) \in acl'
    <3>1. Revoke(t) => Releasing(t) /\ t \in Tasks
      BY <1>a, Constants DEF Revoke, At, Releasing, ReleasePoints, Types, ControlOK, Actors
    <3> QED
      BY <2>2, <3>1, AclActs
  <2>4. ASSUME NEW x \in Tasks, Releasing(x)' PROVE Ws(x)' # Ws(u)
    <3>1. CASE x # t
      BY <1>a, <2>2, <2>4, <3>1, Constants DEF OnlyMoves, Releasing, Ws, Owner
    <3>2. CASE x = t /\ Releasing(t) /\ Ws(t)' = Ws(t)
      BY <2>2, <3>2
    <3>3. CASE x = t /\ MayRelease(Ws(t)) /\ MayRemove(t, Place(Ws(t))) /\ Ws(t)' = Ws(t)
      <4>1. ~Relying(Ws(t)) /\ ~Uploading(Place(Ws(t)), Tasks \ {t})
        BY <3>3 DEF MayRelease, MayRemove, Quietly
      <4>2. Ws(u) = Ws(t) => Relying(Ws(t)) \/ Uploading(Place(Ws(t)), Tasks \ {t})
        BY <1>0, <1>2, <2>1 DEF Relies, Relying, Uploading, UploadPoints, PointOK
      <4> QED
        BY <3>3, <4>1, <4>2
    <3>4. CASE acl = {}
      BY <2>2, <3>4
    <3> QED
      BY <2>4, <3>1, <3>2, <3>3, <3>4, ReleasingGrow, Constants DEF Kept, Booked, Backed
  <2> QED
    BY <2>1, <2>3, <2>4
<1> QED
  BY <1>1, <1>2

LEMMA KeptActs ==
    ASSUME Quietly, Types, Kept, NEW t \in Actors, Acts(t)
    PROVE  Kept'
<1>0. /\ OnlyMoves(t) /\ Owner' = Owner /\ PointOK(t) /\ refs \subseteq Docs
      /\ pc \in [Actors -> Spots] /\ ledger' = ledger
      /\ \A u \in Tasks \ {t} : u \in Actors /\ pc'[u] = pc[u] /\ Ws(u)' = Ws(u)
  BY Others, MirrorActs, Constants DEF Types, RightsOK, ControlOK, OnlyMoves, Owner, Ws, Kept, Booked,
     Backed, Points
<1>s. SyncRefs(t) => /\ t \in Tasks /\ pc[t] = "sync" /\ refs' = SyncedRefs(t)
                     /\ acl' = acl
  BY Constants DEF SyncRefs, At, Types, ControlOK, Actors
<1>u. job[t].to = "using" /\ SyncRefs(t) => /\ Ws(t) \in acl
                                             /\ \A x \in Tasks : Releasing(x) => Ws(x) # Ws(t)
  BY <1>0, <1>s DEF Kept, Reliable, Relies, PointOK
<1>1. ASSUME NEW d \in refs' PROVE Owner[d] \in acl'
  <2>1. Revoke(t) => t \in Tasks /\ refs' = refs /\ RefsOf(Ws(t)) = {}
    BY Constants DEF Revoke, At, Types, ControlOK, Actors, Kept
  <2>2. d \in refs => Owner[d] \in acl
    BY DEF Kept
  <2>3. d \in refs => Owner[d] \in acl'
    BY <1>0, <2>1, <2>2, AclActs DEF RefsOf
  <2>4. d \notin refs => SyncRefs(t) /\ d = job[t].doc /\ job[t].to = "using"
    BY <1>1, DocActs DEF SyncedRefs
  <2> QED
    BY <1>s, <1>u, <2>3, <2>4 DEF Ws
<1>2. ASSUME NEW u \in Tasks, pc'[u] = "revoke" PROVE RefsOf(Ws(u))' = {}
  <2>1. CASE u # t
    <3>1. pc[u] = "revoke" /\ Releasing(u) /\ RefsOf(Ws(u)) = {} /\ Ws(u)' = Ws(u)
      BY <1>0, <1>2, <2>1 DEF Kept, Releasing, ReleasePoints
    <3>2. ASSUME NEW d \in refs' PROVE Owner[d] # Ws(u)
      BY <1>0, <1>s, <1>u, <3>1, <3>2, DocActs DEF RefsOf, SyncedRefs, Ws
    <3> QED
      BY <1>0, <3>1, <3>2 DEF RefsOf
  <2>2. CASE u = t
    <3>1. Release(t)
      BY <1>0, <1>2, <2>2, Constants DEF Acts, Step, Probe, BeginWrite, Begin, Abandon, PutBytes, Grant,
         WriteAcl, AfterAcls, Store, SyncRefs, Revoke, Collect, DeleteBlob, Reclaim, Recheck,
         AfterReclaim, Forget, Sweep, Go, Goes, Released, Finish, AfterRefs, At, AttachAt
    <3>2. pc[t] = "release" /\ ~Releasing(t) /\ Releasing(t)'
      BY <1>0, <1>2, <2>2, <3>1 DEF Release, At, Releasing, ReleasePoints
    <3>3. RefsOf(Ws(t)) = {} /\ refs' = refs /\ Ws(t)' = Ws(t)
      BY <3>1, <3>2, ReleasingGrow DEF Recheck, Release, At, Kept, Booked, Backed
    <3> QED
      BY <1>0, <2>2, <3>3 DEF RefsOf
  <2> QED
    BY <2>1, <2>2
<1>3. Booked' /\ \A u \in Tasks : Reliable(u)'
  BY Quiet, BookedActs, ReliableActs DEF Kept
<1> QED
  BY <1>0, <1>1, <1>2, <1>3 DEF Kept

LEMMA KeptAmbient ==
    ASSUME Quietly, Types, Kept, Ambient, ~\E w \in Workspaces : Recover(w)
    PROVE  Kept'
<1>0. /\ UNCHANGED <<mode, control, acl>> /\ refs' = refs /\ Owner' = Owner /\ pc' = pc
      /\ ledger \in [Workspaces -> Ledger]
  BY AmbientActs, AmbientRefs, Quiet DEF Owner, control, Types, MirrorOK, Kept
<1>1. Booked'
  BY Quiet, AmbientBooked DEF Kept
<1>2. \A u \in Tasks : Reliable(u)'
  BY <1>0, Unmoved DEF Kept, Reliable
<1>3. \A t \in Tasks : pc'[t] = "revoke" => RefsOf(Ws(t))' = {}
  BY <1>0, Unmoved DEF Kept, RefsOf
<1>4. ASSUME NEW w \in Workspaces, ledger'[w].refs # {} PROVE ledger'[w].acl
  <2>1. CASE ledger'[w] = ledger[w]
    BY <1>4, <2>1 DEF Kept
  <2>2. CASE ledger'[w] = LedgerOf(w)
    <3>1. /\ ledger'[w].acl = (w \in acl)
          /\ ledger'[w].refs = RefsOf(w)
      BY <2>2 DEF LedgerOf
    <3>2. RefsOf(w) # {} => w \in acl
      BY DEF RefsOf, Kept
    <3> QED
      BY <1>4, <3>1, <3>2
  <2>3. ledger'[w] = ledger[w] \/ ledger'[w] = LedgerOf(w)
    BY <1>0 DEF Ambient, AgeIndex, AgeOrphan, DeleteObject, MirrorLedger, Recover, Reopen, mirror
  <2> QED
    BY <2>1, <2>2, <2>3
<1> QED
  BY <1>0, <1>1, <1>2, <1>3, <1>4 DEF Kept

LEMMA KeptRecover ==
    ASSUME Quietly, Types, Kept, NEW w \in Workspaces, Recover(w)
    PROVE  Kept'
<1>r. /\ w \notin known /\ refs' = refs \union Using(w) /\ Listed(w) /\ Lost(w)
      /\ acl \subseteq acl' /\ acl' \subseteq acl \union {w}
      /\ ledger' = ledger /\ UNCHANGED <<mode, control>> /\ Owner' = Owner /\ pc' = pc
  BY Quiet, Recovered, RefsRecovered DEF Kept, Booked, Owner, control
<1>w. \A t \in Tasks : pc[t] # "idle" => Ws(t) # w
  BY <1>r, Quiet, Weaker, Constants DEF Kept, Booked, Backed, Points, PointOK
<1>a. Using(w) # {} => w \in acl'
  <2> SUFFICES ASSUME Using(w) # {} PROVE w \in acl'
    OBVIOUS
  <2>1. ledger[w].acl /\ ledger[w].there
    BY <1>r DEF Listed, Lost, Kept
  <2>2. acl' = IF ledger[w].acl THEN acl \union {w} ELSE acl
    BY <2>1 DEF Recover, Load, Quietly
  <2> QED
    BY <2>1, <2>2
<1>1. Booked'
  BY Quiet, RecoverBooked DEF Kept
<1>2. ASSUME NEW u \in Tasks PROVE Reliable(u)'
  BY <1>r, Unmoved DEF Kept, Reliable
<1>3. \A d \in refs' : Owner'[d] \in acl'
  BY <1>r, <1>a DEF Kept, Using
<1>4. \A t \in Tasks : pc'[t] = "revoke" => RefsOf(Ws(t))' = {}
  BY <1>r, <1>w, Unmoved DEF Kept, RefsOf, Using
<1> QED
  BY <1>r, <1>1, <1>2, <1>3, <1>4 DEF Kept

LEMMA KeptStop ==
    ASSUME Quietly, Types, Kept, Restart \/ LoseVolume
    PROVE  Kept'
<1>1. \A t \in Tasks : pc'[t] = "idle" /\ ~Relies(t)'
  BY Stopped, Constants DEF Restart, LoseVolume
<1>2. Booked' /\ ledger' = ledger
  BY Quiet, RestartBooked, LoseVolumeBooked DEF Kept, Restart, LoseVolume
<1>3. \A d \in refs' : Owner'[d] \in acl'
  <2>1. CASE LoseVolume
    BY <2>1 DEF LoseVolume
  <2>2. CASE Restart
    <3>1. refs' = refs /\ refs' = Seeded /\ acl' = aclFile \ Swept /\ Owner' = Owner
      BY <2>2, Quiet, RestartBooked DEF Kept, Restart, Owner
    <3>2. aclFile = acl
      BY <2>2, StopClean, Quiet, Weaker DEF Restart, Kept, Booked
    <3> QED
      BY <3>1, <3>2 DEF Swept, Kept
  <2> QED
    BY <2>1, <2>2
<1> QED
  BY <1>1, <1>2, <1>3 DEF Kept, Reliable

LEMMA KeptStep ==
    ASSUME Quietly, Types, Kept, [Next]_vars
    PROVE  Kept'
<1>1. CASE UNCHANGED vars
  <2>1. UNCHANGED <<mode, rights, mirror, control>>
    BY <1>1 DEF vars
  <2>2. Booked'
    BY Quiet, BookedStep DEF Kept
  <2> QED
    BY <2>1, <2>2, Unmoved DEF rights, mirror, control, Kept, Reliable, RefsOf
<1>2. CASE Next
  BY <1>2, NextCases, KeptActs, KeptAmbient, KeptRecover, KeptStop
<1> QED
  BY <1>1, <1>2

LEMMA KeptAlways ==
    ASSUME Quietly
    PROVE  Spec => [](Types /\ Kept)
<1>1. Init => Types /\ Kept
  <2> SUFFICES ASSUME Init PROVE Types /\ Kept
    OBVIOUS
  <2>1. Types /\ Booked
    BY TypeInit, BookedInit DEF Types
  <2>2. /\ \A t \in Tasks : pc[t] = "idle" /\ ~Relies(t)
        /\ refs = {} /\ ledger = [w \in Workspaces |-> NoLedger]
    BY Constants DEF Init, Relies
  <2> QED
    BY <2>1, <2>2 DEF Kept, Reliable, NoLedger
<1>2. Types /\ Kept /\ [Next]_vars => Types' /\ Kept'
  <2>1. Types /\ [Next]_vars => Types'
    BY TypeStep DEF Types
  <2> QED
    BY <2>1, KeptStep
<1> QED
  BY <1>1, <1>2, PTL DEF Spec

\* With no coincidence, a saved document finds the blobs it uses (load_blob), whatever
\* requests, collections, stops and lost volumes came before.
THEOREM UsedStaysReadable ==
    ASSUME Quietly
    PROVE  Spec => []UsedIsReadable
<1>1. Types /\ Kept => UsedIsReadable
  <2> SUFFICES ASSUME Types, Kept, NEW d \in Docs,
                      body[d] = "using", Owner[d] \in known, ~Flushing(d)
               PROVE  Owner[d] \in acl /\ Place(Owner[d]) \in bytes
    BY DEF UsedIsReadable
  <2>1. Owner[d] \in acl
    <3>1. CASE d \in refs
      BY <3>1 DEF Kept
    <3>2. CASE d \notin refs
      <4>1. PICK t \in Tasks : Recording(t, d)
        BY <3>2 DEF Kept, Booked, Recorded
      <4>2. Relies(t) /\ Ws(t) = Owner[d]
        BY <4>1, Constants DEF Flushing, Recording, Relies, Ws, Kept, Booked, Backed, Points, PointOK
      <4> QED
        BY <4>2 DEF Kept, Reliable
    <3> QED
      BY <3>1, <3>2
  <2> QED
    BY <2>1 DEF Kept, Booked, Backed, Grants, GrantIsBacked
<1> QED
  BY <1>1, KeptAlways, PTL

=============================================================================
