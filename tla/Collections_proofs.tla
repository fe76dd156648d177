-------------------------- MODULE Collections_proofs --------------------------
(* Proofs about Collections: the state stays well typed, and a collection that *)
(* was confirmed stays in the registry until a user deletes it, whatever races *)
(* the version gate, as long as the relay's restore and its stops keep to what *)
(* it has written (Kind); so does, in its creator's own store and until the    *)
(* creator's session ends, one that the relay has not confirmed.               *)
EXTENDS Collections, SequenceTheorems, TLAPS

\* The parts of TypeOK.
StoresOK ==
    /\ store \in [Editors -> Sets] /\ typed \in [Editors -> Sets]
    /\ unconfirmed \in [Editors -> SUBSET Ids]
    /\ signedIn \in [Editors -> BOOLEAN]

JobsOK ==
    /\ chain \in [Editors -> Seq(Jobs)]
    /\ phase \in [Editors -> {"idle", "get", "got", "put", "write"}]
    /\ again \in [Editors -> BOOLEAN]
    /\ got \in [Editors -> Contentses]

RelayOK ==
    /\ fetched \in [Editors -> Contentses \union {None}]
    /\ reg \in [loaded : BOOLEAN, version : Nat, defs : Sets]
    /\ file \in Contentses /\ mirror \in Contentses /\ dirty \in BOOLEAN

PastOK ==
    /\ creator \in [Ids -> Editors \union {None}]
    /\ confirmed \subseteq Ids /\ removed \subseteq Ids /\ dropped \subseteq Ids

LEMMA Parts == TypeOK <=> StoresOK /\ JobsOK /\ RelayOK /\ PastOK
  BY DEF TypeOK, StoresOK, JobsOK, RelayOK, PastOK

\* A job under way is at the head of its editor's chain.
Busy == \A e \in Editors : phase[e] # "idle" => chain[e] # <<>>

LEMMA EmptyOK == Empty \in Sets /\ Nothing \in Contentses /\ Present(Empty) = {}
  BY DEF Empty, Sets, Nothing, Contentses, Present

LEMMA AddOK == \A i \in Ids, n \in Names : Add(i, n) \in Jobs
  BY DEF Jobs

LEMMA JobOK == \A i \in Ids : Job("rename", i) \in Jobs /\ Job("remove", i) \in Jobs
  BY DEF Jobs

LEMMA ReconcileOK == Reconcile \in Jobs
  BY DEF Jobs

\* A job other than a reconcile changes a set of definitions into another.
LEMMA TransformOK ==
    ASSUME StoresOK, NEW e \in Editors, NEW j \in Jobs, j # Reconcile,
           NEW d \in Sets
    PROVE  Transform(e, j, d) \in Sets
<1>1. CASE \E i \in Ids : j = Job("rename", i)
  <2>1. PICK i \in Ids : j = Job("rename", i)
    BY <1>1
  <2>2. j.kind = "rename" /\ j.id = i
    BY <2>1 DEF Job
  <2>3. store[e][i] \in Names \union {Absent}
    BY DEF StoresOK, Sets
  <2> QED
    BY <2>2, <2>3 DEF Transform, Sets
<1>2. CASE \E i \in Ids : j = Job("remove", i)
  <2>1. PICK i \in Ids : j = Job("remove", i)
    BY <1>2
  <2>2. j.kind = "remove" /\ j.id = i
    BY <2>1 DEF Job
  <2> QED
    BY <2>2 DEF Transform, Sets
<1>3. CASE \E i \in Ids, n \in Names : j = Add(i, n)
  <2>1. PICK i \in Ids, n \in Names : j = Add(i, n)
    BY <1>3
  <2>2. j.kind = "add" /\ j.id = i /\ j.name = n
    BY <2>1 DEF Add
  <2> QED
    BY <2>2 DEF Transform, Sets
<1> QED
  BY <1>1, <1>2, <1>3 DEF Jobs

-----------------------------------------------------------------------------
(* Steps: types *)

\* A chain that gets one job more.
LEMMA EnqueueOK ==
    ASSUME JobsOK, Busy, NEW e \in Editors, NEW j \in Jobs, Enqueue(e, j), UNCHANGED phase
    PROVE  chain' \in [Editors -> Seq(Jobs)] /\ Busy'
<1>1. Append(chain[e], j) \in Seq(Jobs) /\ Append(chain[e], j) # <<>>
  BY AppendProperties DEF JobsOK
<1> QED
  BY <1>1 DEF JobsOK, Busy, Enqueue

\* An editor's job that ends.
LEMMA DoneOK ==
    ASSUME JobsOK, Busy, NEW e \in Editors, phase[e] # "idle" \/ chain[e] # <<>>, Done(e)
    PROVE  JobsOK' /\ Busy'
<1>1. chain[e] \in Seq(Jobs) /\ chain[e] # <<>>
  BY DEF JobsOK, Busy
<1>2. Tail(chain[e]) \in Seq(Jobs)
  BY <1>1, HeadTailProperties
<1>3. chain' \in [Editors -> Seq(Jobs)] /\ phase' \in [Editors -> {"idle", "get", "got", "put", "write"}]
  BY <1>2 DEF JobsOK, Done, Goto
<1>4. again' \in [Editors -> BOOLEAN] /\ got' \in [Editors -> Contentses]
  BY EmptyOK DEF JobsOK, Done
<1>5. Busy'
  BY DEF Busy, Done, Goto, JobsOK
<1> QED
  BY <1>3, <1>4, <1>5 DEF JobsOK

\* A step of a job that goes on.
LEMMA GotoOK ==
    ASSUME JobsOK, Busy, NEW e \in Editors, NEW p \in {"get", "got", "put", "write"},
           chain[e] # <<>>, Goto(e, p), UNCHANGED chain
    PROVE  phase' \in [Editors -> {"idle", "get", "got", "put", "write"}] /\ Busy'
  BY DEF JobsOK, Busy, Goto

LEMMA UserType ==
    ASSUME StoresOK, JobsOK, RelayOK, PastOK, Busy, NEW e \in Editors, Users(e)
    PROVE  (StoresOK /\ JobsOK /\ RelayOK /\ PastOK /\ Busy)'
<1>1. ASSUME NEW i \in Ids, NEW n \in Names, CreateCollection(e, i, n)
      PROVE  (StoresOK /\ JobsOK /\ RelayOK /\ PastOK /\ Busy)'
  <2>1. chain' \in [Editors -> Seq(Jobs)] /\ Busy'
    BY <1>1, EnqueueOK, AddOK DEF CreateCollection, Change
  <2>2. StoresOK'
    BY <1>1 DEF CreateCollection, Change, StoresOK, Sets
  <2>3. JobsOK' /\ RelayOK'
    BY <1>1, <2>1 DEF CreateCollection, Change, JobsOK, RelayOK, relay
  <2>4. PastOK'
    BY <1>1 DEF CreateCollection, Change, PastOK
  <2> QED
    BY <2>1, <2>2, <2>3, <2>4
<1>2. ASSUME NEW i \in Ids, NEW n \in Names, RenameCollection(e, i, n)
      PROVE  (StoresOK /\ JobsOK /\ RelayOK /\ PastOK /\ Busy)'
  <2>1. chain' \in [Editors -> Seq(Jobs)] /\ Busy'
    BY <1>2, EnqueueOK, JobOK DEF RenameCollection, Change
  <2>2. StoresOK'
    BY <1>2 DEF RenameCollection, Change, StoresOK, Sets
  <2>3. JobsOK' /\ RelayOK' /\ PastOK'
    BY <1>2, <2>1 DEF RenameCollection, Change, JobsOK, RelayOK, PastOK, relay
  <2> QED
    BY <2>1, <2>2, <2>3
<1>3. ASSUME NEW i \in Ids, DeleteCollection(e, i)
      PROVE  (StoresOK /\ JobsOK /\ RelayOK /\ PastOK /\ Busy)'
  <2>1. chain' \in [Editors -> Seq(Jobs)] /\ Busy'
    BY <1>3, EnqueueOK, JobOK DEF DeleteCollection, Change
  <2>2. StoresOK'
    BY <1>3 DEF DeleteCollection, Change, StoresOK, Sets
  <2>3. JobsOK' /\ RelayOK'
    BY <1>3, <2>1 DEF DeleteCollection, Change, JobsOK, RelayOK, relay
  <2>4. PastOK'
    BY <1>3 DEF DeleteCollection, Change, PastOK
  <2> QED
    BY <2>1, <2>2, <2>3, <2>4
<1> QED
  BY <1>1, <1>2, <1>3 DEF Users

\* What the editor's own steps leave alone.
LEMMA EditorStepType ==
    ASSUME StoresOK, JobsOK, RelayOK, PastOK, Busy, NEW e \in Editors,
           StartReconcile(e) \/ Ask(e) \/ Put(e) \/ Hydrate(e)
    PROVE  (StoresOK /\ JobsOK /\ RelayOK /\ PastOK /\ Busy)'
<1>0. got[e] \in Contentses /\ chain[e] \in Seq(Jobs) /\ store[e] \in Sets
  BY DEF JobsOK, StoresOK
<1>1. CASE StartReconcile(e)
  <2>1. chain' \in [Editors -> Seq(Jobs)] /\ Busy'
    BY <1>1, EnqueueOK, ReconcileOK DEF StartReconcile
  <2> QED
    BY <1>1, <2>1 DEF StartReconcile, StoresOK, JobsOK, RelayOK, PastOK, relay, past
<1>2. CASE Ask(e)
  <2>1. JobsOK' /\ Busy'
    <3>1. CASE Done(e)
      BY <1>2, <3>1, DoneOK DEF Ask
    <3>2. CASE Goto(e, "get") /\ UNCHANGED <<chain, again, got>>
      BY <1>2, <3>2, GotoOK DEF Ask, JobsOK
    <3> QED
      BY <1>2, <3>1, <3>2 DEF Ask
  <2> QED
    BY <1>2, <2>1 DEF Ask, StoresOK, RelayOK, PastOK, relay, past
<1>3. CASE Put(e)
  <2>1. chain[e] # <<>>
    BY <1>3 DEF Put, Busy
  <2>2. phase' \in [Editors -> {"idle", "get", "got", "put", "write"}] /\ Busy'
    BY <1>3, <2>1, GotoOK DEF Put
  <2>3. Running(e) \in Jobs
    BY <1>0, <2>1, HeadTailProperties DEF Running
  <2>4. Transform(e, Running(e), got[e].defs) \in Sets
    BY <1>0, <1>3, <2>3, TransformOK DEF Put, Contentses
  <2>5. got' \in [Editors -> Contentses]
    BY <1>0, <1>3, <2>4 DEF Put, Contentses, JobsOK
  <2> QED
    BY <1>3, <2>2, <2>5 DEF Put, StoresOK, JobsOK, RelayOK, PastOK, relay, past
<1>4. CASE Hydrate(e)
  <2>1. JobsOK' /\ Busy'
    BY <1>4, DoneOK DEF Hydrate
  <2>2. Hydrated(e, got[e].defs) \in Sets
    BY <1>0 DEF Hydrated, Sets, Contentses
  <2>3. StoresOK'
    BY <1>4, <2>2 DEF Hydrate, StoresOK
  <2> QED
    BY <1>4, <2>1, <2>3 DEF Hydrate, RelayOK, PastOK, relay, past
<1> QED
  BY <1>1, <1>2, <1>3, <1>4

LEMMA RegistryOK ==
    \A v \in Nat, d \in Sets :
        /\ Registry(v, d) \in [loaded : BOOLEAN, version : Nat, defs : Sets]
        /\ Registry(v, d).loaded /\ Registry(v, d).version = v /\ Registry(v, d).defs = d
  BY DEF Registry

LEMMA UnloadedOK ==
    Unloaded \in [loaded : BOOLEAN, version : Nat, defs : Sets] /\ ~Unloaded.loaded
  BY EmptyOK DEF Unloaded

LEMMA ContentsOK ==
    ASSUME RelayOK
    PROVE  /\ Contents(reg) \in Contentses
           /\ Contents(reg).version = reg.version /\ Contents(reg).defs = reg.defs
  BY DEF RelayOK, Contents, Contentses

LEMMA RequestType ==
    ASSUME StoresOK, JobsOK, RelayOK, PastOK, Busy, NEW e \in Editors,
           Probe(e) \/ Restore(e) \/ Get(e) \/ Gate(e)
    PROVE  (StoresOK /\ JobsOK /\ RelayOK /\ PastOK /\ Busy)'
<1>0. got[e] \in Contentses /\ fetched[e] \in Contentses \union {None}
  BY DEF JobsOK, RelayOK
<1>1. CASE Probe(e)
  <2>1. fetched' \in [Editors -> Contentses \union {None}]
    BY <1>1, EmptyOK DEF Probe, RelayOK
  <2> QED
    BY <1>1, <2>1 DEF Probe, StoresOK, JobsOK, RelayOK, PastOK, Busy, editor, past
<1>2. CASE Restore(e)
  <2>1. fetched[e] \in Contentses /\ fetched' \in [Editors -> Contentses \union {None}]
    BY <1>0, <1>2 DEF Restore, RelayOK
  <2>2. /\ reg' \in [loaded : BOOLEAN, version : Nat, defs : Sets]
        /\ file' \in Contentses
    <3>1. CASE fetched[e] # Nothing
      BY <1>2, <2>1, <3>1, RegistryOK DEF Restore, Contentses
    <3>2. CASE fetched[e] = Nothing
      BY <1>2, <3>2, RegistryOK, EmptyOK DEF Restore, RelayOK
    <3> QED
      BY <3>1, <3>2
  <2> QED
    BY <1>2, <2>1, <2>2 DEF Restore, StoresOK, JobsOK, RelayOK, PastOK, Busy, editor, past
<1>3. CASE Get(e)
  <2>1. chain[e] # <<>>
    BY <1>3 DEF Get, Busy
  <2>2. phase' \in [Editors -> {"idle", "get", "got", "put", "write"}] /\ Busy'
    BY <1>3, <2>1, GotoOK DEF Get
  <2>3. got' \in [Editors -> Contentses]
    BY <1>3, ContentsOK DEF Get, JobsOK
  <2> QED
    BY <1>3, <2>2, <2>3 DEF Get, StoresOK, JobsOK, RelayOK, PastOK, relay, past
<1>4. CASE Gate(e)
  <2>0. chain[e] # <<>>
    BY <1>4 DEF Gate, Busy
  <2>1. CASE Matches(got[e].version)
    <3>1. phase' \in [Editors -> {"idle", "get", "got", "put", "write"}] /\ Busy'
      BY <1>4, <2>0, <2>1, GotoOK DEF Gate
    <3>2. reg' \in [loaded : BOOLEAN, version : Nat, defs : Sets]
      BY <1>0, <1>4, <2>1, RegistryOK DEF Gate, RelayOK, Contentses
    <3> QED
      BY <1>4, <2>1, <3>1, <3>2 DEF Gate, StoresOK, JobsOK, RelayOK, PastOK, past
  <2>2. CASE ~Matches(got[e].version) /\ ~again[e]
    <3>1. phase' \in [Editors -> {"idle", "get", "got", "put", "write"}] /\ Busy'
      BY <1>4, <2>0, <2>2, GotoOK DEF Gate
    <3>2. again' \in [Editors -> BOOLEAN]
      BY <1>4, <2>2 DEF Gate, JobsOK
    <3> QED
      BY <1>4, <2>2, <3>1, <3>2 DEF Gate, StoresOK, JobsOK, RelayOK, PastOK, past
  <2>3. CASE ~Matches(got[e].version) /\ again[e]
    <3>1. JobsOK' /\ Busy'
      BY <1>4, <2>3, DoneOK DEF Gate
    <3> QED
      BY <1>4, <2>3, <3>1 DEF Gate, StoresOK, RelayOK, PastOK, past
  <2> QED
    BY <2>1, <2>2, <2>3
<1> QED
  BY <1>1, <1>2, <1>3, <1>4

LEMMA WriteType ==
    ASSUME StoresOK, JobsOK, RelayOK, PastOK, Busy, NEW e \in Editors, Write(e)
    PROVE  (StoresOK /\ JobsOK /\ RelayOK /\ PastOK /\ Busy)'
<1>1. JobsOK' /\ Busy'
  BY DoneOK DEF Write
<1>2. file' \in Contentses /\ dirty' \in BOOLEAN
  BY ContentsOK DEF Write, FileNow, RelayOK
<1>3. StoresOK' /\ confirmed' \subseteq Ids
  BY DEF Write, StoresOK, PastOK
<1> QED
  BY <1>1, <1>2, <1>3 DEF Write, RelayOK, PastOK

LEMMA RestartType ==
    ASSUME StoresOK, JobsOK, RelayOK, PastOK, Busy, Restart
    PROVE  (StoresOK /\ JobsOK /\ RelayOK /\ PastOK /\ Busy)'
<1>1. \A e \in Editors : phase[e] # "idle" => Tail(chain[e]) \in Seq(Jobs)
  BY HeadTailProperties DEF JobsOK, Busy
<1>2. /\ chain' \in [Editors -> Seq(Jobs)]
      /\ phase' \in [Editors -> {"idle", "get", "got", "put", "write"}]
  BY <1>1 DEF Restart, JobsOK
<1>3. again' \in [Editors -> BOOLEAN] /\ got' \in [Editors -> Contentses]
  BY EmptyOK DEF Restart, JobsOK
<1>4. reg' \in [loaded : BOOLEAN, version : Nat, defs : Sets]
  BY RegistryOK, UnloadedOK DEF Restart, Reloaded, RelayOK, Contentses
<1>5. RelayOK'
  BY <1>4, EmptyOK DEF Restart, RelayOK
<1>6. Busy'
  BY DEF Restart, Busy, JobsOK
<1>7. StoresOK' /\ PastOK'
  BY DEF Restart, StoresOK, PastOK, past
<1> QED
  BY <1>2, <1>3, <1>5, <1>6, <1>7 DEF JobsOK

LEMMA OtherType ==
    ASSUME StoresOK, JobsOK, RelayOK, PastOK, Busy, NEW e \in Editors,
           \/ RequestFails(e) \/ Reload(e) \/ StopSession(e) \/ StartSession(e)
    PROVE  (StoresOK /\ JobsOK /\ RelayOK /\ PastOK /\ Busy)'
<1>1. CASE RequestFails(e)
  <2>1. JobsOK' /\ Busy'
    BY <1>1, DoneOK DEF RequestFails
  <2> QED
    BY <1>1, <2>1 DEF RequestFails, StoresOK, RelayOK, PastOK, relay, past
<1>2. CASE Reload(e)
  <2>1. unconfirmed' \in [Editors -> SUBSET Ids]
    BY <1>2 DEF Reload, StoresOK
  <2> QED
    BY <1>2, <2>1 DEF Reload, StoresOK, JobsOK, RelayOK, PastOK, Busy, relay, past
<1>3. CASE StopSession(e)
  <2>1. StoresOK'
    BY <1>3, EmptyOK DEF StopSession, StoresOK
  <2>2. PastOK'
    BY <1>3 DEF StopSession, PastOK, Present
  <2> QED
    BY <1>3, <2>1, <2>2 DEF StopSession, JobsOK, RelayOK, Busy, relay
<1>4. CASE StartSession(e)
  BY <1>4 DEF StartSession, StoresOK, JobsOK, RelayOK, PastOK, Busy, relay, past
<1> QED
  BY <1>1, <1>2, <1>3, <1>4

LEMMA UploadType ==
    ASSUME StoresOK, JobsOK, RelayOK, PastOK, Busy, Upload
    PROVE  (StoresOK /\ JobsOK /\ RelayOK /\ PastOK /\ Busy)'
  BY DEF Upload, StoresOK, JobsOK, RelayOK, PastOK, Busy, editor, past

LEMMA StutterType ==
    ASSUME StoresOK, JobsOK, RelayOK, PastOK, Busy, UNCHANGED vars
    PROVE  (StoresOK /\ JobsOK /\ RelayOK /\ PastOK /\ Busy)'
  BY DEF vars, editor, relay, past, StoresOK, JobsOK, RelayOK, PastOK, Busy

LEMMA InitType == Init => StoresOK /\ JobsOK /\ RelayOK /\ PastOK /\ Busy
<1> SUFFICES ASSUME Init PROVE StoresOK /\ JobsOK /\ RelayOK /\ PastOK /\ Busy
  OBVIOUS
<1>1. <<>> \in Seq(Jobs)
  BY EmptySeq
<1>2. StoresOK /\ PastOK /\ Busy
  BY EmptyOK DEF Init, StoresOK, PastOK, Busy
<1>3. JobsOK
  BY <1>1, EmptyOK DEF Init, JobsOK
<1>4. RelayOK
  BY EmptyOK, RegistryOK DEF Init, RelayOK
<1> QED
  BY <1>2, <1>3, <1>4

\* Every step keeps the types.
LEMMA TypeStep ==
    ASSUME StoresOK, JobsOK, RelayOK, PastOK, Busy, [Next]_vars
    PROVE  (StoresOK /\ JobsOK /\ RelayOK /\ PastOK /\ Busy)'
<1>1. ASSUME NEW e \in Editors,
             \/ Users(e) \/ StartReconcile(e) \/ Steps(e)
             \/ RequestFails(e) \/ Reload(e) \/ StopSession(e) \/ StartSession(e)
      PROVE  (StoresOK /\ JobsOK /\ RelayOK /\ PastOK /\ Busy)'
  BY <1>1, UserType, EditorStepType, RequestType, WriteType, OtherType DEF Steps
<1> QED
  BY <1>1, UploadType, RestartType, StutterType DEF Next

\* The state stays well typed, and no editor serves a job it does not have.
THEOREM TypeCorrect == Spec => []TypeOK
<1> DEFINE Typed == StoresOK /\ JobsOK /\ RelayOK /\ PastOK /\ Busy
<1>1. Init => Typed
  BY InitType
<1>2. Typed /\ [Next]_vars => Typed'
  BY TypeStep
<1>3. Typed => TypeOK
  BY Parts
<1> HIDE DEF Typed
<1> QED
  BY <1>1, <1>2, <1>3, PTL DEF Spec

-----------------------------------------------------------------------------
(* What was confirmed stays *)

\* The restore of a cold registry is asked for once, answered, and answered with
\* what the volume had; the relay stops with nothing an editor has read unwritten.
Kind == Coincide \intersect {"twoRestores", "probeFails", "mirrorLag", "forgets"} = {}

\* What the relay has, or will have once it has restored it.
Current == IF reg.loaded THEN Contents(reg) ELSE mirror

\* Set b has all that a has, up to what users have deleted.
Covers(a, b) == Present(a) \ removed \subseteq Present(b)

\* A job that deletes was asked for by a user.
RemovesOK ==
    \A e \in Editors : \A k \in 1 .. Len(chain[e]) :
        chain[e][k].kind = "remove" => chain[e][k].id \in removed

\* What an editor has read, and puts, is older than what the relay has, or
\* covers it; and likewise of what a restart will find.
ReadsOK ==
    \A e \in Editors : phase[e] \in {"got", "put"} =>
        /\ got[e].version <= Current.version
        /\ got[e].version = Current.version => Covers(Current.defs, got[e].defs)
        /\ got[e].version = Stored.version => Covers(Stored.defs, got[e].defs)

\* What the gate let in is still there.
WritesOK ==
    \A e \in Editors : phase[e] = "write" =>
        reg.loaded /\ reg.version > 0 /\ Covers(got[e].defs, reg.defs)

\* What was confirmed is on the volume, or in the mirror once the volume is gone,
\* and the registry in memory has all of it.
StoredOK ==
    /\ confirmed \ removed \subseteq Present(Stored.defs)
    /\ reg.loaded => Stored.version <= reg.version /\ Covers(Stored.defs, reg.defs)
    /\ ~reg.loaded => file = Nothing /\ ~dirty
    /\ reg.loaded /\ file = Nothing => mirror = Nothing

\* The mirror that is being restored from is the mirror.
FetchOK ==
    /\ \A e \in Editors : fetched[e] # None =>
          ~reg.loaded /\ fetched[e] = mirror
    /\ \A e, k \in Editors : fetched[e] # None /\ fetched[k] # None => e = k

KeepInv == RemovesOK /\ ReadsOK /\ WritesOK /\ StoredOK /\ FetchOK

LEMMA KeepImplies == RelayOK /\ StoredOK => ConfirmedStays
<1> SUFFICES ASSUME RelayOK, StoredOK PROVE confirmed \ removed \subseteq Present(Kept)
  BY DEF ConfirmedStays
<1>1. CASE reg.loaded
  BY <1>1 DEF StoredOK, Covers, Kept
<1>2. CASE ~reg.loaded
  BY <1>2 DEF StoredOK, Kept, Stored
<1> QED
  BY <1>1, <1>2

LEMMA CurrentOK ==
    ASSUME RelayOK
    PROVE  /\ Current \in Contentses /\ Stored \in Contentses
           /\ reg.loaded => Current.version = reg.version /\ Current.defs = reg.defs
           /\ ~reg.loaded => Current = mirror
           /\ Current.version \in Nat /\ Stored.version \in Nat
  BY ContentsOK DEF Current, Stored, RelayOK, Contentses

\* The relay's state is as it was, and users have deleted what they had or more.
LEMMA RelaySame ==
    ASSUME StoredOK, FetchOK, RelayOK, UNCHANGED <<relay, confirmed>>, removed \subseteq removed'
    PROVE  /\ StoredOK' /\ FetchOK' /\ Current' = Current /\ Stored' = Stored
           /\ \A a, b : Covers(a, b) => Covers(a, b)'
<1>1. Current' = Current /\ Stored' = Stored
  BY DEF Current, Stored, relay
<1>2. \A a, b : Covers(a, b) => Covers(a, b)'
  BY DEF Covers
<1>3. FetchOK'
  BY DEF FetchOK, relay
<1>4. StoredOK'
  BY <1>1 DEF StoredOK, Covers, relay
<1> QED
  BY <1>1, <1>2, <1>3, <1>4

-----------------------------------------------------------------------------
(* Steps: what was confirmed *)

\* A job joins a chain; users may have deleted more.
LEMMA EnqueueKeeps ==
    ASSUME JobsOK, KeepInv, RelayOK, NEW e \in Editors, NEW j \in Jobs, Enqueue(e, j),
           removed \subseteq removed', j.kind = "remove" => j.id \in removed',
           UNCHANGED <<phase, got, relay, confirmed>>
    PROVE  KeepInv'
<1>1. /\ StoredOK' /\ FetchOK' /\ Current' = Current /\ Stored' = Stored
      /\ \A a, b : Covers(a, b) => Covers(a, b)'
  BY RelaySame DEF KeepInv
<1>2. ReadsOK' /\ WritesOK'
  BY <1>1 DEF KeepInv, ReadsOK, WritesOK, relay
<1>3. RemovesOK'
  <2> SUFFICES ASSUME NEW x \in Editors, NEW k \in 1 .. Len(chain'[x]),
                      chain'[x][k].kind = "remove"
               PROVE  chain'[x][k].id \in removed'
    BY DEF RemovesOK
  <2>1. CASE x # e
    BY <2>1 DEF Enqueue, JobsOK, KeepInv, RemovesOK
  <2>2. CASE x = e
    <3>1. /\ chain'[x] = Append(chain[e], j) /\ chain[e] \in Seq(Jobs)
      BY <2>2 DEF Enqueue, JobsOK
    <3>2. /\ Len(chain'[x]) = Len(chain[e]) + 1
          /\ \A i \in 1 .. Len(chain[e]) : chain'[x][i] = chain[e][i]
          /\ chain'[x][Len(chain[e]) + 1] = j
      BY <3>1, AppendProperties
    <3>3. Len(chain[e]) \in Nat
      BY <3>1, LenProperties
    <3> QED
      BY <3>2, <3>3 DEF KeepInv, RemovesOK
  <2> QED
    BY <2>1, <2>2
<1> QED
  BY <1>1, <1>2, <1>3 DEF KeepInv

LEMMA UserKeeps ==
    ASSUME JobsOK, KeepInv, RelayOK, NEW e \in Editors, Users(e)
    PROVE  KeepInv'
<1>1. ASSUME NEW i \in Ids, NEW n \in Names, CreateCollection(e, i, n)
      PROVE  KeepInv'
  <2>1. Add(i, n) \in Jobs /\ Add(i, n).kind # "remove"
    BY AddOK DEF Add
  <2> QED
    BY <1>1, <2>1, EnqueueKeeps DEF CreateCollection, Change
<1>2. ASSUME NEW i \in Ids, NEW n \in Names, RenameCollection(e, i, n)
      PROVE  KeepInv'
  <2>1. Job("rename", i) \in Jobs /\ Job("rename", i).kind # "remove"
    BY JobOK DEF Job
  <2> QED
    BY <1>2, <2>1, EnqueueKeeps DEF RenameCollection, Change
<1>3. ASSUME NEW i \in Ids, DeleteCollection(e, i)
      PROVE  KeepInv'
  <2>1. Job("remove", i) \in Jobs /\ Job("remove", i).id = i
    BY JobOK DEF Job
  <2> QED
    BY <1>3, <2>1, EnqueueKeeps DEF DeleteCollection, Change
<1> QED
  BY <1>1, <1>2, <1>3 DEF Users

LEMMA TailKeeps ==
    ASSUME NEW c \in Seq(Jobs), c # <<>>,
           \A k \in 1 .. Len(c) : c[k].kind = "remove" => c[k].id \in removed
    PROVE  \A k \in 1 .. Len(Tail(c)) :
              Tail(c)[k].kind = "remove" => Tail(c)[k].id \in removed
<1>1. Len(c) \in Nat /\ Len(c) > 0
  BY EmptySeq, LenProperties
<1>2. Len(Tail(c)) = Len(c) - 1 /\ \A i \in 1 .. Len(Tail(c)) : Tail(c)[i] = c[i + 1]
  BY HeadTailProperties
<1>3. \A i \in 1 .. Len(Tail(c)) : i + 1 \in 1 .. Len(c)
  BY <1>1, <1>2
<1> QED
  BY <1>2, <1>3

LEMMA DoneRemoves ==
    ASSUME JobsOK, Busy, RemovesOK, NEW e \in Editors, phase[e] # "idle" \/ chain[e] # <<>>, Done(e),
           UNCHANGED removed
    PROVE  RemovesOK'
<1>1. chain[e] \in Seq(Jobs) /\ chain[e] # <<>>
  BY DEF JobsOK, Busy
<1>2. \A x \in Editors : x # e => chain'[x] = chain[x]
  BY DEF Done, JobsOK
<1>3. chain'[e] = Tail(chain[e])
  BY DEF Done, JobsOK
<1> QED
  BY <1>1, <1>2, <1>3, TailKeeps DEF RemovesOK

\* A job that ends without the relay.
LEMMA DoneKeeps ==
    ASSUME JobsOK, Busy, RelayOK, KeepInv, NEW e \in Editors, phase[e] # "idle" \/ chain[e] # <<>>, Done(e),
           UNCHANGED <<relay, confirmed, removed>>
    PROVE  KeepInv'
<1>1. StoredOK' /\ FetchOK' /\ Current' = Current /\ Stored' = Stored
  BY RelaySame DEF KeepInv
<1>2. RemovesOK'
  BY DoneRemoves DEF KeepInv
<1>3. ReadsOK' /\ WritesOK'
  BY <1>1 DEF KeepInv, ReadsOK, WritesOK, Done, Goto, JobsOK, Covers, relay
<1> QED
  BY <1>1, <1>2, <1>3 DEF KeepInv

\* What a job makes of what it read has all that was there, but what it deletes.
LEMMA TransformCovers ==
    ASSUME StoresOK, NEW e \in Editors, NEW j \in Jobs, j # Reconcile,
           j.kind = "remove" => j.id \in removed, NEW d \in Sets
    PROVE  Covers(d, Transform(e, j, d))
<1>1. CASE \E i \in Ids : j = Job("rename", i)
  <2>1. PICK i \in Ids : j.kind = "rename" /\ j.id = i
    BY <1>1 DEF Job
  <2> QED
    BY <2>1 DEF Transform, Sets, Covers, Present
<1>2. CASE \E i \in Ids : j = Job("remove", i)
  <2>1. PICK i \in Ids : j.kind = "remove" /\ j.id = i
    BY <1>2 DEF Job
  <2> QED
    BY <2>1 DEF Transform, Sets, Covers, Present
<1>3. CASE \E i \in Ids, n \in Names : j = Add(i, n)
  <2>1. PICK i \in Ids, n \in Names : j.kind = "add" /\ j.id = i /\ j.name = n
    BY <1>3 DEF Add
  <2> QED
    BY <2>1 DEF Transform, Sets, Covers, Present
<1> QED
  BY <1>1, <1>2, <1>3 DEF Jobs

LEMMA EditorStepKeeps ==
    ASSUME StoresOK, JobsOK, RelayOK, Busy, KeepInv, NEW e \in Editors,
           StartReconcile(e) \/ Ask(e) \/ Put(e) \/ Hydrate(e)
    PROVE  KeepInv'
<1>1. CASE StartReconcile(e)
  <2>1. Reconcile.kind # "remove"
    BY DEF Reconcile, Job
  <2> QED
    BY <1>1, <2>1, ReconcileOK, EnqueueKeeps DEF StartReconcile, past
<1>2. CASE Ask(e)
  <2>1. CASE Done(e)
    BY <1>2, <2>1, DoneKeeps DEF Ask, past
  <2>2. CASE Goto(e, "get") /\ UNCHANGED <<chain, again, got>>
    <3>1. StoredOK' /\ FetchOK' /\ Current' = Current /\ Stored' = Stored
      BY <1>2, RelaySame DEF KeepInv, Ask, past
    <3>2. RemovesOK'
      BY <1>2, <2>2 DEF KeepInv, Ask, RemovesOK, past
    <3>3. ReadsOK' /\ WritesOK'
      BY <1>2, <2>2, <3>1
         DEF KeepInv, Ask, ReadsOK, WritesOK, Goto, JobsOK, Covers, relay, past
    <3> QED
      BY <3>1, <3>2, <3>3 DEF KeepInv
  <2> QED
    BY <1>2, <2>1, <2>2 DEF Ask
<1>3. CASE Put(e)
  <2>1. StoredOK' /\ FetchOK' /\ Current' = Current /\ Stored' = Stored
    BY <1>3, RelaySame DEF KeepInv, Put, past
  <2>2. RemovesOK'
    BY <1>3 DEF KeepInv, Put, RemovesOK, past
  <2>3. chain[e] \in Seq(Jobs) /\ chain[e] # <<>> /\ got[e] \in Contentses
    BY <1>3 DEF Put, Busy, JobsOK
  <2>4. Running(e) \in Jobs /\ Running(e) = chain[e][1] /\ 1 \in 1 .. Len(chain[e])
    BY <2>3, HeadTailProperties, LenProperties, EmptySeq DEF Running
  <2>5. Running(e).kind = "remove" => Running(e).id \in removed
    BY <2>4 DEF KeepInv, RemovesOK
  <2>6. Covers(got[e].defs, Transform(e, Running(e), got[e].defs))
    BY <1>3, <2>3, <2>4, <2>5, TransformCovers DEF Put, Contentses
  <2>7. /\ got'[e].version = got[e].version
        /\ got'[e].defs = Transform(e, Running(e), got[e].defs)
        /\ \A x \in Editors : x # e => got'[x] = got[x] /\ phase'[x] = phase[x]
        /\ phase[e] = "got" /\ phase'[e] = "put"
    BY <1>3, <2>3 DEF Put, Goto, JobsOK, Contentses
  <2>8. ReadsOK'
    <3> SUFFICES ASSUME NEW x \in Editors, phase'[x] \in {"got", "put"}
                 PROVE  /\ got'[x].version <= Current.version
                        /\ got'[x].version = Current.version =>
                              Covers(Current.defs, got'[x].defs)
                        /\ got'[x].version = Stored.version =>
                              Covers(Stored.defs, got'[x].defs)
      BY <1>3, <2>1 DEF ReadsOK, Covers, Put, past
    <3> QED
      BY <2>6, <2>7 DEF KeepInv, ReadsOK, Covers
  <2>9. WritesOK'
    BY <1>3, <2>7 DEF KeepInv, WritesOK, Covers, Put, relay, past
  <2> QED
    BY <2>1, <2>2, <2>8, <2>9 DEF KeepInv
<1>4. CASE Hydrate(e)
  BY <1>4, DoneKeeps DEF Hydrate, past
<1> QED
  BY <1>1, <1>2, <1>3, <1>4

LEMMA OtherKeeps ==
    ASSUME JobsOK, RelayOK, Busy, KeepInv, NEW e \in Editors,
           \/ RequestFails(e) \/ Reload(e) \/ StopSession(e) \/ StartSession(e)
    PROVE  KeepInv'
<1>1. CASE RequestFails(e)
  BY <1>1, DoneKeeps DEF RequestFails, past
<1>2. CASE Reload(e)
  <2>1. StoredOK' /\ FetchOK' /\ Current' = Current /\ Stored' = Stored
    BY <1>2, RelaySame DEF KeepInv, Reload, past
  <2> QED
    BY <1>2, <2>1
    DEF KeepInv, Reload, ReadsOK, WritesOK, RemovesOK, Covers, relay, past
<1>3. CASE StopSession(e) \/ StartSession(e)
  <2>1. /\ UNCHANGED <<chain, phase, got, relay, confirmed, removed>>
    BY <1>3 DEF StopSession, StartSession, past
  <2>2. StoredOK' /\ FetchOK' /\ Current' = Current /\ Stored' = Stored
    BY <2>1, RelaySame DEF KeepInv
  <2> QED
    BY <2>1, <2>2 DEF KeepInv, ReadsOK, WritesOK, RemovesOK, Covers, relay
<1> QED
  BY <1>1, <1>2, <1>3

LEMMA StutterKeeps ==
    ASSUME RelayOK, KeepInv, UNCHANGED vars
    PROVE  KeepInv'
<1>1. StoredOK' /\ FetchOK' /\ Current' = Current /\ Stored' = Stored
  BY RelaySame DEF KeepInv, vars, past
<1> QED
  BY <1>1 DEF KeepInv, vars, editor, ReadsOK, WritesOK, RemovesOK, Covers, relay, past

LEMMA ProbeKeeps ==
    ASSUME RelayOK, KeepInv, Kind, NEW e \in Editors, Probe(e)
    PROVE  KeepInv'
<1>1. \A k \in Editors : fetched[k] = None
  BY DEF Probe, Kind
<1>2. fetched' = [fetched EXCEPT ![e] = mirror]
  BY DEF Probe, Kind
<1>3. FetchOK'
  BY <1>1, <1>2 DEF FetchOK, Probe, RelayOK
<1>4. Current' = Current /\ Stored' = Stored
  BY DEF Probe, Current, Stored
<1>5. StoredOK' /\ ReadsOK' /\ WritesOK' /\ RemovesOK'
  BY <1>4 DEF KeepInv, StoredOK, ReadsOK, WritesOK, RemovesOK, Covers, Probe, editor, past
<1> QED
  BY <1>3, <1>5 DEF KeepInv

LEMMA RestoreKeeps ==
    ASSUME JobsOK, RelayOK, KeepInv, NEW e \in Editors, Restore(e)
    PROVE  KeepInv'
<1>1. /\ ~reg.loaded /\ fetched[e] = mirror /\ file = Nothing /\ ~dirty
      /\ \A k \in Editors : k # e => fetched[k] = None
  BY DEF Restore, KeepInv, FetchOK, StoredOK
<1>2. Current = mirror /\ Stored = mirror
  BY <1>1 DEF Current, Stored
<1>3. \A k \in Editors : fetched'[k] = None
  BY <1>1 DEF Restore, RelayOK
<1>4. mirror \in Contentses /\ file \in Contentses /\ mirror.version \in Nat /\ mirror.defs \in Sets
  BY DEF RelayOK, Contentses
<1>5. /\ reg'.loaded /\ reg'.version = mirror.version /\ reg'.defs = mirror.defs
      /\ file' = mirror
  <2>1. CASE mirror # Nothing
    BY <1>1, <1>4, <2>1, RegistryOK DEF Restore
  <2>2. CASE mirror = Nothing
    BY <1>1, <2>2, RegistryOK, EmptyOK DEF Restore, Nothing
  <2> QED
    BY <2>1, <2>2
<1>6. mirror' = mirror /\ dirty' = dirty /\ UNCHANGED <<editor, past>>
  BY DEF Restore
<1>7. Stored' = mirror
  BY <1>5, <1>6 DEF Stored
<1>8. Current'.version = mirror.version /\ Current'.defs = mirror.defs
  BY <1>5 DEF Current, Contents
<1>9. StoredOK'
  BY <1>2, <1>4, <1>5, <1>6, <1>7 DEF KeepInv, StoredOK, Covers, past
<1>10. ReadsOK'
  BY <1>2, <1>6, <1>7, <1>8 DEF KeepInv, ReadsOK, Covers, editor, past
<1>11. WritesOK'
  BY <1>1, <1>6 DEF KeepInv, WritesOK, editor
<1>12. RemovesOK' /\ FetchOK'
  BY <1>3, <1>6 DEF KeepInv, RemovesOK, FetchOK, editor, past
<1> QED
  BY <1>9, <1>10, <1>11, <1>12 DEF KeepInv

LEMMA GetKeeps ==
    ASSUME JobsOK, RelayOK, KeepInv, NEW e \in Editors, Get(e)
    PROVE  KeepInv'
<1>1. StoredOK' /\ FetchOK' /\ Current' = Current /\ Stored' = Stored
  BY RelaySame DEF KeepInv, Get, past
<1>2. reg.loaded /\ Current = Contents(reg)
  BY DEF Get, Ready, Current
<1>3. /\ got'[e] = Current
      /\ \A x \in Editors : x # e => got'[x] = got[x] /\ phase'[x] = phase[x]
      /\ phase'[e] = "got"
  BY <1>2 DEF Get, Goto, JobsOK
<1>4. Current.version \in Nat /\ Covers(Current.defs, Current.defs) /\ Covers(Stored.defs, Current.defs)
  BY <1>2, CurrentOK DEF Covers, KeepInv, StoredOK
<1>5. ReadsOK'
  <2> SUFFICES ASSUME NEW x \in Editors, phase'[x] \in {"got", "put"}
               PROVE  /\ got'[x].version <= Current.version
                      /\ got'[x].version = Current.version =>
                            Covers(Current.defs, got'[x].defs)
                      /\ got'[x].version = Stored.version =>
                            Covers(Stored.defs, got'[x].defs)
    BY <1>1 DEF ReadsOK, Covers, Get, past
  <2>1. CASE x = e
    BY <1>3, <1>4, <2>1
  <2>2. CASE x # e
    BY <1>3, <2>2 DEF KeepInv, ReadsOK
  <2> QED
    BY <2>1, <2>2
<1>6. WritesOK' /\ RemovesOK'
  BY <1>3 DEF KeepInv, WritesOK, RemovesOK, Covers, Get, relay, past
<1> QED
  BY <1>1, <1>5, <1>6 DEF KeepInv

LEMMA CoversTransitive ==
    ASSUME NEW a, NEW b, NEW c, Covers(a, b), Covers(b, c)
    PROVE  Covers(a, c)
  BY DEF Covers

\* The gate lets in only what covers the registry.
LEMMA AcceptKeeps ==
    ASSUME JobsOK, RelayOK, KeepInv, NEW e \in Editors, Gate(e), Matches(got[e].version)
    PROVE  KeepInv'
<1>1. /\ phase[e] = "put" /\ reg.loaded /\ got[e].version = reg.version
      /\ reg' = Registry(reg.version + 1, got[e].defs) /\ Goto(e, "write")
      /\ UNCHANGED <<chain, got, fetched, file, mirror, dirty, past>>
  BY DEF Gate, Matches, Ready
<1>2. /\ reg.version \in Nat /\ got[e].defs \in Sets /\ Stored.version \in Nat
      /\ Current.version = reg.version /\ Current.defs = reg.defs
  BY <1>1, CurrentOK DEF JobsOK, RelayOK, Contentses
<1>3. reg'.loaded /\ reg'.version = reg.version + 1 /\ reg'.defs = got[e].defs
  BY <1>1, <1>2, RegistryOK
<1>4. Covers(reg.defs, got[e].defs)
  BY <1>1, <1>2 DEF KeepInv, ReadsOK
<1>5. Stored' = Stored /\ Current'.version = reg.version + 1 /\ Current'.defs = got[e].defs
  BY <1>1, <1>3 DEF Stored, Current, Contents
<1>6. /\ phase'[e] = "write"
      /\ \A x \in Editors : x # e => phase'[x] = phase[x]
  BY <1>1 DEF Goto, JobsOK
<1>7. StoredOK'
  <2>1. Covers(Stored.defs, got[e].defs)
    BY <1>1, <1>4, CoversTransitive DEF KeepInv, StoredOK
  <2> QED
    BY <1>1, <1>2, <1>3, <1>5, <2>1 DEF KeepInv, StoredOK, Covers, past
<1>8. ReadsOK'
  <2> SUFFICES ASSUME NEW x \in Editors, phase'[x] \in {"got", "put"}
               PROVE  /\ got[x].version <= reg.version + 1
                      /\ got[x].version # reg.version + 1
                      /\ got[x].version = Stored.version =>
                            Covers(Stored.defs, got[x].defs)
    BY <1>1, <1>5 DEF ReadsOK, Covers, past
  <2>1. phase[x] \in {"got", "put"} /\ got[x].version \in Nat
    BY <1>6 DEF JobsOK, Contentses
  <2> QED
    BY <1>2, <2>1 DEF KeepInv, ReadsOK
<1>9. WritesOK'
  <2> SUFFICES ASSUME NEW x \in Editors, phase'[x] = "write"
               PROVE  Covers(got[x].defs, got[e].defs)
    BY <1>1, <1>2, <1>3 DEF WritesOK, Covers, past
  <2>1. CASE x = e
    BY <2>1 DEF Covers
  <2>2. CASE x # e
    BY <1>4, <1>6, <2>2, CoversTransitive DEF KeepInv, WritesOK
  <2> QED
    BY <2>1, <2>2
<1>10. RemovesOK'
  BY <1>1 DEF KeepInv, RemovesOK, past
<1>11. FetchOK'
  BY <1>1 DEF KeepInv, FetchOK
<1> QED
  BY <1>7, <1>8, <1>9, <1>10, <1>11 DEF KeepInv

LEMMA GateKeeps ==
    ASSUME JobsOK, RelayOK, Busy, KeepInv, NEW e \in Editors, Gate(e)
    PROVE  KeepInv'
<1>1. CASE Matches(got[e].version)
  BY <1>1, AcceptKeeps
<1>2. CASE ~Matches(got[e].version) /\ ~again[e]
  <2>1. /\ Goto(e, "get")
        /\ UNCHANGED <<chain, got, relay, past>>
    BY <1>2 DEF Gate, relay
  <2>2. StoredOK' /\ FetchOK' /\ Current' = Current /\ Stored' = Stored
    BY <2>1, RelaySame DEF KeepInv, past
  <2> QED
    BY <2>1, <2>2
    DEF KeepInv, ReadsOK, WritesOK, RemovesOK, Covers, Goto, JobsOK, relay, past
<1>3. CASE ~Matches(got[e].version) /\ again[e]
  <2>1. Done(e) /\ UNCHANGED <<relay, past>> /\ phase[e] # "idle"
    BY <1>3 DEF Gate, relay
  <2> QED
    BY <2>1, DoneKeeps DEF past
<1> QED
  BY <1>1, <1>2, <1>3

\* What is written is the registry as it is, which has what is confirmed by it.
LEMMA FlushKeeps ==
    ASSUME JobsOK, RelayOK, Busy, KeepInv, NEW e \in Editors, phase[e] = "write",
           Done(e), file' = Contents(reg), dirty' = TRUE,
           confirmed' \subseteq confirmed \union Present(got[e].defs),
           UNCHANGED <<fetched, reg, mirror, removed>>
    PROVE  KeepInv'
<1>1. reg.loaded /\ reg.version > 0 /\ Covers(got[e].defs, reg.defs)
  BY DEF KeepInv, WritesOK
<1>2. /\ Contents(reg).version = reg.version /\ Contents(reg).defs = reg.defs
      /\ Current = Contents(reg) /\ Current' = Contents(reg) /\ reg.version \in Nat
  BY <1>1, ContentsOK DEF Current, RelayOK
<1>3. file' # Nothing
  BY <1>1, <1>2 DEF Nothing
<1>4. Stored' = Contents(reg)
  BY <1>3 DEF Stored
<1>5. confirmed \ removed \subseteq Present(reg.defs)
  BY <1>1, KeepImplies DEF KeepInv, ConfirmedStays, Kept
<1>6. StoredOK'
  BY <1>1, <1>2, <1>3, <1>4, <1>5 DEF StoredOK, Covers
<1>7. /\ phase'[e] = "idle"
      /\ \A x \in Editors : x # e => phase'[x] = phase[x] /\ got'[x] = got[x]
  BY DEF Done, Goto, JobsOK
<1>8. ReadsOK' /\ WritesOK'
  BY <1>2, <1>4, <1>7 DEF KeepInv, ReadsOK, WritesOK, Covers
<1>9. RemovesOK'
  BY DoneRemoves DEF KeepInv
<1>10. FetchOK'
  BY DEF KeepInv, FetchOK
<1> QED
  BY <1>6, <1>8, <1>9, <1>10 DEF KeepInv

LEMMA WriteKeeps ==
    ASSUME JobsOK, RelayOK, StoresOK, Busy, KeepInv, NEW e \in Editors, Write(e)
    PROVE  KeepInv'
<1>1. phase[e] = "write" /\ Done(e) /\ UNCHANGED <<fetched, reg, mirror, removed>>
  BY DEF Write
<1>2. CASE file' = FileNow(e) /\ dirty' = TRUE
  <2>1. confirmed' \subseteq confirmed \union Present(got[e].defs)
    BY <1>2 DEF Write, StoresOK
  <2> QED
    BY <1>1, <1>2, <2>1, FlushKeeps DEF FileNow
<1>3. CASE UNCHANGED <<file, dirty, unconfirmed, confirmed>>
  BY <1>1, <1>3, DoneKeeps DEF relay
<1> QED
  BY <1>2, <1>3 DEF Write

LEMMA UploadKeeps ==
    ASSUME RelayOK, KeepInv, Upload
    PROVE  KeepInv'
<1>1. reg.loaded /\ dirty' \in BOOLEAN
  BY DEF Upload, KeepInv, StoredOK
<1>2. Stored' = Stored /\ Current' = Current
  BY <1>1 DEF Upload, Stored, Current, KeepInv, StoredOK
<1>3. StoredOK'
  BY <1>1, <1>2 DEF Upload, KeepInv, StoredOK, Covers, past
<1>4. FetchOK'
  BY <1>1 DEF Upload, KeepInv, FetchOK
<1> QED
  BY <1>2, <1>3, <1>4
  DEF KeepInv, Upload, ReadsOK, WritesOK, RemovesOK, Covers, editor, past

LEMMA RestartKeeps ==
    ASSUME JobsOK, RelayOK, Busy, KeepInv, Kind, Restart
    PROVE  KeepInv'
<1>1. /\ \A e \in Editors : phase[e] = "got" => got[e].version <= Stored.version
      /\ \/ reg' = Reloaded /\ UNCHANGED file
         \/ mirror = file /\ reg' = Unloaded /\ file' = Nothing
      /\ ~dirty' /\ \A e \in Editors : fetched'[e] = None
      /\ UNCHANGED <<mirror, past>>
  BY DEF Restart, Kind
<1>2. Stored' = Stored
  BY <1>1 DEF Stored
<1>3. \/ /\ ~reg'.loaded /\ file' = Nothing
      \/ /\ reg'.loaded /\ reg'.version = file.version /\ reg'.defs = file.defs
         /\ file' = file /\ file # Nothing
  BY <1>1, UnloadedOK, RegistryOK DEF Reloaded, RelayOK, Contentses
<1>4. Current'.version = Stored.version /\ Current'.defs = Stored.defs
  BY <1>2, <1>3 DEF Current, Stored, Contents
<1>5. Stored \in Contentses /\ Stored.version \in Nat
  BY CurrentOK
<1>6. StoredOK'
  <2>1. confirmed' \ removed' \subseteq Present(Stored'.defs)
    BY <1>1, <1>2 DEF KeepInv, StoredOK, past
  <2>2. reg'.loaded => reg'.version = Stored.version /\ reg'.defs = Stored.defs
    BY <1>3 DEF Stored
  <2> QED
    BY <1>1, <1>2, <1>3, <1>5, <2>1, <2>2 DEF StoredOK, Covers
<1>7. \A e \in Editors : phase'[e] # "idle" =>
          phase[e] = "got" /\ phase'[e] = "got" /\ got'[e] = got[e] /\ chain'[e] = chain[e]
  BY DEF Restart, JobsOK
<1>8. ReadsOK'
  BY <1>1, <1>2, <1>4, <1>7 DEF KeepInv, ReadsOK, Covers, past
<1>9. WritesOK'
  BY <1>7 DEF WritesOK
<1>10. RemovesOK'
  <2>1. \A e \in Editors : chain'[e] = chain[e] \/
            (chain'[e] = Tail(chain[e]) /\ chain[e] \in Seq(Jobs) /\ chain[e] # <<>>)
    BY DEF Restart, JobsOK, Busy
  <2> QED
    BY <1>1, <2>1, TailKeeps DEF KeepInv, RemovesOK, past
<1>11. FetchOK'
  BY <1>1 DEF FetchOK
<1> QED
  BY <1>6, <1>8, <1>9, <1>10, <1>11 DEF KeepInv

LEMMA InitKeeps == Init => KeepInv
<1> SUFFICES ASSUME Init PROVE KeepInv
  OBVIOUS
<1>1. /\ reg.loaded /\ reg.version = 0 /\ reg.defs = Empty
      /\ Stored = Nothing /\ Nothing.version = 0 /\ Nothing.defs = Empty
  BY RegistryOK, EmptyOK DEF Init, Stored, Nothing
<1>2. \A e \in Editors : Len(chain[e]) = 0 /\ phase[e] = "idle" /\ fetched[e] = None
  BY EmptySeq DEF Init
<1>3. StoredOK
  BY <1>1 DEF Init, StoredOK, Covers
<1>4. ReadsOK /\ WritesOK /\ FetchOK
  BY <1>2 DEF ReadsOK, WritesOK, FetchOK
<1>5. RemovesOK
  BY <1>2 DEF RemovesOK
<1> QED
  BY <1>3, <1>4, <1>5 DEF KeepInv

\* The steps keep the types and what was confirmed.
LEMMA KindStep ==
    ASSUME Kind, StoresOK, JobsOK, RelayOK, PastOK, Busy, KeepInv, [Next]_vars
    PROVE  (StoresOK /\ JobsOK /\ RelayOK /\ PastOK /\ Busy)' /\ KeepInv'
<1>1. (StoresOK /\ JobsOK /\ RelayOK /\ PastOK /\ Busy)'
  BY TypeStep
<1>2. ASSUME NEW e \in Editors,
             \/ Users(e) \/ StartReconcile(e) \/ Steps(e)
             \/ RequestFails(e) \/ Reload(e) \/ StopSession(e) \/ StartSession(e)
      PROVE  KeepInv'
  BY <1>2, UserKeeps, EditorStepKeeps, ProbeKeeps, RestoreKeeps, GetKeeps, GateKeeps,
     WriteKeeps, OtherKeeps DEF Steps
<1>3. Upload \/ Restart \/ UNCHANGED vars => KeepInv'
  BY UploadKeeps, RestartKeeps, StutterKeeps
<1> QED
  BY <1>1, <1>2, <1>3 DEF Next

\* The version gate, the two writes behind it and the restore lose nothing that a
\* user was told is there: for any editors, collections, failures and restarts, if
\* the relay's restores and stops are Kind.
THEOREM ConfirmedSurvives == Kind /\ Spec => []ConfirmedStays
<1> DEFINE Typed == StoresOK /\ JobsOK /\ RelayOK /\ PastOK /\ Busy
           IInv == Typed /\ KeepInv
<1>1. Init => IInv
  BY InitType, InitKeeps
<1>2. Kind /\ IInv /\ [Next]_vars => IInv'
  BY KindStep
<1>3. IInv => ConfirmedStays
  BY KeepImplies DEF KeepInv
<1>4. Kind => Kind'
  BY DEF Kind
<1> HIDE DEF IInv, Typed
<1> QED
  BY <1>1, <1>2, <1>3, <1>4, PTL DEF Spec

-----------------------------------------------------------------------------
(* What an editor created stays with it                                     *)

\* An editor still has to confirm what it created, or the relay has confirmed it,
\* and then what it reads has it.
Own(e) ==
    /\ \A i \in unconfirmed[e] : creator[i] = e
    /\ \A i \in Ids \ (removed \union dropped) :
          creator[i] = e => i \in unconfirmed[e] \union confirmed
    /\ phase[e] = "got" =>
          \A i \in Ids \ (removed \union dropped) :
              creator[i] = e => i \in unconfirmed[e] \/ got[e].defs[i] # Absent
    /\ \A i \in Ids \ (removed \union dropped) : creator[i] = e => store[e][i] # Absent

OwnInv == \A e \in Editors : Own(e)

\* Own speaks of e's part of the state and of the past.
LEMMA OwnSame ==
    ASSUME NEW e \in Editors, Own(e), UNCHANGED <<creator, confirmed>>,
           removed \subseteq removed', dropped \subseteq dropped', unconfirmed'[e] = unconfirmed[e],
           store'[e] = store[e],
           phase'[e] = "got" => phase[e] = "got" /\ got'[e] = got[e]
    PROVE  Own(e)'
  BY DEF Own

LEMMA OwnUser ==
    ASSUME StoresOK, JobsOK, PastOK, OwnInv, NEW e \in Editors, Users(e)
    PROVE  OwnInv'
<1>1. ASSUME NEW i \in Ids, NEW n \in Names, CreateCollection(e, i, n)
      PROVE  OwnInv'
  <2>1. /\ creator[i] = None /\ creator' = [creator EXCEPT ![i] = e]
        /\ store' = [store EXCEPT ![e][i] = n]
        /\ unconfirmed' = [unconfirmed EXCEPT ![e] = @ \union {i}]
        /\ UNCHANGED <<phase, got, confirmed, dropped, removed>>
    BY <1>1 DEF CreateCollection, Change
  <2>2. ASSUME NEW x \in Editors, x # e PROVE Own(x)'
    <3>1. unconfirmed'[x] = unconfirmed[x] /\ store'[x] = store[x]
      BY <2>1, <2>2 DEF StoresOK
    <3>2. i \notin unconfirmed[x] /\ creator'[i] # x
      BY <2>1, <2>2, AbsentAssumption DEF OwnInv, Own, PastOK
    <3>3. \A k \in Ids : k # i => creator'[k] = creator[k]
      BY <2>1 DEF PastOK
    <3>4. unconfirmed[x] \subseteq Ids /\ Own(x)
      BY DEF StoresOK, OwnInv
    <3> QED
      BY <2>1, <3>1, <3>2, <3>3, <3>4 DEF Own
  <2>3. Own(e)'
    <3>1. /\ unconfirmed'[e] = unconfirmed[e] \union {i} /\ creator'[i] = e
          /\ store'[e][i] = n /\ n # Absent
          /\ \A k \in Ids : k # i => creator'[k] = creator[k] /\ store'[e][k] = store[e][k]
      BY <2>1, AbsentAssumption DEF StoresOK, PastOK, Sets
    <3>2. unconfirmed[e] \subseteq Ids /\ Own(e)
      BY DEF StoresOK, OwnInv
    <3> QED
      BY <2>1, <3>1, <3>2 DEF Own
  <2> QED
    BY <2>2, <2>3 DEF OwnInv
<1>2. ASSUME NEW i \in Ids, NEW n \in Names, RenameCollection(e, i, n)
      PROVE  OwnInv'
  <2>1. /\ store' = [store EXCEPT ![e][i] = n] /\ n # Absent
        /\ UNCHANGED <<phase, got, confirmed, removed, dropped, unconfirmed, creator>>
    BY <1>2, AbsentAssumption DEF RenameCollection, Change
  <2>2. \A x \in Editors, k \in Ids : store[x][k] # Absent => store'[x][k] # Absent
    BY <2>1 DEF StoresOK, Sets
  <2> QED
    BY <2>1, <2>2 DEF OwnInv, Own
<1>3. ASSUME NEW i \in Ids, DeleteCollection(e, i)
      PROVE  OwnInv'
  <2>1. /\ store' = [store EXCEPT ![e][i] = Absent] /\ removed' = removed \union {i}
        /\ UNCHANGED <<phase, got, confirmed, dropped, unconfirmed, creator>>
    BY <1>3 DEF DeleteCollection, Change
  <2>2. \A x \in Editors, k \in Ids \ (removed' \union dropped') : store'[x][k] = store[x][k]
    BY <2>1 DEF StoresOK, Sets
  <2> QED
    BY <2>1, <2>2 DEF OwnInv, Own
<1> QED
  BY <1>1, <1>2, <1>3 DEF Users

LEMMA OwnSteps ==
    ASSUME StoresOK, JobsOK, RelayOK, PastOK, KeepInv, OwnInv, NEW e \in Editors,
           StartReconcile(e) \/ Steps(e) \/ RequestFails(e)
    PROVE  OwnInv'
<1>1. CASE \/ StartReconcile(e) \/ Ask(e) \/ Put(e) \/ Probe(e) \/ Restore(e)
           \/ Gate(e) \/ RequestFails(e)
  <2>1. UNCHANGED <<store, unconfirmed, creator, confirmed, dropped, removed>>
    BY <1>1 DEF StartReconcile, Ask, Put, Probe, Restore, Gate, RequestFails, editor, past
  <2>2. \A x \in Editors : phase'[x] = "got" => phase[x] = "got" /\ got'[x] = got[x]
    BY <1>1 DEF StartReconcile, Ask, Put, Probe, Restore, Gate, RequestFails, editor, past,
       Goto, Done, JobsOK
  <2> QED
    BY <2>1, <2>2, OwnSame DEF OwnInv
<1>2. CASE Get(e)
  <2>1. /\ UNCHANGED <<store, unconfirmed, creator, confirmed, dropped, removed>>
        /\ reg.loaded /\ got' = [got EXCEPT ![e] = Contents(reg)]
        /\ phase' = [phase EXCEPT ![e] = "got"]
    BY <1>2 DEF Get, Ready, Goto, past
  <2>2. \A x \in Editors : x # e => Own(x)'
    BY <2>1, OwnSame DEF OwnInv, JobsOK
  <2>3. \A i \in confirmed \ removed : reg.defs[i] # Absent
    BY <2>1, KeepImplies DEF KeepInv, ConfirmedStays, Kept, Present
  <2>4. got'[e].defs = reg.defs
    BY <2>1, ContentsOK DEF JobsOK
  <2>5. Own(e)'
    BY <2>1, <2>3, <2>4 DEF OwnInv, Own
  <2> QED
    BY <2>2, <2>5 DEF OwnInv
<1>3. CASE Hydrate(e)
  <2>1. /\ UNCHANGED <<unconfirmed, creator, confirmed, dropped, removed>> /\ phase[e] = "got"
        /\ store' = [store EXCEPT ![e] = Hydrated(e, got[e].defs)]
        /\ phase' = [phase EXCEPT ![e] = "idle"] /\ got' = [got EXCEPT ![e] = Nothing]
    BY <1>3 DEF Hydrate, Done, Goto, past
  <2>2. \A x \in Editors : x # e => Own(x)'
    BY <2>1, OwnSame DEF OwnInv, JobsOK, StoresOK
  <2>3. \A i \in Ids \ (removed \union dropped) : creator[i] = e => store'[e][i] # Absent
    BY <2>1 DEF OwnInv, Own, Hydrated, StoresOK
  <2>4. phase'[e] = "idle"
    BY <2>1 DEF JobsOK
  <2>5. Own(e)'
    BY <2>1, <2>3, <2>4 DEF OwnInv, Own
  <2> QED
    BY <2>2, <2>5 DEF OwnInv
<1>4. CASE Write(e)
  <2>1. /\ UNCHANGED <<store, creator, removed, dropped>>
        /\ phase' = [phase EXCEPT ![e] = "idle"] /\ got' = [got EXCEPT ![e] = Nothing]
    BY <1>4 DEF Write, Done, Goto
  <2>2. \/ UNCHANGED <<unconfirmed, confirmed>>
        \/ /\ unconfirmed' = [unconfirmed EXCEPT ![e] = @ \ Present(got[e].defs)]
           /\ confirmed' = confirmed \union (unconfirmed[e] \ unconfirmed'[e])
    BY <1>4 DEF Write
  <2>3. /\ unconfirmed'[e] \subseteq unconfirmed[e] /\ confirmed \subseteq confirmed'
        /\ unconfirmed[e] \subseteq unconfirmed'[e] \union confirmed'
        /\ \A x \in Editors : x # e => unconfirmed'[x] = unconfirmed[x]
    BY <2>2 DEF StoresOK
  <2>4. phase'[e] = "idle" /\ \A x \in Editors : x # e => phase'[x] = phase[x] /\ got'[x] = got[x]
    BY <2>1 DEF JobsOK
  <2> QED
    BY <2>1, <2>3, <2>4 DEF OwnInv, Own
<1> QED
  BY <1>1, <1>2, <1>3, <1>4 DEF Steps

\* Stops of the relay, reloads of an editor and ends of its session.
LEMMA OwnOther ==
    ASSUME StoresOK, JobsOK, PastOK, OwnInv, "reload" \notin Coincide,
           (\E e \in Editors : Reload(e) \/ StopSession(e) \/ StartSession(e)) \/ Upload \/ Restart \/ UNCHANGED vars
    PROVE  OwnInv'
<1>1. ASSUME NEW e \in Editors, Reload(e) PROVE OwnInv'
  <2>1. /\ UNCHANGED <<store, phase, got, creator, confirmed, dropped, removed>>
        /\ unconfirmed[e] = {} /\ unconfirmed' = [unconfirmed EXCEPT ![e] = {}]
    BY <1>1 DEF Reload, past
  <2>2. unconfirmed' = unconfirmed
    BY <2>1 DEF StoresOK
  <2> QED
    BY <2>1, <2>2, OwnSame DEF OwnInv
<1>2. CASE Upload \/ UNCHANGED vars
    BY <1>2, OwnSame DEF Upload, vars, editor, past, OwnInv
<1>3. CASE Restart
  <2>1. UNCHANGED <<store, unconfirmed, creator, confirmed, dropped, removed>>
    BY <1>3 DEF Restart, past
  <2>2. \A x \in Editors : phase'[x] = "got" => phase[x] = "got" /\ got'[x] = got[x]
    BY <1>3 DEF Restart
  <2> QED
    BY <2>1, <2>2, OwnSame DEF OwnInv
<1>4. ASSUME NEW e \in Editors, StopSession(e) PROVE OwnInv'
  <2>1. /\ UNCHANGED <<phase, got, creator, confirmed, removed>>
        /\ store' = [store EXCEPT ![e] = Empty]
        /\ unconfirmed' = [unconfirmed EXCEPT ![e] = {}]
        /\ dropped' = dropped \union {i \in Present(store[e]) : creator[i] = e}
    BY <1>4 DEF StopSession
  <2>2. \A x \in Editors : x # e => Own(x)'
    BY <2>1, OwnSame DEF OwnInv, StoresOK
  <2>3. unconfirmed'[e] = {} /\ Own(e)
    BY <2>1 DEF StoresOK, OwnInv
  <2>4. \A i \in Ids : creator[i] = e => i \in removed \union dropped'
    BY <2>1, <2>3 DEF Own, Present
  <2> QED
    BY <2>1, <2>2, <2>3, <2>4 DEF OwnInv, Own
<1>5. ASSUME NEW e \in Editors, StartSession(e) PROVE OwnInv'
  BY <1>5, OwnSame DEF StartSession, OwnInv, past
<1> QED
  BY <1>1, <1>2, <1>3, <1>4, <1>5

\* A collection that nobody has deleted stays in the store of the editor that
\* created it until its session ends, however reconciles, failed pushes, conflicts,
\* restarts and earlier sessions interleave, unless the editor is reloaded with a
\* push that failed.
THEOREM CreatedSurvives ==
    Kind /\ "reload" \notin Coincide /\ Spec => []CreatedKept
<1> DEFINE Typed == StoresOK /\ JobsOK /\ RelayOK /\ PastOK /\ Busy
           IInv == Typed /\ KeepInv /\ OwnInv
           Premise == Kind /\ "reload" \notin Coincide
<1>1. Init => IInv
  <2>1. Init => OwnInv
    BY AbsentAssumption DEF Init, OwnInv, Own
  <2> QED
    BY <2>1, InitType, InitKeeps
<1>2. Premise /\ IInv /\ [Next]_vars => IInv'
  <2> SUFFICES ASSUME Premise, IInv, [Next]_vars PROVE IInv'
    OBVIOUS
  <2>1. Typed' /\ KeepInv'
    BY KindStep
  <2>2. OwnInv'
    BY OwnUser, OwnSteps, OwnOther DEF Next
  <2> QED
    BY <2>1, <2>2
<1>3. IInv => CreatedKept
  BY DEF OwnInv, Own, CreatedKept
<1>4. Premise => Premise'
  BY DEF Kind
<1>5. Kind /\ "reload" \notin Coincide => Premise
  OBVIOUS
<1> HIDE DEF IInv, Typed, Premise
<1> QED
  BY <1>1, <1>2, <1>3, <1>4, <1>5, PTL DEF Spec
=============================================================================
