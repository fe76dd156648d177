-------------------------- MODULE DocSession_proofs --------------------------
(* Machine-checked facts about DocSession, for any clients, flushers and    *)
(* agents, and any bounds.                                                  *)
EXTENDS DocSession, TLAPS

\* The next edit is an edit, and the counter stays within its bound.
LEMMA NewEditOK ==
    ASSUME CountsOK, NextEdit
    PROVE  made + 1 \in Edits /\ made' \in 0..MaxEdits
BY BoundsAssumption DEF CountsOK, NextEdit, Edits

\* What a hydration yields is a set of edits.
LEMMA ContentOK ==
    ASSUME NEW files \in [json : JsonType, sidecar : SidecarType]
    PROVE  Content(files) \in SUBSET Edits /\ OpensOn(files.json) \in SUBSET Removals
BY DEF Content, Stale, OpensOn, JsonType, SidecarType

\* The values a file has when it is absent, or when it is re-created.
LEMMA AbsentOK ==
    /\ NoJson \in JsonType /\ NoSidecar \in SidecarType
    /\ NoFiles \in [json : JsonType, sidecar : SidecarType]
<1>1. {} \in SUBSET Edits
    OBVIOUS
<1>2. NoJson \in JsonType
    BY <1>1 DEF NoJson, JsonType
<1>3. NoSidecar \in SidecarType
    BY <1>1 DEF NoSidecar, SidecarType
<1> QED
    BY <1>2, <1>3 DEF NoFiles

\* Type-correctness of the files and the tombstone.
LEMMA StoreStep == TypeOK /\ [Next]_vars => StoreOK'
<1> SUFFICES ASSUME StoreOK, RegistryOK, TasksOK, CountsOK, [Next]_vars
             PROVE  StoreOK'
    BY DEF TypeOK
<1> USE DEF StoreOK, store, registry, control, ghosts, bounds
<1>1. ASSUME NEW t \in Tasks,
             Join(t) \/ Sync(t) \/ Leave(t) \/ ReadJson(t)
                 \/ ReadFails(t) \/ ReadSidecar(t) \/
                 Ensure(t) \/ Find(t) \/ Apply(t) \/
                 ApplyNothing(t) \/ Mark(t) \/ Check(t) \/
                 Take(t) \/ Encode(t) \/ WriteBinFails(t) \/
                 Flatten(t) \/ FlattenSkips(t) \/ PersistFails(t) \/
                 Evict(t) \/ Flush(t) \/ WriteLive(t) \/ WriteCold(t)
                 \/ WritePage(t) \/ ColdRead(t) \/ ColdCheck(t) \/
                 ColdRetry(t) \/ ColdFails(t) \/ Push(t) \/
                 PushNothing(t) \/ PushEvicts(t)
      PROVE  StoreOK'
    BY <1>1 DEF Join, Sync, Leave, ReadJson, ReadFails, ReadSidecar, Ensure,
        Find, Apply, ApplyNothing, Mark, Check, Take, Encode, WriteBinFails,
        Flatten, FlattenSkips, PersistFails, Evict, Flush, WriteLive,
        WriteCold, WritePage, ColdRead, ColdCheck, ColdRetry, ColdFails, Push,
        PushNothing, PushEvicts
<1>2. ASSUME NEW t \in Tasks, WriteBin(t) PROVE StoreOK'
    BY <1>2 DEF WriteBin, TasksOK, Goto
<1>3. ASSUME NEW t \in Tasks, Persist(t) PROVE StoreOK'
    BY <1>3 DEF Persist, TasksOK, JsonType
<1>4. ASSUME NEW t \in Tasks, ColdWrite(t) \/ PageWrite(t) PROVE StoreOK'
    BY <1>4, NewEditOK DEF ColdWrite, PageWrite, SaveBody, TasksOK, JsonType
<1>5. CASE Delete
    BY <1>5, AbsentOK DEF Delete, LeftSidecar
<1>6. CASE Recreate
    BY <1>6, NewEditOK DEF Recreate, NewEdit, JsonType
<1>7. CASE Restart
    BY <1>7 DEF Restart
<1>8. CASE UNCHANGED vars
    BY <1>8 DEF vars
<1> QED
    BY <1>1, <1>2, <1>3, <1>4, <1>5, <1>6, <1>7, <1>8
       DEF Next, ClientStep, FlusherStep, AgentStep, HydrateStep, EditStep,
           FlushStep, Tasks

\* Type-correctness of the registry and its handles.
LEMMA RegistryStep == TypeOK /\ [Next]_vars => RegistryOK'
<1> SUFFICES ASSUME StoreOK, RegistryOK, TasksOK, CountsOK, [Next]_vars
             PROVE  RegistryOK'
    BY DEF TypeOK
<1> USE DEF RegistryOK, store, registry, control, ghosts, bounds
<1>1. ASSUME NEW t \in Tasks,
             Join(t) \/ Sync(t) \/ Leave(t) \/ ReadJson(t)
                 \/ ReadFails(t) \/ ReadSidecar(t) \/
                 Find(t) \/ ApplyNothing(t) \/ Check(t) \/
                 Encode(t) \/ WriteBin(t) \/ Flatten(t) \/
                 FlattenSkips(t) \/ Persist(t) \/ Evict(t) \/ Flush(t) \/
                 WriteLive(t) \/ WriteCold(t) \/ WritePage(t) \/
                 ColdRead(t) \/ ColdCheck(t) \/ ColdRetry(t) \/
                 ColdWrite(t) \/ PageWrite(t) \/ ColdFails(t) \/
                 PushNothing(t) \/ PushEvicts(t)
      PROVE  RegistryOK'
    BY <1>1, BoundsAssumption
       DEF Join, Sync, Leave, ReadJson, ReadFails, ReadSidecar, Find,
        ApplyNothing, Check, Encode, WriteBin, Flatten, FlattenSkips,
        Persist, Evict, Flush, WriteLive, WriteCold, WritePage, ColdRead,
        ColdCheck, ColdRetry, ColdWrite, PageWrite, SaveBody, ColdFails,
        PushNothing, PushEvicts
<1>2. ASSUME NEW t \in Tasks, Ensure(t) PROVE RegistryOK'
  <2>1. buf[t] \in [json : JsonType, sidecar : SidecarType]
      BY DEF TasksOK
  <2>2. /\ Content(buf[t]) \in SUBSET Edits /\ Stale(buf[t]) \in BOOLEAN
        /\ OpensOn(buf[t].json) \in SUBSET Removals
      BY <2>1, ContentOK DEF Stale
  <2>3. CASE registered # 0
      BY <1>2, <2>3 DEF Ensure
  <2>4. CASE registered = 0
    <3>1. hydrated + 1 \in Handles /\ hydrated + 1 \in 0..MaxHandles
        BY <1>2, <2>4, BoundsAssumption DEF Ensure, Handles
    <3> QED
        BY <1>2, <2>2, <2>4, <3>1 DEF Ensure
  <2> QED
      BY <2>3, <2>4
<1>3. ASSUME NEW t \in Tasks, Apply(t) PROVE RegistryOK'
    BY <1>3, NewEditOK DEF Apply, NewEdit
<1>3a. ASSUME NEW t \in Tasks, Push(t) PROVE RegistryOK'
    BY <1>3a DEF Push, TasksOK, JsonType
<1>4. ASSUME NEW t \in Tasks, Mark(t) PROVE RegistryOK'
    BY <1>4 DEF Mark, TasksOK
<1>5. ASSUME NEW t \in Tasks, Take(t) PROVE RegistryOK'
    BY <1>5 DEF Take, TasksOK
<1>6. ASSUME NEW t \in Tasks, WriteBinFails(t) PROVE RegistryOK'
    BY <1>6 DEF WriteBinFails, Remarked, TasksOK
<1>7. ASSUME NEW t \in Tasks, PersistFails(t) PROVE RegistryOK'
    BY <1>7 DEF PersistFails, Remarked, TasksOK
<1>8. CASE Delete
    BY <1>8 DEF Delete
<1>9. CASE Recreate
    BY <1>9 DEF Recreate
<1>10. CASE Restart
    BY <1>10, BoundsAssumption DEF Restart
<1>11. CASE UNCHANGED vars
    BY <1>11 DEF vars
<1> QED
    BY <1>1, <1>2, <1>3, <1>3a, <1>4, <1>5, <1>6, <1>7, <1>8, <1>9, <1>10,
       <1>11
       DEF Next, ClientStep, FlusherStep, AgentStep, HydrateStep, EditStep,
           FlushStep, Tasks

\* Type-correctness of the counters and the ghosts.
LEMMA CountsStep == TypeOK /\ [Next]_vars => CountsOK'
<1> SUFFICES ASSUME StoreOK, RegistryOK, TasksOK, CountsOK, [Next]_vars
             PROVE  CountsOK'
    BY DEF TypeOK
<1> USE DEF CountsOK, store, registry, control, ghosts, bounds
<1>1. ASSUME NEW t \in Tasks,
             Join(t) \/ Sync(t) \/ Leave(t) \/ ReadJson(t)
                 \/ ReadSidecar(t) \/
                 Ensure(t) \/ Find(t) \/ ApplyNothing(t) \/
                 Mark(t) \/ Check(t) \/ Take(t) \/ Encode(t)
                 \/ WriteBin(t) \/ Flatten(t) \/ Persist(t)
                 \/ Evict(t) \/ Flush(t) \/ WriteLive(t) \/
                 WriteCold(t) \/ WritePage(t) \/ ColdRead(t) \/
                 ColdCheck(t) \/ ColdRetry(t)
      PROVE  CountsOK'
    BY <1>1 DEF Join, Sync, Leave, ReadJson, ReadSidecar, Ensure,
        Find, ApplyNothing, Mark, Check, Take, Encode, WriteBin, Flatten,
        Persist, Evict, Flush, WriteLive, WriteCold, WritePage, ColdRead,
        ColdCheck, ColdRetry
<1>2. ASSUME NEW t \in Tasks, Apply(t) PROVE CountsOK'
    BY <1>2, NewEditOK DEF Apply, NewEdit
<1>3. ASSUME NEW t \in Tasks, WriteBinFails(t) PROVE CountsOK'
    BY <1>3 DEF WriteBinFails, StoreFails
<1>4. ASSUME NEW t \in Tasks, PersistFails(t) PROVE CountsOK'
    BY <1>4 DEF PersistFails, StoreFails
<1>4a. ASSUME NEW t \in Tasks, ReadFails(t) PROVE CountsOK'
    BY <1>4a DEF ReadFails
<1>4b. ASSUME NEW t \in Tasks, FlattenSkips(t) PROVE CountsOK'
    BY <1>4b DEF FlattenSkips
<1>4c. ASSUME NEW t \in Tasks, ColdFails(t) PROVE CountsOK'
    BY <1>4c DEF ColdFails
<1>5. ASSUME NEW t \in Tasks, ColdWrite(t) PROVE CountsOK'
    BY <1>5, NewEditOK DEF ColdWrite, SaveBody
<1>5a. ASSUME NEW t \in Tasks, PageWrite(t) PROVE CountsOK'
    BY <1>5a, NewEditOK DEF PageWrite, SaveBody
<1>5b. ASSUME NEW t \in Tasks, Push(t) \/ PushNothing(t) \/ PushEvicts(t)
       PROVE  CountsOK'
    BY <1>5b DEF Push, PushNothing, PushEvicts, TasksOK, JsonType
<1>6. CASE Delete
    BY <1>6, BoundsAssumption DEF Delete, Edits
<1>7. CASE Recreate
    BY <1>7, NewEditOK DEF Recreate, NewEdit
<1>8. CASE Restart
    BY <1>8 DEF Restart
<1>9. CASE UNCHANGED vars
    BY <1>9 DEF vars
<1> QED
    BY <1>1, <1>2, <1>3, <1>4, <1>4a, <1>4b, <1>4c, <1>5, <1>5a, <1>5b, <1>6,
       <1>7, <1>8, <1>9
       DEF Next, ClientStep, FlusherStep, AgentStep, HydrateStep, EditStep,
           FlushStep, Tasks

\* The program points and continuations a step may give a task.
Conts == {"idle", "apply", "evict", "push"}
Bufs  == [json : JsonType, sidecar : SidecarType]

ControlOK ==
    /\ pc \in [Tasks -> Points] /\ cont \in [Tasks -> Conts]
    /\ held \in [Tasks -> 0..MaxHandles] /\ buf \in [Tasks -> Bufs]

\* Moving a task, finishing it and ending a flush keep the control state typed.
LEMMA MovesOK ==
    ASSUME ControlOK, NEW t \in Tasks
    PROVE  /\ \A to \in Points : Go(t, to) => pc' \in [Tasks -> Points]
           /\ Done(t) => ControlOK'
           /\ Flushed(t) => ControlOK'
<1>1. \A to \in Points : Go(t, to) => pc' \in [Tasks -> Points]
    BY DEF ControlOK, Go
<1>2. "idle" \in Points /\ Conts \subseteq Points
    BY DEF Points, ToolPoints, Conts
<1>3. NoFiles \in Bufs /\ 0 \in 0..MaxHandles /\ "idle" \in Conts
    BY AbsentOK, BoundsAssumption DEF Bufs, Conts
<1>4. ASSUME cont' = [cont EXCEPT ![t] = "idle"],
             held' = [held EXCEPT ![t] = 0],
             buf' = [buf EXCEPT ![t] = NoFiles]
      PROVE  /\ cont' \in [Tasks -> Conts] /\ held' \in [Tasks -> 0..MaxHandles]
             /\ buf' \in [Tasks -> Bufs]
    BY <1>3, <1>4 DEF ControlOK
<1>5. Done(t) => ControlOK'
    BY <1>1, <1>2, <1>4 DEF Done, ControlOK
<1>6. cont[t] \in Points
    BY <1>2 DEF ControlOK
<1>7. Flushed(t) => ControlOK'
    BY <1>1, <1>4, <1>6 DEF Flushed, ControlOK
<1> QED
    BY <1>1, <1>5, <1>7

\* TypeOK is not inductive alone: a task must hold a handle when it looks into
\* one, and a frame's continuation must not survive into a flush.
Holds(t) ==
    /\ pc[t] \in FlushPoints \union {"apply", "mark"} => held[t] # 0
    /\ cont[t] = "apply" => pc[t] \in HydratePoints
    /\ cont[t] = "push" => pc[t] \in ColdPoints

Disciplined == \A t \in Tasks : Holds(t)

TypeInv == TypeOK /\ Disciplined

\* A task that is encoding or flattening sees a set of edits.
LEMMA EditsOfHeld ==
    ASSUME RegistryOK, ControlOK, Disciplined, NEW t \in Tasks,
           pc[t] \in FlushPoints
    PROVE  edits[held[t]] \in SUBSET Edits
BY DEF RegistryOK, ControlOK, Disciplined, Holds, Handles

\* Ensure registers a handle that was built within the bound.
LEMMA EnsureOK ==
    ASSUME RegistryOK, NEW t \in Tasks, Ensure(t)
    PROVE  registered' \in 0..MaxHandles
BY BoundsAssumption DEF RegistryOK, Ensure, registry

\* Type-correctness of the tasks' control state.
LEMMA ControlStep == TypeInv /\ [Next]_vars => ControlOK'
<1> SUFFICES ASSUME StoreOK, RegistryOK, ControlOK, CountsOK, Disciplined,
                    [Next]_vars
             PROVE  ControlOK'
    BY DEF TypeInv, TypeOK, TasksOK, ControlOK, Conts, Bufs
<1> USE DEF store, registry, control, ghosts, bounds
<1>a. {"readJson", "readSidecar", "ensure", "find", "apply", "mark", "check",
       "evict", "take", "encode", "writeBin", "flatten", "persist", "coldRead",
       "coldSave", "coldWrite", "push"} \subseteq Points
    BY DEF Points, FlushPoints, HydratePoints, ToolPoints, ColdPoints
<1>1. ASSUME NEW t \in Tasks,
             Join(t) \/ Sync(t) \/ Apply(t) \/ WriteBin(t)
                 \/ WriteBinFails(t) \/ Leave(t) \/
                 WriteCold(t) \/ ColdCheck(t) \/ ColdRetry(t)
      PROVE  ControlOK'
    BY <1>1, <1>a, MovesOK
       DEF Join, Sync, Apply, WriteBin, WriteBinFails, Leave, WriteCold,
           ColdCheck, ColdRetry, Goto, ControlOK
<1>1a. ASSUME NEW t \in Tasks, WritePage(t) PROVE ControlOK'
    BY <1>1a, <1>a, MovesOK DEF WritePage, Goto, ControlOK, Conts
<1>1b. ASSUME NEW t \in Tasks, Push(t) PROVE ControlOK'
    BY <1>1b, <1>a, MovesOK DEF Push, Goto, ControlOK, RegistryOK
<1>1c. ASSUME NEW t \in Tasks, PageWrite(t) PROVE ControlOK'
  <2>1. made + 1 \in Edits /\ buf[t] \in Bufs
      BY <1>1c, NewEditOK DEF PageWrite, SaveBody, ControlOK
  <2>2. json'.ver \in Nat
      BY <1>1c, <2>1 DEF PageWrite, SaveBody, Bufs, JsonType
  <2>3. [buf[t] EXCEPT !.json = [ver |-> json'.ver, edits |-> {made + 1}]] \in Bufs
      BY <2>1, <2>2 DEF Bufs, JsonType
  <2>4. buf' \in [Tasks -> Bufs]
      BY <1>1c, <2>3 DEF PageWrite, ControlOK
  <2> QED
      BY <1>1c, <1>a, <2>4, MovesOK DEF PageWrite, ControlOK, Conts
<1>2. ASSUME NEW t \in Tasks,
             ReadFails(t) \/ ApplyNothing(t) \/ Mark(t) \/
                 Evict(t) \/ ColdWrite(t) \/ ColdFails(t) \/
                 PushNothing(t) \/ PushEvicts(t)
      PROVE  ControlOK'
    BY <1>2, MovesOK
       DEF ReadFails, ApplyNothing, Mark, Evict, ColdWrite, ColdFails,
           PushNothing, PushEvicts
<1>3. ASSUME NEW t \in Tasks,
             FlattenSkips(t) \/ Persist(t) \/ PersistFails(t)
      PROVE  ControlOK'
    BY <1>3, MovesOK DEF FlattenSkips, Persist, PersistFails
<1>4. ASSUME NEW t \in Tasks, ReadJson(t) PROVE ControlOK'
    BY <1>4, <1>a, MovesOK DEF ReadJson, Goto, ControlOK, StoreOK, Bufs
<1>5. ASSUME NEW t \in Tasks, ReadSidecar(t) PROVE ControlOK'
    BY <1>5, <1>a, MovesOK, AbsentOK
       DEF ReadSidecar, Goto, ControlOK, StoreOK, Bufs
<1>6. ASSUME NEW t \in Tasks, ColdRead(t) PROVE ControlOK'
    BY <1>6, <1>a, MovesOK DEF ColdRead, Goto, ControlOK, StoreOK, Bufs
<1>7. ASSUME NEW t \in Tasks, Ensure(t) PROVE ControlOK'
  <2>1. cont[t] \in Points /\ "idle" \in Conts
      BY DEF ControlOK, Conts, Points, ToolPoints
  <2>2. registered' \in 0..MaxHandles /\ 0 \in 0..MaxHandles
      BY <1>7, EnsureOK, BoundsAssumption
  <2>3. NoFiles \in Bufs
      BY AbsentOK DEF Bufs
  <2> QED
      BY <1>7, <2>1, <2>2, <2>3, MovesOK DEF Ensure, ControlOK
<1>8. ASSUME NEW t \in Tasks, Find(t) PROVE ControlOK'
    BY <1>8, <1>a, MovesOK DEF Find, ControlOK, Conts, RegistryOK
<1>9. ASSUME NEW t \in Tasks, Flush(t) PROVE ControlOK'
    BY <1>9, <1>a, MovesOK DEF Flush, Goto, ControlOK, RegistryOK
<1>10. ASSUME NEW t \in Tasks, WriteLive(t) PROVE ControlOK'
    BY <1>10, <1>a, MovesOK DEF WriteLive, Goto, ControlOK, RegistryOK
<1>11. ASSUME NEW t \in Tasks, Take(t) PROVE ControlOK'
  <2>1. CASE dirty[held[t]]
      BY <1>11, <2>1, <1>a, MovesOK DEF Take, ControlOK
  <2>2. CASE ~dirty[held[t]]
      BY <1>11, <2>2, MovesOK DEF Take
  <2> QED
      BY <2>1, <2>2
<1>12. ASSUME NEW t \in Tasks, Encode(t) PROVE ControlOK'
  <2>1. [there |-> TRUE, ver |-> Tag, edits |-> edits[held[t]]] \in SidecarType
      BY <1>12, EditsOfHeld DEF StoreOK, Tag, JsonType, SidecarType, Encode, Goto,
                            FlushPoints
  <2> QED
      BY <1>12, <2>1, <1>a, MovesOK DEF Encode, Goto, ControlOK, Bufs
<1>13. ASSUME NEW t \in Tasks, Flatten(t) PROVE ControlOK'
  <2>1. edits[held[t]] \in SUBSET Edits
      BY <1>13, EditsOfHeld DEF Flatten, Goto, FlushPoints
  <2>2. buf[t] \in Bufs /\ [buf[t].json EXCEPT !.edits = edits[held[t]]] \in JsonType
      BY <2>1 DEF ControlOK, Bufs, JsonType
  <2>3. buf' \in [Tasks -> Bufs]
      BY <1>13, <2>2 DEF Flatten, ControlOK, Bufs
  <2> QED
      BY <1>13, <1>a, <2>3, MovesOK DEF Flatten, Goto, ControlOK
<1>14. ASSUME NEW t \in Tasks, Check(t) PROVE ControlOK'
  <2>1. CASE StillUsed
      BY <1>14, <2>1, MovesOK DEF Check
  <2>2. CASE ~StillUsed /\ registered # 0
      BY <1>14, <2>2, <1>a, MovesOK DEF Check, ControlOK, RegistryOK, Conts
  <2>3. CASE ~StillUsed /\ registered = 0
      BY <1>14, <2>3, <1>a, MovesOK DEF Check, ControlOK
  <2> QED
      BY <2>1, <2>2, <2>3
<1>15. CASE Delete \/ Recreate
    BY <1>15 DEF Delete, Recreate, ControlOK
<1>16. CASE Restart
    BY <1>16, AbsentOK, BoundsAssumption DEF Restart, ControlOK, Points, Conts, Bufs
<1>17. CASE UNCHANGED vars
    BY <1>17 DEF vars, ControlOK
<1> QED
    BY <1>1, <1>1a, <1>1b, <1>1c, <1>2, <1>3, <1>4, <1>5, <1>6, <1>7, <1>8,
       <1>9, <1>10, <1>11, <1>12, <1>13, <1>14, <1>15, <1>16, <1>17
       DEF Next, ClientStep, FlusherStep, AgentStep, HydrateStep, EditStep,
           FlushStep, Tasks

\* Type-correctness of the client table.
LEMMA JoinedStep ==
    ASSUME joined \in [Clients -> BOOLEAN], [Next]_vars
    PROVE  joined' \in [Clients -> BOOLEAN]
<1> USE DEF store, registry, control, ghosts, bounds
<1>1. ASSUME NEW c \in Clients, ClientStep(c)
      PROVE  joined' \in [Clients -> BOOLEAN]
    BY <1>1 DEF ClientStep, HydrateStep, EditStep, FlushStep, Join, Sync, Leave,
        ReadJson, ReadFails, ReadSidecar, Ensure, Find, Apply, ApplyNothing,
        Mark, Check, Take, Encode, WriteBin, WriteBinFails, Flatten,
        FlattenSkips, Persist, PersistFails, Evict
<1>2. ASSUME NEW t \in Tasks, FlusherStep(t) \/ AgentStep(t)
      PROVE  joined' \in [Clients -> BOOLEAN]
    BY <1>2 DEF FlusherStep, AgentStep, EditStep, FlushStep, Flush, Apply,
        ApplyNothing, Mark, Take, Encode, WriteBin, WriteBinFails, Flatten,
        FlattenSkips, Persist, PersistFails, WriteLive, WriteCold, WritePage,
        ColdRead, ColdCheck, ColdRetry, ColdWrite, PageWrite, ColdFails, Push,
        PushNothing, PushEvicts
<1>3. CASE Delete \/ Recreate
    BY <1>3 DEF Delete, Recreate
<1>4. CASE Restart
    BY <1>4 DEF Restart
<1>5. CASE UNCHANGED vars
    BY <1>5 DEF vars
<1> QED
    BY <1>1, <1>2, <1>3, <1>4, <1>5 DEF Next, Tasks

\* A task that flushes or edits holds a handle, and only a frame that hydrates
\* goes on to be applied.
LEMMA DisciplinedStep == TypeInv /\ [Next]_vars => Disciplined'
<1> SUFFICES ASSUME RegistryOK, ControlOK, Disciplined, [Next]_vars,
                    NEW u \in Tasks
             PROVE  Holds(u)'
    BY DEF TypeInv, TypeOK, TasksOK, ControlOK, Conts, Bufs, Disciplined
<1> USE DEF store, registry, control, ghosts, bounds, Holds, Disciplined,
            FlushPoints, HydratePoints, ColdPoints
<1>1. ASSUME NEW t \in Tasks,
             Join(t) \/ Sync(t) \/ ReadJson(t) \/
                 ReadSidecar(t) \/ Leave(t) \/ WriteCold(t)
                 \/ WritePage(t) \/ ColdRead(t) \/ ColdCheck(t) \/
                 ColdRetry(t)
      PROVE  Holds(u)'
    BY <1>1 DEF Join, Sync, ReadJson, ReadSidecar, Leave, WriteCold, WritePage,
        ColdRead, ColdCheck, ColdRetry, Goto, Go, ControlOK
<1>2. ASSUME NEW t \in Tasks,
             ReadFails(t) \/ ApplyNothing(t) \/ Mark(t) \/
                 Evict(t) \/ ColdWrite(t) \/ ColdFails(t) \/
                 PushNothing(t) \/ PushEvicts(t)
      PROVE  Holds(u)'
    BY <1>2 DEF ReadFails, ApplyNothing, Mark, Evict, ColdWrite, ColdFails,
        PushNothing, PushEvicts, Done, Go, ControlOK
<1>2a. ASSUME NEW t \in Tasks, Push(t) \/ PageWrite(t) PROVE Holds(u)'
    BY <1>2a DEF Push, PageWrite, SaveBody, Goto, Go, ControlOK
<1>3. ASSUME NEW t \in Tasks,
             Apply(t) \/ Flush(t) \/ WriteLive(t) \/
                 Encode(t) \/ WriteBin(t) \/
                 WriteBinFails(t)
      PROVE  Holds(u)'
    BY <1>3 DEF Apply, Flush, WriteLive, Encode, WriteBin, WriteBinFails, Goto,
        Go, ControlOK
<1>4. ASSUME NEW t \in Tasks, Ensure(t) PROVE Holds(u)'
    BY <1>4, BoundsAssumption DEF Ensure, Go, ControlOK, Conts, RegistryOK
<1>5. ASSUME NEW t \in Tasks, Find(t) PROVE Holds(u)'
    BY <1>5 DEF Find, Go, ControlOK
<1>6. ASSUME NEW t \in Tasks, Check(t) PROVE Holds(u)'
    BY <1>6 DEF Check, Done, Go, ControlOK
<1>7. ASSUME NEW t \in Tasks, Take(t) PROVE Holds(u)'
    BY <1>7 DEF Take, Flushed, Go, ControlOK, Conts
<1>8. ASSUME NEW t \in Tasks, Flatten(t) PROVE Holds(u)'
    BY <1>8 DEF Flatten, Goto, Go, ControlOK
<1>9. ASSUME NEW t \in Tasks,
             FlattenSkips(t) \/ Persist(t) \/ PersistFails(t)
      PROVE  Holds(u)'
    BY <1>9 DEF FlattenSkips, Persist, PersistFails, Flushed, Go, ControlOK, Conts
<1>10. CASE Delete \/ Recreate
    BY <1>10 DEF Delete, Recreate
<1>11. CASE Restart
    BY <1>11 DEF Restart
<1>12. CASE UNCHANGED vars
    BY <1>12 DEF vars
<1> QED
    BY <1>1, <1>2, <1>2a, <1>3, <1>4, <1>5, <1>6, <1>7, <1>8, <1>9, <1>10,
       <1>11, <1>12
       DEF Next, ClientStep, FlusherStep, AgentStep, HydrateStep, EditStep,
           FlushStep, Tasks

\* Every step keeps the typed, disciplined state.
LEMMA TypeStep == TypeInv /\ [Next]_vars => TypeInv'
<1> SUFFICES ASSUME TypeInv, [Next]_vars PROVE TypeInv'
    OBVIOUS
<1>1. StoreOK' /\ RegistryOK' /\ CountsOK' /\ ControlOK'
    BY StoreStep, RegistryStep, CountsStep, ControlStep DEF TypeInv
<1>2. joined' \in [Clients -> BOOLEAN]
    BY JoinedStep DEF TypeInv, TypeOK, TasksOK
<1>3. Disciplined'
    BY DisciplinedStep
<1> QED
    BY <1>1, <1>2, <1>3 DEF TypeInv, TypeOK, TasksOK, ControlOK, Conts, Bufs

\* The initial state is typed and disciplined.
LEMMA TypeInit == Init => TypeInv
<1> SUFFICES ASSUME Init PROVE TypeInv
    OBVIOUS
<1>1. 0 \in 0..MaxHandles /\ 0 \in 0..MaxEdits /\ {} \in SUBSET Edits
    BY BoundsAssumption
<1>2. StoreOK /\ CountsOK
    BY <1>1, AbsentOK DEF Init, StoreOK, CountsOK, JsonType
<1>3. RegistryOK
    BY <1>1 DEF Init, RegistryOK
<1>4. TasksOK
    BY <1>1, AbsentOK DEF Init, TasksOK, Points
<1>5. Disciplined
    BY DEF Init, Disciplined, Holds, FlushPoints
<1> QED
    BY <1>2, <1>3, <1>4, <1>5 DEF TypeInv, TypeOK

\* DocSession is type-correct: every variable keeps the type its Rust
\* counterpart has, for any clients, flushers, agents and bounds.
THEOREM TypeCorrect == Spec => []TypeOK
<1>1. TypeInv => TypeOK
    BY DEF TypeInv
<1> QED
    BY <1>1, TypeInit, TypeStep, PTL DEF Spec

\* A step of t leaves the other tasks where they are.
Others(t) ==
    \A u \in Tasks \ {t} : /\ pc'[u] = pc[u] /\ cont'[u] = cont[u]
                           /\ held'[u] = held[u] /\ buf'[u] = buf[u]

\* The values a task's control state ranges over.
LEMMA Typed ==
    ASSUME TypeInv
    PROVE  /\ pc \in [Tasks -> Points] /\ cont \in [Tasks -> Conts]
           /\ held \in [Tasks -> 0..MaxHandles]
           /\ buf \in [Tasks -> [json : JsonType, sidecar : SidecarType]]
           /\ dirty \in [Handles -> BOOLEAN] /\ edits \in [Handles -> SUBSET Edits]
           /\ registered \in 0..MaxHandles /\ hydrated \in 0..MaxHandles
           /\ \A t \in Tasks : pc[t] \in FlushPoints \union {"apply", "mark"} =>
                                   held[t] \in Handles
    BY BoundsAssumption DEF TypeInv, TypeOK, RegistryOK, TasksOK,
       Conts, Handles, Disciplined, Holds

-----------------------------------------------------------------------------
(* Who may be doing what.                                                   *)

\* What each kind of task can be doing.
Role(t) ==
    /\ t \in Flushers => pc[t] \in FlushPoints \union {"idle"} /\ cont[t] = "idle"
    /\ t \in Agents => /\ pc[t] \in ToolPoints \union {"idle", "apply", "mark"}
                       /\ cont[t] \in {"idle", "push"}
    /\ t \in Clients => pc[t] \notin ToolPoints /\ cont[t] # "push"
    /\ cont[t] = "evict" => pc[t] \in FlushPoints

Roles == \A t \in Tasks : Role(t)

\* A connection that is joining or handling a frame is in the client table.
Seat(t) ==
    t \in Clients /\ pc[t] \in {"readJson", "readSidecar", "ensure", "find",
                                "apply", "mark"} => joined[t]

Seated == \A t \in Tasks : Seat(t)

\* Once an eviction has found the document unused, it stays so until it is over.
Alone(t) ==
    cont[t] = "evict" \/ pc[t] = "evict" => \A c \in Clients : ~joined[c]

EvictsAlone == \A t \in Tasks : Alone(t)

Share(t) == Using(t) => held[t] = registered

SessionInv == TypeInv /\ Roles /\ Seated /\ EvictsAlone /\ WritesReachAll

\* Tasks keep to their roles.
LEMMA RolesStep ==
    ASSUME TypeInv, Roles, [Next]_vars
    PROVE  Roles'
<1> SUFFICES ASSUME NEW u \in Tasks PROVE Role(u)'
    BY DEF Roles
<1> USE TasksAssumption DEF TypeInv, TypeOK, TasksOK, store, registry, control,
            ghosts, bounds, Go, Roles, Role, FlushPoints, ToolPoints, ColdPoints,
            Conts, Disciplined, Holds, HydratePoints
<1>1. ASSUME NEW t \in Clients,
             Join(t) \/ Sync(t) \/ ReadJson(t) \/
                 ReadSidecar(t)
      PROVE  Role(u)'
    BY <1>1 DEF Join, Sync, ReadJson, ReadSidecar, Goto
<1>2. ASSUME NEW t \in Clients, Leave(t) PROVE Role(u)'
    BY <1>2 DEF Leave, Goto
<1>3. ASSUME NEW t \in Clients, ReadFails(t) PROVE Role(u)'
    BY <1>3 DEF ReadFails, Done
<1>4. ASSUME NEW t \in Clients, Ensure(t) PROVE Role(u)'
    BY <1>4 DEF Ensure
<1>5. ASSUME NEW t \in Clients, Find(t) PROVE Role(u)'
    BY <1>5 DEF Find
<1>6. ASSUME NEW t \in Clients, Check(t) PROVE Role(u)'
    BY <1>6 DEF Check, Done
<1>7. ASSUME NEW t \in Clients, Evict(t) PROVE Role(u)'
    BY <1>7 DEF Evict, Done
<1>8. ASSUME NEW t \in Tasks \ Flushers,
             Apply(t) \/ ApplyNothing(t) \/ Mark(t)
      PROVE  Role(u)'
    BY <1>8 DEF Apply, ApplyNothing, Mark, Goto, Done
<1>9. ASSUME NEW t \in Tasks \ Agents,
             Encode(t) \/ WriteBin(t) \/ WriteBinFails(t)
      PROVE  Role(u)'
    BY <1>9 DEF Encode, WriteBin, WriteBinFails, Goto
<1>10. ASSUME NEW t \in Tasks \ Agents, Take(t) PROVE Role(u)'
    BY <1>10 DEF Take, Flushed
<1>11. ASSUME NEW t \in Tasks \ Agents, Flatten(t) PROVE Role(u)'
    BY <1>11 DEF Flatten, Goto
<1>12. ASSUME NEW t \in Tasks \ Agents,
             FlattenSkips(t) \/ Persist(t) \/ PersistFails(t)
      PROVE  Role(u)'
    BY <1>12 DEF FlattenSkips, Persist, PersistFails, Flushed
<1>13. ASSUME NEW t \in Flushers, Flush(t) PROVE Role(u)'
    BY <1>13 DEF Flush, Goto
<1>14. ASSUME NEW t \in Agents, WriteLive(t) PROVE Role(u)'
    BY <1>14 DEF WriteLive, Goto
<1>15. ASSUME NEW t \in Agents,
             WriteCold(t) \/ WritePage(t) \/ ColdRead(t) \/
                 ColdCheck(t) \/ ColdRetry(t)
      PROVE  Role(u)'
    BY <1>15 DEF WriteCold, WritePage, ColdRead, ColdCheck, ColdRetry, Goto
<1>16. ASSUME NEW t \in Agents,
             ColdWrite(t) \/ ColdFails(t) \/ PushNothing(t) \/ PushEvicts(t)
      PROVE  Role(u)'
    BY <1>16 DEF ColdWrite, SaveBody, ColdFails, PushNothing, PushEvicts, Done
<1>16a. ASSUME NEW t \in Agents, PageWrite(t) \/ Push(t) PROVE Role(u)'
    BY <1>16a DEF PageWrite, SaveBody, Push, Goto
<1>17. CASE Delete \/ Recreate
    BY <1>17 DEF Delete, Recreate
<1>18. CASE Restart
    BY <1>18 DEF Restart
<1>19. CASE UNCHANGED vars
    BY <1>19 DEF vars
<1> QED
    BY <1>1, <1>2, <1>3, <1>4, <1>5, <1>6, <1>7, <1>8, <1>9, <1>10, <1>11,
        <1>12, <1>13, <1>14, <1>15, <1>16, <1>16a, <1>17, <1>18, <1>19,
        TasksAssumption
       DEF Next, ClientStep, FlusherStep, AgentStep, HydrateStep, EditStep,
           FlushStep, Tasks

\* Nobody is doing anything at first.
LEMMA RolesInit == Init => Roles /\ Seated
BY DEF Init, Roles, Role, Seated, Seat, Tasks, ToolPoints, ColdPoints

\* Connections at work stay in the client table.
LEMMA SeatedStep ==
    ASSUME TypeInv, Roles, Seated, [Next]_vars
    PROVE  Seated'
<1> SUFFICES ASSUME NEW u \in Tasks PROVE Seat(u)'
    BY DEF Seated
<1> USE TasksAssumption DEF TypeInv, TypeOK, TasksOK, store, registry, control,
            ghosts, bounds, Go, Roles, Role, Seated, Seat,
             FlushPoints, ToolPoints, ColdPoints, HydratePoints, Conts,
            Disciplined, Holds
<1>1. ASSUME NEW t \in Clients,
             Join(t) \/ Sync(t) \/ ReadJson(t) \/
                 ReadSidecar(t)
      PROVE  Seat(u)'
    BY <1>1 DEF Join, Sync, ReadJson, ReadSidecar, Goto
<1>2. ASSUME NEW t \in Clients, Leave(t) PROVE Seat(u)'
    BY <1>2 DEF Leave, Goto
<1>3. ASSUME NEW t \in Clients, ReadFails(t) PROVE Seat(u)'
    BY <1>3 DEF ReadFails, Done
<1>4. ASSUME NEW t \in Clients, Ensure(t) PROVE Seat(u)'
    BY <1>4 DEF Ensure
<1>5. ASSUME NEW t \in Clients, Find(t) PROVE Seat(u)'
    BY <1>5 DEF Find
<1>6. ASSUME NEW t \in Clients, Check(t) PROVE Seat(u)'
    BY <1>6 DEF Check, Done
<1>7. ASSUME NEW t \in Clients, Evict(t) PROVE Seat(u)'
    BY <1>7 DEF Evict, Done
<1>8. ASSUME NEW t \in Tasks \ Flushers,
             Apply(t) \/ ApplyNothing(t) \/ Mark(t)
      PROVE  Seat(u)'
    BY <1>8 DEF Apply, ApplyNothing, Mark, Goto, Done
<1>9. ASSUME NEW t \in Tasks \ Agents,
             Encode(t) \/ WriteBin(t) \/ WriteBinFails(t)
      PROVE  Seat(u)'
    BY <1>9 DEF Encode, WriteBin, WriteBinFails, Goto
<1>10. ASSUME NEW t \in Tasks \ Agents, Take(t) PROVE Seat(u)'
    BY <1>10 DEF Take, Flushed
<1>11. ASSUME NEW t \in Tasks \ Agents, Flatten(t) PROVE Seat(u)'
    BY <1>11 DEF Flatten, Goto
<1>12. ASSUME NEW t \in Tasks \ Agents,
             FlattenSkips(t) \/ Persist(t) \/ PersistFails(t)
      PROVE  Seat(u)'
    BY <1>12 DEF FlattenSkips, Persist, PersistFails, Flushed
<1>13. ASSUME NEW t \in Flushers, Flush(t) PROVE Seat(u)'
    BY <1>13 DEF Flush, Goto
<1>14. ASSUME NEW t \in Agents, WriteLive(t) PROVE Seat(u)'
    BY <1>14 DEF WriteLive, Goto
<1>15. ASSUME NEW t \in Agents,
             WriteCold(t) \/ WritePage(t) \/ ColdRead(t) \/
                 ColdCheck(t) \/ ColdRetry(t)
      PROVE  Seat(u)'
    BY <1>15 DEF WriteCold, WritePage, ColdRead, ColdCheck, ColdRetry, Goto
<1>16. ASSUME NEW t \in Agents,
             ColdWrite(t) \/ ColdFails(t) \/ PushNothing(t) \/ PushEvicts(t)
      PROVE  Seat(u)'
    BY <1>16 DEF ColdWrite, SaveBody, ColdFails, PushNothing, PushEvicts, Done
<1>16a. ASSUME NEW t \in Agents, PageWrite(t) \/ Push(t) PROVE Seat(u)'
    BY <1>16a DEF PageWrite, SaveBody, Push, Goto
<1>17. CASE Delete \/ Recreate
    BY <1>17 DEF Delete, Recreate
<1>18. CASE Restart
    BY <1>18 DEF Restart
<1>19. CASE UNCHANGED vars
    BY <1>19 DEF vars
<1> QED
    BY <1>1, <1>2, <1>3, <1>4, <1>5, <1>6, <1>7, <1>8, <1>9, <1>10, <1>11,
        <1>12, <1>13, <1>14, <1>15, <1>16, <1>16a, <1>17, <1>18, <1>19,
        TasksAssumption
       DEF Next, ClientStep, FlusherStep, AgentStep, HydrateStep, EditStep,
           FlushStep, Tasks

-----------------------------------------------------------------------------
(* Nothing but a re-creation lists a document whose tombstone stands.  A    *)
(* tool's save checks the tombstone before it writes, so a deletion must    *)
(* not come in between; everything else may coincide.                       *)

\* A tool that is about to write has found no tombstone.
Ungraved(t) == pc[t] = "coldWrite" => ~tomb

GraveInv == TypeInv /\ Roles /\ DeletedStaysGone /\ \A t \in Tasks : Ungraved(t)

\* Only a deletion sets the tombstone, and it finds no tool at work.
LEMMA GraveStep ==
    ASSUME Agents = {} \/ "deleteLive" \notin Coincide, GraveInv, [Next]_vars
    PROVE  DeletedStaysGone' /\ \A t \in Tasks : Ungraved(t)'
<1> USE TasksAssumption DEF GraveInv, DeletedStaysGone, Ungraved, Listed, TypeInv, TypeOK,
            TasksOK, store, registry, control, ghosts, bounds, Go
<1>1. ASSUME NEW t \in Tasks,
             \/ Join(t) \/ Sync(t) \/ Leave(t) \/ ReadJson(t) \/ ReadSidecar(t)
             \/ Apply(t) \/ Encode(t) \/ WriteBin(t) \/ WriteBinFails(t)
             \/ Flatten(t) \/ Flush(t) \/ WriteLive(t) \/ WriteCold(t)
             \/ WritePage(t) \/ ColdRead(t) \/ ColdCheck(t) \/ ColdRetry(t)
             \/ Push(t)
      PROVE  DeletedStaysGone' /\ \A u \in Tasks : Ungraved(u)'
    BY <1>1 DEF Join, Sync, Leave, ReadJson, ReadSidecar, Apply, Encode, WriteBin,
       WriteBinFails, Flatten, Flush, WriteLive, WriteCold, WritePage, ColdRead,
       ColdCheck, ColdRetry, Push, Goto
<1>2. ASSUME NEW t \in Tasks,
             \/ ReadFails(t) \/ ApplyNothing(t) \/ Mark(t) \/ Evict(t)
             \/ ColdFails(t) \/ PushNothing(t) \/ PushEvicts(t)
      PROVE  DeletedStaysGone' /\ \A u \in Tasks : Ungraved(u)'
    BY <1>2 DEF ReadFails, ApplyNothing, Mark, Evict, ColdFails, PushNothing,
       PushEvicts, Done
<1>3. ASSUME NEW t \in Tasks, cont[t] # "coldWrite", Ensure(t) \/ FlattenSkips(t)
      PROVE  DeletedStaysGone' /\ \A u \in Tasks : Ungraved(u)'
    BY <1>3 DEF Ensure, FlattenSkips, Flushed
<1>4. ASSUME NEW t \in Tasks, cont[t] # "coldWrite",
             Take(t) \/ Persist(t) \/ PersistFails(t)
      PROVE  DeletedStaysGone' /\ \A u \in Tasks : Ungraved(u)'
    BY <1>4 DEF Take, Persist, PersistGate, PersistFails, Flushed
<1>5. ASSUME NEW t \in Tasks, Find(t) \/ Check(t)
      PROVE  DeletedStaysGone' /\ \A u \in Tasks : Ungraved(u)'
    BY <1>5 DEF Find, Check, Done
<1>6. ASSUME NEW t \in Tasks, ColdWrite(t)
      PROVE  DeletedStaysGone' /\ \A u \in Tasks : Ungraved(u)'
    BY <1>6 DEF ColdWrite, SaveBody, Done
<1>7. ASSUME NEW t \in Tasks, PageWrite(t)
      PROVE  DeletedStaysGone' /\ \A u \in Tasks : Ungraved(u)'
    BY <1>7 DEF PageWrite, SaveBody
<1>8. CASE Delete
  <2>1. \A u \in Tasks : pc[u] # "coldWrite"
    <3>1. CASE Agents = {}
        BY <3>1 DEF Tasks, Roles, Role, FlushPoints, ToolPoints, ColdPoints
    <3>2. CASE "deleteLive" \notin Coincide
        BY <1>8, <3>2 DEF Delete, Closed, Apart
    <3> QED
        BY <3>1, <3>2
  <2> QED
      BY <1>8, <2>1 DEF Delete, NoJson
<1>9. CASE Recreate
    BY <1>9 DEF Recreate
<1>10. CASE Restart
    BY <1>10 DEF Restart
<1>11. CASE UNCHANGED vars
    BY <1>11 DEF vars
<1>12. \A t \in Tasks : cont[t] # "coldWrite"
    BY Typed DEF Conts
<1> QED
    BY <1>1, <1>2, <1>3, <1>4, <1>5, <1>6, <1>7, <1>8, <1>9, <1>10, <1>11, <1>12
       DEF Next, ClientStep, FlusherStep, AgentStep, HydrateStep, EditStep,
           FlushStep, Tasks

\* A tombstoned document does not come back through a flush, a tool's save or
\* a failed deletion, whatever coincides: only a deletion between the check and
\* the write of a tool's save is left out, which the code does not prevent.
THEOREM FlushesCreateNothing ==
    ASSUME Agents = {} \/ "deleteLive" \notin Coincide
    PROVE  Spec => []DeletedStaysGone
<1>1. Init => GraveInv
    BY TypeInit, RolesInit DEF Init, GraveInv, DeletedStaysGone, Ungraved
<1>2. GraveInv /\ [Next]_vars => GraveInv'
    BY TypeStep, RolesStep, GraveStep DEF GraveInv
<1>3. GraveInv => DeletedStaysGone
    BY DEF GraveInv
<1> QED
    BY <1>1, <1>2, <1>3, PTL DEF Spec

-----------------------------------------------------------------------------
(* What a re-creation finds.  A deletion by itself finds the document       *)
(* closed and takes the sidecar along: then nothing of what it buries is    *)
(* left, on the volume, in the registry or in the hands of a task.          *)

\* Who has the document open: a resident handle is always somebody's.
Open(c) == joined[c] \/ Leaving(c)
Attended == registered # 0 => \E c \in Clients : Open(c)

\* A task that is done has let go of its handle and of what it read.
Rests(t) == pc[t] = "idle" => held[t] = 0 /\ buf[t] = NoFiles
Resting == \A t \in Tasks : Rests(t)

ClosedInv == TypeInv /\ Roles /\ Seated /\ Attended /\ Resting

\* A handle stays in the registry only while somebody has the document open,
\* whatever coincides.
LEMMA AttendedStep ==
    ASSUME ClosedInv, [Next]_vars
    PROVE  Attended'
<1> USE TasksAssumption DEF ClosedInv, store, registry, control, ghosts, bounds, Go,
            TypeInv, TypeOK, TasksOK, Roles, Role, Seated, Seat, Attended, Open, Leaving,
            FlushPoints, ToolPoints, ColdPoints, Tasks, Disciplined, Holds
<1>1. ASSUME NEW t \in Clients, Join(t) PROVE Attended'
    BY <1>1 DEF Join, Goto
<1>2. ASSUME NEW t \in Clients, Sync(t) PROVE Attended'
    BY <1>2 DEF Sync, Goto
<1>3. ASSUME NEW t \in Clients, ReadJson(t) \/ ReadSidecar(t) PROVE Attended'
    BY <1>3 DEF ReadJson, ReadSidecar, Goto
<1>4. ASSUME NEW t \in Clients, Leave(t) PROVE Attended'
    BY <1>4 DEF Leave, Goto
<1>5. ASSUME NEW t \in Clients, ReadFails(t) PROVE Attended'
    BY <1>5 DEF ReadFails, Done
<1>6. ASSUME NEW t \in Clients, Ensure(t) PROVE Attended'
    BY <1>6 DEF Ensure
<1>7. ASSUME NEW t \in Clients, Find(t) PROVE Attended'
    BY <1>7 DEF Find
<1>8. ASSUME NEW t \in Clients, Check(t) PROVE Attended'
    BY <1>8 DEF Check, Done, StillUsed
<1>9. ASSUME NEW t \in Clients, Evict(t) PROVE Attended'
    BY <1>9 DEF Evict, Done
<1>10. ASSUME NEW t \in Tasks \ Flushers, Apply(t) PROVE Attended'
    BY <1>10 DEF Apply, Goto, NewEdit
<1>11. ASSUME NEW t \in Tasks \ Flushers, ApplyNothing(t) \/ Mark(t) PROVE Attended'
    BY <1>11 DEF ApplyNothing, Mark, Done
<1>12. ASSUME NEW t \in Tasks \ Agents, Encode(t) PROVE Attended'
    BY <1>12 DEF Encode, Goto
<1>13. ASSUME NEW t \in Tasks \ Agents, WriteBin(t) \/ WriteBinFails(t) PROVE Attended'
    BY <1>13 DEF WriteBin, WriteBinFails, Goto, StoreFails
<1>14. ASSUME NEW t \in Tasks \ Agents, Take(t) PROVE Attended'
    BY <1>14 DEF Take, Flushed
<1>15. ASSUME NEW t \in Tasks \ Agents, Flatten(t) PROVE Attended'
    BY <1>15 DEF Flatten, Goto
<1>16. ASSUME NEW t \in Tasks \ Agents, FlattenSkips(t) \/ Persist(t) PROVE Attended'
    BY <1>16 DEF FlattenSkips, Persist, Flushed
<1>17. ASSUME NEW t \in Tasks \ Agents, PersistFails(t) PROVE Attended'
    BY <1>17 DEF PersistFails, Flushed, StoreFails
<1>18. ASSUME NEW t \in Flushers, Flush(t) PROVE Attended'
    BY <1>18 DEF Flush, Goto
<1>19. ASSUME NEW t \in Agents, WriteLive(t) PROVE Attended'
    BY <1>19 DEF WriteLive, Goto
<1>20. ASSUME NEW t \in Agents, WriteCold(t) \/ WritePage(t) PROVE Attended'
    BY <1>20 DEF WriteCold, WritePage, Goto
<1>21. ASSUME NEW t \in Agents, ColdRead(t) \/ ColdCheck(t) \/ ColdRetry(t)
       PROVE  Attended'
    BY <1>21 DEF ColdRead, ColdCheck, ColdRetry, Goto
<1>22. ASSUME NEW t \in Agents, ColdWrite(t) \/ ColdFails(t) PROVE Attended'
    BY <1>22 DEF ColdWrite, SaveBody, ColdFails, Done
<1>22a. ASSUME NEW t \in Agents, PageWrite(t) \/ Push(t) PROVE Attended'
    BY <1>22a DEF PageWrite, SaveBody, Push, Goto
<1>23. ASSUME NEW t \in Agents, PushNothing(t) \/ PushEvicts(t) PROVE Attended'
    BY <1>23 DEF PushNothing, PushEvicts, Done
<1>24. CASE Delete
    BY <1>24 DEF Delete, LeftSidecar
<1>25. CASE Recreate
    BY <1>25 DEF Recreate, NewEdit
<1>26. CASE Restart
    BY <1>26 DEF Restart
<1>27. CASE UNCHANGED vars
    BY <1>27 DEF vars
<1> QED
    BY <1>1, <1>2, <1>3, <1>4, <1>5, <1>6, <1>7, <1>8, <1>9, <1>10, <1>11, <1>12, <1>13,
       <1>14, <1>15, <1>16, <1>17, <1>18, <1>19, <1>20, <1>21,
        <1>22, <1>22a, <1>23, <1>24, <1>25, <1>26, <1>27
       DEF Next, ClientStep, FlusherStep, AgentStep, HydrateStep, EditStep,
           FlushStep, Tasks

\* Done and Flushed forget the handle and the buffers.
LEMMA RestingStep ==
    ASSUME ClosedInv, [Next]_vars
    PROVE  Resting'
<1> SUFFICES ASSUME NEW u \in Tasks PROVE Rests(u)'
    BY DEF Resting
<1> USE TasksAssumption DEF ClosedInv, store, registry, control, ghosts, bounds, Go,
            TypeInv, TypeOK, TasksOK, Roles, Role, Resting, Rests,
            FlushPoints, HydratePoints, ToolPoints, ColdPoints, Tasks, Disciplined, Holds
<1>1. ASSUME NEW t \in Clients, Join(t) PROVE Rests(u)'
    BY <1>1 DEF Join, Goto
<1>2. ASSUME NEW t \in Clients, Sync(t) PROVE Rests(u)'
    BY <1>2 DEF Sync, Goto
<1>3. ASSUME NEW t \in Clients, ReadJson(t) \/ ReadSidecar(t) PROVE Rests(u)'
    BY <1>3 DEF ReadJson, ReadSidecar, Goto
<1>4. ASSUME NEW t \in Clients, Leave(t) PROVE Rests(u)'
    BY <1>4 DEF Leave, Goto
<1>5. ASSUME NEW t \in Clients, ReadFails(t) PROVE Rests(u)'
    BY <1>5 DEF ReadFails, Done
<1>6. ASSUME NEW t \in Clients, Ensure(t) PROVE Rests(u)'
    BY <1>6 DEF Ensure
<1>7. ASSUME NEW t \in Clients, Find(t) PROVE Rests(u)'
    BY <1>7 DEF Find
<1>8. ASSUME NEW t \in Clients, Check(t) PROVE Rests(u)'
    BY <1>8 DEF Check, Done, StillUsed
<1>9. ASSUME NEW t \in Clients, Evict(t) PROVE Rests(u)'
    BY <1>9 DEF Evict, Done
<1>10. ASSUME NEW t \in Tasks \ Flushers, Apply(t) PROVE Rests(u)'
    BY <1>10 DEF Apply, Goto, NewEdit
<1>11. ASSUME NEW t \in Tasks \ Flushers, ApplyNothing(t) \/ Mark(t) PROVE Rests(u)'
    BY <1>11 DEF ApplyNothing, Mark, Done
<1>12. ASSUME NEW t \in Tasks \ Agents, Encode(t) PROVE Rests(u)'
    BY <1>12 DEF Encode, Goto
<1>13. ASSUME NEW t \in Tasks \ Agents, WriteBin(t) \/ WriteBinFails(t) PROVE Rests(u)'
    BY <1>13 DEF WriteBin, WriteBinFails, Goto, StoreFails
<1>14. ASSUME NEW t \in Tasks \ Agents, Take(t) PROVE Rests(u)'
    BY <1>14 DEF Take, Flushed
<1>15. ASSUME NEW t \in Tasks \ Agents, Flatten(t) PROVE Rests(u)'
    BY <1>15 DEF Flatten, Goto
<1>16. ASSUME NEW t \in Tasks \ Agents, FlattenSkips(t) \/ Persist(t) PROVE Rests(u)'
    BY <1>16 DEF FlattenSkips, Persist, Flushed
<1>17. ASSUME NEW t \in Tasks \ Agents, PersistFails(t) PROVE Rests(u)'
    BY <1>17 DEF PersistFails, Flushed, StoreFails
<1>18. ASSUME NEW t \in Flushers, Flush(t) PROVE Rests(u)'
    BY <1>18 DEF Flush, Goto
<1>19. ASSUME NEW t \in Agents, WriteLive(t) PROVE Rests(u)'
    BY <1>19 DEF WriteLive, Goto
<1>20. ASSUME NEW t \in Agents, WriteCold(t) \/ WritePage(t) PROVE Rests(u)'
    BY <1>20 DEF WriteCold, WritePage, Goto
<1>21. ASSUME NEW t \in Agents, ColdRead(t) \/ ColdCheck(t) \/ ColdRetry(t)
       PROVE  Rests(u)'
    BY <1>21 DEF ColdRead, ColdCheck, ColdRetry, Goto
<1>22. ASSUME NEW t \in Agents, ColdWrite(t) \/ ColdFails(t) PROVE Rests(u)'
    BY <1>22 DEF ColdWrite, SaveBody, ColdFails, Done
<1>22a. ASSUME NEW t \in Agents, PageWrite(t) \/ Push(t) PROVE Rests(u)'
    BY <1>22a DEF PageWrite, SaveBody, Push, Goto
<1>23. ASSUME NEW t \in Agents, PushNothing(t) \/ PushEvicts(t) PROVE Rests(u)'
    BY <1>23 DEF PushNothing, PushEvicts, Done
<1>24. CASE Delete
    BY <1>24 DEF Delete, LeftSidecar
<1>25. CASE Recreate
    BY <1>25 DEF Recreate, NewEdit
<1>26. CASE Restart
    BY <1>26 DEF Restart
<1>27. CASE UNCHANGED vars
    BY <1>27 DEF vars
<1> QED
    BY <1>1, <1>2, <1>3, <1>4, <1>5, <1>6, <1>7, <1>8, <1>9, <1>10, <1>11, <1>12, <1>13,
       <1>14, <1>15, <1>16, <1>17, <1>18, <1>19, <1>20, <1>21,
        <1>22, <1>22a, <1>23, <1>24, <1>25, <1>26, <1>27
       DEF Next, ClientStep, FlusherStep, AgentStep, HydrateStep, EditStep,
           FlushStep, Tasks

\* Nothing in content belongs to a document that was deleted.
Clear(content) == content \intersect buried = {}

TaskClear(t) ==
    /\ held[t] # 0 => Clear(edits[held[t]])
    /\ Clear(buf[t].json.edits) /\ Clear(buf[t].sidecar.edits)

FilesClear == Clear(json.edits) /\ Clear(sidecar.edits)
HandleClear == registered # 0 => Clear(edits[registered])
HandsClear == \A t \in Tasks : TaskClear(t)
BuriedMade == buried \subseteq 1..made

ClearInv == BuriedMade /\ FilesClear /\ HandleClear /\ HandsClear

\* A task that is done, or whose flush is over, has nothing in its hands.
LEMMA EmptyHands ==
    ASSUME TypeInv, HandsClear, NEW t \in Tasks, Done(t) \/ Flushed(t),
           UNCHANGED <<edits, buried>>
    PROVE  HandsClear'
<1>1. Others(t) /\ held'[t] = 0 /\ buf'[t] = NoFiles
    BY Typed DEF Done, Flushed, Go, Others
<1>2. TaskClear(t)'
    BY <1>1 DEF TaskClear, Clear, NoFiles, NoJson, NoSidecar
<1> QED
    BY <1>1, <1>2 DEF HandsClear, TaskClear, Clear, Others

\* A step that takes something clear into the hands of one task.
LEMMA FilledHands ==
    ASSUME HandsClear, NEW t \in Tasks, Others(t), UNCHANGED <<edits, buried>>,
           held'[t] \in {0, held[t], registered}, HandleClear,
           Clear(buf'[t].json.edits), Clear(buf'[t].sidecar.edits)
    PROVE  HandsClear'
BY DEF HandsClear, HandleClear, TaskClear, Clear, Others

\* Nothing buried gets back into a file, a resident handle or a buffer.
LEMMA ClearStep ==
    ASSUME {"deleteLive", "failDelete"} \intersect Coincide = {}, ClosedInv, ClearInv,
           [Next]_vars
    PROVE  ClearInv'
<1> USE TasksAssumption DEF ClosedInv, ClearInv, store, registry, control, ghosts, bounds
<1>a. ASSUME UNCHANGED <<json, sidecar, registered, edits, made, buried>>, HandsClear'
      PROVE  ClearInv'
    BY <1>a DEF BuriedMade, FilesClear, HandleClear, Clear
<1>b. ASSUME UNCHANGED <<json, sidecar, registered, edits, made, buried, held, buf>>
      PROVE  ClearInv'
    BY <1>b DEF BuriedMade, FilesClear, HandleClear, HandsClear, TaskClear, Clear
<1>c. \A t \in Tasks : TaskClear(t)
    BY DEF HandsClear
<1>1. ASSUME NEW t \in Tasks, Join(t) \/ Sync(t) \/ Leave(t) \/ WriteCold(t) \/ WritePage(t)
                              \/ ColdCheck(t) \/ ColdRetry(t)
      PROVE  ClearInv'
    BY <1>1, <1>b DEF Join, Sync, Leave, WriteCold, WritePage, ColdCheck, ColdRetry
<1>2. ASSUME NEW t \in Tasks, ReadFails(t) \/ ApplyNothing(t) \/ Mark(t) \/ ColdFails(t)
                              \/ PushNothing(t)
      PROVE  ClearInv'
    BY <1>2, <1>a, EmptyHands DEF ReadFails, ApplyNothing, Mark, ColdFails, PushNothing
<1>3. ASSUME NEW t \in Tasks, ReadJson(t) \/ ColdRead(t) PROVE ClearInv'
  <2>1. /\ Others(t) /\ held'[t] = held[t] /\ buf'[t].json = json
        /\ buf'[t].sidecar = buf[t].sidecar
        /\ UNCHANGED <<json, sidecar, registered, edits, made, buried>>
      BY <1>3, Typed DEF ReadJson, ColdRead, Goto, Go, Others
  <2> QED
      BY <2>1, <1>a, <1>c, FilledHands DEF FilesClear, TaskClear
<1>4. ASSUME NEW t \in Tasks, ReadSidecar(t) PROVE ClearInv'
  <2>1. /\ Others(t) /\ held'[t] = held[t] /\ buf'[t].json = buf[t].json
        /\ buf'[t].sidecar \in {sidecar, NoSidecar}
        /\ UNCHANGED <<json, sidecar, registered, edits, made, buried>>
      BY <1>4, Typed DEF ReadSidecar, Goto, Go, Others
  <2> QED
      BY <2>1, <1>a, <1>c, FilledHands DEF FilesClear, TaskClear, Clear, NoSidecar
<1>5. ASSUME NEW t \in Clients, Ensure(t) PROVE ClearInv'
  <2>1. Clear(Content(buf[t]))
      BY <1>c DEF Content, TaskClear, Tasks
  <2>2. /\ Others(t) /\ held'[t] \in {0, registered'} /\ buf'[t] = NoFiles
        /\ UNCHANGED <<json, sidecar, made, buried>>
      BY <1>5, Typed DEF Ensure, Go, Others, Tasks
  <2>3. registered' # 0 => Clear(edits'[registered'])
    <3>1. CASE registered # 0
        BY <1>5, <3>1 DEF Ensure, HandleClear
    <3>2. CASE registered = 0
      <4>1. hydrated + 1 \in Handles
          BY <1>5, <3>2, Typed, BoundsAssumption DEF Ensure, Handles
      <4> QED
          BY <1>5, <2>1, <3>2, <4>1, Typed DEF Ensure
    <3> QED
        BY <3>1, <3>2
  <2>4. \A h \in Handles : edits'[h] = edits[h] \/ Clear(edits'[h])
      BY <1>5, <2>1, Typed DEF Ensure
  <2>5. ASSUME NEW u \in Tasks \ {t} PROVE TaskClear(u)'
    <3>1. held'[u] = held[u] /\ buf'[u] = buf[u] /\ held[u] \in 0..MaxHandles
        BY <2>2, Typed DEF Others
    <3>2. held[u] # 0 => held[u] \in Handles
        BY <3>1, BoundsAssumption DEF Handles
    <3> QED
        BY <1>c, <2>2, <2>4, <3>1, <3>2 DEF TaskClear, Clear
  <2>6. TaskClear(t)'
      BY <2>2, <2>3 DEF TaskClear, Clear, NoFiles, NoJson, NoSidecar
  <2>7. HandsClear'
      BY <2>5, <2>6 DEF HandsClear
  <2> QED
      BY <2>2, <2>3, <2>7 DEF BuriedMade, FilesClear, HandleClear, Clear
<1>6. ASSUME NEW t \in Tasks, Find(t) \/ Flush(t) \/ WriteLive(t) \/ Check(t)
      PROVE  ClearInv'
  <2>1. CASE Done(t)
      BY <1>6, <2>1, <1>a, EmptyHands DEF Find, Flush, WriteLive, Check
  <2>2. CASE ~Done(t)
    <3>1. /\ Others(t) /\ held'[t] \in {held[t], registered} /\ buf'[t] = buf[t]
          /\ UNCHANGED <<json, sidecar, registered, edits, made, buried>>
        BY <1>6, <2>2, Typed DEF Find, Flush, WriteLive, Check, Goto, Go, Others
    <3> QED
        BY <3>1, <1>a, <1>c, FilledHands DEF TaskClear
  <2> QED
      BY <2>1, <2>2
<1>7. ASSUME NEW t \in Tasks, Apply(t) PROVE ClearInv'
  <2>1. /\ UNCHANGED <<json, sidecar, registered, held, buf, buried>> /\ made' = made + 1
        /\ \A h \in Handles : edits'[h] \in {edits[h], edits[h] \union {made + 1}}
      BY <1>7, Typed DEF Apply, NewEdit, NextEdit
  <2>2. made \in Nat /\ made + 1 \notin buried
      BY DEF BuriedMade, TypeInv, TypeOK, CountsOK
  <2>3. \A h \in Handles : Clear(edits[h]) => Clear(edits[h])'
      BY <2>1, <2>2 DEF Clear
  <2>4. /\ registered # 0 => registered \in Handles
        /\ \A u \in Tasks : held[u] # 0 => held[u] \in Handles
      BY Typed, BoundsAssumption DEF Handles
  <2>5. BuriedMade'
      BY <2>1, <2>2 DEF BuriedMade
  <2> QED
      BY <1>c, <2>1, <2>3, <2>4, <2>5 DEF FilesClear, HandleClear, HandsClear, TaskClear, Clear
<1>8. ASSUME NEW t \in Tasks, Take(t) PROVE ClearInv'
  <2>1. CASE Flushed(t)
      BY <1>8, <2>1, <1>a, EmptyHands DEF Take
  <2>2. CASE ~Flushed(t)
      BY <1>8, <2>2, <1>b DEF Take
  <2> QED
      BY <2>1, <2>2
<1>9. ASSUME NEW t \in Tasks, Encode(t) PROVE ClearInv'
  <2>1. /\ Others(t) /\ held'[t] = held[t] /\ buf'[t].json = buf[t].json
        /\ buf'[t].sidecar.edits = edits[held[t]] /\ held[t] # 0
        /\ UNCHANGED <<json, sidecar, registered, edits, made, buried>>
      BY <1>9, Typed DEF Encode, Goto, Go, Others, TypeInv, Disciplined, Holds, FlushPoints
  <2> QED
      BY <2>1, <1>a, <1>c, FilledHands DEF TaskClear
<1>10. ASSUME NEW t \in Tasks, WriteBin(t) PROVE ClearInv'
  <2>1. /\ UNCHANGED <<json, registered, edits, made, buried, held, buf>>
        /\ sidecar' = buf[t].sidecar
      BY <1>10 DEF WriteBin
  <2> QED
      BY <2>1, <1>c DEF BuriedMade, FilesClear, HandleClear, HandsClear, TaskClear, Clear
<1>11. ASSUME NEW t \in Tasks, WriteBinFails(t) PROVE ClearInv'
    BY <1>11, <1>b DEF WriteBinFails
<1>12. ASSUME NEW t \in Tasks, Flatten(t) PROVE ClearInv'
  <2>1. /\ Others(t) /\ held'[t] = held[t] /\ buf'[t].sidecar = buf[t].sidecar
        /\ buf'[t].json.edits = edits[held[t]] /\ held[t] # 0
        /\ UNCHANGED <<json, sidecar, registered, edits, made, buried>>
      BY <1>12, Typed DEF Flatten, Goto, Go, Others, TypeInv, Disciplined, Holds,
         FlushPoints, JsonType
  <2> QED
      BY <2>1, <1>a, <1>c, FilledHands DEF TaskClear
<1>13. ASSUME NEW t \in Tasks, Persist(t) PROVE ClearInv'
  <2>1. /\ json'.edits = buf[t].json.edits
        /\ UNCHANGED <<sidecar, registered, edits, made, buried>> /\ HandsClear'
      BY <1>13, EmptyHands DEF Persist
  <2> QED
      BY <2>1, <1>c DEF BuriedMade, FilesClear, HandleClear, TaskClear, Clear
<1>14. ASSUME NEW t \in Tasks, FlattenSkips(t) \/ PersistFails(t) PROVE ClearInv'
    BY <1>14, <1>a, EmptyHands DEF FlattenSkips, PersistFails
<1>15. ASSUME NEW t \in Tasks, Evict(t) \/ PushEvicts(t) PROVE ClearInv'
  <2>1. UNCHANGED <<json, sidecar, edits, made, buried>> /\ registered' = 0 /\ HandsClear'
      BY <1>15, EmptyHands DEF Evict, PushEvicts
  <2> QED
      BY <2>1 DEF BuriedMade, FilesClear, HandleClear, Clear
<1>16. ASSUME NEW t \in Tasks, ColdWrite(t) \/ PageWrite(t) PROVE ClearInv'
  <2>1. /\ UNCHANGED <<sidecar, registered, edits, buried>>
        /\ made' = made + 1 /\ json'.edits = buf[t].json.edits \union {made + 1}
      BY <1>16 DEF ColdWrite, PageWrite, SaveBody, NextEdit
  <2>2. made \in Nat /\ made + 1 \notin buried
      BY DEF BuriedMade, TypeInv, TypeOK, CountsOK
  <2>3. BuriedMade' /\ Clear(json.edits)'
      BY <1>c, <2>1, <2>2 DEF BuriedMade, TaskClear, Clear
  <2>4. CASE ColdWrite(t)
    <3>1. HandsClear'
        BY <2>1, <2>4, EmptyHands DEF ColdWrite
    <3> QED
        BY <2>1, <2>3, <3>1 DEF FilesClear, HandleClear, Clear
  <2>5. CASE PageWrite(t)
    <3>1. /\ Others(t) /\ held'[t] = held[t] /\ buf'[t].sidecar = buf[t].sidecar
          /\ buf'[t].json.edits = {made + 1}
        BY <2>5, Typed DEF PageWrite, Go, Others
    <3>2. Clear(buf'[t].json.edits)
        BY <2>2, <3>1 DEF Clear
    <3>3. HandsClear'
        BY <1>c, <2>1, <3>1, <3>2, FilledHands DEF TaskClear
    <3> QED
        BY <2>1, <2>3, <3>3 DEF FilesClear, HandleClear, Clear
  <2> QED
      BY <1>16, <2>4, <2>5
<1>16a. ASSUME NEW t \in Tasks, Push(t) PROVE ClearInv'
  <2>1. registered \in Handles /\ registered # 0 /\ Clear(buf[t].json.edits)
      BY <1>16a, <1>c, Typed, BoundsAssumption DEF Push, TaskClear, Handles
  <2>2. /\ Others(t) /\ held'[t] = registered /\ buf' = buf
        /\ UNCHANGED <<json, sidecar, registered, made, buried>>
        /\ edits' = [edits EXCEPT ![registered] = @ \union buf[t].json.edits]
      BY <1>16a, Typed DEF Push, Goto, Go, Others
  <2>3. Clear(edits'[registered]) /\ \A h \in Handles \ {registered} : edits'[h] = edits[h]
      BY <2>1, <2>2, Typed DEF HandleClear, Clear
  <2>4. \A u \in Tasks : held[u] # 0 => held[u] \in Handles
      BY Typed, BoundsAssumption DEF Handles
  <2>5. ASSUME NEW u \in Tasks PROVE TaskClear(u)'
      BY <1>c, <2>2, <2>3, <2>4 DEF TaskClear, Clear, Others
  <2> QED
      BY <2>2, <2>3, <2>5 DEF BuriedMade, FilesClear, HandleClear, HandsClear, Clear
<1>17. CASE Delete
  <2>1. /\ \A u \in Tasks : pc[u] = "idle"
        /\ \A c \in Clients : ~joined[c]
      BY <1>17 DEF Delete, Closed, Apart, Tasks
  <2>2. registered = 0
      BY <2>1 DEF Attended, Open, Leaving, Roles, Role, FlushPoints, Tasks
  <2>3. \A u \in Tasks : held[u] = 0 /\ buf[u] = NoFiles
      BY <2>1 DEF Resting, Rests
  <2>4. /\ json' = NoJson /\ sidecar' = NoSidecar /\ buried' = 1..made
        /\ UNCHANGED <<registered, edits, held, buf, made>>
      BY <1>17 DEF Delete, LeftSidecar
  <2> QED
      BY <2>2, <2>3, <2>4 DEF BuriedMade, FilesClear, HandleClear, HandsClear, TaskClear,
         Clear, NoFiles, NoJson, NoSidecar
<1>18. CASE Recreate
  <2>1. /\ UNCHANGED <<sidecar, registered, edits, buried, held, buf>>
        /\ made' = made + 1 /\ json'.edits = {made + 1}
      BY <1>18 DEF Recreate, NewEdit, NextEdit
  <2>2. made \in Nat /\ made + 1 \notin buried
      BY DEF BuriedMade, TypeInv, TypeOK, CountsOK
  <2>3. BuriedMade' /\ Clear(json.edits)'
      BY <2>1, <2>2 DEF BuriedMade, Clear
  <2> QED
      BY <2>1, <2>3 DEF FilesClear, HandleClear, HandsClear, TaskClear, Clear
<1>19. CASE Restart
  <2>1. /\ \A u \in Tasks : held'[u] = 0 /\ buf'[u] = NoFiles
        /\ registered' = 0 /\ UNCHANGED <<json, sidecar, edits, made, buried>>
      BY <1>19 DEF Restart
  <2> QED
      BY <2>1 DEF BuriedMade, FilesClear, HandleClear, HandsClear, TaskClear, Clear,
         NoFiles, NoJson, NoSidecar
<1>20. CASE UNCHANGED vars
    BY <1>20, <1>b DEF vars
<1> QED
    BY <1>1, <1>2, <1>3, <1>4, <1>5, <1>6, <1>7, <1>8, <1>9, <1>10, <1>11, <1>12, <1>13,
       <1>14, <1>15, <1>16, <1>16a, <1>17, <1>18, <1>19, <1>20
       DEF Next, ClientStep, FlusherStep, AgentStep, HydrateStep, EditStep, FlushStep, Tasks

\* A re-created document holds nothing of the one it replaces, however joins,
\* flushes, evictions, tools, failed writes and restarts overlap, as long as
\* the deletion finds the document closed and removes its sidecar.
THEOREM BuriedStays ==
    ASSUME {"deleteLive", "failDelete"} \intersect Coincide = {}
    PROVE  Spec => []NothingUnearthed
<1> DEFINE Inv == ClosedInv /\ ClearInv
<1>1. Init => Inv
  <2> SUFFICES ASSUME Init PROVE Inv
      OBVIOUS
  <2>1. ClosedInv
      BY TypeInit, RolesInit DEF ClosedInv, Init, Attended, Resting, Rests
  <2>2. ClearInv
      BY DEF Init, ClearInv, BuriedMade, FilesClear, HandleClear, HandsClear, TaskClear,
         Clear, NoFiles, NoJson, NoSidecar
  <2> QED
      BY <2>1, <2>2
<1>2. Inv /\ [Next]_vars => Inv'
    BY TypeStep, RolesStep, SeatedStep, AttendedStep, RestingStep, ClearStep DEF ClosedInv
<1>3. Inv => NothingUnearthed
  <2> SUFFICES ASSUME Inv, registered = 0
               PROVE  (Durable \union Carried) \intersect buried = {}
      BY DEF NothingUnearthed, Served, ClearInv, HandleClear, Clear
  <2>1. Durable \intersect buried = {}
      BY DEF Durable, Content, ClearInv, FilesClear, Clear
  <2>2. ASSUME NEW t \in Tasks, InFlush(t) PROVE edits[held[t]] \intersect buried = {}
      BY <2>2 DEF ClearInv, HandsClear, TaskClear, Clear, ClosedInv, TypeInv, Disciplined,
         Holds, InFlush
  <2> QED
      BY <2>1, <2>2 DEF Carried
<1> QED
    BY <1>1, <1>2, <1>3, PTL DEF Spec

-----------------------------------------------------------------------------
(* No accepted edit is lost.  The rest of this module is about instances    *)
(* without MCP tools, in which nothing coincides but flushes that cannot    *)
(* read the body they are to update.  A flush may leave its JSON half out,  *)
(* for that reason, without a page, or because the page the document opens  *)
(* on was deleted: then everything rests on the sidecar, so that there must *)
(* be one.                                                                  *)

Skips == "failFlatten" \in Coincide \/ ~Paged \/ Removals # {}

Calm ==
    /\ Agents = {} /\ Coincide \subseteq {"failFlatten"}
    /\ Skips => Binary

\* Where the JSON keeps up as long as no page is deleted.
Sure == "failFlatten" \notin Coincide /\ Paged /\ MaxRestarts = 0
Plain(content) == content \intersect Removals = {}

\* What is open is listed.
Kept == \A c \in Clients : Open(c) => Listed

PresenceInv == Attended /\ Kept

\* Which handle a task holds, and what it may still do with one.
Fresh(t) == held[t] <= hydrated
HeldClean(t) == pc[t] = "take" => held[t] = registered \/ ~dirty[held[t]]
FlushesOpen(t) == InFlush(t) => held[t] = registered
OneFlush(t) == InFlush(t) => \A u \in Tasks : InFlush(u) => u = t
EvictsHeld(t) == cont[t] = "evict" => registered \in {0, held[t]}
EvictsFlushed(t) == cont[t] = "evict" /\ InFlush(t) => ~dirty[held[t]]
EvictsClean(t) ==
    pc[t] = "evict" /\ registered # 0 =>
        ~dirty[registered] /\ \A u \in Tasks : ~InFlush(u)

Handling(t) ==
    /\ Fresh(t) /\ HeldClean(t) /\ FlushesOpen(t) /\ OneFlush(t)
    /\ EvictsHeld(t) /\ EvictsFlushed(t) /\ EvictsClean(t)

HandleInv == registered <= hydrated /\ \A t \in Tasks : Handling(t)

\* What is on the volume, and what tasks have read of it.
Unlisted == ~Listed => sidecar = NoSidecar /\ accepted = {}
Tagged == sidecar.there => sidecar.ver <= json.ver
Encoded(t) == pc[t] \in {"encode", "writeBin"} => Binary
Unencoded == ~Binary => sidecar = NoSidecar
HasRead(t) ==
    registered = 0 =>
        /\ pc[t] \in {"readSidecar", "ensure"} => buf[t].json = json
        /\ pc[t] = "ensure" => buf[t].sidecar = sidecar

FileInv ==
    /\ Unlisted /\ Tagged /\ Unencoded
    /\ \A t \in Tasks : Encoded(t) /\ HasRead(t)

\* What the document should hold is what the handle, or else the volume holds.
Whole ==
    /\ registered = 0 => accepted = Durable
    /\ registered # 0 => accepted = edits[registered] /\ Durable \subseteq accepted

\* The JSON does not fall behind the sidecar until a page is deleted.
JsonWhole == Sure /\ registered = 0 /\ Plain(Durable) => json.edits = Durable

\* The pages a handle was hydrated from and may be flushed to are its own.
Opened ==
    MaxRestarts = 0 =>
        /\ json.edits \subseteq accepted
        /\ registered # 0 => page[registered] \subseteq accepted

Marking == \E t \in Tasks : pc[t] = "mark"
Flushing == \E t \in Tasks : InFlush(t)

\* A clean handle that nobody flushes or marks is on the volume.
Clean ==
    registered # 0 /\ ~dirty[registered] /\ ~Marking /\ ~Flushing =>
        /\ Durable = edits[registered]
        /\ Sure /\ Plain(edits[registered]) => json.edits = edits[registered]

\* What a flush is about to write is no less than what is there, and it is all
\* the handle holds, unless the handle has been marked since.
Grows(t) ==
    /\ pc[t] = "writeBin" =>
          /\ buf[t].sidecar.there /\ buf[t].sidecar.ver = json.ver
          /\ Durable \subseteq buf[t].sidecar.edits
          /\ buf[t].sidecar.edits \subseteq edits[registered]
    /\ pc[t] = "persist" =>
          /\ Durable \subseteq buf[t].json.edits
          /\ buf[t].json.edits \subseteq edits[registered]
Carries(t) ==
    InFlush(t) /\ ~dirty[registered] /\ ~Marking =>
        /\ pc[t] = "writeBin" => buf[t].sidecar.edits = edits[registered]
        /\ pc[t] \in {"flatten", "persist"} /\ Binary =>
              sidecar = [there |-> TRUE, ver |-> json.ver, edits |-> edits[registered]]
        /\ pc[t] = "persist" => buf[t].json.edits = edits[registered]

ContentInv ==
    /\ Whole /\ JsonWhole /\ Opened /\ Clean
    /\ \A t \in Tasks : Grows(t) /\ Carries(t)

SafeInv == SessionInv /\ PresenceInv /\ HandleInv /\ FileInv /\ ContentInv

\* In such an instance the guards say what they are meant to.
LEMMA Calmly ==
    ASSUME Calm
    PROVE  /\ NoEviction => \A t \in Tasks : ~Leaving(t)
           /\ NoFlush => \A t \in Tasks : ~InFlush(t)
           /\ Closed => /\ \A t \in Tasks : pc[t] = "idle"
                        /\ \A c \in Clients : ~joined[c]
           /\ "failEvict" \notin Coincide /\ "failDelete" \notin Coincide
           /\ Agents = {}
<1>0. Coincide \subseteq {"failFlatten"} /\ Agents = {}
    BY DEF Calm
<1>1. /\ "evictUse" \notin Coincide /\ "flushFlush" \notin Coincide
      /\ "deleteLive" \notin Coincide /\ "failEvict" \notin Coincide
      /\ "failDelete" \notin Coincide
    BY <1>0
<1>2. NoEviction => \A t \in Tasks : ~Leaving(t)
    BY <1>1 DEF NoEviction, Apart
<1>3. NoFlush => \A t \in Tasks : ~InFlush(t)
    BY <1>1 DEF NoFlush, Apart
<1>4. Closed => /\ \A t \in Tasks : pc[t] = "idle"
                /\ \A c \in Clients : ~joined[c]
    BY <1>1 DEF Closed, Apart, Tasks
<1> QED
    BY <1>0, <1>1, <1>2, <1>3, <1>4

\* No client joins while an eviction is under way.
LEMMA AloneStep ==
    ASSUME Calm, SessionInv, [Next]_vars
    PROVE  EvictsAlone'
<1> SUFFICES ASSUME NEW u \in Tasks PROVE Alone(u)'
    BY DEF EvictsAlone
<1> USE TasksAssumption DEF SessionInv, TypeInv, TypeOK, TasksOK, store, registry, control,
            ghosts, bounds, Go, Roles, Role, EvictsAlone, Alone, FlushPoints,
            Disciplined, Holds, Leaving,
            StillUsed
<1>1. ASSUME NEW t \in Clients,
             Join(t) \/ Sync(t) \/ ReadJson(t) \/
                 ReadSidecar(t)
      PROVE  Alone(u)'
    BY <1>1, Calmly DEF Join, Sync, ReadJson, ReadSidecar, Goto
<1>2. ASSUME NEW t \in Clients, Leave(t) PROVE Alone(u)'
    BY <1>2 DEF Leave, Goto
<1>3. ASSUME NEW t \in Clients, ReadFails(t) PROVE Alone(u)'
    BY <1>3 DEF ReadFails, Done
<1>4. ASSUME NEW t \in Clients, Ensure(t) PROVE Alone(u)'
    BY <1>4 DEF Ensure
<1>5. ASSUME NEW t \in Clients, Find(t) PROVE Alone(u)'
    BY <1>5 DEF Find
<1>6. ASSUME NEW t \in Clients, Check(t) PROVE Alone(u)'
    BY <1>6 DEF Check, Done
<1>7. ASSUME NEW t \in Clients, Evict(t) PROVE Alone(u)'
    BY <1>7 DEF Evict, Done
<1>8. ASSUME NEW t \in Tasks \ Flushers,
             Apply(t) \/ ApplyNothing(t) \/ Mark(t)
      PROVE  Alone(u)'
    BY <1>8 DEF Apply, ApplyNothing, Mark, Goto, Done
<1>9. ASSUME NEW t \in Tasks \ Agents,
             Encode(t) \/ WriteBin(t) \/ WriteBinFails(t)
      PROVE  Alone(u)'
    BY <1>9 DEF Encode, WriteBin, WriteBinFails, Goto
<1>10. ASSUME NEW t \in Tasks \ Agents, Take(t) PROVE Alone(u)'
    BY <1>10 DEF Take, Flushed
<1>11. ASSUME NEW t \in Tasks \ Agents, Flatten(t) PROVE Alone(u)'
    BY <1>11 DEF Flatten, Goto
<1>12. ASSUME NEW t \in Tasks \ Agents,
             FlattenSkips(t) \/ Persist(t) \/ PersistFails(t)
      PROVE  Alone(u)'
    BY <1>12 DEF FlattenSkips, Persist, PersistFails, Flushed
<1>13. ASSUME NEW t \in Flushers, Flush(t) PROVE Alone(u)'
    BY <1>13 DEF Flush, Goto
<1>17. CASE Delete \/ Recreate
    BY <1>17 DEF Delete, Recreate
<1>18. CASE Restart
    BY <1>18 DEF Restart
<1>19. CASE UNCHANGED vars
    BY <1>19 DEF vars
<1> QED
    BY <1>1, <1>2, <1>3, <1>4, <1>5, <1>6, <1>7, <1>8, <1>9, <1>10, <1>11,
        <1>12, <1>13, <1>17, <1>18, <1>19, Calmly,
        TasksAssumption
       DEF Next, ClientStep, FlusherStep, AgentStep, HydrateStep, EditStep,
           FlushStep, Tasks

\* A handle in use is the registered one.
LEMMA SharedStep ==
    ASSUME Calm, SessionInv, [Next]_vars
    PROVE  WritesReachAll'
<1> SUFFICES ASSUME NEW u \in Tasks PROVE Share(u)'
    BY DEF WritesReachAll, Share
<1> USE TasksAssumption DEF SessionInv, TypeInv, TypeOK, TasksOK, store, registry, control,
            ghosts, bounds, Go, Roles, Role, Seated, Seat, EvictsAlone, Alone,
            WritesReachAll, Share, FlushPoints, HydratePoints, ColdPoints,
            Disciplined, Holds, Leaving, Using
<1>1. ASSUME NEW t \in Clients,
             Join(t) \/ Sync(t) \/ ReadJson(t) \/
                 ReadSidecar(t)
      PROVE  Share(u)'
    BY <1>1 DEF Join, Sync, ReadJson, ReadSidecar, Goto
<1>2. ASSUME NEW t \in Clients, Leave(t) PROVE Share(u)'
    BY <1>2 DEF Leave, Goto
<1>3. ASSUME NEW t \in Clients, ReadFails(t) PROVE Share(u)'
    BY <1>3 DEF ReadFails, Done
<1>4. ASSUME NEW t \in Clients, Ensure(t) PROVE Share(u)'
    BY <1>4 DEF Ensure
<1>5. ASSUME NEW t \in Clients, Find(t) PROVE Share(u)'
    BY <1>5 DEF Find
<1>6. ASSUME NEW t \in Clients, Check(t) PROVE Share(u)'
    BY <1>6 DEF Check, Done
<1>7. ASSUME NEW t \in Clients, Evict(t) PROVE Share(u)'
  <2>1. CASE u \in Clients /\ u # t
    <3>1. ~joined[u] /\ t \in Tasks
        BY <1>7, <2>1 DEF Evict, Tasks
    <3>2. ~Using(u)
        BY <3>1, <2>1
    <3> QED
        BY <1>7, <2>1, <3>2 DEF Evict, Done
  <2>2. CASE u = t
      BY <1>7, <2>2 DEF Evict, Done
  <2>3. CASE u \in Flushers
      BY <1>7, <2>3 DEF Evict, Done
  <2> QED
      BY <2>1, <2>2, <2>3, Calmly DEF Tasks
<1>8. ASSUME NEW t \in Tasks \ Flushers,
             Apply(t) \/ ApplyNothing(t) \/ Mark(t)
      PROVE  Share(u)'
    BY <1>8 DEF Apply, ApplyNothing, Mark, Goto, Done
<1>9. ASSUME NEW t \in Tasks \ Agents,
             Encode(t) \/ WriteBin(t) \/ WriteBinFails(t)
      PROVE  Share(u)'
    BY <1>9 DEF Encode, WriteBin, WriteBinFails, Goto
<1>10. ASSUME NEW t \in Tasks \ Agents, Take(t) PROVE Share(u)'
    BY <1>10 DEF Take, Flushed
<1>11. ASSUME NEW t \in Tasks \ Agents, Flatten(t) PROVE Share(u)'
    BY <1>11 DEF Flatten, Goto
<1>12. ASSUME NEW t \in Tasks \ Agents,
             FlattenSkips(t) \/ Persist(t) \/ PersistFails(t)
      PROVE  Share(u)'
    BY <1>12 DEF FlattenSkips, Persist, PersistFails, Flushed
<1>13. ASSUME NEW t \in Flushers, Flush(t) PROVE Share(u)'
    BY <1>13 DEF Flush, Goto
<1>17. CASE Delete \/ Recreate
    BY <1>17 DEF Delete, Recreate
<1>18. CASE Restart
    BY <1>18 DEF Restart
<1>19. CASE UNCHANGED vars
    BY <1>19 DEF vars
<1> QED
    BY <1>1, <1>2, <1>3, <1>4, <1>5, <1>6, <1>7, <1>8, <1>9, <1>10, <1>11,
        <1>12, <1>13, <1>17, <1>18, <1>19, Calmly,
        TasksAssumption
       DEF Next, ClientStep, FlusherStep, AgentStep, HydrateStep, EditStep,
           FlushStep, Tasks

\* The initial state has no task under way.
LEMMA SessionInit == Init => SessionInv
<1> SUFFICES ASSUME Init PROVE SessionInv
    OBVIOUS
<1>1. TypeInv /\ Roles /\ Seated
    BY TypeInit, RolesInit
<1>2. EvictsAlone /\ WritesReachAll
    BY DEF Init, EvictsAlone, Alone, WritesReachAll, Using, Tasks
<1> QED
    BY <1>1, <1>2 DEF SessionInv

\* Who has the document open, and what is true of it then.
LEMMA PresenceStep ==
    ASSUME Calm, SafeInv, [Next]_vars
    PROVE  PresenceInv'
<1> USE TasksAssumption DEF SafeInv, PresenceInv, SessionInv
<1> USE DEF store, registry, control, ghosts, bounds, Go, Listed, TypeInv,
            TypeOK, StoreOK, TasksOK, Roles, Role, Seated, Seat, Attended,
            Kept, Open, Leaving, FlushPoints, Tasks,
            Disciplined, Holds
<1>1. ASSUME NEW t \in Clients, Join(t) PROVE PresenceInv'
    BY <1>1, Calmly DEF Join, Goto, JoinGate
<1>2. ASSUME NEW t \in Clients, Sync(t) PROVE PresenceInv'
    BY <1>2, Calmly DEF Sync, Goto
<1>3. ASSUME NEW t \in Clients, ReadJson(t) \/ ReadSidecar(t) PROVE PresenceInv'
    BY <1>3, Calmly DEF ReadJson, ReadSidecar, Goto
<1>4. ASSUME NEW t \in Clients, Leave(t) PROVE PresenceInv'
    BY <1>4, Calmly DEF Leave, Goto
<1>5. ASSUME NEW t \in Clients, ReadFails(t) PROVE PresenceInv'
    BY <1>5, Calmly DEF ReadFails, Done
<1>6. ASSUME NEW t \in Clients, Ensure(t) PROVE PresenceInv'
    BY <1>6, Calmly DEF Ensure
<1>7. ASSUME NEW t \in Clients, Find(t) PROVE PresenceInv'
    BY <1>7, Calmly DEF Find
<1>8. ASSUME NEW t \in Clients, Check(t) PROVE PresenceInv'
    BY <1>8, Calmly DEF Check, Done, StillUsed
<1>9. ASSUME NEW t \in Clients, Evict(t) PROVE PresenceInv'
    BY <1>9, Calmly DEF Evict, Done
<1>10. ASSUME NEW t \in Tasks \ Flushers, Apply(t) PROVE PresenceInv'
    BY <1>10, Calmly DEF Apply, Goto, NewEdit
<1>11. ASSUME NEW t \in Tasks \ Flushers, ApplyNothing(t) PROVE PresenceInv'
    BY <1>11, Calmly DEF ApplyNothing, Done
<1>12. ASSUME NEW t \in Tasks \ Flushers, Mark(t) PROVE PresenceInv'
    BY <1>12, Calmly DEF Mark, Done
<1>13. ASSUME NEW t \in Tasks \ Agents, Encode(t) PROVE PresenceInv'
    BY <1>13, Calmly DEF Encode, Goto
<1>14. ASSUME NEW t \in Tasks \ Agents, WriteBin(t) PROVE PresenceInv'
    BY <1>14, Calmly DEF WriteBin, Goto
<1>15. ASSUME NEW t \in Tasks \ Agents, WriteBinFails(t) PROVE PresenceInv'
    BY <1>15, Calmly DEF WriteBinFails, Goto, StoreFails, Remarked
<1>16. ASSUME NEW t \in Tasks \ Agents, Take(t) PROVE PresenceInv'
    BY <1>16, Calmly DEF Take, Flushed
<1>17. ASSUME NEW t \in Tasks \ Agents, Flatten(t) PROVE PresenceInv'
    BY <1>17, Calmly DEF Flatten, Goto
<1>17a. ASSUME NEW t \in Tasks \ Agents, FlattenSkips(t) PROVE PresenceInv'
    BY <1>17a, Calmly DEF FlattenSkips, Flushed
<1>18. ASSUME NEW t \in Tasks \ Agents, Persist(t) PROVE PresenceInv'
    BY <1>18, Calmly DEF Persist, Flushed, PersistGate
<1>19. ASSUME NEW t \in Tasks \ Agents, PersistFails(t) PROVE PresenceInv'
    BY <1>19, Calmly DEF PersistFails, Flushed, StoreFails, Remarked,
       PersistGate
<1>20. ASSUME NEW t \in Flushers, Flush(t) PROVE PresenceInv'
    BY <1>20, Calmly DEF Flush, Goto
<1>26. CASE Delete
    BY <1>26, Calmly DEF Delete, LeftSidecar
<1>27. CASE Recreate
    BY <1>27, Calmly DEF Recreate, NewEdit
<1>28. CASE Restart
    BY <1>28, Calmly DEF Restart
<1>29. CASE UNCHANGED vars
    BY <1>29, Calmly DEF vars
<1> QED
    BY <1>1, <1>2, <1>3, <1>4, <1>5, <1>6, <1>7, <1>8, <1>9, <1>10, <1>11,
        <1>12, <1>13, <1>14, <1>15, <1>16, <1>17, <1>17a, <1>18, <1>19, <1>20,
        <1>26, <1>27, <1>28, <1>29, Calmly
       DEF Next, ClientStep, FlusherStep, AgentStep, HydrateStep, EditStep,
           FlushStep, Tasks

\* A resident document is listed, and so is one that is being flushed.
LEMMA ResidentListed ==
    ASSUME SafeInv
    PROVE  /\ registered # 0 => Listed
           /\ \A t \in Tasks : InFlush(t) => Listed /\ held[t] = registered /\ registered # 0
<1>1. registered # 0 => Listed
    BY DEF SafeInv, PresenceInv, Attended, Kept
<1>2. ASSUME NEW t \in Tasks, InFlush(t) PROVE held[t] = registered /\ registered # 0
    BY <1>2 DEF SafeInv, HandleInv, Handling, FlushesOpen, SessionInv, TypeInv,
       Disciplined, Holds, InFlush
<1> QED
    BY <1>1, <1>2

\* The values a task's control state ranges over.
LEMMA Shapes ==
    ASSUME SafeInv
    PROVE  /\ pc \in [Tasks -> Points] /\ cont \in [Tasks -> Conts]
           /\ held \in [Tasks -> 0..MaxHandles]
           /\ buf \in [Tasks -> [json : JsonType, sidecar : SidecarType]]
           /\ dirty \in [Handles -> BOOLEAN] /\ edits \in [Handles -> SUBSET Edits]
           /\ registered \in 0..MaxHandles /\ hydrated \in 0..MaxHandles
           /\ \A t \in Tasks : pc[t] \in FlushPoints \union {"apply", "mark"} =>
                                   held[t] \in Handles
    BY Typed DEF SafeInv, SessionInv

\* The other tasks are not disturbed by a step that leaves the registry alone and
\* does not begin a flush.
LEMMA Elsewhere ==
    ASSUME HandleInv, NEW t \in Tasks, Others(t),
           UNCHANGED <<registered, hydrated, dirty>>, InFlush(t)' => InFlush(t)
    PROVE  \A u \in Tasks \ {t} : Handling(u)'
<1> SUFFICES ASSUME NEW u \in Tasks, u # t PROVE Handling(u)'
    OBVIOUS
<1>1. /\ pc'[u] = pc[u] /\ cont'[u] = cont[u] /\ held'[u] = held[u]
      /\ \A v \in Tasks : InFlush(v)' => InFlush(v)
    BY DEF Others, InFlush
<1>2. Handling(u)
    BY DEF HandleInv
<1> QED
    BY <1>1, <1>2 DEF Handling, Fresh, HeldClean, FlushesOpen, OneFlush, EvictsHeld,
       EvictsFlushed, EvictsClean, InFlush, FlushPoints

\* Nor is the task itself, if it stays clear of flushes and evictions.
LEMMA MoveHandles ==
    ASSUME HandleInv, NEW t \in Tasks, Others(t),
           UNCHANGED <<registered, hydrated, dirty>>,
           pc'[t] \notin FlushPoints \union {"evict"},
           cont'[t] = cont[t], held'[t] = held[t]
    PROVE  HandleInv'
<1>1. \A u \in Tasks \ {t} : Handling(u)'
    BY Elsewhere DEF InFlush
<1>2. Handling(t)
    BY DEF HandleInv
<1>3. Handling(t)'
    BY <1>2 DEF Handling, Fresh, HeldClean, FlushesOpen, OneFlush, EvictsHeld,
       EvictsFlushed, EvictsClean, InFlush, FlushPoints
<1> QED
    BY <1>1, <1>3 DEF HandleInv

\* Which handle a task holds, and what it may still do with one.
LEMMA HandleStep ==
    ASSUME Calm, SafeInv, [Next]_vars
    PROVE  HandleInv'
<1> USE TasksAssumption DEF SafeInv, HandleInv, SessionInv
<1> USE DEF store, registry, control, ghosts, bounds, Go, Listed, TypeInv,
            TypeOK, RegistryOK, TasksOK, Roles, Role, Seated, Seat,
            EvictsAlone, Alone, WritesReachAll, Using,
            Leaving, InFlush, FlushPoints, ColdPoints, Handling, Fresh,
            HeldClean, FlushesOpen, OneFlush, EvictsHeld, EvictsFlushed,
            EvictsClean, Handles, Tasks, Disciplined, Holds
<1>1. ASSUME NEW t \in Clients, Join(t) PROVE HandleInv'
    BY <1>1, Calmly DEF Join, Goto, JoinGate
<1>2. ASSUME NEW t \in Clients, Sync(t) PROVE HandleInv'
    BY <1>2, Calmly DEF Sync, Goto
<1>3. ASSUME NEW t \in Clients, ReadJson(t) \/ ReadSidecar(t) PROVE HandleInv'
  <2>1. /\ Others(t) /\ pc'[t] \in {"readSidecar", "ensure"}
        /\ cont'[t] = cont[t] /\ held'[t] = held[t]
        /\ UNCHANGED <<registered, hydrated, dirty>>
      BY <1>3, Shapes DEF ReadJson, ReadSidecar, Others, Goto, Go, registry
  <2> QED
      BY <2>1, MoveHandles DEF FlushPoints
<1>4. ASSUME NEW t \in Clients, Leave(t) PROVE HandleInv'
    BY <1>4, Calmly DEF Leave, Goto
<1>5. ASSUME NEW t \in Clients, ReadFails(t) PROVE HandleInv'
    BY <1>5, Calmly DEF ReadFails, Done
<1>6. ASSUME NEW t \in Clients, Ensure(t) PROVE HandleInv'
  <2>0. pc[t] = "ensure" /\ joined[t] /\ cont[t] \in {"idle", "apply"}
      BY <1>6, Shapes DEF Ensure, SafeInv, SessionInv, Seated, Seat, Roles, Role,
         FlushPoints,
         Conts, Tasks
  <2>1. CASE registered # 0
    <3>1. /\ Others(t) /\ UNCHANGED <<registered, hydrated, dirty>>
          /\ pc'[t] = cont[t] /\ cont'[t] = "idle" /\ held'[t] \in {0, registered}
        BY <1>6, <2>1, Shapes DEF Ensure, Others, Go
    <3>2. Handling(t) /\ registered <= hydrated /\ \A u \in Tasks \ {t} : Handling(u)'
        BY <2>0, <3>1, Elsewhere DEF HandleInv, InFlush, FlushPoints
    <3>3. Handling(t)'
        BY <2>0, <3>1, <3>2, Shapes DEF Handling, Fresh, HeldClean, FlushesOpen,
           OneFlush, EvictsHeld,
          EvictsFlushed, EvictsClean, InFlush, FlushPoints
    <3> QED
        BY <3>1, <3>2, <3>3 DEF HandleInv
  <2>2. CASE registered = 0
    <3>a. /\ Others(t) /\ registered' = hydrated + 1 /\ hydrated' = hydrated + 1
          /\ dirty' = [dirty EXCEPT ![hydrated + 1] = Stale(buf[t])]
          /\ pc'[t] = cont[t] /\ cont'[t] = "idle" /\ held'[t] \in {0, registered'}
        BY <1>6, <2>2, Shapes DEF Ensure, Others, Go
    <3>b. ASSUME NEW h \in Handles, h <= hydrated PROVE dirty'[h] = dirty[h]
      <4>1. h # hydrated + 1
          BY <3>b, Shapes DEF Handles
      <4> QED
          BY <3>a, <4>1, Shapes
    <3>1. /\ Others(t) /\ registered' = hydrated + 1 /\ hydrated' = hydrated + 1
          /\ \A h \in Handles : h <= hydrated => dirty'[h] = dirty[h]
          /\ pc'[t] = cont[t] /\ cont'[t] = "idle" /\ held'[t] \in {0, registered'}
        BY <3>a, <3>b
    <3>2. \A u \in Tasks : cont[u] # "evict" /\ pc[u] # "evict" /\ ~InFlush(u)
        BY <2>0, <2>2, ResidentListed DEF SafeInv, SessionInv, EvictsAlone, Alone
    <3>3. ASSUME NEW u \in Tasks PROVE Handling(u)'
      <4>1. Handling(u)
          BY DEF HandleInv
      <4>2. CASE u = t
          BY <2>0, <3>1, <4>2, Shapes DEF Handling, Fresh, HeldClean, FlushesOpen,
             OneFlush, EvictsHeld,
          EvictsFlushed, EvictsClean, InFlush, FlushPoints
      <4>3. CASE u # t
        <5>1. /\ pc'[u] = pc[u] /\ cont'[u] = cont[u] /\ held'[u] = held[u]
              /\ ~InFlush(u)'
            BY <3>1, <3>2, <4>3 DEF Others, InFlush
        <5>2. held[u] <= hydrated /\ held[u] \in 0..MaxHandles /\ hydrated \in Nat
            BY <4>1, Shapes DEF Handling, Fresh
        <5>3. pc[u] = "take" => ~dirty[held[u]] /\ held[u] \in Handles
            BY <2>2, <4>1, Shapes DEF Handling, HeldClean, FlushPoints, Handles
        <5> QED
            BY <3>1, <3>2, <5>1, <5>2, <5>3 DEF Handling, Fresh, HeldClean, FlushesOpen,
               OneFlush, EvictsHeld,
          EvictsFlushed, EvictsClean, InFlush, FlushPoints
      <4> QED
          BY <4>2, <4>3
    <3> QED
        BY <3>1, <3>3, Shapes DEF HandleInv
  <2> QED
      BY <2>1, <2>2
<1>7. ASSUME NEW t \in Clients, Find(t) PROVE HandleInv'
    BY <1>7, Calmly DEF Find
<1>8. ASSUME NEW t \in Clients, Check(t) PROVE HandleInv'
  <2>1. /\ Others(t) /\ UNCHANGED <<registered, hydrated, dirty>>
        /\ \/ pc'[t] = "idle" /\ cont'[t] = "idle" /\ held'[t] = 0
           \/ pc'[t] = "take" /\ cont'[t] = "evict" /\ held'[t] = registered
           \/ /\ pc'[t] = "evict" /\ registered = 0
              /\ cont'[t] = cont[t] /\ held'[t] = held[t]
      BY <1>8, Shapes DEF Check, Others, Done, Go, registry
  <2>2. \A u \in Tasks \ {t} : Handling(u)'
      BY <2>1, Elsewhere DEF InFlush, FlushPoints
  <2>3. Handling(t) /\ registered <= hydrated /\ 0 <= hydrated
      BY Shapes DEF HandleInv
  <2>4. Handling(t)'
      BY <2>1, <2>3 DEF Handling, Fresh, HeldClean, FlushesOpen, OneFlush, EvictsHeld,
          EvictsFlushed, EvictsClean, InFlush, FlushPoints
  <2> QED
      BY <2>1, <2>2, <2>3, <2>4 DEF HandleInv
<1>9. ASSUME NEW t \in Clients, Evict(t) PROVE HandleInv'
    BY <1>9, Calmly DEF Evict, Done
<1>10. ASSUME NEW t \in Tasks \ Flushers, Apply(t) PROVE HandleInv'
    BY <1>10, Calmly DEF Apply, Goto, NewEdit
<1>11. ASSUME NEW t \in Tasks \ Flushers, ApplyNothing(t) PROVE HandleInv'
    BY <1>11, Calmly DEF ApplyNothing, Done
<1>12. ASSUME NEW t \in Tasks \ Flushers, Mark(t) PROVE HandleInv'
    BY <1>12, Calmly DEF Mark, Done
<1>13. ASSUME NEW t \in Tasks \ Agents, Encode(t) PROVE HandleInv'
    BY <1>13, Calmly DEF Encode, Goto
<1>14. ASSUME NEW t \in Tasks \ Agents, WriteBin(t) PROVE HandleInv'
    BY <1>14, Calmly DEF WriteBin, Goto
<1>15. ASSUME NEW t \in Tasks \ Agents, WriteBinFails(t) PROVE HandleInv'
    BY <1>15, Calmly DEF WriteBinFails, Goto, StoreFails, Remarked
<1>16. ASSUME NEW t \in Tasks \ Agents, Take(t) PROVE HandleInv'
  <2>0. pc[t] = "take" /\ held[t] \in Handles /\ \A u \in Tasks : ~InFlush(u)
      BY <1>16, Calmly, Shapes DEF Take, FlushPoints
  <2>1. CASE dirty[held[t]]
    <3>1. held[t] = registered /\ registered # 0
        BY <2>0, <2>1 DEF HandleInv, Handling, HeldClean, Handles
    <3>2. /\ Others(t) /\ UNCHANGED <<registered, hydrated>>
          /\ dirty' = [dirty EXCEPT ![registered] = FALSE]
          /\ pc'[t] \in {"encode", "flatten"} /\ cont'[t] = cont[t] /\ held'[t] = held[t]
        BY <1>16, <2>1, <3>1, Shapes DEF Take, Others, Go
    <3>3. \A h \in Handles : dirty'[h] => dirty[h]
        BY <3>2, Shapes
    <3>4. \A u \in Tasks : pc[u] # "evict"
        BY <2>1, <3>1 DEF HandleInv, Handling, EvictsClean
    <3>5. ~dirty'[registered]
        BY <2>0, <3>1, <3>2, Shapes
    <3>6. ASSUME NEW u \in Tasks PROVE Handling(u)'
      <4>1. Handling(u)
          BY DEF HandleInv
      <4>2. pc[u] = "take" => held[u] \in Handles
          BY Shapes DEF FlushPoints
      <4>3. CASE u = t
        <5>1. \A v \in Tasks : InFlush(v)' => v = t
            BY <2>0, <3>2 DEF Others, InFlush
        <5> QED
            BY <3>1, <3>2, <3>5, <4>1, <4>3, <5>1 DEF Handling, Fresh, HeldClean,
               FlushesOpen, OneFlush, EvictsHeld,
          EvictsFlushed, EvictsClean, InFlush, FlushPoints
      <4>4. CASE u # t
        <5>1. /\ pc'[u] = pc[u] /\ cont'[u] = cont[u] /\ held'[u] = held[u]
              /\ ~InFlush(u)'
            BY <2>0, <3>2, <4>4 DEF Others, InFlush
        <5> QED
            BY <3>2, <3>3, <3>4, <4>1, <4>2, <4>4, <5>1 DEF Handling, Fresh, HeldClean,
               FlushesOpen, OneFlush, EvictsHeld,
          EvictsFlushed, EvictsClean, InFlush, FlushPoints
      <4> QED
          BY <4>3, <4>4
    <3> QED
        BY <3>2, <3>6 DEF HandleInv
  <2>2. CASE ~dirty[held[t]]
    <3>1. /\ Others(t) /\ UNCHANGED <<registered, hydrated, dirty>>
          /\ pc'[t] = cont[t] /\ cont'[t] = "idle" /\ held'[t] = 0
        BY <1>16, <2>2, Shapes DEF Take, Flushed, Others, Go
    <3>2. cont[t] \in {"idle", "evict"}
        BY <2>0, Shapes DEF SafeInv, SessionInv, TypeInv, Disciplined, Holds, Conts,
         HydratePoints, ColdPoints
    <3>3. \A u \in Tasks : ~InFlush(u)'
        BY <2>0, <3>1, <3>2 DEF Others, InFlush, FlushPoints
    <3>4. Handling(t) /\ 0 <= hydrated /\ \A u \in Tasks \ {t} : Handling(u)'
        BY <3>1, <3>3, Elsewhere, Shapes DEF HandleInv
    <3>5. Handling(t)'
        BY <2>2, <3>1, <3>2, <3>3, <3>4 DEF Handling, Fresh, HeldClean, FlushesOpen,
           OneFlush, EvictsHeld,
          EvictsFlushed, EvictsClean, InFlush, FlushPoints
    <3> QED
        BY <3>1, <3>4, <3>5 DEF HandleInv
  <2> QED
      BY <2>1, <2>2
<1>17. ASSUME NEW t \in Tasks \ Agents, Flatten(t) PROVE HandleInv'
  <2>1. pc[t] = "flatten" /\ Listed
      BY <1>17, ResidentListed DEF Flatten, Goto, InFlush, FlushPoints
  <2>2. /\ Others(t) /\ UNCHANGED <<registered, hydrated, dirty>>
        /\ pc'[t] = "persist" /\ cont'[t] = cont[t] /\ held'[t] = held[t]
      BY <1>17, <2>1, Shapes DEF Flatten, Goto, Others, Go, registry
  <2>3. Handling(t) /\ \A u \in Tasks \ {t} : Handling(u)'
      BY <2>1, <2>2, Elsewhere DEF HandleInv, InFlush, FlushPoints
  <2>4. Handling(t)'
    <3>1. \A u \in Tasks : InFlush(u)' => InFlush(u)
        BY <2>1, <2>2 DEF InFlush, FlushPoints, Others
    <3> QED
        BY <2>1, <2>2, <2>3, <3>1 DEF Handling, Fresh, HeldClean, FlushesOpen, OneFlush,
           EvictsHeld,
          EvictsFlushed, EvictsClean, InFlush, FlushPoints
  <2> QED
      BY <2>2, <2>3, <2>4 DEF HandleInv
<1>17a. ASSUME NEW t \in Tasks \ Agents, FlattenSkips(t) PROVE HandleInv'
    BY <1>17a, Calmly DEF FlattenSkips, Flushed
<1>18. ASSUME NEW t \in Tasks \ Agents, Persist(t) PROVE HandleInv'
    BY <1>18, Calmly DEF Persist, Flushed, PersistGate
<1>19. ASSUME NEW t \in Tasks \ Agents, PersistFails(t) PROVE HandleInv'
  <2>1. /\ pc[t] = "persist" /\ Listed /\ held[t] = registered /\ registered # 0
        /\ registered \in Handles
      BY <1>19, ResidentListed, Shapes DEF PersistFails, InFlush, FlushPoints, Handles
  <2>2. cont[t] = "idle"
      BY <1>19, <2>1, Calmly DEF PersistFails, PersistGate, StoreFails, SafeInv,
         SessionInv, TypeInv, TypeOK, TasksOK, Disciplined, Holds, HydratePoints,
         ColdPoints
  <2>3. /\ Others(t) /\ UNCHANGED <<registered, hydrated>>
        /\ dirty' = [dirty EXCEPT ![registered] = TRUE]
        /\ pc'[t] = "idle" /\ cont'[t] = "idle" /\ held'[t] = 0
      BY <1>19, <2>1, <2>2, Shapes DEF PersistFails, Flushed, Remarked, Others, Go
  <2>4. \A u \in Tasks : pc[u] # "evict" /\ (InFlush(u) => u = t)
      BY <2>1 DEF HandleInv, Handling, OneFlush, EvictsClean, InFlush, FlushPoints
  <2>5. ASSUME NEW u \in Tasks PROVE Handling(u)'
    <3>1. Handling(u) /\ 0 <= hydrated
        BY Shapes DEF HandleInv
    <3>2. pc[u] = "take" /\ ~dirty[held[u]] => held[u] = registered \/ ~dirty'[held[u]]
        BY <2>3, Shapes DEF FlushPoints
    <3>3. CASE u = t
        BY <2>3, <3>1, <3>3 DEF Handling, Fresh, HeldClean, FlushesOpen, OneFlush,
           EvictsHeld,
          EvictsFlushed, EvictsClean, InFlush, FlushPoints
    <3>4. CASE u # t
      <4>1. ~InFlush(u)' /\ pc'[u] # "evict"
          BY <2>3, <2>4, <3>4 DEF Others, InFlush
      <4> QED
          BY <2>3, <3>1, <3>2, <3>4, <4>1 DEF Handling, Fresh, HeldClean, FlushesOpen,
             OneFlush, EvictsHeld,
          EvictsFlushed, EvictsClean, InFlush, FlushPoints, Others
    <3> QED
        BY <3>3, <3>4
  <2> QED
      BY <2>3, <2>5 DEF HandleInv
<1>20. ASSUME NEW t \in Flushers, Flush(t) PROVE HandleInv'
    BY <1>20, Calmly DEF Flush, Goto
<1>26. CASE Delete
    BY <1>26, Calmly DEF Delete, LeftSidecar
<1>27. CASE Recreate
    BY <1>27, Calmly DEF Recreate, NewEdit
<1>28. CASE Restart
    BY <1>28, Calmly DEF Restart
<1>29. CASE UNCHANGED vars
    BY <1>29, Calmly DEF vars
<1> QED
    BY <1>1, <1>2, <1>3, <1>4, <1>5, <1>6, <1>7, <1>8, <1>9, <1>10, <1>11,
        <1>12, <1>13, <1>14, <1>15, <1>16, <1>17, <1>17a, <1>18, <1>19, <1>20,
        <1>26, <1>27, <1>28, <1>29, Calmly
       DEF Next, ClientStep, FlusherStep, AgentStep, HydrateStep, EditStep,
           FlushStep, Tasks

\* What is on the volume, and what tasks have read of it.
LEMMA FileStep ==
    ASSUME Calm, SafeInv, [Next]_vars
    PROVE  FileInv'
<1> USE TasksAssumption DEF SafeInv, FileInv, SessionInv
<1> USE DEF store, registry, control, ghosts, bounds, Go, Listed, TypeInv,
            TypeOK, StoreOK, TasksOK, CountsOK, Roles, Role, Seated, Seat,
            EvictsAlone, Alone, Kept, Open, PresenceInv, Unlisted,
            Tagged, Encoded, Unencoded, HasRead, FlushPoints, Tasks, Disciplined, Holds,
             NoSidecar, NoJson,
            JsonType, SidecarType
<1>1. ASSUME NEW t \in Clients, Join(t) PROVE FileInv'
    BY <1>1, Calmly DEF Join, Goto, JoinGate
<1>2. ASSUME NEW t \in Clients, Sync(t) PROVE FileInv'
    BY <1>2, Calmly DEF Sync, Goto
<1>3. ASSUME NEW t \in Clients, ReadJson(t) \/ ReadSidecar(t) PROVE FileInv'
  <2>0. /\ Others(t) /\ UNCHANGED <<json, sidecar, accepted, registered>>
        /\ pc'[t] \in {"readSidecar", "ensure"}
      BY <1>3, Shapes DEF ReadJson, ReadSidecar, Others, Goto, Go, store, registry, ghosts
  <2>1. HasRead(t)'
    <3>1. CASE ReadJson(t)
      <4>1. pc'[t] = "readSidecar" /\ buf'[t].json = json /\ json' = json
          BY <3>1, Shapes DEF ReadJson, Goto, Go, store
      <4> QED
          BY <4>1 DEF HasRead
    <3>2. CASE ReadSidecar(t)
      <4>1. /\ pc[t] = "readSidecar" /\ UNCHANGED <<json, sidecar, registered>>
            /\ buf'[t].json = buf[t].json
            /\ buf'[t].sidecar = IF Binary THEN sidecar ELSE NoSidecar
          BY <3>2, Shapes DEF ReadSidecar, Goto, Go, store, registry
      <4>2. buf'[t].sidecar = sidecar
          BY <4>1 DEF FileInv, Unencoded
      <4>3. HasRead(t)
          BY DEF FileInv
      <4> QED
          BY <4>1, <4>2, <4>3 DEF HasRead
    <3> QED
        BY <1>3, <3>1, <3>2
  <2>3. Encoded(t)'
      BY <2>0 DEF Encoded
  <2>4. \A u \in Tasks \ {t} : HasRead(u)' /\ Encoded(u)'
      BY <2>0 DEF FileInv, HasRead, Encoded, Others
  <2>5. Unlisted' /\ Tagged' /\ Unencoded'
      BY <2>0 DEF FileInv, Unlisted, Tagged, Unencoded, Listed
  <2> QED
      BY <2>1, <2>3, <2>4, <2>5 DEF FileInv
<1>4. ASSUME NEW t \in Clients, Leave(t) PROVE FileInv'
    BY <1>4, Calmly DEF Leave, Goto
<1>5. ASSUME NEW t \in Clients, ReadFails(t) PROVE FileInv'
    BY <1>5, Calmly DEF ReadFails, Done
<1>6. ASSUME NEW t \in Clients, Ensure(t) PROVE FileInv'
    BY <1>6, Calmly DEF Ensure
<1>7. ASSUME NEW t \in Clients, Find(t) PROVE FileInv'
    BY <1>7, Calmly DEF Find
<1>8. ASSUME NEW t \in Clients, Check(t) PROVE FileInv'
    BY <1>8, Calmly DEF Check, Done, StillUsed
<1>9. ASSUME NEW t \in Clients, Evict(t) PROVE FileInv'
    BY <1>9, Calmly DEF Evict, Done
<1>10. ASSUME NEW t \in Tasks \ Flushers, Apply(t) PROVE FileInv'
  <2>1. /\ Others(t) /\ UNCHANGED <<json, sidecar, registered>>
        /\ pc[t] = "apply" /\ pc'[t] = "mark" /\ buf'[t] = buf[t]
      BY <1>10, Shapes DEF Apply, Others, Goto, Go, store
  <2>2. Listed
      BY <2>1, ResidentListed, Shapes DEF SafeInv, SessionInv, WritesReachAll, Using,
         Handles
  <2>3. \A u \in Tasks : HasRead(u)' /\ Encoded(u)'
      BY <2>1 DEF FileInv, HasRead, Encoded, Others
  <2>4. Unlisted' /\ Tagged' /\ Unencoded'
      BY <2>1, <2>2 DEF FileInv, Unlisted, Tagged, Unencoded, Listed
  <2> QED
      BY <2>3, <2>4 DEF FileInv
<1>11. ASSUME NEW t \in Tasks \ Flushers, ApplyNothing(t) PROVE FileInv'
    BY <1>11, Calmly DEF ApplyNothing, Done
<1>12. ASSUME NEW t \in Tasks \ Flushers, Mark(t) PROVE FileInv'
    BY <1>12, Calmly DEF Mark, Done
<1>13. ASSUME NEW t \in Tasks \ Agents, Encode(t) PROVE FileInv'
    BY <1>13, Calmly DEF Encode, Goto
<1>14. ASSUME NEW t \in Tasks \ Agents, WriteBin(t) PROVE FileInv'
  <2>1. /\ Others(t) /\ UNCHANGED <<json, accepted, registered>>
        /\ pc[t] = "writeBin" /\ pc'[t] = "flatten" /\ sidecar' = buf[t].sidecar
      BY <1>14, Shapes DEF WriteBin, Others, Goto, Go, registry, ghosts
  <2>2. Listed /\ registered # 0
      BY <2>1, ResidentListed DEF InFlush, FlushPoints
  <2>3. \A u \in Tasks : HasRead(u)' /\ Encoded(u)'
      BY <2>1, <2>2 DEF FileInv, HasRead, Encoded, Others
  <2>4. buf[t].sidecar.ver = json.ver /\ Binary /\ json.ver \in Nat
      BY <2>1 DEF SafeInv, ContentInv, Grows, FileInv, Encoded, SessionInv, TypeInv, TypeOK,
         StoreOK, JsonType
  <2>5. Unlisted' /\ Tagged' /\ Unencoded'
      BY <2>1, <2>2, <2>4 DEF Unlisted, Tagged, Unencoded, Listed
  <2> QED
      BY <2>3, <2>5 DEF FileInv
<1>15. ASSUME NEW t \in Tasks \ Agents, WriteBinFails(t) PROVE FileInv'
    BY <1>15, Calmly DEF WriteBinFails, Goto, StoreFails, Remarked
<1>16. ASSUME NEW t \in Tasks \ Agents, Take(t) PROVE FileInv'
    BY <1>16, Calmly DEF Take, Flushed
<1>17. ASSUME NEW t \in Tasks \ Agents, Flatten(t) PROVE FileInv'
    BY <1>17, Calmly DEF Flatten, Goto
<1>17a. ASSUME NEW t \in Tasks \ Agents, FlattenSkips(t) PROVE FileInv'
    BY <1>17a, Calmly DEF FlattenSkips, Flushed
<1>18. ASSUME NEW t \in Tasks \ Agents, Persist(t) PROVE FileInv'
  <2>1. pc[t] = "persist" /\ Listed /\ registered # 0
      BY <1>18, ResidentListed DEF Persist, InFlush, FlushPoints
  <2>2. /\ Others(t) /\ UNCHANGED <<sidecar, accepted, registered>>
        /\ json'.ver = json.ver /\ pc'[t] = cont[t]
      BY <1>18, <2>1, Shapes DEF Persist, Flushed, Others, Go, registry, ghosts
  <2>3. cont[t] \in {"idle", "evict"}
      BY <2>1, Shapes DEF SafeInv, SessionInv, TypeInv, Disciplined, Holds, Conts,
         HydratePoints, ColdPoints
  <2>5. \A u \in Tasks : HasRead(u)' /\ Encoded(u)'
      BY <2>1, <2>2, <2>3 DEF FileInv, HasRead, Encoded, Others
  <2>6. Unlisted' /\ Tagged' /\ Unencoded'
      BY <2>1, <2>2 DEF FileInv, Unlisted, Tagged, Unencoded, Listed
  <2> QED
      BY <2>5, <2>6 DEF FileInv
<1>19. ASSUME NEW t \in Tasks \ Agents, PersistFails(t) PROVE FileInv'
    BY <1>19, Calmly DEF PersistFails, Flushed, StoreFails, Remarked,
       PersistGate
<1>20. ASSUME NEW t \in Flushers, Flush(t) PROVE FileInv'
    BY <1>20, Calmly DEF Flush, Goto
<1>26. CASE Delete
    BY <1>26, Calmly DEF Delete, LeftSidecar
<1>27. CASE Recreate
    BY <1>27, Calmly DEF Recreate, NewEdit
<1>28. CASE Restart
    BY <1>28, Calmly DEF Restart
<1>29. CASE UNCHANGED vars
    BY <1>29, Calmly DEF vars
<1> QED
    BY <1>1, <1>2, <1>3, <1>4, <1>5, <1>6, <1>7, <1>8, <1>9, <1>10, <1>11,
        <1>12, <1>13, <1>14, <1>15, <1>16, <1>17, <1>17a, <1>18, <1>19, <1>20,
        <1>26, <1>27, <1>28, <1>29, Calmly
       DEF Next, ClientStep, FlusherStep, AgentStep, HydrateStep, EditStep,
           FlushStep, Tasks

\* What is true while t flushes the resident handle.
LEMMA WhileFlushing ==
    ASSUME SafeInv, NEW t \in Tasks, InFlush(t)
    PROVE  /\ Listed /\ held[t] = registered /\ registered \in Handles
           /\ \A u \in Tasks : InFlush(u) => u = t
           /\ accepted = edits[registered] /\ Durable \subseteq accepted
<1>1. Listed /\ held[t] = registered /\ registered # 0
    BY ResidentListed
<1>2. registered \in Handles
    BY <1>1, Shapes DEF Handles
<1>3. \A u \in Tasks : InFlush(u) => u = t
    BY DEF SafeInv, HandleInv, Handling, OneFlush
<1> QED
    BY <1>1, <1>2, <1>3 DEF SafeInv, ContentInv, Whole

\* Durable is a function of the two files.
LEMMA SameFiles ==
    ASSUME UNCHANGED <<json, sidecar>>
    PROVE  Durable' = Durable
    BY DEF Durable, Content, Stale

\* A step that is neither part of a flush nor of an edit, and leaves files and
\* handles alone, keeps what is said about contents.
LEMMA MoveContent ==
    ASSUME ContentInv, NEW t \in Tasks, Others(t),
           UNCHANGED <<json, sidecar, registered, edits, dirty, page, accepted>>,
           pc[t] # "mark", pc'[t] # "mark", ~InFlush(t), ~InFlush(t)'
    PROVE  ContentInv'
<1>1. Durable' = Durable
    BY SameFiles
<1>2. /\ \A u \in Tasks : pc'[u] = "mark" <=> pc[u] = "mark"
      /\ \A u \in Tasks : InFlush(u)' <=> InFlush(u)
    BY DEF Others, InFlush
<1>3. Marking' = Marking /\ Flushing' = Flushing
    BY <1>2 DEF Marking, Flushing
<1>4. Whole' /\ JsonWhole' /\ Opened' /\ Clean'
    BY <1>1, <1>3 DEF ContentInv, Whole, JsonWhole, Opened, Clean
<1>5. ASSUME NEW u \in Tasks PROVE Grows(u)' /\ Carries(u)'
  <2>1. CASE InFlush(u)
    <3>1. pc'[u] = pc[u] /\ buf'[u] = buf[u]
        BY <2>1 DEF Others
    <3>2. Grows(u) /\ Carries(u)
        BY DEF ContentInv
    <3>3. Grows(u)'
        BY <1>1, <3>1, <3>2 DEF Grows
    <3>4. Carries(u)'
        BY <1>2, <1>3, <2>1, <3>1, <3>2 DEF Carries
    <3> QED
        BY <3>3, <3>4
  <2>2. CASE ~InFlush(u)
      BY <1>2, <2>2 DEF Grows, Carries, InFlush, FlushPoints
  <2> QED
      BY <2>1, <2>2
<1> QED
    BY <1>4, <1>5 DEF ContentInv

\* Where nobody flushes, nothing is being carried.
LEMMA Idle ==
    ASSUME \A u \in Tasks : ~InFlush(u)
    PROVE  \A u \in Tasks : Grows(u) /\ Carries(u)
    BY DEF Grows, Carries, InFlush, FlushPoints

\* A deletion finds the document closed.
LEMMA Nobody ==
    ASSUME Calm, SafeInv, Closed
    PROVE  registered = 0 /\ \A u \in Tasks : pc[u] = "idle"
<1>1. /\ \A t \in Tasks : pc[t] = "idle"
      /\ \A c \in Clients : ~joined[c]
    BY Calmly
<1>2. \A c \in Clients : cont[c] # "evict"
    BY <1>1 DEF SafeInv, SessionInv, Roles, Role, FlushPoints, Tasks
<1> QED
    BY <1>1, <1>2 DEF SafeInv, PresenceInv, Attended, Open, Leaving, Tasks

\* A flush leaves its JSON half out only where there is a sidecar, and where
\* the JSON is sure to keep up, only after a page was deleted.
LEMMA SkipsOnly ==
    ASSUME Calm, SafeInv, NEW t \in Tasks, FlattenSkips(t)
    PROVE  Binary /\ ~(Sure /\ Plain(edits[registered]))
<1>1. InFlush(t)
    BY DEF FlattenSkips, InFlush, FlushPoints
<1>2. /\ Listed /\ held[t] = registered /\ registered \in Handles
      /\ accepted = edits[registered]
    BY <1>1, WhileFlushing
<1>3. page[registered] \in SUBSET Removals
    BY <1>2 DEF SafeInv, SessionInv, TypeInv, TypeOK, RegistryOK
<1>4. "failFlatten" \notin Coincide => ~Flattens(t)
    BY DEF FlattenSkips
<1>5. Paged /\ "failFlatten" \notin Coincide => OpensOn(json) # page[registered]
    BY <1>2, <1>4 DEF Flattens, Diverged
<1>6. Binary
    BY <1>3, <1>5 DEF Calm, Skips, OpensOn
<1>7. ASSUME Sure, Plain(edits[registered]) PROVE FALSE
  <2>1. json.edits \subseteq accepted /\ page[registered] \subseteq accepted
      BY <1>2, <1>7 DEF Sure, SafeInv, ContentInv, Opened, Handles
  <2>2. OpensOn(json) = {} /\ page[registered] = {}
      BY <1>2, <1>3, <1>7, <2>1 DEF OpensOn, Plain
  <2> QED
      BY <1>5, <1>7, <2>2 DEF Sure
<1> QED
    BY <1>6, <1>7

\* Where a task is in the middle of an edit or a flush.
Busy == {"mark", "encode", "writeBin", "flatten", "persist"}

\* What the handle and the volume hold.
LEMMA ContentStep ==
    ASSUME Calm, SafeInv, [Next]_vars
    PROVE  ContentInv'
<1>0. ContentInv
    BY DEF SafeInv
<1> USE TasksAssumption DEF Tasks
<1>1. ASSUME NEW t \in Clients, Join(t) PROVE ContentInv'
  <2>1. /\ Others(t) /\ UNCHANGED <<json, sidecar, registered, edits, dirty, page, accepted>>
        /\ pc[t] \notin Busy /\ pc'[t] \notin Busy
      BY <1>1, Shapes DEF Join, Goto, Others, Go, store, registry, ghosts, Busy
  <2> QED
      BY <1>0, <2>1, MoveContent DEF InFlush, FlushPoints, Busy
<1>2. ASSUME NEW t \in Clients, Sync(t) PROVE ContentInv'
  <2>1. /\ Others(t) /\ UNCHANGED <<json, sidecar, registered, edits, dirty, page, accepted>>
        /\ pc[t] \notin Busy /\ pc'[t] \notin Busy
      BY <1>2, Shapes DEF Sync, Goto, Others, Go, store, registry, ghosts, Busy
  <2> QED
      BY <1>0, <2>1, MoveContent DEF InFlush, FlushPoints, Busy
<1>3. ASSUME NEW t \in Clients, ReadJson(t) \/ ReadSidecar(t) PROVE ContentInv'
  <2>1. /\ Others(t) /\ UNCHANGED <<json, sidecar, registered, edits, dirty, page, accepted>>
        /\ pc[t] \notin Busy /\ pc'[t] \notin Busy
      BY <1>3, Shapes DEF ReadJson, ReadSidecar, Goto, Others, Go, store, registry,
         ghosts, Busy
  <2> QED
      BY <1>0, <2>1, MoveContent DEF InFlush, FlushPoints, Busy
<1>4. ASSUME NEW t \in Clients, Leave(t) PROVE ContentInv'
  <2>1. /\ Others(t) /\ UNCHANGED <<json, sidecar, registered, edits, dirty, page, accepted>>
        /\ pc[t] \notin Busy /\ pc'[t] \notin Busy
      BY <1>4, Shapes DEF Leave, Goto, Others, Go, store, registry, ghosts, Busy
  <2> QED
      BY <1>0, <2>1, MoveContent DEF InFlush, FlushPoints, Busy
<1>5. ASSUME NEW t \in Clients, ReadFails(t) PROVE ContentInv'
  <2>1. /\ Others(t) /\ UNCHANGED <<json, sidecar, registered, edits, dirty, page, accepted>>
        /\ pc[t] \notin Busy /\ pc'[t] \notin Busy
      BY <1>5, Shapes DEF ReadFails, Done, Others, Go, store, registry, ghosts, Busy
  <2> QED
      BY <1>0, <2>1, MoveContent DEF InFlush, FlushPoints, Busy
<1>6. ASSUME NEW t \in Clients, Ensure(t) PROVE ContentInv'
  <2>0. pc[t] = "ensure" /\ cont[t] \in {"idle", "apply"}
      BY <1>6, Shapes DEF Ensure, SafeInv, SessionInv, Roles, Role, FlushPoints, Conts,
         Tasks
  <2>1. /\ Others(t) /\ UNCHANGED <<json, sidecar, accepted>> /\ pc'[t] = cont[t]
      BY <1>6, Shapes DEF Ensure, Others, Go, store, ghosts
  <2>2. CASE registered # 0
    <3>1. UNCHANGED <<registered, edits, dirty, page>>
        BY <1>6, <2>2 DEF Ensure, registry
    <3> QED
        BY <2>0, <2>1, <3>1, <1>0, MoveContent DEF InFlush, FlushPoints
  <2>3. CASE registered = 0
    <3>1. buf[t] = [json |-> json, sidecar |-> sidecar]
        BY <2>0, <2>3, Shapes DEF SafeInv, FileInv, HasRead
    <3>2. hydrated + 1 \in Handles
        BY <1>6, <2>3, Shapes, BoundsAssumption DEF Ensure, Handles
    <3>3. /\ registered' = hydrated + 1
          /\ edits' = [edits EXCEPT ![hydrated + 1] = Content(buf[t])]
          /\ dirty' = [dirty EXCEPT ![hydrated + 1] = Stale(buf[t])]
          /\ page' = [page EXCEPT ![hydrated + 1] = OpensOn(buf[t].json)]
        BY <1>6, <2>3 DEF Ensure
    <3>a. page \in [Handles -> SUBSET Removals]
        BY DEF SafeInv, SessionInv, TypeInv, TypeOK, RegistryOK
    <3>4. /\ edits'[registered'] = Durable /\ dirty'[registered'] = Stale(buf[t])
          /\ registered' # 0 /\ page'[registered'] \subseteq json.edits
        BY <3>1, <3>2, <3>3, <3>a, Shapes DEF Durable, Handles, OpensOn
    <3>5. Durable' = Durable
        BY <2>1, SameFiles
    <3>6. /\ accepted = Durable /\ (Sure /\ Plain(Durable) => json.edits = Durable)
          /\ MaxRestarts = 0 => json.edits \subseteq accepted
        BY <2>3 DEF SafeInv, ContentInv, Whole, JsonWhole, Opened
    <3>7. Whole' /\ JsonWhole' /\ Opened' /\ Clean'
        BY <2>1, <3>4, <3>5, <3>6 DEF Whole, JsonWhole, Opened, Clean
    <3>8. \A u \in Tasks : ~InFlush(u)'
        BY <2>0, <2>1, <2>3, ResidentListed DEF Others, InFlush, FlushPoints
    <3>9. \A u \in Tasks : Grows(u)' /\ Carries(u)'
        BY <3>8 DEF Grows, Carries, InFlush, FlushPoints
    <3> QED
        BY <3>7, <3>9 DEF ContentInv
  <2> QED
      BY <2>2, <2>3
<1>7. ASSUME NEW t \in Clients, Find(t) PROVE ContentInv'
  <2>1. /\ Others(t) /\ UNCHANGED <<json, sidecar, registered, edits, dirty, page, accepted>>
        /\ pc[t] \notin Busy /\ pc'[t] \notin Busy
      BY <1>7, Shapes DEF Find, Others, Go, store, registry, ghosts, Busy
  <2> QED
      BY <1>0, <2>1, MoveContent DEF InFlush, FlushPoints, Busy
<1>8. ASSUME NEW t \in Clients, Check(t) PROVE ContentInv'
  <2>1. /\ Others(t) /\ UNCHANGED <<json, sidecar, registered, edits, dirty, page, accepted>>
        /\ pc[t] \notin Busy /\ pc'[t] \notin Busy
      BY <1>8, Shapes DEF Check, Done, Others, Go, store, registry, ghosts, Busy
  <2> QED
      BY <1>0, <2>1, MoveContent DEF InFlush, FlushPoints, Busy
<1>9. ASSUME NEW t \in Clients, Evict(t) PROVE ContentInv'
  <2>0. pc[t] = "evict" /\ t \in Tasks
      BY <1>9 DEF Evict, Tasks
  <2>1. /\ Others(t) /\ UNCHANGED <<json, sidecar, accepted, edits, dirty, page>>
        /\ pc'[t] = "idle" /\ registered' = 0
      BY <1>9, Shapes DEF Evict, Done, Others, Go, store, ghosts
  <2>2. CASE registered = 0
      BY <2>0, <2>1, <2>2, <1>0, MoveContent DEF InFlush, FlushPoints
  <2>3. CASE registered # 0
    <3>1. ~dirty[registered] /\ \A u \in Tasks : ~InFlush(u)
        BY <2>0, <2>3 DEF SafeInv, HandleInv, Handling, EvictsClean
    <3>2. \A c \in Clients : ~joined[c]
        BY <2>0 DEF SafeInv, SessionInv, EvictsAlone, Alone
    <3>3. ASSUME NEW u \in Tasks PROVE pc[u] # "mark"
      <4>1. CASE u \in Clients
          BY <3>2, <4>1 DEF SafeInv, SessionInv, Seated, Seat
      <4>2. CASE u \in Agents
          BY <4>2, Calmly
      <4>3. CASE u \in Flushers
          BY <4>3 DEF SafeInv, SessionInv, Roles, Role, FlushPoints
      <4> QED
          BY <4>1, <4>2, <4>3 DEF Tasks
    <3>4. /\ accepted = Durable
          /\ Sure /\ Plain(Durable) => json.edits = Durable
          /\ MaxRestarts = 0 => json.edits \subseteq accepted
        BY <2>3, <3>1, <3>3 DEF SafeInv, ContentInv, Whole, Opened, Clean, Marking, Flushing
    <3>5. Durable' = Durable
        BY <2>1, SameFiles
    <3>6. Whole' /\ JsonWhole' /\ Opened' /\ Clean'
        BY <2>1, <3>4, <3>5 DEF Whole, JsonWhole, Opened, Clean
    <3>7. \A u \in Tasks : ~InFlush(u)'
        BY <2>1, <3>1 DEF Others, InFlush, FlushPoints
    <3>8. \A u \in Tasks : Grows(u)' /\ Carries(u)'
        BY <3>7 DEF Grows, Carries, InFlush, FlushPoints
    <3> QED
        BY <3>6, <3>8 DEF ContentInv
  <2> QED
      BY <2>2, <2>3
<1>10. ASSUME NEW t \in Tasks \ Flushers, Apply(t) PROVE ContentInv'
  <2>1. /\ Others(t) /\ UNCHANGED <<json, sidecar, registered, dirty, page>>
        /\ pc[t] = "apply" /\ pc'[t] = "mark"
        /\ accepted' = accepted \union {made + 1}
        /\ edits' = [edits EXCEPT ![held[t]] = edits[held[t]] \union {made + 1}]
      BY <1>10, Shapes DEF Apply, NewEdit, Others, Goto, Go, store
  <2>2. held[t] = registered /\ registered \in Handles /\ registered # 0
      BY <2>1, Shapes DEF SafeInv, SessionInv, WritesReachAll, Using, Handles
  <2>3. edits'[registered] = edits[registered] \union {made + 1}
      BY <2>1, <2>2, Shapes
  <2>4. Durable' = Durable /\ Marking'
      BY <2>1, SameFiles DEF Marking
  <2>5. accepted = edits[registered] /\ Durable \subseteq accepted /\ Opened
      BY <2>2 DEF SafeInv, ContentInv, Whole
  <2>6. Whole' /\ JsonWhole' /\ Opened' /\ Clean'
      BY <2>1, <2>2, <2>3, <2>4, <2>5 DEF Whole, JsonWhole, Opened, Clean
  <2>7. ASSUME NEW u \in Tasks PROVE Grows(u)' /\ Carries(u)'
    <3>1. Grows(u)
        BY DEF SafeInv, ContentInv
    <3>2. pc'[u] \in {"writeBin", "persist"} => pc'[u] = pc[u] /\ buf'[u] = buf[u]
        BY <2>1 DEF Others
    <3>3. Grows(u)'
        BY <2>1, <2>3, <2>4, <3>1, <3>2 DEF Grows
    <3>4. Carries(u)'
        BY <2>4 DEF Carries
    <3> QED
        BY <3>3, <3>4
  <2> QED
      BY <2>6, <2>7 DEF ContentInv
<1>11. ASSUME NEW t \in Tasks \ Flushers, ApplyNothing(t) PROVE ContentInv'
  <2>1. /\ Others(t) /\ UNCHANGED <<json, sidecar, registered, edits, dirty, page, accepted>>
        /\ pc[t] \notin Busy /\ pc'[t] \notin Busy
      BY <1>11, Shapes DEF ApplyNothing, Done, Others, Go, store, registry, ghosts, Busy
  <2> QED
      BY <1>0, <2>1, MoveContent DEF InFlush, FlushPoints, Busy
<1>12. ASSUME NEW t \in Tasks \ Flushers, Mark(t) PROVE ContentInv'
  <2>1. /\ Others(t) /\ UNCHANGED <<json, sidecar, registered, edits, page, accepted>>
        /\ pc[t] = "mark" /\ pc'[t] = "idle"
        /\ dirty' = [dirty EXCEPT ![held[t]] = TRUE]
      BY <1>12, Shapes DEF Mark, Done, Others, Go, store, ghosts
  <2>2. held[t] = registered /\ registered \in Handles /\ registered # 0
      BY <2>1, Shapes DEF SafeInv, SessionInv, WritesReachAll, Using, Handles
  <2>3. dirty'[registered']
      BY <2>1, <2>2, Shapes
  <2>4. Durable' = Durable
      BY <2>1, SameFiles
  <2>5. Whole' /\ JsonWhole' /\ Opened' /\ Clean'
      BY <2>1, <2>2, <2>3, <2>4 DEF SafeInv, ContentInv, Whole, JsonWhole, Opened, Clean
  <2>6. ASSUME NEW u \in Tasks PROVE Grows(u)' /\ Carries(u)'
    <3>1. Grows(u)
        BY DEF SafeInv, ContentInv
    <3>2. pc'[u] \in {"writeBin", "persist"} => pc'[u] = pc[u] /\ buf'[u] = buf[u]
        BY <2>1 DEF Others
    <3>3. Grows(u)'
        BY <2>1, <2>4, <3>1, <3>2 DEF Grows
    <3>4. Carries(u)'
        BY <2>3 DEF Carries
    <3> QED
        BY <3>3, <3>4
  <2> QED
      BY <2>5, <2>6 DEF ContentInv
<1>13. ASSUME NEW t \in Tasks \ Agents, Encode(t) PROVE ContentInv'
  <2>0. pc[t] = "encode" /\ InFlush(t) /\ t \in Tasks
      BY <1>13 DEF Encode, Goto, InFlush, FlushPoints, Tasks
  <2>1. /\ Listed /\ held[t] = registered /\ registered \in Handles /\ registered # 0
        /\ \A u \in Tasks : InFlush(u) => u = t
        /\ accepted = edits[registered] /\ Durable \subseteq accepted
      BY <2>0, WhileFlushing, ResidentListed
  <2>2. /\ Others(t) /\ UNCHANGED <<json, sidecar, registered, edits, dirty, page, accepted>>
        /\ pc'[t] = "writeBin"
        /\ buf'[t].sidecar = [there |-> TRUE, ver |-> json.ver, edits |-> edits[registered]]
      BY <1>13, <2>1, Shapes DEF Encode, Goto, Tag, Others, Go, store, registry, ghosts
  <2>3. Durable' = Durable
      BY <2>2, SameFiles
  <2>4. Flushing'
      BY <2>0, <2>2 DEF Flushing, InFlush, FlushPoints
  <2>5. Whole' /\ JsonWhole' /\ Opened' /\ Clean'
      BY <2>1, <2>2, <2>3, <2>4 DEF SafeInv, ContentInv, Whole, JsonWhole, Opened, Clean
  <2>6. Grows(t)' /\ Carries(t)'
      BY <2>1, <2>2, <2>3 DEF Grows, Carries
  <2>7. ASSUME NEW u \in Tasks, u # t PROVE Grows(u)' /\ Carries(u)'
      BY <2>1, <2>2, <2>7 DEF Grows, Carries, Others, InFlush, FlushPoints
  <2> QED
      BY <2>5, <2>6, <2>7 DEF ContentInv
<1>14. ASSUME NEW t \in Tasks \ Agents, WriteBin(t) PROVE ContentInv'
  <2>0. pc[t] = "writeBin" /\ InFlush(t) /\ t \in Tasks
      BY <1>14 DEF WriteBin, Goto, InFlush, FlushPoints, Tasks
  <2>1. /\ Listed /\ held[t] = registered /\ registered \in Handles /\ registered # 0
        /\ \A u \in Tasks : InFlush(u) => u = t
        /\ accepted = edits[registered] /\ Durable \subseteq accepted
      BY <2>0, WhileFlushing, ResidentListed
  <2>2. /\ Others(t) /\ UNCHANGED <<json, registered, edits, dirty, page, accepted>>
        /\ pc'[t] = "flatten" /\ sidecar' = buf[t].sidecar
      BY <1>14, Shapes DEF WriteBin, Goto, Others, Go, registry, ghosts
  <2>3. /\ buf[t].sidecar.there /\ buf[t].sidecar.ver = json.ver
        /\ Durable \subseteq buf[t].sidecar.edits
        /\ buf[t].sidecar.edits \subseteq edits[registered]
      BY <2>0 DEF SafeInv, ContentInv, Grows
  <2>4. json.ver \in Nat /\ buf[t].sidecar \in SidecarType
      BY <2>0, Shapes DEF SafeInv, SessionInv, TypeInv, TypeOK, StoreOK, JsonType
  <2>5. Durable' = buf[t].sidecar.edits
      BY <2>2, <2>3, <2>4 DEF Durable, Content, Stale
  <2>6. Flushing'
      BY <2>0, <2>2 DEF Flushing, InFlush, FlushPoints
  <2>7. Whole' /\ JsonWhole' /\ Opened' /\ Clean'
      BY <2>1, <2>2, <2>3, <2>5, <2>6 DEF SafeInv, ContentInv, Whole, JsonWhole, Opened, Clean
  <2>8. Grows(t)'
      BY <2>2 DEF Grows
  <2>9. Carries(t)'
    <3>1. Marking' = Marking
        BY <2>0, <2>2 DEF Marking, Others
    <3>2. ~dirty[registered] /\ ~Marking =>
              sidecar' = [there |-> TRUE, ver |-> json.ver, edits |-> edits[registered]]
        BY <2>0, <2>2, <2>3, <2>4 DEF SafeInv, ContentInv, Carries, SidecarType
    <3> QED
        BY <2>2, <3>1, <3>2 DEF Carries
  <2>10. ASSUME NEW u \in Tasks, u # t PROVE Grows(u)' /\ Carries(u)'
      BY <2>1, <2>2, <2>10 DEF Grows, Carries, Others, InFlush, FlushPoints
  <2> QED
      BY <2>7, <2>8, <2>9, <2>10 DEF ContentInv
<1>15. ASSUME NEW t \in Tasks \ Agents, WriteBinFails(t) PROVE ContentInv'
  <2>0. pc[t] = "writeBin" /\ InFlush(t) /\ t \in Tasks
      BY <1>15 DEF WriteBinFails, Goto, InFlush, FlushPoints, Tasks
  <2>1. /\ Listed /\ held[t] = registered /\ registered \in Handles /\ registered # 0
        /\ \A u \in Tasks : InFlush(u) => u = t
        /\ accepted = edits[registered] /\ Durable \subseteq accepted
      BY <2>0, WhileFlushing, ResidentListed
  <2>2. /\ Others(t) /\ UNCHANGED <<json, sidecar, registered, edits, page, accepted>>
        /\ pc'[t] = "flatten" /\ dirty' = [dirty EXCEPT ![registered] = TRUE]
      BY <1>15, <2>1, Shapes DEF WriteBinFails, Remarked, Goto, Others, Go, store, ghosts
  <2>3. Durable' = Durable
      BY <2>2, SameFiles
  <2>4. dirty'[registered']
      BY <2>1, <2>2, Shapes
  <2>5. Whole' /\ JsonWhole' /\ Opened' /\ Clean'
      BY <2>1, <2>2, <2>3, <2>4 DEF SafeInv, ContentInv, Whole, JsonWhole, Opened, Clean
  <2>6. Grows(t)' /\ Carries(t)'
      BY <2>2, <2>4 DEF Grows, Carries
  <2>7. ASSUME NEW u \in Tasks, u # t PROVE Grows(u)' /\ Carries(u)'
      BY <2>1, <2>2, <2>7 DEF Grows, Carries, Others, InFlush, FlushPoints
  <2> QED
      BY <2>5, <2>6, <2>7 DEF ContentInv
<1>16. ASSUME NEW t \in Tasks \ Agents, Take(t) PROVE ContentInv'
  <2>0. pc[t] = "take" /\ held[t] \in Handles /\ \A u \in Tasks : ~InFlush(u)
      BY <1>16, Calmly, Shapes DEF Take, FlushPoints
  <2>1. CASE dirty[held[t]]
    <3>1. held[t] = registered /\ registered # 0
        BY <2>0, <2>1 DEF SafeInv, HandleInv, Handling, HeldClean, Handles
    <3>2. /\ Others(t) /\ UNCHANGED <<json, sidecar, registered, edits, page, accepted>>
          /\ pc'[t] = IF Binary THEN "encode" ELSE "flatten"
        BY <1>16, <2>1, Shapes DEF Take, Others, Go, store, ghosts
    <3>3. Durable' = Durable
        BY <3>2, SameFiles
    <3>4. Flushing'
        BY <2>0, <3>2 DEF Flushing, InFlush, FlushPoints
    <3>5. Whole' /\ JsonWhole' /\ Opened' /\ Clean'
        BY <3>1, <3>2, <3>3, <3>4 DEF SafeInv, ContentInv, Whole, JsonWhole, Opened, Clean
    <3>6. Grows(t)' /\ Carries(t)'
        BY <3>2, SettingsAssumption DEF Grows, Carries
    <3>7. ASSUME NEW u \in Tasks, u # t PROVE Grows(u)' /\ Carries(u)'
        BY <2>0, <3>2, <3>7 DEF Grows, Carries, Others, InFlush, FlushPoints
    <3> QED
        BY <3>5, <3>6, <3>7 DEF ContentInv
  <2>2. CASE ~dirty[held[t]]
    <3>1. /\ Others(t) /\ pc'[t] = cont[t]
          /\ UNCHANGED <<json, sidecar, registered, edits, dirty, page, accepted>>
        BY <1>16, <2>2, Shapes DEF Take, Flushed, Others, Go, store, ghosts
    <3>2. cont[t] \in {"idle", "evict"}
        BY <2>0, Shapes DEF SafeInv, SessionInv, TypeInv, Disciplined, Holds, Conts,
         HydratePoints, ColdPoints
    <3> QED
        BY <2>0, <3>1, <3>2, <1>0, MoveContent DEF InFlush, FlushPoints
  <2> QED
      BY <2>1, <2>2
<1>17. ASSUME NEW t \in Tasks \ Agents, Flatten(t) PROVE ContentInv'
  <2>0. pc[t] = "flatten" /\ InFlush(t) /\ t \in Tasks
      BY <1>17 DEF Flatten, Goto, InFlush, FlushPoints, Tasks
  <2>1. /\ Listed /\ held[t] = registered /\ registered \in Handles /\ registered # 0
        /\ \A u \in Tasks : InFlush(u) => u = t
        /\ accepted = edits[registered] /\ Durable \subseteq accepted
      BY <2>0, WhileFlushing, ResidentListed
  <2>2. /\ Others(t) /\ UNCHANGED <<json, sidecar, registered, edits, dirty, page, accepted>>
        /\ pc'[t] = "persist" /\ buf'[t].json.edits = edits[registered]
      BY <1>17, <2>1, Shapes DEF Flatten, Goto, Others, Go, store, registry, ghosts, JsonType
  <2>3. Durable' = Durable
      BY <2>2, SameFiles
  <2>4. Flushing'
      BY <2>0, <2>2 DEF Flushing, InFlush, FlushPoints
  <2>5. Whole' /\ JsonWhole' /\ Opened' /\ Clean'
      BY <2>1, <2>2, <2>3, <2>4 DEF SafeInv, ContentInv, Whole, JsonWhole, Opened, Clean
  <2>6. Grows(t)'
      BY <2>1, <2>2, <2>3 DEF Grows
  <2>7. Carries(t)'
    <3>1. Marking' = Marking
        BY <2>0, <2>2 DEF Marking, Others
    <3>2. Carries(t)
        BY DEF SafeInv, ContentInv
    <3> QED
        BY <2>0, <2>2, <3>1, <3>2 DEF Carries
  <2>8. ASSUME NEW u \in Tasks, u # t PROVE Grows(u)' /\ Carries(u)'
      BY <2>1, <2>2, <2>8 DEF Grows, Carries, Others, InFlush, FlushPoints
  <2> QED
      BY <2>5, <2>6, <2>7, <2>8 DEF ContentInv
<1>17a. ASSUME NEW t \in Tasks \ Agents, FlattenSkips(t) PROVE ContentInv'
  <2>0. pc[t] = "flatten" /\ InFlush(t) /\ t \in Tasks
      BY <1>17a DEF FlattenSkips, InFlush, FlushPoints, Tasks
  <2>1. /\ Listed /\ held[t] = registered /\ registered \in Handles /\ registered # 0
        /\ \A u \in Tasks : InFlush(u) => u = t
        /\ accepted = edits[registered] /\ Durable \subseteq accepted
      BY <2>0, WhileFlushing, ResidentListed
  <2>2. /\ Others(t) /\ pc'[t] = cont[t]
        /\ UNCHANGED <<json, sidecar, registered, edits, dirty, page, accepted>>
      BY <1>17a, <2>1, Shapes DEF FlattenSkips, Flushed, Others, Go, store, registry, ghosts
  <2>3. cont[t] \in {"idle", "evict"}
      BY <2>0, Shapes DEF SafeInv, SessionInv, TypeInv, Disciplined, Holds, Conts,
         HydratePoints, ColdPoints
  <2>4. Durable' = Durable
      BY <2>2, SameFiles
  <2>5. Binary /\ ~(Sure /\ Plain(edits[registered]))
      BY <1>17a, <2>1, SkipsOnly
  <2>6. Whole' /\ JsonWhole' /\ Opened'
      BY <2>1, <2>2, <2>4 DEF SafeInv, ContentInv, Whole, JsonWhole, Opened
  <2>7. Clean'
    <3>1. Marking' = Marking
        BY <2>0, <2>2, <2>3 DEF Marking, Others
    <3>2. ASSUME ~dirty[registered], ~Marking
          PROVE  Durable = edits[registered]
      <4>1. sidecar = [there |-> TRUE, ver |-> json.ver, edits |-> edits[registered]]
          BY <2>0, <2>5, <3>2 DEF SafeInv, ContentInv, Carries
      <4>2. json.ver \in Nat
          BY DEF SafeInv, SessionInv, TypeInv, TypeOK, StoreOK, JsonType
      <4> QED
          BY <4>1, <4>2 DEF Durable, Content, Stale
    <3> QED
        BY <2>2, <2>4, <2>5, <3>1, <3>2 DEF Clean
  <2>8. \A u \in Tasks : ~InFlush(u)'
      BY <2>1, <2>2, <2>3 DEF Others, InFlush, FlushPoints
  <2>9. \A u \in Tasks : Grows(u)' /\ Carries(u)'
      BY <2>8 DEF Grows, Carries, InFlush, FlushPoints
  <2> QED
      BY <2>6, <2>7, <2>9 DEF ContentInv
<1>18. ASSUME NEW t \in Tasks \ Agents, Persist(t) PROVE ContentInv'
  <2>0. pc[t] = "persist" /\ InFlush(t) /\ t \in Tasks
      BY <1>18 DEF Persist, Goto, InFlush, FlushPoints, Tasks
  <2>1. /\ Listed /\ held[t] = registered /\ registered \in Handles /\ registered # 0
        /\ \A u \in Tasks : InFlush(u) => u = t
        /\ accepted = edits[registered] /\ Durable \subseteq accepted
      BY <2>0, WhileFlushing, ResidentListed
  <2>2. /\ Others(t) /\ UNCHANGED <<sidecar, registered, edits, dirty, page, accepted>>
        /\ pc'[t] = cont[t] /\ json' = [ver |-> json.ver, edits |-> buf[t].json.edits]
      BY <1>18, <2>1, Shapes DEF Persist, Flushed, Others, Go, registry, ghosts
  <2>3. cont[t] \in {"idle", "evict"}
      BY <2>0, Shapes DEF SafeInv, SessionInv, TypeInv, Disciplined, Holds, Conts,
         HydratePoints, ColdPoints
  <2>4. Durable \subseteq buf[t].json.edits /\ buf[t].json.edits \subseteq edits[registered]
      BY <2>0 DEF SafeInv, ContentInv, Grows
  <2>5. Durable' \in {Durable, buf[t].json.edits}
      BY <2>2 DEF Durable, Content, Stale
  <2>6. Whole' /\ JsonWhole' /\ Opened'
      BY <2>1, <2>2, <2>4, <2>5 DEF SafeInv, ContentInv, Whole, JsonWhole, Opened
  <2>7. Clean'
    <3>1. Marking' = Marking
        BY <2>0, <2>2, <2>3 DEF Marking, Others
    <3>2. ASSUME ~dirty[registered], ~Marking
          PROVE  Durable' = edits[registered] /\ json'.edits = edits[registered]
      <4>1. /\ buf[t].json.edits = edits[registered]
            /\ Binary => sidecar = [there |-> TRUE, ver |-> json.ver,
                                    edits |-> edits[registered]]
          BY <2>0, <3>2 DEF SafeInv, ContentInv, Carries
      <4>2. ~Binary => sidecar = NoSidecar
          BY DEF SafeInv, FileInv, Unencoded
      <4>3. json.ver \in Nat
          BY DEF SafeInv, SessionInv, TypeInv, TypeOK, StoreOK, JsonType
      <4> QED
          BY <2>2, <4>1, <4>2, <4>3 DEF Durable, Content, Stale, NoSidecar
    <3> QED
        BY <2>2, <3>1, <3>2 DEF Clean
  <2>8. \A u \in Tasks : ~InFlush(u)'
      BY <2>1, <2>2, <2>3 DEF Others, InFlush, FlushPoints
  <2>9. \A u \in Tasks : Grows(u)' /\ Carries(u)'
      BY <2>8 DEF Grows, Carries, InFlush, FlushPoints
  <2> QED
      BY <2>6, <2>7, <2>9 DEF ContentInv
<1>19. ASSUME NEW t \in Tasks \ Agents, PersistFails(t) PROVE ContentInv'
  <2>0. pc[t] = "persist" /\ InFlush(t) /\ t \in Tasks
      BY <1>19 DEF PersistFails, Goto, InFlush, FlushPoints, Tasks
  <2>1. /\ Listed /\ held[t] = registered /\ registered \in Handles /\ registered # 0
        /\ \A u \in Tasks : InFlush(u) => u = t
        /\ accepted = edits[registered] /\ Durable \subseteq accepted
      BY <2>0, WhileFlushing, ResidentListed
  <2>2. /\ Others(t) /\ UNCHANGED <<json, sidecar, registered, edits, page, accepted>>
        /\ pc'[t] = cont[t] /\ dirty' = [dirty EXCEPT ![registered] = TRUE]
      BY <1>19, <2>1, Shapes DEF PersistFails, Remarked, Flushed, Others, Go, store, ghosts
  <2>3. cont[t] \in {"idle", "evict"}
      BY <2>0, Shapes DEF SafeInv, SessionInv, TypeInv, Disciplined, Holds, Conts,
         HydratePoints, ColdPoints
  <2>4. Durable' = Durable
      BY <2>2, SameFiles
  <2>5. dirty'[registered']
      BY <2>1, <2>2, Shapes
  <2>6. Whole' /\ JsonWhole' /\ Opened' /\ Clean'
      BY <2>1, <2>2, <2>4, <2>5 DEF SafeInv, ContentInv, Whole, JsonWhole, Opened, Clean
  <2>7. \A u \in Tasks : ~InFlush(u)'
      BY <2>1, <2>2, <2>3 DEF Others, InFlush, FlushPoints
  <2>8. \A u \in Tasks : Grows(u)' /\ Carries(u)'
      BY <2>7 DEF Grows, Carries, InFlush, FlushPoints
  <2> QED
      BY <2>6, <2>8 DEF ContentInv
<1>20. ASSUME NEW t \in Flushers, Flush(t) PROVE ContentInv'
  <2>1. /\ Others(t) /\ UNCHANGED <<json, sidecar, registered, edits, dirty, page, accepted>>
        /\ pc[t] \notin Busy /\ pc'[t] \notin Busy
      BY <1>20, Shapes DEF Flush, Goto, Others, Go, store, registry, ghosts, Busy
  <2> QED
      BY <1>0, <2>1, MoveContent DEF InFlush, FlushPoints, Busy
<1>26. CASE Delete
  <2>1. registered = 0 /\ \A u \in Tasks : pc[u] = "idle"
      BY <1>26, Nobody DEF Delete
  <2>2. /\ UNCHANGED <<registered, pc>> /\ accepted' = {} /\ json' = NoJson
        /\ sidecar' = NoSidecar
      BY <1>26, Calmly DEF Delete, LeftSidecar, registry, control
  <2>3. Durable' = {} /\ json'.edits = {}
      BY <2>2 DEF Durable, Content, Stale, NoSidecar, NoJson
  <2>4. Whole' /\ JsonWhole' /\ Opened' /\ Clean'
      BY <2>1, <2>2, <2>3 DEF SafeInv, ContentInv, Whole, JsonWhole, Opened, Clean
  <2>5. \A u \in Tasks : Grows(u)' /\ Carries(u)'
      BY <2>1, <2>2 DEF Grows, Carries, InFlush, FlushPoints
  <2> QED
      BY <2>4, <2>5 DEF ContentInv
<1>27. CASE Recreate
  <2>1. registered = 0 /\ \A u \in Tasks : pc[u] = "idle"
      BY <1>27, Nobody DEF Recreate
  <2>2. sidecar = NoSidecar /\ accepted = {}
      BY <1>27 DEF Recreate, SafeInv, FileInv, Unlisted
  <2>3. /\ UNCHANGED <<registered, pc, sidecar>> /\ accepted' = accepted \union {made + 1}
        /\ json' = [ver |-> 1, edits |-> {made + 1}]
      BY <1>27 DEF Recreate, NewEdit, NextEdit, registry, control
  <2>4. Durable' = {made + 1} /\ json'.edits = {made + 1}
      BY <2>2, <2>3 DEF Durable, Content, Stale, NoSidecar
  <2>5. registered' = 0 /\ accepted' = {made + 1}
      BY <2>1, <2>2, <2>3
  <2>6. Whole' /\ JsonWhole' /\ Opened' /\ Clean'
      BY <2>4, <2>5 DEF Whole, JsonWhole, Opened, Clean
  <2>7. \A u \in Tasks : Grows(u)' /\ Carries(u)'
      BY <2>1, <2>3 DEF Grows, Carries, InFlush, FlushPoints
  <2> QED
      BY <2>6, <2>7 DEF ContentInv
<1>28. CASE Restart
  <2>1. MaxRestarts # 0
      BY <1>28, BoundsAssumption DEF Restart, SafeInv, SessionInv, TypeInv, TypeOK, CountsOK
  <2>2. /\ UNCHANGED <<json, sidecar>> /\ registered' = 0
        /\ \A u \in Tasks : pc'[u] = "idle"
        /\ accepted' = accepted \intersect Durable
      BY <1>28 DEF Restart, store, Durable
  <2>3. Durable \subseteq accepted
      BY DEF SafeInv, ContentInv, Whole
  <2>4. Durable' = Durable
      BY <2>2, SameFiles
  <2>5. accepted' = Durable'
      BY <2>2, <2>3, <2>4
  <2>6. Whole'
      BY <2>2, <2>5 DEF Whole
  <2>7. JsonWhole' /\ Opened'
      BY <2>1 DEF JsonWhole, Opened, Sure
  <2>8. Clean'
      BY <2>2 DEF Clean
  <2>9. \A u \in Tasks : Grows(u)' /\ Carries(u)'
      BY <2>2 DEF Grows, Carries, InFlush, FlushPoints
  <2> QED
      BY <2>6, <2>7, <2>8, <2>9 DEF ContentInv
<1>29. CASE UNCHANGED vars
  <2>1. UNCHANGED <<json, sidecar, registered, edits, dirty, page, accepted, pc, buf>>
      BY <1>29 DEF vars, store, registry, control, ghosts
  <2>2. Durable' = Durable
      BY <2>1, SameFiles
  <2>3. (Marking' <=> Marking) /\ (Flushing' <=> Flushing)
      BY <2>1 DEF Marking, Flushing, InFlush
  <2>4. Whole' /\ JsonWhole' /\ Opened' /\ Clean'
      BY <2>1, <2>2, <2>3 DEF SafeInv, ContentInv, Whole, JsonWhole, Opened, Clean
  <2>5. ASSUME NEW u \in Tasks PROVE Grows(u)' /\ Carries(u)'
    <3>1. Grows(u) /\ Carries(u)
        BY DEF SafeInv, ContentInv
    <3> QED
        BY <2>1, <2>2, <2>3, <3>1 DEF Grows, Carries, InFlush
  <2> QED
      BY <2>4, <2>5 DEF ContentInv
<1> QED
    BY <1>1, <1>2, <1>3, <1>4, <1>5, <1>6, <1>7, <1>8, <1>9, <1>10, <1>11,
        <1>12, <1>13, <1>14, <1>15, <1>16, <1>17, <1>17a, <1>18, <1>19, <1>20,
        <1>26, <1>27, <1>28, <1>29, Calmly
       DEF Next, ClientStep, FlusherStep, AgentStep, HydrateStep, EditStep,
           FlushStep, Tasks

\* The ghosts count what was made.
Counted == accepted \subseteq 1..made /\ buried \subseteq 1..made
Distinct == accepted \intersect buried = {}
GhostInv == Counted /\ Distinct

\* What a step does to the ghosts.
GhostMove ==
    \/ accepted' \subseteq accepted /\ UNCHANGED <<made, buried>>
    \/ NewEdit /\ UNCHANGED buried
    \/ accepted' = {} /\ buried' = 1..made /\ UNCHANGED made

\* No edit is counted twice, and a buried one is not accepted again.
LEMMA GhostStep ==
    ASSUME Calm, TypeInv, GhostInv, [Next]_vars
    PROVE  GhostInv'
<1>0. made \in Nat
    BY BoundsAssumption DEF TypeInv, TypeOK, CountsOK
<1>1. GhostMove
  <2>1. ASSUME NEW t \in Clients, Join(t) PROVE GhostMove
      BY <2>1 DEF Join, ghosts, GhostMove
  <2>2. ASSUME NEW t \in Clients, Sync(t) PROVE GhostMove
      BY <2>2 DEF Sync, ghosts, GhostMove
  <2>3. ASSUME NEW t \in Clients, ReadJson(t) \/ ReadSidecar(t) PROVE GhostMove
      BY <2>3 DEF ReadJson, ReadSidecar, ghosts, GhostMove
  <2>4. ASSUME NEW t \in Clients, Leave(t) PROVE GhostMove
      BY <2>4 DEF Leave, ghosts, GhostMove
  <2>5. ASSUME NEW t \in Clients, ReadFails(t) PROVE GhostMove
      BY <2>5 DEF ReadFails, ghosts, GhostMove
  <2>6. ASSUME NEW t \in Clients, Ensure(t) PROVE GhostMove
      BY <2>6 DEF Ensure, ghosts, GhostMove
  <2>7. ASSUME NEW t \in Clients, Find(t) PROVE GhostMove
      BY <2>7 DEF Find, ghosts, GhostMove
  <2>8. ASSUME NEW t \in Clients, Check(t) PROVE GhostMove
      BY <2>8 DEF Check, ghosts, GhostMove
  <2>9. ASSUME NEW t \in Clients, Evict(t) PROVE GhostMove
      BY <2>9 DEF Evict, ghosts, GhostMove
  <2>10. ASSUME NEW t \in Tasks \ Flushers, Apply(t) PROVE GhostMove
      BY <2>10 DEF Apply, ghosts, GhostMove
  <2>11. ASSUME NEW t \in Tasks \ Flushers, ApplyNothing(t) PROVE GhostMove
      BY <2>11 DEF ApplyNothing, ghosts, GhostMove
  <2>12. ASSUME NEW t \in Tasks \ Flushers, Mark(t) PROVE GhostMove
      BY <2>12 DEF Mark, ghosts, GhostMove
  <2>13. ASSUME NEW t \in Tasks \ Agents, Encode(t) PROVE GhostMove
      BY <2>13 DEF Encode, ghosts, GhostMove
  <2>14. ASSUME NEW t \in Tasks \ Agents, WriteBin(t) PROVE GhostMove
      BY <2>14 DEF WriteBin, ghosts, GhostMove
  <2>15. ASSUME NEW t \in Tasks \ Agents, WriteBinFails(t) PROVE GhostMove
      BY <2>15 DEF WriteBinFails, ghosts, GhostMove
  <2>16. ASSUME NEW t \in Tasks \ Agents, Take(t) PROVE GhostMove
      BY <2>16 DEF Take, ghosts, GhostMove
  <2>17. ASSUME NEW t \in Tasks \ Agents, Flatten(t) PROVE GhostMove
      BY <2>17 DEF Flatten, ghosts, GhostMove
  <2>17a. ASSUME NEW t \in Tasks \ Agents, FlattenSkips(t) PROVE GhostMove
      BY <2>17a DEF FlattenSkips, ghosts, GhostMove
  <2>18. ASSUME NEW t \in Tasks \ Agents, Persist(t) PROVE GhostMove
      BY <2>18 DEF Persist, ghosts, GhostMove
  <2>19. ASSUME NEW t \in Tasks \ Agents, PersistFails(t) PROVE GhostMove
      BY <2>19 DEF PersistFails, ghosts, GhostMove
  <2>20. ASSUME NEW t \in Flushers, Flush(t) PROVE GhostMove
      BY <2>20 DEF Flush, ghosts, GhostMove
  <2>26. CASE Delete
      BY <2>26 DEF Delete, ghosts, GhostMove
  <2>27. CASE Recreate
      BY <2>27 DEF Recreate, ghosts, GhostMove
  <2>28. CASE Restart
      BY <2>28 DEF Restart, ghosts, GhostMove
  <2>29. CASE UNCHANGED vars
      BY <2>29 DEF vars, ghosts, GhostMove
  <2> QED
      BY <2>1, <2>2, <2>3, <2>4, <2>5, <2>6, <2>7, <2>8, <2>9, <2>10, <2>11,
          <2>12, <2>13, <2>14, <2>15, <2>16, <2>17, <2>17a, <2>18, <2>19,
          <2>20, <2>26, <2>27, <2>28, <2>29, Calmly, TasksAssumption
         DEF Next, ClientStep, FlusherStep, AgentStep, HydrateStep, EditStep,
             FlushStep, Tasks, GhostMove
<1>2. CASE NewEdit /\ UNCHANGED buried
  <2>1. made' = made + 1 /\ accepted' = accepted \union {made + 1} /\ buried' = buried
      BY <1>2 DEF NewEdit, NextEdit
  <2>2. 1..made \subseteq 1..(made + 1) /\ made + 1 \in 1..(made + 1) /\ made + 1 \notin 1..made
      BY <1>0
  <2> QED
      BY <2>1, <2>2 DEF GhostInv, Counted, Distinct
<1>3. CASE accepted' \subseteq accepted /\ UNCHANGED <<made, buried>>
    BY <1>3 DEF GhostInv, Counted, Distinct
<1>4. CASE accepted' = {} /\ buried' = 1..made /\ UNCHANGED made
    BY <1>4 DEF GhostInv, Counted, Distinct
<1> QED
    BY <1>1, <1>2, <1>3, <1>4 DEF GhostMove

\* An edit that enters the document is a new one.
LEMMA Newest ==
    ASSUME SafeInv, GhostInv, NewEdit
    PROVE  made + 1 \in Edits \ accepted /\ accepted' = accepted \union {made + 1}
<1>1. made \in Nat /\ made < MaxEdits
    BY BoundsAssumption DEF NewEdit, NextEdit, SafeInv, SessionInv, TypeInv, TypeOK, CountsOK
<1>2. made + 1 \in Edits /\ made + 1 \notin accepted
    BY <1>1, BoundsAssumption DEF Edits, GhostInv, Counted
<1> QED
    BY <1>2 DEF NewEdit

\* Every step is one of EditLog, or changes nothing of what it speaks of.
LEMMA LogStep ==
    ASSUME Calm, SafeInv, GhostInv, [Next]_vars
    PROVE  [Log!Next]_<<accepted, Durable>>
<1> USE TasksAssumption
<1> USE DEF Tasks
<1>1. ASSUME NEW t \in Clients, Join(t) PROVE [Log!Next]_<<accepted, Durable>>
  <2>1. UNCHANGED <<json, sidecar, accepted>>
      BY <1>1 DEF Join, store, ghosts
  <2> QED
      BY <2>1, SameFiles
<1>2. ASSUME NEW t \in Clients, Sync(t) PROVE [Log!Next]_<<accepted, Durable>>
  <2>1. UNCHANGED <<json, sidecar, accepted>>
      BY <1>2 DEF Sync, store, ghosts
  <2> QED
      BY <2>1, SameFiles
<1>3. ASSUME NEW t \in Clients, ReadJson(t) \/ ReadSidecar(t) PROVE [Log!Next]_<<accepted, Durable>>
  <2>1. UNCHANGED <<json, sidecar, accepted>>
      BY <1>3 DEF ReadJson, ReadSidecar, store, ghosts
  <2> QED
      BY <2>1, SameFiles
<1>4. ASSUME NEW t \in Clients, Leave(t) PROVE [Log!Next]_<<accepted, Durable>>
  <2>1. UNCHANGED <<json, sidecar, accepted>>
      BY <1>4 DEF Leave, store, ghosts
  <2> QED
      BY <2>1, SameFiles
<1>5. ASSUME NEW t \in Clients, ReadFails(t) PROVE [Log!Next]_<<accepted, Durable>>
  <2>1. UNCHANGED <<json, sidecar, accepted>>
      BY <1>5 DEF ReadFails, store, ghosts
  <2> QED
      BY <2>1, SameFiles
<1>6. ASSUME NEW t \in Clients, Ensure(t) PROVE [Log!Next]_<<accepted, Durable>>
  <2>1. UNCHANGED <<json, sidecar, accepted>>
      BY <1>6 DEF Ensure, store, ghosts
  <2> QED
      BY <2>1, SameFiles
<1>7. ASSUME NEW t \in Clients, Find(t) PROVE [Log!Next]_<<accepted, Durable>>
  <2>1. UNCHANGED <<json, sidecar, accepted>>
      BY <1>7 DEF Find, store, ghosts
  <2> QED
      BY <2>1, SameFiles
<1>8. ASSUME NEW t \in Clients, Check(t) PROVE [Log!Next]_<<accepted, Durable>>
  <2>1. UNCHANGED <<json, sidecar, accepted>>
      BY <1>8 DEF Check, store, ghosts
  <2> QED
      BY <2>1, SameFiles
<1>9. ASSUME NEW t \in Clients, Evict(t) PROVE [Log!Next]_<<accepted, Durable>>
  <2>1. UNCHANGED <<json, sidecar, accepted>>
      BY <1>9 DEF Evict, store, ghosts
  <2> QED
      BY <2>1, SameFiles
<1>10. ASSUME NEW t \in Tasks \ Flushers, Apply(t) PROVE [Log!Next]_<<accepted, Durable>>
  <2>1. NewEdit /\ UNCHANGED <<json, sidecar>>
      BY <1>10 DEF Apply, store
  <2>2. Durable' = Durable
      BY <2>1, SameFiles
  <2>3. made + 1 \in Edits \ accepted /\ accepted' = accepted \union {made + 1}
      BY <2>1, Newest
  <2> QED
      BY <2>2, <2>3 DEF Log!Next, Log!Accept
<1>11. ASSUME NEW t \in Tasks \ Flushers, ApplyNothing(t) PROVE [Log!Next]_<<accepted, Durable>>
  <2>1. UNCHANGED <<json, sidecar, accepted>>
      BY <1>11 DEF ApplyNothing, store, ghosts
  <2> QED
      BY <2>1, SameFiles
<1>12. ASSUME NEW t \in Tasks \ Flushers, Mark(t) PROVE [Log!Next]_<<accepted, Durable>>
  <2>1. UNCHANGED <<json, sidecar, accepted>>
      BY <1>12 DEF Mark, store, ghosts
  <2> QED
      BY <2>1, SameFiles
<1>13. ASSUME NEW t \in Tasks \ Agents, Encode(t) PROVE [Log!Next]_<<accepted, Durable>>
  <2>1. UNCHANGED <<json, sidecar, accepted>>
      BY <1>13 DEF Encode, store, ghosts
  <2> QED
      BY <2>1, SameFiles
<1>14. ASSUME NEW t \in Tasks \ Agents, WriteBin(t) PROVE [Log!Next]_<<accepted, Durable>>
  <2>0. pc[t] = "writeBin" /\ InFlush(t) /\ t \in Tasks
      BY <1>14 DEF WriteBin, Goto, InFlush, FlushPoints, Tasks
  <2>1. /\ Listed /\ held[t] = registered /\ registered \in Handles /\ registered # 0
        /\ \A u \in Tasks : InFlush(u) => u = t
        /\ accepted = edits[registered] /\ Durable \subseteq accepted
      BY <2>0, WhileFlushing, ResidentListed
  <2>2. UNCHANGED <<json, accepted>> /\ sidecar' = buf[t].sidecar
      BY <1>14 DEF WriteBin, ghosts
  <2>3. /\ buf[t].sidecar.there /\ buf[t].sidecar.ver = json.ver
        /\ Durable \subseteq buf[t].sidecar.edits
        /\ buf[t].sidecar.edits \subseteq edits[registered]
      BY <2>0 DEF SafeInv, ContentInv, Grows
  <2>4. json.ver \in Nat
      BY DEF SafeInv, SessionInv, TypeInv, TypeOK, StoreOK, JsonType
  <2>5. Durable' = buf[t].sidecar.edits
      BY <2>2, <2>3, <2>4 DEF Durable, Content, Stale
  <2> QED
      BY <2>1, <2>2, <2>3, <2>5 DEF Log!Next, Log!Flush
<1>15. ASSUME NEW t \in Tasks \ Agents, WriteBinFails(t) PROVE [Log!Next]_<<accepted, Durable>>
  <2>1. UNCHANGED <<json, sidecar, accepted>>
      BY <1>15 DEF WriteBinFails, store, ghosts
  <2> QED
      BY <2>1, SameFiles
<1>16. ASSUME NEW t \in Tasks \ Agents, Take(t) PROVE [Log!Next]_<<accepted, Durable>>
  <2>1. UNCHANGED <<json, sidecar, accepted>>
      BY <1>16 DEF Take, store, ghosts
  <2> QED
      BY <2>1, SameFiles
<1>17. ASSUME NEW t \in Tasks \ Agents, Flatten(t) PROVE [Log!Next]_<<accepted, Durable>>
  <2>1. UNCHANGED <<json, sidecar, accepted>>
      BY <1>17 DEF Flatten, store, ghosts
  <2> QED
      BY <2>1, SameFiles
<1>17a. ASSUME NEW t \in Tasks \ Agents, FlattenSkips(t) PROVE [Log!Next]_<<accepted, Durable>>
  <2>1. UNCHANGED <<json, sidecar, accepted>>
      BY <1>17a DEF FlattenSkips, store, ghosts
  <2> QED
      BY <2>1, SameFiles
<1>18. ASSUME NEW t \in Tasks \ Agents, Persist(t) PROVE [Log!Next]_<<accepted, Durable>>
  <2>0. pc[t] = "persist" /\ InFlush(t) /\ t \in Tasks
      BY <1>18 DEF Persist, Goto, InFlush, FlushPoints, Tasks
  <2>1. /\ Listed /\ held[t] = registered /\ registered \in Handles /\ registered # 0
        /\ \A u \in Tasks : InFlush(u) => u = t
        /\ accepted = edits[registered] /\ Durable \subseteq accepted
      BY <2>0, WhileFlushing, ResidentListed
  <2>2. UNCHANGED <<sidecar, accepted>> /\ json' = [ver |-> json.ver, edits |-> buf[t].json.edits]
      BY <1>18, <2>1 DEF Persist, ghosts
  <2>3. Durable \subseteq buf[t].json.edits /\ buf[t].json.edits \subseteq edits[registered]
      BY <2>0 DEF SafeInv, ContentInv, Grows
  <2>4. Durable' \in {Durable, buf[t].json.edits}
      BY <2>2 DEF Durable, Content, Stale
  <2> QED
      BY <2>1, <2>2, <2>3, <2>4 DEF Log!Next, Log!Flush
<1>19. ASSUME NEW t \in Tasks \ Agents, PersistFails(t) PROVE [Log!Next]_<<accepted, Durable>>
  <2>1. UNCHANGED <<json, sidecar, accepted>>
      BY <1>19 DEF PersistFails, store, ghosts
  <2> QED
      BY <2>1, SameFiles
<1>20. ASSUME NEW t \in Flushers, Flush(t) PROVE [Log!Next]_<<accepted, Durable>>
  <2>1. UNCHANGED <<json, sidecar, accepted>>
      BY <1>20 DEF Flush, store, ghosts
  <2> QED
      BY <2>1, SameFiles
<1>26. CASE Delete
  <2>1. registered = 0 /\ registered' = 0 /\ accepted' = {}
      BY <1>26, Nobody DEF Delete, registry
  <2>2. Durable' = {}
      BY <2>1, ContentStep DEF ContentInv, Whole
  <2> QED
      BY <2>1, <2>2 DEF Log!Next, Log!Discard
<1>27. CASE Recreate
  <2>1. registered = 0 /\ registered' = 0 /\ NewEdit
      BY <1>27, Nobody DEF Recreate, registry
  <2>2. accepted = Durable /\ accepted' = Durable'
      BY <2>1, ContentStep DEF SafeInv, ContentInv, Whole
  <2>3. made + 1 \in Edits \ accepted /\ accepted' = accepted \union {made + 1}
      BY <2>1, Newest
  <2> QED
      BY <2>2, <2>3 DEF Log!Next, Log!Accept
<1>28. CASE Restart
  <2>1. UNCHANGED <<json, sidecar>> /\ accepted' = accepted \intersect Durable
      BY <1>28 DEF Restart, store, Durable
  <2>2. Durable' = Durable /\ Durable \subseteq accepted
      BY <2>1, SameFiles DEF SafeInv, ContentInv, Whole
  <2> QED
      BY <2>1, <2>2 DEF Log!Next, Log!Crash
<1>29. CASE UNCHANGED vars
  <2>1. UNCHANGED <<json, sidecar, accepted>>
      BY <1>29 DEF vars, store, ghosts
  <2> QED
      BY <2>1, SameFiles
<1> QED
    BY <1>1, <1>2, <1>3, <1>4, <1>5, <1>6, <1>7, <1>8, <1>9, <1>10, <1>11,
        <1>12, <1>13, <1>14, <1>15, <1>16, <1>17, <1>17a, <1>18, <1>19, <1>20,
        <1>26, <1>27, <1>28, <1>29, Calmly
       DEF Next, ClientStep, FlusherStep, AgentStep, HydrateStep, EditStep,
           FlushStep, Tasks

\* The invariants in one, and what they say of the properties.
AllInv == SafeInv /\ GhostInv

LEMMA AllInit == Init => AllInv
<1> SUFFICES ASSUME Init PROVE AllInv
    OBVIOUS
<1>1. SessionInv
    BY SessionInit
<1>2. /\ \A t \in Tasks : pc[t] = "idle" /\ cont[t] = "idle" /\ held[t] = 0
      /\ registered = 0 /\ hydrated = 0 /\ \A c \in Clients : ~joined[c]
      /\ json = [ver |-> 1, edits |-> {}] /\ sidecar = NoSidecar
      /\ accepted = {} /\ buried = {}
    BY DEF Init, Tasks
<1>3. PresenceInv
    BY <1>2 DEF PresenceInv, Attended, Kept, Open, Leaving, Listed, Tasks
<1>4. HandleInv
    BY <1>2 DEF HandleInv, Handling, Fresh, HeldClean, FlushesOpen, OneFlush, EvictsHeld,
       EvictsFlushed, EvictsClean, InFlush, FlushPoints
<1>5. FileInv
    BY <1>2 DEF FileInv, Unlisted, Tagged, Unencoded, Encoded, HasRead, Listed,
       NoSidecar
<1>6. Durable = {}
    BY <1>2 DEF Durable, Content, Stale, NoSidecar
<1>7. ContentInv
    BY <1>2, <1>6 DEF ContentInv, Whole, JsonWhole, Opened, Clean, Grows, Carries, InFlush,
       FlushPoints
<1>8. GhostInv
    BY <1>2 DEF GhostInv, Counted, Distinct
<1> QED
    BY <1>1, <1>3, <1>4, <1>5, <1>7, <1>8 DEF AllInv, SafeInv

LEMMA SafeStep ==
    ASSUME Calm, AllInv, [Next]_vars
    PROVE  AllInv'
<1>1. SafeInv /\ GhostInv /\ SessionInv
    BY DEF AllInv, SafeInv
<1>2. TypeInv' /\ Roles' /\ Seated' /\ GhostInv'
    BY <1>1, TypeStep, RolesStep, SeatedStep, GhostStep DEF SessionInv
<1>4. EvictsAlone' /\ WritesReachAll'
    BY <1>1, AloneStep, SharedStep
<1>5. PresenceInv' /\ HandleInv' /\ FileInv' /\ ContentInv'
    BY <1>1, PresenceStep, HandleStep, FileStep, ContentStep
<1> QED
    BY <1>2, <1>4, <1>5 DEF AllInv, SafeInv, SessionInv

\* What is served is what was accepted.
LEMMA ServedIsAccepted ==
    ASSUME SafeInv
    PROVE  Served = accepted
<1>1. CASE registered # 0
    BY <1>1 DEF Served, SafeInv, ContentInv, Whole
<1>2. CASE registered = 0
  <2>1. Carried = {}
      BY <1>2, ResidentListed DEF Carried
  <2> QED
      BY <1>2, <2>1 DEF Served, SafeInv, ContentInv, Whole
<1> QED
    BY <1>1, <1>2

\* No accepted edit is lost: it is in the handle that every client is served
\* from, or, once the document is closed, on the volume, whatever writes fail.
THEOREM AcceptedKept ==
    ASSUME Calm
    PROVE  Spec => []EditsKept
<1>1. AllInv /\ [Next]_vars => AllInv'
    BY SafeStep
<1>2. AllInv => EditsKept
    BY ServedIsAccepted DEF AllInv, EditsKept
<1> QED
    BY <1>1, <1>2, AllInit, PTL DEF Spec

\* take_dirty is loss-safe: a clean handle that nobody is flushing or marking
\* is on the volume.
THEOREM CleanOnDisk ==
    ASSUME Calm
    PROVE  Spec => []CleanIsDurable
<1>1. AllInv /\ [Next]_vars => AllInv'
    BY SafeStep
<1>2. AllInv => CleanIsDurable
  <2> SUFFICES ASSUME AllInv, registered # 0, ~dirty[registered],
                      ~(edits[registered] \subseteq Durable)
               PROVE  \E t \in Tasks : held[t] = registered /\ (InFlush(t) \/ pc[t] = "mark")
      BY DEF CleanIsDurable
  <2>1. Marking \/ Flushing
      BY DEF AllInv, SafeInv, ContentInv, Clean
  <2>2. PICK t \in Tasks : pc[t] = "mark" \/ InFlush(t)
      BY <2>1 DEF Marking, Flushing
  <2>3. held[t] = registered
      BY <2>2, ResidentListed DEF AllInv, SafeInv, SessionInv, WritesReachAll, Using
  <2> QED
      BY <2>2, <2>3
<1> QED
    BY <1>1, <1>2, AllInit, PTL DEF Spec

\* While the relay does not restart and bodies can be read, a reader of the
\* JSON body sees what the session holds, once its handle is clean and nobody
\* is flushing it, unless the page the document opened on has been deleted.
THEOREM JsonKeepsUp ==
    ASSUME Calm, Sure
    PROVE  Spec => []JsonCurrent
<1>1. AllInv /\ [Next]_vars => AllInv'
    BY SafeStep
<1>2. AllInv => JsonCurrent
  <2> SUFFICES ASSUME AllInv, registered # 0, ~dirty[registered],
                      Plain(edits[registered]), json.edits # edits[registered]
               PROVE  \E t \in Tasks : held[t] = registered /\ (InFlush(t) \/ pc[t] = "mark")
      BY DEF JsonCurrent, Plain
  <2>1. Marking \/ Flushing
      BY DEF AllInv, SafeInv, ContentInv, Clean
  <2>2. PICK t \in Tasks : pc[t] = "mark" \/ InFlush(t)
      BY <2>1 DEF Marking, Flushing
  <2>3. held[t] = registered
      BY <2>2, ResidentListed DEF AllInv, SafeInv, SessionInv, WritesReachAll, Using
  <2> QED
      BY <2>2, <2>3
<1> QED
    BY <1>1, <1>2, AllInit, PTL DEF Spec

\* The sessions implement the promise about accepted and durable edits: every
\* step accepts an edit, puts accepted edits on disk, restarts, deletes, or
\* changes neither what is accepted nor what is durable.
THEOREM SessionsImplementLog ==
    ASSUME Calm
    PROVE  Spec => ImplementsEditLog
<1>1. Init => Log!Init
    BY DEF Init, Log!Init, Durable, Content, Stale, NoSidecar
<1>2. AllInv /\ [Next]_vars => AllInv'
    BY SafeStep
<1>3. AllInv /\ [Next]_vars => [Log!Next]_<<accepted, Durable>>
    BY LogStep DEF AllInv
<1> QED
    BY <1>1, <1>2, <1>3, AllInit, PTL DEF Spec, ImplementsEditLog, Log!Spec
=============================================================================
