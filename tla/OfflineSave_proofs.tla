------------------------- MODULE OfflineSave_proofs -------------------------
(***************************************************************************)
(* Proofs about OfflineSave: its type invariant, that saves reach no relay *)
(* but the home of the document, that they arrive in order, and that the   *)
(* newest is never forgotten, for any relays and any bounds.               *)
(***************************************************************************)
EXTENDS OfflineSave, TLAPS

USE RelaysAssumption, CoincideAssumption, BoundsAssumption

-----------------------------------------------------------------------------
(* Type correctness. *)

\* What a request becomes when it goes on is a request of the same caller.
LEMMA RequestTypes ==
    ASSUME NEW q \in Requests
    PROVE  /\ \A p \in Relays \union {None} :
                [q EXCEPT !.stage = "sent", !.to = p] \in Requests
           /\ [q EXCEPT !.stage = "stored"] \in Requests
           /\ \A p : [q EXCEPT !.stage = "sent", !.to = p].by = q.by
           /\ [q EXCEPT !.stage = "stored"].by = q.by
  BY DEF Requests

\* A new request is a request.
LEMMA NewRequestType ==
    ASSUME NEW by \in {"push", "replay"}, NEW rev \in Revs,
           NEW op \in Ops \union {None}
    PROVE  Request(by, rev, op) \in Requests /\ Request(by, rev, op).by = by
  BY DEF Request, Requests

\* Queueing a save keeps the queue, its pending writes and the cache typed.
LEMMA EnqueueType ==
    ASSUME TypeOK, NEW rev \in Revs, Enqueue(rev)
    PROVE  /\ queue' \subseteq Ops /\ unwritten' \subseteq Ops /\ disk' \subseteq Ops
           /\ clock' \in Nat /\ loaded' \in BOOLEAN /\ cached' \in Revs
  BY DEF TypeOK, Enqueue, Ops, HomeRelay, Superseded, Persisting

\* Starting a replay, or finding one under way, keeps the replay typed.
LEMMA LaunchType ==
    ASSUME TypeOK, NEW q, q \subseteq Ops, NEW r, Launch(q, r)
    PROVE  /\ running' \in BOOLEAN /\ batch' \subseteq Ops
           /\ ~running' => ~running /\ batch' = {}
  BY DEF TypeOK, Launch, ForHost, MayRun, replay

\* Every step keeps the state well typed (TypeOK), whatever coincides.
THEOREM TypeCorrect == Spec => []TypeOK
<1>0. 0 \in Revs /\ 0 \in Nat
  BY DEF Revs
<1>1. Init => TypeOK
  BY <1>0 DEF Init, TypeOK, Replaying
<1>2. TypeOK /\ [Next]_vars => TypeOK'
  <2> SUFFICES ASSUME TypeOK, [Next]_vars PROVE TypeOK'
    OBVIOUS
  <2>1. CASE Save
    <3>1. local' \in Revs
      BY <2>1 DEF Save, TypeOK, Revs
    <3>2. CASE PushNow /\ requests' = requests \union {Request("push", local', None)}
                /\ UNCHANGED <<cached, store>>
      BY <2>1, <3>1, <3>2, NewRequestType
        DEF Save, TypeOK, store, net, replay, opened, Replaying
    <3>3. CASE Enqueue(local') /\ UNCHANGED requests
      BY <2>1, <3>1, <3>3, EnqueueType
        DEF Save, TypeOK, net, replay, opened, Replaying
    <3> QED
      BY <2>1, <3>2, <3>3 DEF Save
  <2>2. CASE Persisted
    BY <2>2 DEF Persisted, TypeOK, editor, net, replay, opened, Replaying
  <2>3. CASE Load
    BY <2>3 DEF Load, TypeOK, editor, net, replay, opened, Replaying
  <2>4. CASE Drop
    BY <2>4 DEF Drop, TypeOK, editor, store, replay, opened, Replaying
  <2>5. CASE Restart
    <3>1. /\ link' = None /\ provider' = None /\ chain' = None /\ told' = {}
          /\ requests' = {} /\ queue' = {} /\ unwritten' = {} /\ loaded' = FALSE
          /\ running' = FALSE /\ batch' = {} /\ reattach' = "parked" /\ fetched' = 0
          /\ restarts' = restarts + 1
          /\ UNCHANGED <<local, cached, copy, clock, disk, fails>>
      BY <2>5 DEF Restart
    <3>2. ~Replaying' /\ requests' \subseteq Requests
      BY <3>1 DEF Replaying
    <3>3. {link', provider', chain'} \subseteq Relays \union {None}
      BY <3>1
    <3>4. /\ local \in Revs /\ cached \in Revs /\ copy \in [Relays -> Revs]
          /\ clock \in Nat /\ disk \subseteq Ops /\ fails \in Nat /\ restarts + 1 \in Nat
      BY DEF TypeOK
    <3> QED
      BY <1>0, <3>1, <3>2, <3>3, <3>4 DEF TypeOK
  <2>6. ASSUME NEW r \in Relays, Connect(r) PROVE TypeOK'
    <3>1. Launch(queue, r) \/ UNCHANGED replay
      BY <2>6 DEF Connect
    <3>2. /\ running' \in BOOLEAN /\ batch' \subseteq Ops
          /\ ~running' => ~running /\ batch' = {}
      BY <3>1, LaunchType DEF TypeOK, replay
    <3>3. reattach' \in {"none", "parked", "asked", "answered"}
      BY <2>6 DEF Connect, Reattach, TypeOK
    <3> QED
      BY <2>6, <3>2, <3>3 DEF Connect, TypeOK, editor, store, Replaying
  <2>7. ASSUME NEW q \in requests, Step(q) PROVE TypeOK'
    <3> q \in Requests
      BY DEF TypeOK
    <3>1. CASE Dispatch(q)
      <4>1. provider \in Relays \union {None}
        BY DEF TypeOK
      <4>2. PICK d \in Requests : d.by = q.by /\ requests' = (requests \ {q}) \union {d}
        BY <3>1, <4>1, RequestTypes DEF Dispatch
      <4> QED
        BY <3>1, <4>2 DEF Dispatch, TypeOK, editor, net, store, replay, opened, Replaying
    <3>2. CASE Store(q)
      <4>1. copy' \in [Relays -> Revs]
        BY <3>2 DEF Store, TypeOK, Requests
      <4> QED
        BY <3>2, <4>1, RequestTypes
          DEF Store, TypeOK, editor, net, store, replay, opened, Replaying
    <3>3. CASE Answer(q)
      BY <3>3 DEF Answer, Dequeued, TypeOK, net, replay, opened, Replaying, Requests
    <3> QED
      BY <2>7, <3>1, <3>2, <3>3 DEF Step
  <2>8. ASSUME NEW q \in requests, Fail(q) PROVE TypeOK'
    <3>1. q.rev \in Revs
      BY DEF TypeOK, Requests
    <3>2. CASE Enqueue(q.rev)
      BY <2>8, <3>1, <3>2, EnqueueType DEF Fail, TypeOK, net, replay, opened, Replaying
    <3>3. CASE queue' = AfterFailure(q) /\ UNCHANGED <<cached, clock, unwritten, disk, loaded>>
      BY <2>8, <3>3 DEF Fail, AfterFailure, TypeOK, net, replay, opened, Replaying
    <3> QED
      BY <2>8, <3>2, <3>3 DEF Fail
  <2>9. ASSUME NEW q \in requests, Refuse(q) PROVE TypeOK'
    BY <2>9 DEF Refuse, TypeOK, Requests, net, store, replay, opened, Replaying
  <2>10. CASE ReplayNext
    <3>1. PICK op \in batch :
            /\ batch' = batch \ {op}
            /\ requests' = requests \union {Request("replay", op.rev, op)}
      BY <2>10 DEF ReplayNext
    <3>2. op \in Ops /\ op.rev \in Revs
      BY DEF TypeOK, Ops
    <3>3. Request("replay", op.rev, op) \in Requests
      BY <3>2, NewRequestType
    <3> QED
      BY <2>10, <3>1, <3>3 DEF ReplayNext, TypeOK, editor, net, store, opened
  <2>11. CASE ReplayEnd
    BY <2>11 DEF ReplayEnd, TypeOK, Persisting, editor, net, opened, Replaying
  <2>12. CASE Fetched
    BY <2>12 DEF Fetched, TypeOK, editor, net, store, replay, Replaying
  <2>13. CASE FetchFails
    BY <2>13 DEF FetchFails, TypeOK, editor, net, store, replay, Replaying
  <2>14. CASE Reattached
    <3>1. CASE LocalIsNewer
      <4>1. Enqueue(local) /\ (Launch(queue', Home) \/ UNCHANGED replay) /\ UNCHANGED local
        BY <2>14, <3>1 DEF Reattached
      <4>2. /\ queue' \subseteq Ops /\ unwritten' \subseteq Ops /\ disk' \subseteq Ops
            /\ clock' \in Nat /\ loaded' \in BOOLEAN /\ cached' \in Revs
        BY <4>1, EnqueueType DEF TypeOK
      <4>3. /\ running' \in BOOLEAN /\ batch' \subseteq Ops
            /\ ~running' => ~running /\ batch' = {}
        BY <4>1, <4>2, LaunchType DEF TypeOK, replay
      <4> QED
        BY <2>14, <4>1, <4>2, <4>3 DEF Reattached, TypeOK, net, Replaying
    <3>2. CASE ~LocalIsNewer
      BY <2>14, <3>2 DEF Reattached, TypeOK, net, store, replay, Replaying
    <3> QED
      BY <3>1, <3>2
  <2>15. CASE Drain
    <3>1. Launch(queue, chain) \/ UNCHANGED replay
      BY <2>15 DEF Drain
    <3>2. /\ running' \in BOOLEAN /\ batch' \subseteq Ops
          /\ ~running' => ~running /\ batch' = {}
      BY <3>1, LaunchType DEF TypeOK, replay
    <3> QED
      BY <2>15, <3>2 DEF Drain, TypeOK, editor, store, opened, Replaying
  <2>16. CASE UNCHANGED vars
    BY <2>16 DEF vars, editor, net, store, replay, opened, TypeOK, Replaying
  <2> QED
    BY <2>1, <2>2, <2>3, <2>4, <2>5, <2>6, <2>7, <2>8, <2>9, <2>10, <2>11, <2>12,
       <2>13, <2>14, <2>15, <2>16 DEF Next
<1> QED
  BY <1>1, <1>2, PTL DEF Spec

-----------------------------------------------------------------------------
(***************************************************************************)
(* Saves reach the home relay only.  What HomeOnly needs is that a request *)
(* or a replay exists only while docProvider is the home relay, because    *)
(* Dispatch sends to the provider of its moment; that the live connection  *)
(* and the on-connect chain are those of docProvider; and that every       *)
(* operation, in memory or in IndexedDB, is tagged with the home relay.    *)
(***************************************************************************)
TaggedHome(ops) == \A op \in ops : op.home = Home
OnlyAtHome == running \/ requests # {} => provider = Home
SentHome == \A q \in requests : q.stage # "uploading" => q.to = Home
RouteInv ==
    /\ TaggedHome(queue) /\ TaggedHome(unwritten) /\ TaggedHome(disk)
    /\ {link, chain} \subseteq {None, provider}
    /\ OnlyAtHome
    /\ SentHome
    /\ HomeOnly

\* A queued save is tagged with the home relay.
LEMMA EnqueueTagged ==
    ASSUME TaggedHome(queue), TaggedHome(unwritten), TaggedHome(disk),
           NEW rev, Enqueue(rev)
    PROVE  TaggedHome(queue') /\ TaggedHome(unwritten') /\ TaggedHome(disk')
  BY DEF TaggedHome, Enqueue, HomeRelay, Superseded, Persisting

\* Only a replay to the home relay finds something to send.
LEMMA LaunchAtHome ==
    ASSUME NEW q, TaggedHome(q), NEW r, Launch(q, r), running'
    PROVE  running \/ r = Home
  BY DEF TaggedHome, Launch, ForHost, replay

\* No step takes a save to another relay, if the editor does not connect to
\* one while requests, a replay or an on-connect chain are under way.
LEMMA RouteStep ==
    ASSUME "switchInFlight" \notin Coincide, TypeOK, RouteInv, [Next]_vars
    PROVE  RouteInv'
<1> USE DEF RouteInv
<1>1. CASE Save
  <2>1. CASE PushNow /\ requests' = requests \union {Request("push", local', None)}
              /\ UNCHANGED <<cached, store>>
    BY <1>1, <2>1 DEF Save, PushNow, Request, OnlyAtHome, SentHome, HomeOnly,
        TaggedHome, net, replay, store
  <2>2. CASE Enqueue(local') /\ UNCHANGED requests
    BY <1>1, <2>2, EnqueueTagged DEF Save, OnlyAtHome, SentHome, HomeOnly, net, replay
  <2> QED
    BY <1>1, <2>1, <2>2 DEF Save
<1>2. CASE Persisted
  BY <1>2 DEF Persisted, TaggedHome, OnlyAtHome, SentHome, HomeOnly, net, replay
<1>3. CASE Load
  BY <1>3 DEF Load, TaggedHome, OnlyAtHome, SentHome, HomeOnly, net, replay
<1>4. CASE Drop
  BY <1>4 DEF Drop, TaggedHome, OnlyAtHome, SentHome, HomeOnly, store, replay
<1>5. CASE Restart
  BY <1>5 DEF Restart, TaggedHome, OnlyAtHome, SentHome, HomeOnly
<1>6. ASSUME NEW r \in Relays, Connect(r) PROVE RouteInv'
  <2>1. /\ r = provider \/ (requests = {} /\ ~running)
        /\ link' = r /\ provider' = r /\ chain' = r
        /\ Launch(queue, r) \/ UNCHANGED replay
        /\ UNCHANGED <<copy, requests, store>>
    BY <1>6 DEF Connect
  <2>2. OnlyAtHome'
    BY <2>1, LaunchAtHome DEF OnlyAtHome, replay
  <2> QED
    BY <2>1, <2>2 DEF TaggedHome, SentHome, HomeOnly, store
<1>7. ASSUME NEW q \in requests, Step(q) PROVE RouteInv'
  <2> q \in Requests /\ provider = Home
    BY DEF TypeOK, OnlyAtHome
  <2>1. CASE Dispatch(q)
    BY <1>7, <2>1 DEF Dispatch, TaggedHome, OnlyAtHome, SentHome, HomeOnly, Requests,
        net, store, replay
  <2>2. CASE Store(q)
    <3>1. q.to = Home
      BY <2>2 DEF Store, SentHome
    <3>2. HomeOnly'
      BY <2>2, <3>1 DEF Store, HomeOnly, TypeOK
    <3> QED
      BY <2>2, <3>1, <3>2 DEF Store, TaggedHome, OnlyAtHome, SentHome, Requests,
          net, store, replay
  <2>3. CASE Answer(q)
    BY <2>3 DEF Answer, Dequeued, TaggedHome, OnlyAtHome, SentHome, HomeOnly, net, replay
  <2> QED
    BY <1>7, <2>1, <2>2, <2>3 DEF Step
<1>8. ASSUME NEW q \in requests, Fail(q) PROVE RouteInv'
  <2>1. TaggedHome(queue') /\ TaggedHome(unwritten') /\ TaggedHome(disk')
    <3>1. CASE Enqueue(q.rev)
      BY <3>1, EnqueueTagged
    <3>2. CASE queue' = AfterFailure(q) /\ UNCHANGED <<cached, clock, unwritten, disk, loaded>>
      BY <3>2 DEF AfterFailure
    <3> QED
      BY <1>8, <3>1, <3>2 DEF Fail
  <2> QED
    BY <1>8, <2>1 DEF Fail, OnlyAtHome, SentHome, HomeOnly, net, replay
<1>9. ASSUME NEW q \in requests, Refuse(q) PROVE RouteInv'
  BY <1>9 DEF Refuse, TaggedHome, OnlyAtHome, SentHome, HomeOnly, net, store, replay
<1>10. CASE ReplayNext
  BY <1>10 DEF ReplayNext, Request, TaggedHome, OnlyAtHome, SentHome, HomeOnly, net, store
<1>11. CASE ReplayEnd
  BY <1>11 DEF ReplayEnd, Persisting, TaggedHome, OnlyAtHome, SentHome, HomeOnly, net
<1>12. CASE Fetched
  BY <1>12 DEF Fetched, TaggedHome, OnlyAtHome, SentHome, HomeOnly, net, store, replay
<1>13. CASE FetchFails
  BY <1>13 DEF FetchFails, TaggedHome, OnlyAtHome, SentHome, HomeOnly, net, store, replay
<1>14. CASE Reattached
  <2>1. CASE LocalIsNewer
    <3>1. /\ Enqueue(local)
          /\ (link = Home /\ Launch(queue', Home)) \/ UNCHANGED replay
          /\ UNCHANGED <<copy, net, requests>>
      BY <1>14, <2>1 DEF Reattached
    <3>2. TaggedHome(queue') /\ TaggedHome(unwritten') /\ TaggedHome(disk')
      BY <3>1, EnqueueTagged
    <3>3. OnlyAtHome'
      BY <3>1 DEF OnlyAtHome, net, replay
    <3> QED
      BY <3>1, <3>2, <3>3 DEF SentHome, HomeOnly, net
  <2>2. CASE ~LocalIsNewer
    BY <1>14, <2>2 DEF Reattached, TaggedHome, OnlyAtHome, SentHome, HomeOnly,
        net, store, replay
  <2> QED
    BY <2>1, <2>2
<1>15. CASE Drain
  <2>1. /\ chain = provider
        /\ Launch(queue, chain) \/ UNCHANGED replay
        /\ chain' = None
        /\ UNCHANGED <<copy, link, provider, requests, store>>
    BY <1>15 DEF Drain
  <2>2. OnlyAtHome'
    BY <2>1, LaunchAtHome DEF OnlyAtHome, replay
  <2> QED
    BY <2>1, <2>2 DEF TaggedHome, SentHome, HomeOnly, store
<1>16. CASE UNCHANGED vars
  BY <1>16 DEF vars, net, store, replay, TaggedHome, OnlyAtHome, SentHome, HomeOnly
<1> QED
  BY <1>1, <1>2, <1>3, <1>4, <1>5, <1>6, <1>7, <1>8, <1>9, <1>10, <1>11, <1>12,
     <1>13, <1>14, <1>15, <1>16 DEF Next

\* If the editor never connects to another relay while requests, a replay or an
\* on-connect chain are under way, no relay but the home of the document ever
\* stores one of its saves (HomeOnly), whatever else coincides.
THEOREM SavesStayHome ==
    ASSUME "switchInFlight" \notin Coincide
    PROVE  Spec => []HomeOnly
<1>1. Init => RouteInv
  BY DEF Init, RouteInv, TaggedHome, OnlyAtHome, SentHome, HomeOnly
<1>2. TypeOK /\ RouteInv /\ [Next]_vars => RouteInv'
  BY RouteStep
<1>3. RouteInv => HomeOnly
  BY DEF RouteInv
<1> QED
  BY <1>1, <1>2, <1>3, TypeCorrect, PTL DEF Spec

-----------------------------------------------------------------------------
(***************************************************************************)
(* Saves arrive in order as long as pushes, queued saves, loads and        *)
(* restarts do not coincide: what is queued is then always the newest      *)
(* revision.  A lost write or a change of relay in mid-flight may lose a   *)
(* save or take it elsewhere, but it brings no older one back.             *)
(***************************************************************************)
InOrder == Coincide \subseteq {"lostWrite", "switchInFlight"}

\* What is queued, or will be once the queue is loaded.
Waiting == IF loaded THEN queue ELSE disk

\* Before the queue is loaded nothing runs.
AtStart ==
    ~loaded => /\ requests = {} /\ batch = {} /\ queue = {} /\ unwritten = {}
               /\ ~running /\ link = None /\ chain = None /\ reattach = "parked"

\* No revision is newer than the one in localStorage.
NoneNewer ==
    /\ copy[Home] <= local /\ cached <= local /\ fetched <= local
    /\ \A q \in requests : q.rev <= local
    /\ \A op \in batch : op.rev <= local

\* One operation waits, of the newest revision.
NewestWaits ==
    /\ \A op \in Waiting : op.rev = local
    /\ \A a, b \in Waiting : a = b

\* A push is of the newest revision, and nothing older goes with it.
PushIsNewest ==
    Pushes # {} => /\ \A q \in requests : q.rev = local
                   /\ \A op \in batch : op.rev = local

\* A replay sends one operation, which is queued unless a newer one is.
ReplayIsOne ==
    /\ \A a, b \in requests : a.by = "replay" /\ b.by = "replay" => a = b
    /\ \A a, b \in batch : a = b
    /\ Replaying => batch = {}
    /\ Replaying \/ batch # {} => queue # {}
    /\ \A q \in requests : q.by = "replay" => q.op.rev = q.rev

\* What is still to be stored is not older than what is stored.
NoneOlder ==
    /\ \A q \in requests : q.stage # "stored" => q.rev >= copy[Home]
    /\ \A q \in requests : q.stage = "stored" /\ q.to = Home => q.rev <= copy[Home]
    /\ \A op \in batch : op.rev >= copy[Home]

OrderInv == AtStart /\ NoneNewer /\ NewestWaits /\ PushIsNewest /\ ReplayIsOne /\ NoneOlder

\* The newest revision is on the home relay or waits.
Backed == copy[Home] = local \/ Waiting # {}

\* A cached or fetched body that is the newest is backed, and so is what IndexedDB
\* is to hold.
KeptInv ==
    /\ loaded => queue \subseteq unwritten \union disk
    /\ cached = local => Backed
    /\ reattach = "answered" /\ fetched = local => Backed
    /\ LatestAccounted

\* What the values of these variables are numbers for.
Numbers ==
    /\ local \in Nat /\ cached \in Nat /\ fetched \in Nat /\ copy[Home] \in Nat
    /\ \A q \in requests : /\ q.rev \in Nat /\ q.by \in {"push", "replay"}
                           /\ q.stage \in {"uploading", "sent", "stored"}
    /\ \A op \in queue \union batch \union disk : op.rev \in Nat
    /\ ~running => batch = {} /\ ~Replaying

LEMMA NumbersTyped == TypeOK => Numbers
  BY DEF TypeOK, Numbers, Revs, Requests, Ops

\* A queued save is the only one that waits.
LEMMA EnqueueWaits ==
    ASSUME loaded, NEW rev, Enqueue(rev)
    PROVE  /\ loaded' /\ cached' = rev /\ disk' = disk
           /\ \A op \in Waiting' : op.rev = rev
           /\ \A a, b \in Waiting' : a = b
           /\ queue' # {} /\ Waiting' = queue'
           /\ \E op \in queue' : op.rev = rev
           /\ queue' \subseteq unwritten'
  BY DEF Enqueue, Superseded, Waiting, Persisting

\* A replay is started with what waits.
LEMMA LaunchWaits ==
    ASSUME Numbers, NEW q, NEW r, Launch(q, r)
    PROVE  \/ UNCHANGED <<running, batch>>
           \/ /\ ~running /\ batch = {} /\ ~Replaying /\ running'
              /\ batch' \subseteq q /\ q # {}
  BY DEF Launch, ForHost, MayRun, replay, Numbers

\* No step lets an older revision follow a newer one.
LEMMA OrderStep ==
    ASSUME InOrder, TypeOK, OrderInv, [Next]_vars
    PROVE  OrderInv'
<1> Numbers
  BY NumbersTyped
<1>a. /\ "pushOverPending" \notin Coincide /\ "queueOverPush" \notin Coincide
      /\ "leftRecords" \notin Coincide /\ "beforeLoad" \notin Coincide
  BY DEF InOrder
<1> USE DEF OrderInv
<1>1. CASE Save
  <2>0. loaded /\ local' = local + 1 /\ UNCHANGED <<told, copy, net, replay, opened>>
    BY <1>a, <1>1 DEF Save
  <2>1. CASE ~Pending /\ requests' = requests \union {Request("push", local', None)}
              /\ UNCHANGED <<cached, store>>
    <3>1. /\ requests = {} /\ queue = {} /\ batch = {} /\ batch' = {} /\ queue' = {}
          /\ loaded' /\ copy' = copy /\ cached' = cached /\ fetched' = fetched
          /\ Waiting' = {}
      BY <2>0, <2>1 DEF Pending, replay, store, opened, Waiting
    <3>p. PICK p : p = Request("push", local', None)
      OBVIOUS
    <3>2. /\ requests' = {p} /\ p.by = "push" /\ p.rev = local'
          /\ p.stage = "uploading"
      BY <2>1, <3>1, <3>p DEF Request
    <3> QED
      BY <2>0, <3>1, <3>2 DEF AtStart, NoneNewer, NewestWaits, PushIsNewest,
        ReplayIsOne, NoneOlder, Replaying, Pushes, Numbers
  <2>2. CASE Pushes = {} /\ Enqueue(local') /\ UNCHANGED requests
    <3>1. /\ loaded' /\ cached' = local' /\ queue' # {}
          /\ \A op \in Waiting' : op.rev = local'
          /\ \A a, b \in Waiting' : a = b
      BY <2>0, <2>2, EnqueueWaits
    <3>2. requests' = requests /\ batch' = batch /\ copy' = copy /\ fetched' = fetched
      BY <2>0, <2>2 DEF replay, opened
    <3> QED
      BY <2>0, <2>2, <3>1, <3>2 DEF AtStart, NoneNewer, NewestWaits, PushIsNewest,
        ReplayIsOne, NoneOlder, Replaying, Pushes, Numbers
  <2> QED
    BY <1>a, <1>1, <2>1, <2>2 DEF Save
<1>2. CASE Persisted
  <2>1. loaded /\ UNCHANGED <<local, cached, copy, requests, queue, loaded, batch, fetched>>
    BY <1>2 DEF Persisted, AtStart, editor, replay, opened
  <2> QED
    BY <2>1 DEF AtStart, NoneNewer, NewestWaits, PushIsNewest, ReplayIsOne, NoneOlder,
      Replaying, Pushes, Waiting
<1>3. CASE Load
  <2>1. /\ ~loaded /\ loaded' /\ queue' = disk
        /\ UNCHANGED <<local, cached, copy, requests, batch, fetched>>
    BY <1>3 DEF Load, editor, replay, opened
  <2> QED
    BY <2>1 DEF AtStart, NoneNewer, NewestWaits, PushIsNewest, ReplayIsOne, NoneOlder,
      Replaying, Pushes, Waiting
<1>4. CASE Drop
  <2>1. loaded /\ UNCHANGED <<local, cached, copy, requests, queue, loaded, batch, fetched>>
    BY <1>4 DEF Drop, AtStart, editor, store, replay, opened
  <2> QED
    BY <2>1 DEF AtStart, NoneNewer, NewestWaits, PushIsNewest, ReplayIsOne, NoneOlder,
      Replaying, Pushes, Waiting
<1>5. CASE Restart
  <2>1. /\ loaded => disk \subseteq queue
        /\ ~loaded' /\ requests' = {} /\ queue' = {} /\ unwritten' = {} /\ ~running'
        /\ batch' = {} /\ reattach' = "parked" /\ fetched' = 0
        /\ link' = None /\ chain' = None
        /\ UNCHANGED <<local, cached, copy, disk>>
    BY <1>a, <1>5 DEF Restart
  <2> QED
    BY <2>1 DEF AtStart, NoneNewer, NewestWaits, PushIsNewest, ReplayIsOne, NoneOlder,
      Replaying, Pushes, Waiting, Numbers
<1>6. ASSUME NEW r \in Relays, Connect(r) PROVE OrderInv'
  <2>1. /\ loaded /\ Launch(queue, r)
        /\ UNCHANGED <<local, cached, copy, requests, queue, loaded, fetched>>
    BY <1>a, <1>6 DEF Connect, editor, store
  <2>2. \/ batch' = batch
        \/ batch = {} /\ ~Replaying /\ batch' \subseteq queue /\ queue # {}
    BY <2>1, LaunchWaits
  <2> QED
    BY <2>1, <2>2 DEF AtStart, NoneNewer, NewestWaits, PushIsNewest, ReplayIsOne,
      NoneOlder, Replaying, Pushes, Waiting, Numbers
<1>7. ASSUME NEW q \in requests, Step(q) PROVE OrderInv'
  <2>0. loaded /\ q \in Requests
    BY DEF AtStart, TypeOK
  <2>1. CASE Dispatch(q)
    <3>1. UNCHANGED <<local, cached, copy, queue, loaded, batch, fetched>>
      BY <2>1 DEF Dispatch, editor, store, replay, opened
    <3>d. PICK d : d = [q EXCEPT !.stage = "sent", !.to = provider]
      OBVIOUS
    <3>2. /\ requests' = (requests \ {q}) \union {d}
          /\ d.by = q.by /\ d.rev = q.rev /\ d.op = q.op
          /\ d.stage = "sent" /\ q.stage = "uploading"
      BY <2>0, <2>1, <3>d DEF Dispatch, Requests
    <3> QED
      BY <2>0, <3>1, <3>2 DEF AtStart, NoneNewer, NewestWaits, PushIsNewest,
        ReplayIsOne, NoneOlder, Replaying, Pushes, Waiting, Numbers
  <2>2. CASE Store(q)
    <3>1. UNCHANGED <<local, cached, queue, loaded, batch, fetched>>
      BY <2>2 DEF Store, editor, store, replay, opened
    <3>d. PICK d : d = [q EXCEPT !.stage = "stored"]
      OBVIOUS
    <3>2. /\ requests' = (requests \ {q}) \union {d}
          /\ d.by = q.by /\ d.rev = q.rev /\ d.op = q.op
          /\ d.stage = "stored" /\ q.stage = "sent" /\ d.to = q.to
      BY <2>0, <2>2, <3>d DEF Store, Requests
    <3>3. copy'[Home] = IF q.to = Home THEN q.rev ELSE copy[Home]
      BY <2>2, RelaysAssumption DEF Store, TypeOK
    <3>4. /\ \A p \in requests \ {q} : p.stage # "stored" => p.rev >= q.rev
          /\ \A op \in batch : op.rev >= q.rev
      BY DEF PushIsNewest, ReplayIsOne, Replaying, Pushes, Numbers
    <3>5. q.rev >= copy[Home]
      BY <3>2 DEF NoneOlder
    <3>6. NoneOlder'
      BY <3>1, <3>2, <3>3, <3>4, <3>5 DEF NoneOlder, Numbers
    <3> QED
      BY <2>0, <3>1, <3>2, <3>3, <3>6 DEF AtStart, NoneNewer, NewestWaits,
        PushIsNewest, ReplayIsOne, Replaying, Pushes, Waiting
  <2>3. CASE Answer(q)
    <3>1. /\ requests' = requests \ {q} /\ cached' = q.rev
          /\ q.by # "replay" => queue' = queue
          /\ queue' \subseteq queue
          /\ UNCHANGED <<local, copy, loaded, batch, fetched>>
      BY <2>3 DEF Answer, Dequeued, replay, opened
    <3> QED
      BY <2>0, <3>1 DEF AtStart, NoneNewer, NewestWaits, PushIsNewest,
        ReplayIsOne, NoneOlder, Replaying, Pushes, Waiting, Numbers
  <2> QED
    BY <1>7, <2>1, <2>2, <2>3 DEF Step
<1>8. ASSUME NEW q \in requests, Fail(q) PROVE OrderInv'
  <2>0. /\ loaded /\ requests' = requests \ {q}
        /\ UNCHANGED <<local, copy, batch, fetched>>
    BY <1>8 DEF Fail, AtStart, replay, opened
  <2>1. CASE q.by = "push" /\ Enqueue(q.rev)
    <3>1. q.rev = local
      BY <2>1 DEF PushIsNewest, Pushes
    <3>2. /\ loaded' /\ cached' = local /\ queue' # {}
          /\ \A op \in Waiting' : op.rev = local
          /\ \A a, b \in Waiting' : a = b
      BY <2>0, <2>1, <3>1, EnqueueWaits
    <3> QED
      BY <2>0, <3>2 DEF AtStart, NoneNewer, NewestWaits, PushIsNewest,
        ReplayIsOne, NoneOlder, Replaying, Pushes, Numbers
  <2>2. CASE UNCHANGED <<queue, cached, loaded>>
    BY <2>0, <2>2 DEF AtStart, NoneNewer, NewestWaits, PushIsNewest,
      ReplayIsOne, NoneOlder, Replaying, Pushes, Waiting
  <2> QED
    BY <1>8, <2>1, <2>2 DEF Fail, AfterFailure
<1>9. ASSUME NEW q \in requests, Refuse(q) PROVE OrderInv'
  <2>1. /\ loaded /\ requests' = requests \ {q}
        /\ UNCHANGED <<local, cached, copy, queue, loaded, batch, fetched>>
    BY <1>9 DEF Refuse, AtStart, store, replay, opened
  <2> QED
    BY <2>1 DEF AtStart, NoneNewer, NewestWaits, PushIsNewest, ReplayIsOne, NoneOlder,
      Replaying, Pushes, Waiting
<1>10. CASE ReplayNext
  <2>1. PICK op \in batch :
          /\ ~Replaying /\ batch' = batch \ {op}
          /\ requests' = requests \union {Request("replay", op.rev, op)}
          /\ UNCHANGED <<local, cached, copy, queue, loaded, fetched>>
    BY <1>10 DEF ReplayNext, editor, store, opened
  <2>d. PICK d : d = Request("replay", op.rev, op)
    OBVIOUS
  <2>2. /\ requests' = requests \union {d} /\ d.by = "replay"
        /\ d.rev = op.rev /\ d.op = op /\ d.stage = "uploading"
    BY <2>1, <2>d DEF Request
  <2>3. batch' = {} /\ loaded
    BY <2>1 DEF ReplayIsOne, AtStart
  <2> QED
    BY <2>1, <2>2, <2>3 DEF AtStart, NoneNewer, NewestWaits, PushIsNewest, ReplayIsOne,
      NoneOlder, Replaying, Pushes, Waiting, Numbers
<1>11. CASE ReplayEnd
  <2>1. loaded /\ UNCHANGED <<local, cached, copy, requests, queue, loaded, batch, fetched>>
    BY <1>11 DEF ReplayEnd, AtStart, editor, opened
  <2> QED
    BY <2>1 DEF AtStart, NoneNewer, NewestWaits, PushIsNewest, ReplayIsOne, NoneOlder,
      Replaying, Pushes, Waiting
<1>12. CASE Fetched
  <2>1. /\ loaded /\ fetched' \in {cached, copy[Home]}
        /\ UNCHANGED <<local, cached, copy, requests, queue, loaded, batch>>
    BY <1>12 DEF Fetched, AtStart, editor, store, replay
  <2> QED
    BY <2>1 DEF AtStart, NoneNewer, NewestWaits, PushIsNewest, ReplayIsOne, NoneOlder,
      Replaying, Pushes, Waiting
<1>13. CASE FetchFails
  <2>1. loaded /\ UNCHANGED <<local, cached, copy, requests, queue, loaded, batch, fetched>>
    BY <1>13 DEF FetchFails, AtStart, editor, store, replay
  <2> QED
    BY <2>1 DEF AtStart, NoneNewer, NewestWaits, PushIsNewest, ReplayIsOne, NoneOlder,
      Replaying, Pushes, Waiting
<1>14. CASE Reattached
  <2>0. loaded /\ UNCHANGED <<copy, requests, fetched>>
    BY <1>14 DEF Reattached, AtStart
  <2>1. CASE Enqueue(local) /\ (Launch(queue', Home) \/ UNCHANGED replay) /\ UNCHANGED local
    <3>1. /\ loaded' /\ cached' = local /\ queue' # {} /\ Waiting' = queue'
          /\ \A op \in Waiting' : op.rev = local
          /\ \A a, b \in Waiting' : a = b
      BY <2>0, <2>1, EnqueueWaits
    <3>2. \/ batch' = batch
          \/ batch = {} /\ ~Replaying /\ batch' \subseteq queue'
      BY <2>1, LaunchWaits DEF replay
    <3> QED
      BY <2>0, <2>1, <3>1, <3>2 DEF AtStart, NoneNewer, NewestWaits, PushIsNewest,
        ReplayIsOne, NoneOlder, Replaying, Pushes, Numbers
  <2>2. CASE local' = fetched /\ ~LocalIsNewer /\ UNCHANGED <<cached, store, replay>>
    <3>1. local' = local
      BY <2>2 DEF LocalIsNewer, NoneNewer, Numbers
    <3>2. UNCHANGED <<cached, queue, loaded, batch>>
      BY <2>2 DEF store, replay
    <3> QED
      BY <2>0, <3>1, <3>2 DEF AtStart, NoneNewer, NewestWaits, PushIsNewest,
        ReplayIsOne, NoneOlder, Replaying, Pushes, Waiting
  <2> QED
    BY <1>14, <2>1, <2>2 DEF Reattached
<1>15. CASE Drain
  <2>1. /\ Launch(queue, chain) \/ UNCHANGED replay
        /\ UNCHANGED <<local, cached, copy, requests, queue, loaded, fetched>>
    BY <1>15 DEF Drain, editor, store, opened
  <2>2. \/ batch' = batch
        \/ batch = {} /\ ~Replaying /\ batch' \subseteq queue /\ queue # {}
    BY <2>1, LaunchWaits DEF replay
  <2>3. loaded
    BY <1>15 DEF Drain, AtStart
  <2> QED
    BY <2>1, <2>2, <2>3 DEF AtStart, NoneNewer, NewestWaits, PushIsNewest, ReplayIsOne,
      NoneOlder, Replaying, Pushes, Waiting, Numbers
<1>16. CASE UNCHANGED vars
  BY <1>16 DEF vars, editor, net, store, replay, opened, AtStart, NoneNewer,
    NewestWaits, PushIsNewest, ReplayIsOne, NoneOlder, Replaying, Pushes, Waiting
<1> QED
  BY <1>1, <1>2, <1>3, <1>4, <1>5, <1>6, <1>7, <1>8, <1>9, <1>10, <1>11, <1>12,
     <1>13, <1>14, <1>15, <1>16 DEF Next


\* A step that stores a save stores none older than what is stored.
LEMMA StoreIsNewer ==
    ASSUME TypeOK, OrderInv, [Next]_vars
    PROVE  copy'[Home] >= copy[Home]
<1>0. copy[Home] \in Nat
  BY DEF TypeOK, Revs
<1>1. CASE \E q \in requests : Store(q)
  <2>1. PICK q \in requests : Store(q)
    BY <1>1
  <2>2. copy' = [copy EXCEPT ![q.to] = q.rev] /\ q.stage = "sent"
    BY <2>1 DEF Store
  <2> QED
    BY <1>0, <2>2, RelaysAssumption DEF TypeOK, OrderInv, NoneOlder
<1>2. CASE UNCHANGED copy
  BY <1>0, <1>2
<1>3. (\E q \in requests : Store(q)) \/ UNCHANGED copy
  BY DEF Next, Save, Persisted, Load, Drop, Restart, Connect, Step, Dispatch, Answer,
    Fail, Refuse, ReplayNext, ReplayEnd, Fetched, FetchFails, Reattached, Drain, vars
<1> QED
  BY <1>1, <1>2, <1>3

\* Nothing is stored, cached or waiting when the document is first opened.
LEMMA OrderInit == Init => OrderInv
  BY DEF Init, OrderInv, AtStart, NoneNewer, NewestWaits, PushIsNewest, ReplayIsOne,
    NoneOlder, Replaying, Pushes, Waiting

\* OrderInv holds of every state of such an instance.
LEMMA OrderKept ==
    ASSUME InOrder
    PROVE  Spec => [](TypeOK /\ OrderInv)
<1>1. TypeOK /\ OrderInv /\ [Next]_vars => OrderInv'
  BY OrderStep
<1> QED
  BY <1>1, OrderInit, TypeCorrect, PTL DEF Spec

\* If nothing coincides but a stop before a queued save is in IndexedDB and a
\* connection to another relay in mid-flight, what the home relay stores never
\* goes back to an older save (RelayNeverRegresses), across pushes, failures,
\* replays, reattachments and restarts.
THEOREM ArrivesInOrder ==
    ASSUME InOrder
    PROVE  Spec => RelayNeverRegresses
<1>1. TypeOK /\ OrderInv /\ [Next]_vars => [copy'[Home] >= copy[Home]]_vars
  BY StoreIsNewer
<1> QED
  BY <1>1, OrderKept, PTL DEF Spec, RelayNeverRegresses

\* What KeptInv adds to OrderInv is kept by every step too, if no queued save is lost
\* on its way to IndexedDB.
LEMMA KeptStep ==
    ASSUME Coincide = {}, TypeOK, RouteInv, OrderInv, KeptInv, [Next]_vars
    PROVE  KeptInv'
<1> Numbers
  BY NumbersTyped
<1>a. /\ "pushOverPending" \notin Coincide /\ "queueOverPush" \notin Coincide
      /\ "leftRecords" \notin Coincide /\ "beforeLoad" \notin Coincide
  OBVIOUS
<1> USE DEF KeptInv
<1>1. CASE Save
  <2>0. /\ loaded /\ local' = local + 1
        /\ UNCHANGED <<told, copy, net, replay, opened>>
    BY <1>a, <1>1 DEF Save
  <2>1. CASE requests' = requests \union {Request("push", local', None)}
              /\ UNCHANGED <<cached, store>>
    <3>1. PICK p : p = Request("push", local', None)
      OBVIOUS
    <3>2. p \in requests' /\ p.rev = local'
      BY <2>1, <3>1 DEF Request
    <3> QED
      BY <2>0, <2>1, <3>2 DEF OrderInv, NoneNewer, Numbers, Backed, Waiting,
        LatestAccounted, store, opened
  <2>2. CASE Enqueue(local') /\ UNCHANGED requests
    BY <2>0, <2>2, EnqueueWaits DEF Backed, LatestAccounted
  <2> QED
    BY <1>1, <2>1, <2>2 DEF Save
<1>2. CASE Persisted
  <2>1. /\ loaded /\ disk' = disk \union unwritten
        /\ UNCHANGED <<local, cached, copy, requests, queue, loaded, fetched, reattach, told>>
    BY <1>2 DEF Persisted, OrderInv, AtStart, editor, opened
  <2> QED
    BY <2>1 DEF Backed, Waiting, LatestAccounted
<1>3. CASE Load
  <2>1. /\ ~loaded /\ loaded' /\ queue' = disk /\ queue = {} /\ unwritten' = unwritten
        /\ disk' = disk
        /\ UNCHANGED <<local, cached, copy, requests, fetched, reattach, told>>
    BY <1>3 DEF Load, OrderInv, AtStart, editor, opened
  <2> QED
    BY <2>1 DEF Backed, Waiting, LatestAccounted
<1>4. CASE Drop
  BY <1>4 DEF Drop, editor, store, opened, Backed, Waiting, LatestAccounted
<1>5. CASE Restart
  <2>1. /\ unwritten \subseteq disk
        /\ ~loaded' /\ reattach' = "parked"
        /\ UNCHANGED <<local, cached, copy, disk>>
    BY <1>5 DEF Restart
  <2> QED
    BY <2>1 DEF Backed, Waiting, LatestAccounted
<1>6. ASSUME NEW r \in Relays, Connect(r) PROVE KeptInv'
  <2>1. /\ loaded /\ Reattach
        /\ UNCHANGED <<local, cached, copy, told, requests, store, fetched>>
    BY <1>a, <1>6 DEF Connect, editor
  <2>2. /\ reattach' = "none" => reattach = "none" \/ queue # {}
        /\ reattach' = "answered" => reattach = "answered"
    BY <2>1 DEF Reattach, HasPending, TypeOK
  <2>3. \A op \in queue : op.rev = local
    BY <2>1 DEF OrderInv, NewestWaits, Waiting
  <2> QED
    BY <2>1, <2>2, <2>3 DEF Backed, Waiting, LatestAccounted, store
<1>7. ASSUME NEW q \in requests, Step(q) PROVE KeptInv'
  <2>0. loaded /\ q \in Requests
    BY DEF OrderInv, AtStart, TypeOK
  <2>1. CASE Dispatch(q)
    <3>d. PICK d : d = [q EXCEPT !.stage = "sent", !.to = provider]
      OBVIOUS
    <3>1. /\ requests' = (requests \ {q}) \union {d} /\ d.rev = q.rev
          /\ UNCHANGED <<editor, copy, store, opened>>
      BY <2>0, <2>1, <3>d DEF Dispatch, Requests
    <3> QED
      BY <3>1 DEF editor, store, opened, Backed, Waiting, LatestAccounted
  <2>2. CASE Store(q)
    <3>d. PICK d : d = [q EXCEPT !.stage = "stored"]
      OBVIOUS
    <3>1. /\ requests' = (requests \ {q}) \union {d} /\ d.rev = q.rev
          /\ UNCHANGED <<editor, store, opened>>
      BY <2>0, <2>2, <3>d DEF Store, Requests
    <3>2. copy'[Home] = copy[Home] \/ copy'[Home] = q.rev
      BY <2>2 DEF Store, TypeOK
    <3>3. copy[Home] = local => copy'[Home] = local
      BY <2>2, <3>2 DEF Store, OrderInv, NoneOlder, NoneNewer, Numbers
    <3> QED
      BY <3>1, <3>3 DEF editor, store, opened, Backed, Waiting, LatestAccounted
  <2>3. CASE Answer(q)
    <3>1. /\ requests' = requests \ {q} /\ cached' = q.rev /\ q.stage = "stored"
          /\ queue' = IF q.by = "replay" THEN queue \ {q.op} ELSE queue
          /\ UNCHANGED <<local, told, copy, unwritten, disk, loaded, fetched, reattach>>
      BY <2>3 DEF Answer, Dequeued, opened
    <3>2. q.rev = local => copy[Home] = local
      BY <3>1 DEF OrderInv, NoneOlder, NoneNewer, Numbers, RouteInv, SentHome
    <3>3. q.by = "replay" /\ q.op \in queue => q.rev = local
      BY <2>0 DEF OrderInv, ReplayIsOne, NewestWaits, Waiting
    <3>4. queue' = queue \/ copy[Home] = local
      BY <3>1, <3>2, <3>3
    <3> QED
      BY <2>0, <3>1, <3>2, <3>4 DEF Backed, Waiting, LatestAccounted
  <2> QED
    BY <1>7, <2>1, <2>2, <2>3 DEF Step
<1>8. ASSUME NEW q \in requests, Fail(q) PROVE KeptInv'
  <2>0. /\ loaded /\ requests' = requests \ {q}
        /\ UNCHANGED <<local, copy, told, fetched, reattach>>
    BY <1>8 DEF Fail, OrderInv, AtStart, opened
  <2>1. CASE q.by = "push" /\ Enqueue(q.rev)
    <3>1. q.rev = local
      BY <2>1 DEF OrderInv, PushIsNewest, Pushes
    <3> QED
      BY <2>0, <2>1, <3>1, EnqueueWaits DEF Backed, LatestAccounted
  <2>2. CASE q.by = "replay" /\ UNCHANGED <<queue, cached, clock, unwritten, disk, loaded>>
    <3>1. \E op \in queue : op.rev = local
      BY <2>0, <2>2 DEF OrderInv, ReplayIsOne, Replaying, NewestWaits, Waiting
    <3> QED
      BY <2>0, <2>2, <3>1 DEF Backed, Waiting, LatestAccounted
  <2> QED
    BY <1>8, <2>1, <2>2 DEF Fail, AfterFailure
<1>9. ASSUME NEW q \in requests, Refuse(q) PROVE KeptInv'
  BY <1>9 DEF Refuse, store, opened, Backed, Waiting, LatestAccounted
<1>10. CASE ReplayNext
  <2>1. /\ requests \subseteq requests'
        /\ UNCHANGED <<editor, copy, store, opened>>
    BY <1>10 DEF ReplayNext
  <2> QED
    BY <2>1 DEF editor, store, opened, Backed, Waiting, LatestAccounted
<1>11. CASE ReplayEnd
  BY <1>11 DEF ReplayEnd, Persisting, editor, opened, Backed, Waiting, LatestAccounted
<1>12. CASE Fetched
  <2>1. /\ fetched' \in {cached, copy[Home]} /\ reattach' = "answered"
        /\ UNCHANGED <<editor, copy, requests, store>>
    BY <1>12 DEF Fetched
  <2> QED
    BY <2>1 DEF editor, store, Backed, Waiting, LatestAccounted
<1>13. CASE FetchFails
  BY <1>13 DEF FetchFails, editor, store, Backed, Waiting, LatestAccounted
<1>14. CASE Reattached
  <2>0. /\ loaded /\ reattach = "answered" /\ reattach' = "none"
        /\ UNCHANGED <<told, copy, requests, fetched>>
    BY <1>14 DEF Reattached, OrderInv, AtStart
  <2>1. CASE Enqueue(local) /\ UNCHANGED local
    BY <2>0, <2>1, EnqueueWaits DEF Backed, LatestAccounted
  <2>2. CASE local' = fetched /\ ~LocalIsNewer /\ UNCHANGED <<cached, store>>
    <3>1. local' = local /\ fetched = local
      BY <2>2 DEF LocalIsNewer, OrderInv, NoneNewer, Numbers
    <3>2. copy[Home] = local \/ \E op \in queue : op.rev = local
      BY <2>0, <3>1 DEF Backed, Waiting, OrderInv, NewestWaits
    <3> QED
      BY <2>0, <2>2, <3>1, <3>2 DEF store, Backed, Waiting, LatestAccounted
  <2> QED
    BY <1>14, <2>1, <2>2 DEF Reattached
<1>15. CASE Drain
  BY <1>15 DEF Drain, editor, store, opened, Backed, Waiting, LatestAccounted
<1>16. CASE UNCHANGED vars
  BY <1>16 DEF vars, editor, store, opened, Backed, Waiting, LatestAccounted
<1> QED
  BY <1>1, <1>2, <1>3, <1>4, <1>5, <1>6, <1>7, <1>8, <1>9, <1>10, <1>11, <1>12,
     <1>13, <1>14, <1>15, <1>16 DEF Next

\* If nothing coincides at all, the newest saved revision is never forgotten
\* (LatestAccounted): stored, on its way, queued, refused with notice, or still to
\* be compared when the document is reattached.
THEOREM NewestKept ==
    ASSUME Coincide = {}
    PROVE  Spec => []LatestAccounted
<1>0. InOrder /\ "switchInFlight" \notin Coincide
  BY DEF InOrder
<1>1. Init => KeptInv /\ RouteInv
  BY DEF Init, KeptInv, Backed, Waiting, LatestAccounted, RouteInv, TaggedHome,
    OnlyAtHome, SentHome, HomeOnly
<1>2. TypeOK /\ RouteInv /\ OrderInv /\ KeptInv /\ [Next]_vars => (KeptInv /\ RouteInv)'
  BY <1>0, KeptStep, RouteStep
<1>3. KeptInv => LatestAccounted
  BY DEF KeptInv
<1>4. Spec => [](TypeOK /\ OrderInv)
  BY <1>0, OrderKept
<1> QED
  BY <1>1, <1>2, <1>3, <1>4, PTL DEF Spec
=============================================================================
