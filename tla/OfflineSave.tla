---------------------------- MODULE OfflineSave -----------------------------
(***************************************************************************)
(* The saves of one relay document by one editor: saveDocument and         *)
(* pushRelaySaveOrQueue (store/persistenceStore.ts), the offline queue     *)
(* that replays saves when the relay is reached again                      *)
(* (collaboration/OfflineQueue.ts, SyncStateManager.ts), its IndexedDB     *)
(* copy (storage/SyncQueueStorage.ts) and the reattachment of the document *)
(* after the application was closed.  The document is the last one opened  *)
(* and is not in a live session, so its saves go through the REST API.     *)
(*                                                                         *)
(* A save is a revision: the content of the page store at one saveDocument.*)
(* Saves carry no expected version, so the relay takes each as it arrives. *)
(* The editor is single-threaded; a step is what runs between two awaits.  *)
(***************************************************************************)
EXTENDS Naturals, FiniteSets

CONSTANTS
    Relays,      \* relays the editor may be connected to
    Home,        \* the relay the document belongs to
    None,        \* no relay, no operation
    Coincide,    \* what may happen at the same time, see AllCoincidences
    MaxSaves,    \* bound: saves of the document
    MaxFails,    \* bound: requests that fail
    MaxRestarts  \* bound: times the application is closed and opened

(***************************************************************************)
(* Nothing keeps these apart in the code; an instance that leaves one out  *)
(* shows what holds as long as the timing keeps them apart.                *)
(*   "pushOverPending": a save is pushed while an older one of the same    *)
(*                      document is queued, being replayed or in flight;   *)
(*   "queueOverPush":   a save is queued while an older one is in flight;  *)
(*   "leftRecords":     the application restarts when IndexedDB holds a    *)
(*                      save that has left the queue, because it reached   *)
(*                      the relay or because a newer one replaced it;      *)
(*   "lostWrite":       it stops before a queued save is in IndexedDB;     *)
(*   "beforeLoad":      it saves or connects before the queue is loaded;   *)
(*   "switchInFlight":  it connects to another relay while requests or a   *)
(*                      replay are under way.                              *)
(***************************************************************************)
AllCoincidences == {"pushOverPending", "queueOverPush", "leftRecords",
                    "lostWrite", "beforeLoad", "switchInFlight"}

ASSUME RelaysAssumption == Home \in Relays /\ None \notin Relays
ASSUME CoincideAssumption == Coincide \subseteq AllCoincidences
ASSUME BoundsAssumption ==
    MaxSaves \in Nat /\ MaxFails \in Nat /\ MaxRestarts \in Nat

VARIABLES
    local,     \* newest revision in localStorage; 0 = as first opened
    cached,    \* revision in the RelayDocumentCache
    copy,      \* per relay: the revision it stores; 0 = as first opened, or none
    link,      \* relay of the authenticated connection, None = disconnected
    provider,  \* docProvider: relay that requests are sent to
    requests,  \* saveToHost calls: [by, rev, op, stage, to]
    queue,     \* OfflineQueue.queue: operations [rev, at, home]
    clock,     \* operations queued so far
    loaded,    \* has SyncStateManager.initialize finished?
    unwritten, \* operations whose write to IndexedDB is under way
    disk,      \* operations in IndexedDB
    running,   \* OfflineQueue.processing
    batch,     \* operations the running replay has yet to send
    chain,     \* relay whose on-connect chain has yet to drain the queue
    reattach,  \* isAwaitingRelayLoad: none | parked | asked | answered
    fetched,   \* revision that loadRelayDocument returned
    told,      \* revisions the user was told were refused
    fails, restarts

editor == <<local, cached, told>>
net    == <<link, provider, chain>>
store  == <<queue, clock, unwritten, disk, loaded>>
replay == <<running, batch>>
opened == <<reattach, fetched>>
vars   == <<editor, copy, net, requests, store, replay, opened, fails, restarts>>

Revs == 0 .. MaxSaves

Init ==
    /\ local = 0 /\ cached = 0 /\ told = {}
    /\ copy = [r \in Relays |-> 0]
    /\ link = None /\ provider = None /\ chain = None
    /\ requests = {}
    /\ queue = {} /\ clock = 0 /\ unwritten = {} /\ disk = {} /\ loaded = FALSE
    /\ running = FALSE /\ batch = {}
    /\ reattach = "parked" /\ fetched = 0
    /\ fails = 0 /\ restarts = 0

-----------------------------------------------------------------------------
(* The queue. *)

\* onChange: SyncStateManager writes the whole queue, once it subscribed.
Persisting(q) == IF loaded THEN unwritten \union q ELSE unwritten

\* What enqueueSave leaves of the queue: no operation of this document.
SupersededKept(q) == q
Superseded(q) == {}

\* The relay a queued save is tagged with.
HomeRelay == Home

\* queueSave: the save replaces the operation of the document, if any.
Enqueue(rev) ==
    LET op == [rev |-> rev, at |-> clock + 1, home |-> HomeRelay]
    IN  /\ queue' = Superseded(queue) \union {op}
        /\ clock' = clock + 1
        /\ unwritten' = Persisting(queue')
        /\ cached' = rev
        /\ UNCHANGED <<disk, loaded>>

\* The operations of q that are replayed to relay r.
ForHost(q, r) == {op \in q : op.home = r}

\* May a replay be started?  One replay runs at a time.
MayRun == ~running

\* processQueueForHost(r) on queue q, by a caller that found the provider ready.
Launch(q, r) ==
    IF MayRun /\ ForHost(q, r) # {}
    THEN running' = TRUE /\ batch' = ForHost(q, r)
    ELSE UNCHANGED replay

\* The write to IndexedDB ends; saveAll puts and never removes.
Persisted ==
    /\ unwritten # {}
    /\ disk' = disk \union unwritten
    /\ unwritten' = {}
    /\ UNCHANGED <<editor, copy, net, requests, queue, clock, loaded, replay,
                   opened, fails, restarts>>

\* initialize: fromJSON replaces the queue by what IndexedDB holds.
Load ==
    /\ ~loaded
    /\ loaded' = TRUE
    /\ queue' = disk
    /\ UNCHANGED <<editor, copy, net, requests, clock, unwritten, disk, replay,
                   opened, fails, restarts>>

-----------------------------------------------------------------------------
(* Saving. *)

Pushes == {q \in requests : q.by = "push"}
Pending == queue # {} \/ requests # {} \/ batch # {}

\* The document's home is the relay the editor is connected to.
PushAnywhere == link # None
PushNow == link = Home

Request(by, rev, op) ==
    [by |-> by, rev |-> rev, op |-> op, stage |-> "uploading", to |-> None]

\* saveDocument: write localStorage, then push to the home relay, or queue.
Save ==
    /\ local < MaxSaves
    /\ loaded \/ "beforeLoad" \in Coincide
    /\ local' = local + 1
    /\ \/ /\ PushNow
          /\ Pending => "pushOverPending" \in Coincide
          /\ requests' = requests \union {Request("push", local', None)}
          /\ UNCHANGED <<cached, store>>
       \/ /\ ~PushNow
          /\ Pushes # {} => "queueOverPush" \in Coincide
          /\ Enqueue(local')
          /\ UNCHANGED requests
    /\ UNCHANGED <<told, copy, net, replay, opened, fails, restarts>>

-----------------------------------------------------------------------------
(* saveToHost, by a save or by the replay. *)

\* The assets are uploaded; the document goes to the provider of this moment.
Dispatch(q) ==
    /\ q.stage = "uploading"
    /\ requests' = (requests \ {q}) \union {[q EXCEPT !.stage = "sent", !.to = provider]}
    /\ UNCHANGED <<editor, copy, net, store, replay, opened, fails, restarts>>

\* The relay stores what the PUT carries.
Store(q) ==
    /\ q.stage = "sent"
    /\ copy' = [copy EXCEPT ![q.to] = q.rev]
    /\ requests' = (requests \ {q}) \union {[q EXCEPT !.stage = "stored"]}
    /\ UNCHANGED <<editor, net, store, replay, opened, fails, restarts>>

\* An operation leaves the queue once the relay has answered.
Dequeued(q) == queue \ {q.op}

\* The answer arrives.
Answer(q) ==
    /\ q.stage = "stored"
    /\ requests' = requests \ {q}
    /\ cached' = q.rev
    /\ queue' = IF q.by = "replay" THEN Dequeued(q) ELSE queue
    /\ UNCHANGED <<local, told, copy, net, clock, unwritten, disk, loaded, replay,
                   opened, fails, restarts>>

\* An operation whose replay failed stays in the queue.
AfterFailureDropped(q) == queue \ {q.op}
AfterFailure(q) == queue

\* Upload, request or answer is lost: a push is queued, a replay stays queued.
Fail(q) ==
    /\ fails < MaxFails
    /\ fails' = fails + 1
    /\ requests' = requests \ {q}
    /\ \/ q.by = "push" /\ Enqueue(q.rev)
       \/ /\ q.by = "replay"
          /\ queue' = AfterFailure(q)
          /\ UNCHANGED <<cached, clock, unwritten, disk, loaded>>
    /\ UNCHANGED <<local, told, copy, net, replay, opened, restarts>>

\* The relay refuses a push for good (403, 413, 507): the user is told.
Refuse(q) ==
    /\ q.stage = "sent" /\ q.by = "push"
    /\ requests' = requests \ {q}
    /\ told' = told \union {q.rev}
    /\ UNCHANGED <<local, cached, copy, net, store, replay, opened, fails, restarts>>

-----------------------------------------------------------------------------
(* The replay. *)

Replaying == \E q \in requests : q.by = "replay"

\* Operations are sent in the order they were queued, one at a time.
IsNext(op) == \A o \in batch : op.at <= o.at

ReplayNext ==
    /\ running /\ ~Replaying
    /\ \E op \in batch :
          /\ IsNext(op)
          /\ batch' = batch \ {op}
          /\ requests' = requests \union {Request("replay", op.rev, op)}
    /\ UNCHANGED <<editor, copy, net, store, running, opened, fails, restarts>>

ReplayEndStuck ==
    /\ running /\ ~Replaying /\ batch = {}
    /\ unwritten' = Persisting(queue)
    /\ UNCHANGED <<editor, copy, net, requests, queue, clock, disk, loaded, replay,
                   opened, fails, restarts>>
ReplayEnd ==
    /\ running /\ ~Replaying /\ batch = {}
    /\ running' = FALSE
    /\ unwritten' = Persisting(queue)
    /\ UNCHANGED <<editor, copy, net, requests, queue, clock, disk, loaded, batch,
                   opened, fails, restarts>>

-----------------------------------------------------------------------------
(* The connection. *)

\* hasPendingChanges(docId)
HasPending == queue # {}

\* reattachAwaitingRelayDocument up to its first await; what an earlier
\* connection has begun goes on.
Reattach ==
    reattach' = CASE reattach # "parked" -> reattach
                  [] reattach = "parked" /\ HasPending -> "none"
                  [] reattach = "parked" /\ ~HasPending -> "asked"

\* The relay accepts the token: the on-connect chain starts, and so does the
\* replay, from the status listener, if initialize has subscribed it.
Connect(r) ==
    /\ link = None
    /\ loaded \/ "beforeLoad" \in Coincide
    /\ (r # provider /\ (requests # {} \/ running \/ chain # None))
          => "switchInFlight" \in Coincide
    /\ link' = r /\ provider' = r /\ chain' = r
    /\ Reattach
    /\ IF loaded THEN Launch(queue, r) ELSE UNCHANGED replay
    /\ UNCHANGED <<editor, copy, requests, store, fetched, fails, restarts>>

\* The connection is lost; the provider and what runs on it stay.
Drop ==
    /\ link # None
    /\ link' = None
    /\ UNCHANGED <<editor, copy, provider, chain, requests, store, replay, opened,
                   fails, restarts>>

\* loadRelayDocument returns the cached body if it is not known to be older
\* than the relay's, else what the relay stores.
Fetched ==
    /\ reattach = "asked"
    /\ reattach' = "answered"
    /\ \/ fetched' = cached
       \/ provider = Home /\ cached < copy[Home] /\ fetched' = copy[Home]
    /\ UNCHANGED <<editor, copy, net, requests, store, replay, fails, restarts>>

\* The document could not be loaded: the next connection tries again.
FetchFails ==
    /\ reattach = "asked"
    /\ \/ fails < MaxFails /\ fails' = fails + 1
       \/ provider # Home /\ UNCHANGED fails
    /\ reattach' = "parked"
    /\ UNCHANGED <<editor, copy, net, requests, store, replay, fetched, restarts>>

\* Is the copy in localStorage newer than what was loaded?
LocalIsNewer == local > fetched

\* The rest of reattachAwaitingRelayDocument: a newer local copy is queued
\* and replayed, any other is replaced.
Reattached ==
    /\ reattach = "answered"
    /\ reattach' = "none"
    /\ \/ /\ LocalIsNewer
          /\ Enqueue(local)
          /\ IF link = Home THEN Launch(queue', Home) ELSE UNCHANGED replay
          /\ UNCHANGED local
       \/ /\ ~LocalIsNewer
          /\ local' = fetched
          /\ UNCHANGED <<cached, store, replay>>
    /\ UNCHANGED <<told, copy, net, requests, fetched, fails, restarts>>

\* The chain goes on: processQueueForHost of the relay it was started for.
Drain ==
    /\ chain # None /\ reattach \notin {"asked", "answered"}
    /\ chain' = None
    /\ IF link # None THEN Launch(queue, chain) ELSE UNCHANGED replay
    /\ UNCHANGED <<editor, copy, link, provider, requests, store, opened, fails,
                   restarts>>

\* The application is closed and opened: memory is gone, requests are cut off,
\* localStorage and IndexedDB stay, and the document is parked for reattachment.
Restart ==
    /\ restarts < MaxRestarts
    /\ (loaded /\ ~(disk \subseteq queue)) => "leftRecords" \in Coincide
    /\ ~(unwritten \subseteq disk) => "lostWrite" \in Coincide
    /\ restarts' = restarts + 1
    /\ link' = None /\ provider' = None /\ chain' = None
    /\ requests' = {} /\ queue' = {} /\ unwritten' = {} /\ loaded' = FALSE
    /\ running' = FALSE /\ batch' = {}
    /\ reattach' = "parked" /\ fetched' = 0 /\ told' = {}
    /\ UNCHANGED <<local, cached, copy, clock, disk, fails>>

-----------------------------------------------------------------------------

Step(q) == Dispatch(q) \/ Store(q) \/ Answer(q)

Next ==
    \/ Save \/ Persisted \/ Load \/ Drop \/ Restart
    \/ \E r \in Relays : Connect(r)
    \/ \E q \in requests : Step(q) \/ Fail(q) \/ Refuse(q)
    \/ ReplayNext \/ ReplayEnd \/ Fetched \/ FetchFails \/ Reattached \/ Drain

Spec == Init /\ [][Next]_vars

\* Timers and promises are run: the load, the replay, the chain and the writes
\* go on, and a request that does not fail ends.  Whether the editor connects,
\* saves or stops is up to its user and its network.
LiveSpec ==
    /\ Spec
    /\ WF_vars(Load) /\ WF_vars(Persisted) /\ WF_vars(Drain)
    /\ WF_vars(ReplayNext) /\ WF_vars(ReplayEnd)
    /\ WF_vars(Fetched \/ FetchFails) /\ WF_vars(Reattached)
    /\ WF_vars(\E q \in requests : q.by = "push" /\ Step(q))
    /\ WF_vars(\E q \in requests : q.by = "replay" /\ Step(q))

-----------------------------------------------------------------------------
(* Properties. *)

Ops == [rev : Revs, at : Nat, home : Relays]
Requests == [by : {"push", "replay"}, rev : Revs, op : Ops \union {None},
             stage : {"uploading", "sent", "stored"}, to : Relays \union {None}]

\* The values the variables range over, and that what is being replayed is a
\* running replay's.
TypeOK ==
    /\ local \in Revs /\ cached \in Revs /\ told \subseteq Revs
    /\ copy \in [Relays -> Revs]
    /\ {link, provider, chain} \subseteq Relays \union {None}
    /\ requests \subseteq Requests
    /\ queue \subseteq Ops /\ unwritten \subseteq Ops /\ disk \subseteq Ops
    /\ batch \subseteq Ops
    /\ clock \in Nat /\ loaded \in BOOLEAN /\ running \in BOOLEAN
    /\ reattach \in {"none", "parked", "asked", "answered"} /\ fetched \in Revs
    /\ fails \in Nat /\ restarts \in Nat
    /\ ~running => batch = {} /\ ~Replaying

\* No save of the document is ever stored by a relay that is not its home,
\* whichever relay the editor is connected to when it saves, replays or
\* reattaches (pushRelaySaveOrQueue, handleConnectionChange).
HomeOnly == \A r \in Relays \ {Home} : copy[r] = 0

\* Saves arrive in order: what the home relay stores never goes back to an
\* older revision, across pushes, replays, retries and restarts.
RelayNeverRegresses == [][copy'[Home] >= copy[Home]]_vars

\* The newest saved revision is never forgotten: the home relay has it, it is
\* on its way or queued, the user was told it was refused, or the reattachment
\* will still compare it with the relay's copy.
LatestAccounted ==
    \/ copy[Home] = local
    \/ local \in told
    \/ \E q \in requests \union queue : q.rev = local
    \/ reattach # "none"

\* If the editor is connected to the home relay again and again, every save
\* reaches it, in this or a later revision, unless the user was told otherwise.
Reconnects == []<>(link = None) /\ []<>(link = Home)
LatestReachesRelay ==
    Reconnects => \A r \in 1 .. MaxSaves :
                     local = r ~> (copy[Home] >= r \/ local \in told)
=============================================================================
