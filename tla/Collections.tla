----------------------------- MODULE Collections -----------------------------
(***************************************************************************)
(* The collection definitions of a workspace: the editors' stores          *)
(* (collectionStore, collectionSync) and the relay's versioned registry,   *)
(* its file and its mirror (documents.rs set_collections and what restores *)
(* the registry on a cold machine).                                        *)
(*                                                                         *)
(* An editor changes its own store first and then pushes the change:       *)
(* GET, transform, PUT with the version it read.  Pushes and reconciles go *)
(* through one chain per editor, one at a time.  A set of definitions is a *)
(* function from ids to names, Absent where there is none.                 *)
(***************************************************************************)
EXTENDS Naturals, Sequences, FiniteSets

CONSTANTS
    Editors,
    Ids,
    Names,
    Absent,
    None,
    MaxChanges,  \* bound: changes the users make
    MaxTroubles, \* bound: requests that fail, answers lost, relay restarts,
                 \* sessions that end
    MaxReconciles, \* bound: reconciles of an editor while changes are pending
    Coincide     \* see AllCoincidences

(***************************************************************************)
(* What the code does not keep apart:                                      *)
(*   "renameDuring": a user renames while a reconcile is queued or running;*)
(*   "twoRestores": two requests restore the registry of a cold machine    *)
(*                 at the same time;                                       *)
(*   "probeFails": the mirror cannot be read when it is restored from;     *)
(*   "mirrorLag":  the volume is lost before the mirror has caught up;     *)
(*   "forgets":    the relay stops with a version it has not written and   *)
(*                 an editor has read, and gives it out a second time;     *)
(*   "reload":     an editor is reloaded with a push that failed.          *)
(***************************************************************************)
AllCoincidences ==
    {"renameDuring", "twoRestores", "probeFails", "mirrorLag", "forgets", "reload"}

ASSUME AbsentAssumption == Absent \notin Names /\ None \notin Editors
ASSUME BoundsAssumption ==
    /\ MaxChanges \in Nat /\ MaxTroubles \in Nat /\ MaxReconciles \in Nat
ASSUME CoincideAssumption == Coincide \subseteq AllCoincidences

VARIABLES
    store,   \* useCollectionStore: the workspace's definitions
    unconfirmed, \* unconfirmedWorkspaceDefIds
    chain,   \* the jobs an editor has queued, the running one first
    phase,   \* where the running job is
    again,   \* is it the second attempt, after a conflict?
    got,     \* what the GET returned, then what the PUT carries
    fetched, \* what the relay has read of the mirror for the request, or None
    reg,     \* the relay's registry in memory
    file,    \* collections.json
    mirror,  \* its copy in the object store
    dirty,   \* is a PutCollections queued?
    signedIn,\* has the editor a session in the workspace?
    typed,   \* the name each editor's user last gave a collection
    creator, \* who created a collection, or None
    confirmed, \* collections whose creation was acknowledged
    removed, \* collections some user has deleted
    dropped, \* collections their creator had when its session ended
    changes, troubles, reconciles

editor == <<store, unconfirmed, chain, phase, again, got, signedIn, typed>>
relay  == <<fetched, reg, file, mirror, dirty>>
past   == <<creator, confirmed, removed, dropped>>
bounds == <<changes, troubles, reconciles>>
vars   == <<editor, relay, past, bounds>>

Empty == [i \in Ids |-> Absent]
Registry(v, d) == [loaded |-> TRUE, version |-> v, defs |-> d]
Unloaded == [loaded |-> FALSE, version |-> 0, defs |-> Empty]
Nothing == [version |-> 0, defs |-> Empty]
Contents(r) == [version |-> r.version, defs |-> r.defs]

Present(d) == {i \in Ids : d[i] # Absent}
Job(k, i) == [kind |-> k, id |-> i, name |-> None]
Add(i, n) == [kind |-> "add", id |-> i, name |-> n]
Reconcile == Job("reconcile", None)

Init ==
    /\ store = [e \in Editors |-> Empty]
    /\ unconfirmed = [e \in Editors |-> {}]
    /\ chain = [e \in Editors |-> <<>>]
    /\ phase = [e \in Editors |-> "idle"]
    /\ again = [e \in Editors |-> FALSE]
    /\ got = [e \in Editors |-> Nothing]
    /\ fetched = [e \in Editors |-> None]
    /\ reg = Registry(0, Empty) /\ file = Nothing /\ mirror = Nothing
    /\ dirty = FALSE
    /\ signedIn = [e \in Editors |-> TRUE]
    /\ typed = [e \in Editors |-> Empty]
    /\ creator = [i \in Ids |-> None] /\ confirmed = {} /\ removed = {}
    /\ dropped = {}
    /\ changes = 0 /\ troubles = 0 /\ reconciles = 0

-----------------------------------------------------------------------------
(* What the user does: syncedActions. *)

\* serialize: a job joins the end of the editor's chain.
EnqueueFirst(e, j) == \* mutant of Enqueue
    chain' = [chain EXCEPT ![e] =
                IF j = Reconcile /\ phase[e] = "idle" THEN <<j>> \o @
                ELSE Append(@, j)]
Enqueue(e, j) == chain' = [chain EXCEPT ![e] = Append(@, j)]

Change ==
    /\ changes < MaxChanges /\ changes' = changes + 1
    /\ UNCHANGED <<phase, again, got, signedIn, relay, confirmed, dropped,
                   troubles, reconciles>>

CreateCollection(e, i, n) ==
    /\ Change
    /\ creator[i] = None
    /\ creator' = [creator EXCEPT ![i] = e]
    /\ store' = [store EXCEPT ![e][i] = n]
    /\ typed' = [typed EXCEPT ![e][i] = n]
    /\ unconfirmed' = [unconfirmed EXCEPT ![e] = @ \union {i}]
    /\ Enqueue(e, Add(i, n))
    /\ UNCHANGED removed

RenameCollection(e, i, n) ==
    /\ Change
    /\ store[e][i] \notin {Absent, n}
    /\ \/ "renameDuring" \in Coincide
       \/ \A k \in DOMAIN chain[e] : chain[e][k] # Reconcile
    /\ store' = [store EXCEPT ![e][i] = n]
    /\ typed' = [typed EXCEPT ![e][i] = n]
    /\ Enqueue(e, Job("rename", i))
    /\ UNCHANGED <<unconfirmed, creator, removed>>

DeleteCollection(e, i) ==
    /\ Change
    /\ store[e][i] # Absent
    /\ store' = [store EXCEPT ![e][i] = Absent]
    /\ removed' = removed \union {i}
    /\ Enqueue(e, Job("remove", i))
    /\ UNCHANGED <<unconfirmed, typed, creator>>

\* fetchDocumentList.
StartReconcile(e) ==
    /\ signedIn[e]
    /\ \A k \in DOMAIN chain[e] : chain[e][k] # Reconcile
    /\ \/ chain[e] = <<>> /\ UNCHANGED reconciles
       \/ /\ chain[e] # <<>>
          /\ reconciles < MaxReconciles /\ reconciles' = reconciles + 1
    /\ Enqueue(e, Reconcile)
    /\ UNCHANGED <<store, unconfirmed, phase, again, got, signedIn, typed, relay,
                   past, changes, troubles>>

-----------------------------------------------------------------------------
(* A job: pushDefsOnce, reconcileFromRelay. *)

Running(e) == Head(chain[e])
Goto(e, p) == phase' = [phase EXCEPT ![e] = p]

Done(e) ==
    /\ chain' = [chain EXCEPT ![e] = Tail(@)]
    /\ Goto(e, "idle")
    /\ again' = [again EXCEPT ![e] = FALSE]
    /\ got' = [got EXCEPT ![e] = Nothing]

\* The GET is sent.  Without a session the job is over, and nobody is told.
Ask(e) ==
    /\ phase[e] = "idle" /\ chain[e] # <<>>
    /\ IF signedIn[e]
       THEN Goto(e, "get") /\ UNCHANGED <<chain, again, got>>
       ELSE Done(e)
    /\ UNCHANGED <<store, unconfirmed, signedIn, typed, relay, past, bounds>>

\* What a job makes of the definitions it read.
Transform(e, j, defs) ==
    CASE j.kind = "add" ->
           IF defs[j.id] = Absent THEN [defs EXCEPT ![j.id] = j.name]
           ELSE defs
      [] j.kind = "rename" ->
           IF defs[j.id] # Absent /\ store[e][j.id] # Absent
           THEN [defs EXCEPT ![j.id] = store[e][j.id]] ELSE defs
      [] j.kind = "remove" -> [defs EXCEPT ![j.id] = Absent]

Put(e) ==
    /\ phase[e] = "got" /\ Running(e) # Reconcile
    /\ got' = [got EXCEPT ![e].defs = Transform(e, Running(e), @)]
    /\ Goto(e, "put")
    /\ UNCHANGED <<store, unconfirmed, chain, again, signedIn, typed,
                   relay, past, bounds>>

\* hydrateFromRelay: the relay's definitions, and of its own the editor
\* keeps those it created and the relay has not confirmed.
HydratedPrunesAll(e, defs) == defs \* mutant of Hydrated
HydratedKeeps(e, defs) == \* mutant of Hydrated
    [i \in Ids |-> IF defs[i] # Absent THEN defs[i] ELSE store[e][i]]
Hydrated(e, defs) ==
    [i \in Ids |->
        IF defs[i] # Absent THEN defs[i]
        ELSE IF i \in unconfirmed[e] THEN store[e][i] ELSE Absent]

Hydrate(e) ==
    /\ phase[e] = "got" /\ Running(e) = Reconcile
    /\ store' = [store EXCEPT ![e] = Hydrated(e, got[e].defs)]
    /\ Done(e)
    /\ UNCHANGED <<unconfirmed, signedIn, typed, relay, past, bounds>>

Trouble == troubles < MaxTroubles /\ troubles' = troubles + 1

-----------------------------------------------------------------------------
(* The relay. *)

\* ensure_workspace_collections_local: the mirror is asked, its answer is
\* written to the file and loaded.  A registry that is not there after that,
\* because there is no mirror or it could not be read, is empty.
Probe(e) ==
    /\ phase[e] \in {"get", "put"} /\ ~reg.loaded /\ fetched[e] = None
    /\ "twoRestores" \in Coincide \/ \A k \in Editors : fetched[k] = None
    /\ \/ fetched' = [fetched EXCEPT ![e] = mirror]
       \/ "probeFails" \in Coincide /\ fetched' = [fetched EXCEPT ![e] = Nothing]
    /\ UNCHANGED <<editor, reg, file, mirror, dirty, past, bounds>>

Restore(e) ==
    /\ fetched[e] # None
    /\ IF fetched[e] # Nothing
       THEN /\ file' = fetched[e]
            /\ reg' = Registry(fetched[e].version, fetched[e].defs)
       ELSE /\ reg' = IF reg.loaded THEN reg ELSE Registry(0, Empty)
            /\ UNCHANGED file
    /\ fetched' = [fetched EXCEPT ![e] = None]
    /\ UNCHANGED <<editor, mirror, dirty, past, bounds>>

Ready(e) == reg.loaded /\ fetched[e] = None

\* list_collections_handler.
Get(e) ==
    /\ phase[e] = "get" /\ Ready(e)
    /\ got' = [got EXCEPT ![e] = Contents(reg)]
    /\ Goto(e, "got")
    /\ UNCHANGED <<store, unconfirmed, chain, again, signedIn, typed, relay, past,
                   bounds>>

\* set_collections: the gate and the registry in memory.  A conflict is
\* rebased once.
MatchesAny(v) == TRUE \* mutant of Matches
Matches(v) == v = reg.version

Gate(e) ==
    /\ phase[e] = "put" /\ Ready(e)
    /\ \/ /\ Matches(got[e].version)
          /\ reg' = Registry(reg.version + 1, got[e].defs)
          /\ Goto(e, "write")
          /\ UNCHANGED <<chain, again, got>>
       \/ /\ ~Matches(got[e].version) /\ ~again[e]
          /\ again' = [again EXCEPT ![e] = TRUE]
          /\ Goto(e, "get")
          /\ UNCHANGED <<chain, got, reg>>
       \/ /\ ~Matches(got[e].version) /\ again[e]
          /\ Done(e) /\ UNCHANGED reg
    /\ UNCHANGED <<store, unconfirmed, signedIn, typed, fetched, file, mirror,
                   dirty, past, bounds>>

\* The file is written from the registry as it is then, the mirror queued and
\* the answer sent; the editor confirms what it pushed.
FileNow(e) == Contents(reg)

Write(e) ==
    /\ phase[e] = "write"
    /\ \/ /\ file' = FileNow(e) /\ dirty' = TRUE
          /\ unconfirmed' = [unconfirmed EXCEPT ![e] = @ \ Present(got[e].defs)]
          /\ confirmed' = confirmed \union (unconfirmed[e] \ unconfirmed'[e])
          /\ UNCHANGED troubles
       \/ \* the answer is lost
          /\ Trouble /\ file' = FileNow(e) /\ dirty' = TRUE
          /\ UNCHANGED <<unconfirmed, confirmed>>
       \/ \* the file cannot be written: the registry in memory keeps the push
          /\ Trouble /\ UNCHANGED <<file, dirty, unconfirmed, confirmed>>
    /\ Done(e)
    /\ UNCHANGED <<store, signedIn, typed, fetched, reg, mirror, creator, removed,
                   dropped, changes, reconciles>>

\* The mirror worker.  A transfer that fails is not tried again.
Upload ==
    /\ dirty /\ dirty' = FALSE
    /\ \/ mirror' = file /\ UNCHANGED troubles
       \/ Trouble /\ UNCHANGED mirror
    /\ UNCHANGED <<editor, fetched, reg, file, past, changes, reconciles>>

-----------------------------------------------------------------------------
(* What goes wrong. *)

\* A request fails before it reaches the relay: the job is given up.
RequestFails(e) ==
    /\ Trouble
    /\ phase[e] \in {"get", "put"} /\ fetched[e] = None
    /\ Done(e)
    /\ UNCHANGED <<store, unconfirmed, signedIn, typed, relay, past, changes,
                   reconciles>>

\* The relay restarts: what it was serving fails, and what it had queued for
\* the mirror is forgotten.  Its volume may be gone.  Without a file the
\* registry is not loaded.
Stored == IF file = Nothing THEN mirror ELSE file
Reloaded == IF file = Nothing THEN Unloaded ELSE Registry(file.version, file.defs)

Restart ==
    /\ Trouble
    /\ \/ "forgets" \in Coincide
       \/ \A e \in Editors : phase[e] = "got" => got[e].version <= Stored.version
    /\ \/ reg' = Reloaded /\ UNCHANGED file
       \/ /\ mirror = file \/ "mirrorLag" \in Coincide
          /\ reg' = Unloaded /\ file' = Nothing
    /\ dirty' = FALSE
    /\ fetched' = [e \in Editors |-> None]
    /\ LET hit == {e \in Editors : phase[e] \in {"get", "put", "write"}} IN
       /\ chain' = [e \in Editors |-> IF e \in hit THEN Tail(chain[e]) ELSE chain[e]]
       /\ phase' = [e \in Editors |-> IF e \in hit THEN "idle" ELSE phase[e]]
       /\ again' = [e \in Editors |-> again[e] /\ e \notin hit]
       /\ got' = [e \in Editors |-> IF e \in hit THEN Nothing ELSE got[e]]
    /\ UNCHANGED <<store, unconfirmed, signedIn, typed, mirror, past, changes,
                   reconciles>>

\* The editor is reloaded: its store is persisted, the ids it still had to
\* confirm are not.
Reload(e) ==
    /\ Trouble
    /\ phase[e] = "idle" /\ chain[e] = <<>>
    /\ unconfirmed[e] = {} \/ "reload" \in Coincide
    /\ unconfirmed' = [unconfirmed EXCEPT ![e] = {}]
    /\ UNCHANGED <<store, chain, phase, again, got, signedIn, typed, relay, past,
                   changes, reconciles>>

-----------------------------------------------------------------------------
(* The session. *)

\* stopSession, by itself or at the start of another session: the definitions
\* of the workspace go, also those the relay does not have.  The job that runs
\* goes on; the queued ones find no session, or the next.
StopSession(e) ==
    /\ Trouble
    /\ signedIn[e] /\ \E next \in BOOLEAN : signedIn' = [signedIn EXCEPT ![e] = next]
    /\ store' = [store EXCEPT ![e] = Empty]
    /\ unconfirmed' = [unconfirmed EXCEPT ![e] = {}]
    /\ dropped' = dropped \union {i \in Present(store[e]) : creator[i] = e}
    /\ UNCHANGED <<chain, phase, again, got, typed, relay, creator, confirmed,
                   removed, changes, reconciles>>

StartSession(e) ==
    /\ ~signedIn[e] /\ signedIn' = [signedIn EXCEPT ![e] = TRUE]
    /\ UNCHANGED <<store, unconfirmed, chain, phase, again, got, typed, relay,
                   past, bounds>>

-----------------------------------------------------------------------------

Steps(e) ==
    \/ Ask(e) \/ Put(e) \/ Hydrate(e)
    \/ Probe(e) \/ Restore(e) \/ Get(e) \/ Gate(e) \/ Write(e)

Users(e) ==
    \E i \in Ids :
        \/ \E n \in Names : CreateCollection(e, i, n) \/ RenameCollection(e, i, n)
        \/ DeleteCollection(e, i)

Next ==
    \/ \E e \in Editors :
          \/ Users(e) \/ StartReconcile(e) \/ Steps(e)
          \/ RequestFails(e) \/ Reload(e) \/ StopSession(e) \/ StartSession(e)
    \/ Upload \/ Restart

Spec == Init /\ [][Next]_vars

\* Requests are served, and the document list is fetched again and again.
Fairness ==
    \A e \in Editors : WF_vars(Steps(e)) /\ WF_vars(StartReconcile(e))

LiveSpec == Spec /\ Fairness

-----------------------------------------------------------------------------
(* Properties. *)

Sets == [Ids -> Names \union {Absent}]
Contentses == [version : Nat, defs : Sets]

Jobs == {Reconcile} \union {Job(t, i) : t \in {"rename", "remove"}, i \in Ids}
                   \union {Add(i, n) : i \in Ids, n \in Names}

\* The variables have their types.
TypeOK ==
    /\ store \in [Editors -> Sets] /\ typed \in [Editors -> Sets]
    /\ signedIn \in [Editors -> BOOLEAN]
    /\ unconfirmed \in [Editors -> SUBSET Ids]
    /\ chain \in [Editors -> Seq(Jobs)]
    /\ phase \in [Editors -> {"idle", "get", "got", "put", "write"}]
    /\ again \in [Editors -> BOOLEAN]
    /\ got \in [Editors -> Contentses]
    /\ fetched \in [Editors -> Contentses \union {None}]
    /\ reg \in [loaded : BOOLEAN, version : Nat, defs : Sets]
    /\ file \in Contentses /\ mirror \in Contentses /\ dirty \in BOOLEAN
    /\ creator \in [Ids -> Editors \union {None}]
    /\ confirmed \subseteq Ids /\ removed \subseteq Ids /\ dropped \subseteq Ids

\* The definitions the relay has, or will have once it has restored them.
Kept == IF reg.loaded THEN reg.defs ELSE mirror.defs

\* A collection whose creation was acknowledged stays in the registry until a
\* user deletes it: concurrent editors, retries and restarts lose none
\* (set_collections' version gate and the restore).
ConfirmedStays == confirmed \ removed \subseteq Present(Kept)

\* A collection that nobody has deleted stays in the store of the editor that
\* created it until that editor's session ends, also while a reconcile races
\* its push, the push has failed or was never sent, or an earlier session's
\* reconcile comes late (reconcileFromRelay's keepIds).
CreatedKept ==
    \A e \in Editors, i \in Ids \ (removed \union dropped) :
        creator[i] = e => store[e][i] # Absent

\* A rename that is still to be pushed is the one the user typed: what a
\* reconcile hydrates does not replace it (syncedActions.renameCollection).
RenamePushed ==
    \A e \in Editors : \A k \in DOMAIN chain[e] :
        LET j == chain[e][k] IN
        j.kind = "rename" =>
            store[e][j.id] \in {typed[e][j.id], Absent}

\* Once the users are done and nothing fails, every editor in the workspace has
\* what the relay has, and beyond it only what it could not push.
Converges ==
    \A e \in Editors :
        <>[](signedIn[e] =>
               \A i \in Ids \ unconfirmed[e] : store[e][i] = reg.defs[i])

\* A push that is accepted carries what earlier pushes failed to deliver: "it
\* re-lands on the user's next mutation" (collectionSync.ts).  It does not hold:
\* a push carries what its caller changed.
Relands ==
    [][\A e \in Editors :
          phase[e] = "write" /\ phase'[e] = "idle" /\ confirmed' # confirmed =>
              \A i \in unconfirmed'[e] :
                  \E k \in DOMAIN chain'[e] : chain'[e][k].id = i]_vars
=============================================================================
