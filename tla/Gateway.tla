------------------------------- MODULE Gateway -------------------------------
(***************************************************************************)
(* The relay's end of its WebSocket connections (server/mod.rs:            *)
(* handle_socket and the handlers it calls): who holds a connection slot   *)
(* of a workspace, who is sent which frame, when a document's Y.Doc is     *)
(* dropped, and who waits for whom.                                        *)
(*                                                                         *)
(* Every connection has a task that reads one frame at a time and handles  *)
(* it to the end, a task that forwards broadcasts, and a task that writes  *)
(* to the socket what the other two put into a channel of CHANNEL frames.  *)
(* They share the clients table behind a read-write lock.  send_to_client  *)
(* keeps the read lock while it waits for room in the channel: pc is then  *)
(* "blocked", and whoever needs the lock for writing waits.                *)
(***************************************************************************)
EXTENDS Permissions, Sequences, FiniteSets

CONSTANTS
    Conns,
    TokensOf,   \* the tokens the client of each connection may present:
                \* records of ws, user, role, limit (of editors, 0: none)
    Docs,
    DocMeta,    \* the metadata of the known documents, by workspace and id
    Guests,     \* pairs of a place and a user: whose shares are changed
    Lapsing,    \* bound: the tokens that are revoked or expire
    Cap,        \* max_ws_connections_per_workspace
    Room,       \* frames a client's channel holds
    NoToken, NoPlace,
    Coincide    \* see AllCoincidences

(***************************************************************************)
(* What the protocol permits and the client of this repository does not    *)
(* do, or what the code lets happen to a live connection:                  *)
(*   "reauth":  a second AUTH on an authenticated connection;              *)
(*   "unshare": a share is withdrawn while its holder is connected.        *)
(***************************************************************************)
AllCoincidences == {"reauth", "unshare"}

Tokens == UNION {TokensOf[c] : c \in Conns}
Wss == {t.ws : t \in Tokens}
Places == Wss \X Docs

ASSUME ConnsAssumption == IsFiniteSet(Conns)
ASSUME TokensAssumption ==
    /\ NoToken \notin Tokens
    /\ \A t \in Tokens : t.role \in Roles /\ t.limit \in Nat
ASSUME PlacesAssumption ==
    /\ NoPlace \notin Places
    /\ DOMAIN DocMeta \subseteq Places
    /\ \A g \in Guests : g[1] \in DOMAIN DocMeta
    /\ Lapsing \subseteq Tokens
ASSUME BoundsAssumption ==
    Cap \in Nat /\ Room \in Nat \ {0}
ASSUME CoincideAssumption == Coincide \subseteq AllCoincidences

VARIABLES
    pc,       \* what each connection's task is about to do
    token,    \* ClientState: the token of its last AUTH, NoToken before
    place,    \* ClientState: current_workspace_id and current_doc_id
    left,     \* the documents it left with frames still on their way to it
    slot,     \* the token whose slot the task holds outside the table
    want,     \* the document the task is joining
    old,      \* the document the task checks for participants
    out,      \* the channel
    cast,     \* broadcasts the forwarding task has yet to receive
    carry,    \* the frames (at most one) it waits to send
    counts,   \* workspace_client_counts
    resident, \* documents in the sync registry
    meta,     \* metadata of the documents
    lapsed    \* tokens revoked or expired

mine   == <<pc, token, place, left, slot, want, old>>
pipes  == <<out, cast, carry>>
shared == <<counts, resident, meta, lapsed>>
vars   == <<mine, pipes, shared>>

Frame(k, p) == [kind |-> k, place |-> p]

\* What the relay sends to one client: answers, refusals, state requests.
Control == Frame("control", NoPlace)

Init ==
    /\ pc = [c \in Conns |-> "off"]
    /\ token = [c \in Conns |-> NoToken]
    /\ place = [c \in Conns |-> NoPlace]
    /\ left = [c \in Conns |-> {}]
    /\ slot = [c \in Conns |-> NoToken]
    /\ want = [c \in Conns |-> NoPlace]
    /\ old = [c \in Conns |-> NoPlace]
    /\ out = [c \in Conns |-> <<>>]
    /\ cast = [c \in Conns |-> <<>>]
    /\ carry = [c \in Conns |-> <<>>]
    /\ counts = [w \in Wss |-> [editors |-> 0, viewers |-> 0]]
    /\ resident = {} /\ meta = DocMeta /\ lapsed = {}

-----------------------------------------------------------------------------
(* The lock of the clients table: a writer waits for the readers that are  *)
(* in, a reader for the writers that came before it.                       *)

Writers == {c \in Conns : pc[c] \in {"accept", "enter", "join", "leave"}}
HoldersScanning == {c \in Conns : pc[c] \in {"blocked", "scan"}} \* mutant of Holders
Holders == {c \in Conns : pc[c] = "blocked"}

CanWriteLock == Holders = {}
CanReadLock == Holders = {} \/ Writers = {}

Goto(c, l) == pc' = [pc EXCEPT ![c] = l]

\* The handler ends by sending a frame to its own client.
Answer(c) == Goto(c, "reply")

Principal(c) ==
    IF token[c] = NoToken THEN Anonymous
    ELSE Member(token[c].user, token[c].role)

Known(p) == p \in DOMAIN meta

Reads(c, p) == Known(p) /\ MayRead(Principal(c), meta[p], TRUE)
Writes(c, p) == Known(p) /\ MayWrite(Principal(c), meta[p], TRUE)

-----------------------------------------------------------------------------
(* A connection begins. *)

Accept(c) ==
    /\ pc[c] = "off"
    /\ Goto(c, "accept")
    /\ UNCHANGED <<token, place, left, slot, want, old, pipes, shared>>

\* The client is entered into the table; the forwarding task starts.
Accepted(c) ==
    /\ pc[c] = "accept" /\ CanWriteLock
    /\ Goto(c, "idle")
    /\ UNCHANGED <<token, place, left, slot, want, old, pipes, shared>>

-----------------------------------------------------------------------------
(* AUTH. *)

IsEditor(t) == t.role # "viewer"
Total(w) == counts[w].editors + counts[w].viewers

\* try_register_workspace_connection.
HasRoom(t) ==
    /\ Total(t.ws) < Cap
    /\ IsEditor(t) /\ t.limit > 0 => counts[t.ws].editors < t.limit

Registered(t) ==
    IF IsEditor(t) THEN [counts EXCEPT ![t.ws].editors = @ + 1]
    ELSE [counts EXCEPT ![t.ws].viewers = @ + 1]

Pred(n) == IF n = 0 THEN 0 ELSE n - 1

\* release_workspace_connection.
ReleasedViewer(t) == \* mutant of Released
    [counts EXCEPT ![t.ws].viewers = Pred(@)]
Released(t) ==
    IF IsEditor(t) THEN [counts EXCEPT ![t.ws].editors = Pred(@)]
    ELSE [counts EXCEPT ![t.ws].viewers = Pred(@)]

\* A token is refused once it has lapsed, except that a validator allows for
\* skewed clocks: a token that has just expired still passes.
Auth(c, t) ==
    /\ pc[c] = "idle"
    /\ token[c] = NoToken \/ "reauth" \in Coincide
    /\ \/ /\ t \notin lapsed /\ HasRoom(t)
          /\ Goto(c, "enter")
          /\ slot' = [slot EXCEPT ![c] = t]
          /\ counts' = Registered(t)
       \/ /\ t \in lapsed \/ ~HasRoom(t)
          /\ Answer(c)
          /\ UNCHANGED <<slot, counts>>
    /\ UNCHANGED <<token, place, left, want, old, pipes, resident, meta, lapsed>>

\* The identity is written to the table.  current_doc_id stays as it was.
Enter(c) ==
    /\ pc[c] = "enter" /\ CanWriteLock
    /\ token' = [token EXCEPT ![c] = slot[c]]
    /\ place' = [place EXCEPT ![c] =
                     IF @ = NoPlace THEN @ ELSE <<slot[c].ws, @[2]>>]
    /\ slot' = [slot EXCEPT ![c] = NoToken]
    /\ Answer(c)
    /\ UNCHANGED <<left, want, old, pipes, shared>>

-----------------------------------------------------------------------------
(* JOIN_DOC. *)

\* The gates: the document is known and the client may read it.
Join(c, d) ==
    /\ pc[c] = "idle"
    /\ \/ /\ token[c] # NoToken /\ Reads(c, <<token[c].ws, d>>)
          /\ Goto(c, "join")
          /\ want' = [want EXCEPT ![c] = <<token[c].ws, d>>]
       \/ /\ token[c] # NoToken => ~Reads(c, <<token[c].ws, d>>)
          /\ Answer(c)
          /\ UNCHANGED want
    /\ UNCHANGED <<token, place, left, slot, old, pipes, shared>>

\* The document the task joins is hydrated, and its client is sent a state
\* request.
Open(c, held) ==
    /\ resident' = held \union {want[c]}
    /\ want' = [want EXCEPT ![c] = NoPlace]
    /\ Answer(c)

\* current_doc_id is set; if the client comes from another document, that one
\* is checked for participants first.
Joined(c) ==
    /\ pc[c] = "join" /\ CanWriteLock
    /\ place' = [place EXCEPT ![c] = want[c]]
    /\ left' = [left EXCEPT ![c] =
                    IF out[c] \o carry[c] = <<>> THEN {}
                    ELSE (@ \union {place[c]}) \ {want[c], NoPlace}]
    /\ \/ /\ place[c] \in {NoPlace, want[c]}
          /\ Open(c, resident)
          /\ UNCHANGED old
       \/ /\ place[c] \notin {NoPlace, want[c]}
          /\ Goto(c, "scan") /\ old' = [old EXCEPT ![c] = place[c]]
          /\ UNCHANGED <<want, resident>>
    /\ UNCHANGED <<token, slot, pipes, counts, meta, lapsed>>

\* After evict_doc_if_unused the task opens the document it joins, or ends.
GoOn(c, held) ==
    /\ old' = [old EXCEPT ![c] = NoPlace]
    /\ \/ want[c] # NoPlace /\ Open(c, held)
       \/ /\ want[c] = NoPlace
          /\ resident' = held
          /\ Goto(c, "off") /\ UNCHANGED want

\* evict_doc_if_unused looks for participants, and drops the Y.Doc after.
Scan(c) ==
    /\ pc[c] = "scan" /\ CanReadLock
    /\ \/ /\ \E k \in Conns : place[k] = old[c]
          /\ GoOn(c, resident)
       \/ /\ \A k \in Conns : place[k] # old[c]
          /\ Goto(c, "evict") /\ UNCHANGED <<old, want, resident>>
    /\ UNCHANGED <<token, place, left, slot, pipes, counts, meta, lapsed>>

Evict(c) ==
    /\ pc[c] = "evict"
    /\ GoOn(c, resident \ {old[c]})
    /\ UNCHANGED <<token, place, left, slot, pipes, counts, meta, lapsed>>

-----------------------------------------------------------------------------
(* SYNC. *)

\* A broadcast reaches the forwarding task of every connection accepted.
\* (Bound: the tasks are done with one before there is another.)
Broadcast(f, except) ==
    /\ \A k \in Conns : cast[k] = <<>> /\ carry[k] = <<>>
    /\ cast' = [k \in Conns |->
                  IF k \in except \/ pc[k] \in {"off", "accept"} THEN cast[k]
                  ELSE Append(cast[k], f)]

\* A state request is answered; the document is hydrated if it is not in
\* the registry.
Ask(c) ==
    /\ pc[c] = "idle" /\ place[c] # NoPlace
    /\ resident' = resident \union {place[c]}
    /\ Answer(c)
    /\ UNCHANGED <<token, place, left, slot, want, old, pipes,
                   counts, meta, lapsed>>

\* Edits are refused by the workspace's rate limit, refused because the
\* client may not edit, or merged and broadcast.
Write(c) ==
    /\ pc[c] = "idle" /\ place[c] # NoPlace
    /\ \/ /\ Answer(c)
          /\ UNCHANGED <<cast, resident>>
       \/ /\ Writes(c, place[c])
          /\ resident' = resident \union {place[c]}
          /\ Broadcast(Frame("doc", place[c]), {c})
          /\ UNCHANGED pc
    /\ UNCHANGED <<token, place, left, slot, want, old, out, carry,
                   counts, meta, lapsed>>

-----------------------------------------------------------------------------
(* send_to_client. *)

\* The lock is taken; a channel that is full is waited for with the lock
\* held.
Send(c) ==
    /\ pc[c] = "reply" /\ CanReadLock
    /\ \/ /\ Len(out[c]) < Room
          /\ out' = [out EXCEPT ![c] = Append(@, Control)]
          /\ Goto(c, "idle")
       \/ /\ Len(out[c]) = Room
          /\ Goto(c, "blocked") /\ UNCHANGED out
    /\ UNCHANGED <<token, place, left, slot, want, old, cast, carry, shared>>

Unblocked(c) ==
    /\ pc[c] = "blocked" /\ Len(out[c]) < Room
    /\ out' = [out EXCEPT ![c] = Append(@, Control)]
    /\ Goto(c, "idle")
    /\ UNCHANGED <<token, place, left, slot, want, old, cast, carry, shared>>

\* Writing to the socket fails: the writing task ends and its channel closes,
\* the send that waits for room returns, and the receive loop ends.  (While
\* nothing waits, this is Break.)
SendFails(c) ==
    /\ pc[c] = "blocked"
    /\ Goto(c, "leave")
    /\ UNCHANGED <<token, place, left, slot, want, old, pipes, shared>>

-----------------------------------------------------------------------------
(* The two tasks beside it. *)

\* What the forwarding task lets pass.
PassesAnyWorkspace(c, f) == \* mutant of Passes
    /\ token[c] # NoToken
    /\ f.kind = "doc" => place[c] # NoPlace /\ place[c][2] = f.place[2]
    /\ f.kind = "event" => f.place[1] = token[c].ws /\ Reads(c, f.place)
Passes(c, f) ==
    /\ token[c] # NoToken
    /\ f.kind = "doc" => place[c] = f.place
    /\ f.kind = "event" => f.place[1] = token[c].ws /\ Reads(c, f.place)

\* It decides with the lock, and sends without.
Forward(c) ==
    /\ cast[c] # <<>> /\ carry[c] = <<>> /\ CanReadLock
    /\ cast' = [cast EXCEPT ![c] = Tail(@)]
    /\ carry' = [carry EXCEPT ![c] =
                     IF Passes(c, Head(cast[c])) THEN <<Head(cast[c])>> ELSE @]
    /\ UNCHANGED <<mine, out, shared>>

Carry(c) ==
    /\ carry[c] # <<>> /\ Len(out[c]) < Room
    /\ out' = [out EXCEPT ![c] = @ \o carry[c]]
    /\ carry' = [carry EXCEPT ![c] = <<>>]
    /\ UNCHANGED <<mine, cast, shared>>

\* The client reads a frame.
Drain(c) ==
    /\ out[c] # <<>>
    /\ out' = [out EXCEPT ![c] = Tail(@)]
    /\ left' = [left EXCEPT ![c] = IF out'[c] \o carry[c] = <<>> THEN {} ELSE @]
    /\ UNCHANGED <<pc, token, place, slot, want, old, cast, carry, shared>>

-----------------------------------------------------------------------------
(* A connection ends. *)

\* The receive loop ends: the socket has, a handler panicked, or too many
\* frames were over the cap.
Break(c) ==
    /\ pc[c] = "idle"
    /\ Goto(c, "leave")
    /\ UNCHANGED <<token, place, left, slot, want, old, pipes, shared>>

\* The periodic check of the token.
RecheckUnjoined(c) == \* mutant of Recheck
    /\ pc[c] = "idle" /\ token[c] \in lapsed /\ place[c] = NoPlace
    /\ Goto(c, "leave")
    /\ UNCHANGED <<token, place, left, slot, want, old, pipes, shared>>
Recheck(c) ==
    /\ pc[c] = "idle" /\ token[c] \in lapsed
    /\ Goto(c, "leave")
    /\ UNCHANGED <<token, place, left, slot, want, old, pipes, shared>>

\* The tasks are aborted and the client is taken out of the table.
Leave(c) ==
    /\ pc[c] = "leave" /\ CanWriteLock
    /\ token' = [token EXCEPT ![c] = NoToken]
    /\ place' = [place EXCEPT ![c] = NoPlace]
    /\ left' = [left EXCEPT ![c] = {}]
    /\ slot' = [slot EXCEPT ![c] = token[c]]
    /\ old' = [old EXCEPT ![c] = place[c]]
    /\ out' = [out EXCEPT ![c] = <<>>]
    /\ cast' = [cast EXCEPT ![c] = <<>>]
    /\ carry' = [carry EXCEPT ![c] = <<>>]
    /\ Goto(c, "release")
    /\ UNCHANGED <<want, shared>>

\* The slot is given back, and the document checked for participants.
Release(c) ==
    /\ pc[c] = "release"
    /\ counts' = IF slot[c] = NoToken THEN counts ELSE Released(slot[c])
    /\ slot' = [slot EXCEPT ![c] = NoToken]
    /\ Goto(c, IF old[c] = NoPlace THEN "off" ELSE "scan")
    /\ UNCHANGED <<token, place, left, want, old, pipes,
                   resident, meta, lapsed>>

-----------------------------------------------------------------------------
(* Requests that arrive elsewhere. *)

\* revoke_handler, or a token's expiry.
Lapse(t) ==
    /\ lapsed' = lapsed \union {t}
    /\ t \notin lapsed
    /\ UNCHANGED <<mine, pipes, counts, resident, meta>>

\* emit_doc_event: a change of a document's metadata is announced to its
\* readers.  The change may be that a share is withdrawn.
Announce(p, u) ==
    /\ meta' = IF "unshare" \in Coincide
               THEN [meta EXCEPT ![p].shares = {s \in @ : s.user # u}]
               ELSE meta
    /\ Broadcast(Frame("event", p), {})
    /\ UNCHANGED <<mine, out, carry, counts, resident, lapsed>>

Requests(c) ==
    \/ Accept(c)
    \/ \E t \in TokensOf[c] : Auth(c, t)
    \/ \E d \in Docs : Join(c, d)
    \/ Ask(c) \/ Write(c) \/ Break(c)

\* What a task does by itself once it has the lock or the room it waits for.
Advance(c) ==
    \/ Accepted(c) \/ Enter(c) \/ Joined(c) \/ Leave(c)
    \/ Scan(c) \/ Evict(c) \/ Release(c) \/ Send(c) \/ Unblocked(c)

Next ==
    \/ \E c \in Conns :
          \/ Requests(c) \/ Advance(c) \/ Recheck(c)
          \/ Forward(c) \/ Carry(c) \/ Drain(c) \/ SendFails(c)
    \/ \E t \in Lapsing : Lapse(t)
    \/ \E g \in Guests : Announce(g[1], g[2])

Spec == Init /\ [][Next]_vars

(***************************************************************************)
(* Tasks are scheduled; the lock and the channel serve those who wait in   *)
(* turn; tokio's select chooses at random between a frame and the          *)
(* recheck's tick; and the one assumption about clients: one that is       *)
(* waited for reads what it is sent, or its socket fails.                  *)
(***************************************************************************)
Fairness ==
    \A c \in Conns :
        /\ SF_vars(Advance(c))
        /\ SF_vars(Recheck(c))
        /\ WF_vars(SendFails(c) \/ (pc[c] = "blocked" /\ Drain(c)))

LiveSpec == Spec /\ Fairness

-----------------------------------------------------------------------------
(* Properties. *)

Frames == [kind : {"doc", "event"}, place : Places]
Labels == {"off", "accept", "idle", "enter", "join", "scan", "evict",
           "reply", "blocked", "leave", "release"}

\* The variables have their types; a channel never exceeds its room.
TypeOK ==
    /\ pc \in [Conns -> Labels]
    /\ token \in [Conns -> Tokens \union {NoToken}]
    /\ slot \in [Conns -> Tokens \union {NoToken}]
    /\ place \in [Conns -> Places \union {NoPlace}]
    /\ left \in [Conns -> SUBSET Places]
    /\ want \in [Conns -> Places \union {NoPlace}]
    /\ old \in [Conns -> Places \union {NoPlace}]
    /\ out \in [Conns -> Seq(Frames \union {Control})]
    /\ \A c \in Conns : Len(out[c]) <= Room
    /\ cast \in [Conns -> Seq(Frames)]
    /\ carry \in [Conns -> Seq(Frames)]
    /\ counts \in [Wss -> [editors : Nat, viewers : Nat]]
    /\ resident \subseteq Places
    /\ DOMAIN meta = DOMAIN DocMeta
    /\ lapsed \subseteq Tokens

\* The tokens whose slot a connection holds.
Held(c) == {token[c], slot[c]} \ {NoToken}

\* The counters of a workspace are its connections, editors and viewers: no
\* slot leaks and none is given back twice (try_register_workspace_connection
\* and release_workspace_connection).
SlotsBalance ==
    \A w \in Wss :
        /\ counts[w].editors =
             Cardinality({c \in Conns : \E t \in Held(c) : t.ws = w /\ IsEditor(t)})
        /\ counts[w].viewers =
             Cardinality({c \in Conns : \E t \in Held(c) : t.ws = w /\ ~IsEditor(t)})

\* A workspace has at most Cap authenticated connections, and an editor is
\* let in only under the limit its own token carries.
CapsHold ==
    \A w \in Wss :
        LET in == {c \in Conns : token[c] # NoToken /\ token[c].ws = w}
            editors == {c \in in : IsEditor(token[c])} IN
        /\ Cardinality(in) <= Cap
        /\ editors # {} =>
             \E c \in editors :
                 token[c].limit > 0 => Cardinality(editors) <= token[c].limit

\* What is on its way to a client is of its own workspace and of a document
\* it may read (BroadcastTarget); the edits of a document are on their way to
\* those only who joined it and are still there, or had some to read all the time
\* since they left it for another.
FramesAreOurs ==
    \A c \in Conns :
        \A f \in {out[c][i] : i \in DOMAIN out[c]}
                 \union {carry[c][i] : i \in DOMAIN carry[c]} :
            f.place # NoPlace =>
                /\ token[c] # NoToken /\ f.place[1] = token[c].ws
                /\ Reads(c, f.place)
                /\ f.kind = "doc" => f.place \in left[c] \union {place[c]}

\* A Y.Doc stays in memory only while a connection has joined its document,
\* or is about to check whether any has.
ResidentIsUsed ==
    \A p \in resident : \E c \in Conns : place[c] = p \/ old[c] = p

\* The counters are the connections, and neither they nor those get past a limit.
LimitsHold == SlotsBalance /\ CapsHold

\* What the relay holds of a document and sends of it is for those who joined it.
JoinedOnly == FramesAreOurs /\ ResidentIsUsed

\* A session whose token has lapsed ends (session_revoked_or_expired).
LapsedLeaves ==
    \A c \in Conns : token[c] \in lapsed ~> token[c] \notin lapsed

\* Every request is handled to its end and every connection that ends is
\* taken out of the table, also while another client does not read: as long
\* as that client's socket fails or it reads on.
Served ==
    \A c \in Conns :
        pc[c] \notin {"idle", "off"} ~> pc[c] \in {"idle", "off"}
=============================================================================
