------------------------------ MODULE SyncLink ------------------------------
(***************************************************************************)
(* The link that carries one document between one editor and the relay:    *)
(* UnifiedSyncProvider and the calls collaborationStore makes of it, the   *)
(* frames on the socket, and the relay's end of the connection             *)
(* (server/mod.rs: handle_auth, handle_join_doc, handle_sync,              *)
(* handle_sync_chunk, the forwarding task; server/chunk.rs).  Sockets      *)
(* close or die silently, frames are dropped by the rate limiter, tokens   *)
(* lapse, the user cancels and retries.                                    *)
(*                                                                         *)
(* A document is the set of edits it contains: the Y.Docs merge like sets. *)
(* What the other editors do arrives at the relay as PeerEdit.             *)
(***************************************************************************)
EXTENDS Naturals, Sequences, FiniteSets, FiniteSetsExt

CONSTANTS
    Mine,          \* edits of this editor
    Theirs,        \* edits of the others
    Coincide,      \* what may happen at the same time, see AllCoincidences
    FrameCap,      \* the size of update that fits in one frame
    Ceiling,       \* the size of update that the relay reassembles
    BroadcastRoom, \* messages the broadcast channel keeps for a slow receiver
    MaxAttempts,   \* maxReconnectAttempts
    MaxTroubles    \* bound: sockets lost, frames dropped, tokens expired,
                   \* reconnections cancelled and timers that fire while an
                   \* answer is under way, taken together

(***************************************************************************)
(* Nothing keeps these apart in the code; an instance that leaves one out  *)
(* shows what holds as long as the timing keeps them apart.                *)
(*   "lag":        the relay's forwarding task falls behind by more than   *)
(*                 the channel keeps;                                      *)
(*   "slow":       more than STALE_AFTER passes between two fragments;     *)
(*   "cancelOpening": the user cancels while a socket is opening;          *)
(*   "cancelRefresh": the user cancels while a token is being refreshed;   *)
(*   "staleClose": the editor reconnects before the socket it abandoned    *)
(*                 has reported its close.                                 *)
(***************************************************************************)
AllCoincidences ==
    {"lag", "slow", "cancelOpening", "cancelRefresh", "staleClose"}

ASSUME EditsAssumption ==
    Mine \intersect Theirs = {}
ASSUME CoincideAssumption == Coincide \subseteq AllCoincidences
ASSUME BoundsAssumption ==
    /\ FrameCap \in Nat /\ Ceiling \in Nat /\ FrameCap < Ceiling
    /\ BroadcastRoom \in Nat /\ MaxAttempts \in Nat
    /\ MaxTroubles \in Nat

VARIABLES
    local,    \* edits in the editor's Y.Doc
    sock,     \* this.ws: none | opening | open | dead (silently) | closing
    status, authed, synced, attempts,
    timer,    \* reconnectTimeout is set
    resync,   \* resyncTimer is set
    watchdog, \* handshakeTimer is set
    pong,     \* is an echo of the heartbeat awaited?
    echoes,   \* heartbeatSupported
    token,    \* the editor's token: fresh | stale
    asked,    \* did a refused AUTH ask for a new token?
    cancelled,\* the user cancelled, and nothing has lifted that since
    old,      \* a socket that disconnect() closed: none | opening | open
    orphan,   \* is a socket open that this.ws no longer refers to?
    up, down, \* frames under way
    doc,      \* edits in the relay's Y.Doc
    session,  \* is the connection authenticated?
    joined,   \* is current_doc_id set?
    base,     \* the relay's edits when the connection joined
    fwd,      \* is the forwarding task running?
    queue,    \* updates the forwarding task has yet to receive
    part,     \* fragments buffered by the ChunkReassembler
    size,     \* of each edit of this editor
    troubles

timers == <<timer, resync, watchdog, pong>>
client == <<local, sock, status, authed, synced, attempts, timers, echoes,
            token, asked, cancelled, old, orphan>>
wire   == <<up, down>>
ends   == <<session, joined, base, fwd, queue, part>>
vars   == <<client, wire, doc, ends, size, troubles>>

Edits == Mine \union Theirs
Frame(k, s) == [kind |-> k, edits |-> s]

Init ==
    /\ local = {} /\ sock = "opening" /\ status = "connecting"
    /\ authed = FALSE /\ synced = FALSE /\ attempts = 0
    /\ timer = FALSE /\ resync = FALSE /\ watchdog = FALSE /\ pong = FALSE
    /\ echoes = FALSE /\ token = "fresh" /\ asked = FALSE /\ cancelled = FALSE
    /\ old = "none" /\ orphan = FALSE
    /\ up = <<>> /\ down = <<>> /\ doc = {}
    /\ session = FALSE /\ joined = FALSE /\ base = {}
    /\ fwd = FALSE /\ queue = <<>> /\ part = {}
    /\ size \in [Mine -> 1 .. Ceiling + 1] /\ troubles = 0

-----------------------------------------------------------------------------
(* Frames from the editor. *)

\* The size of an update with the edits s.
Size(s) == MapThenSumSet(LAMBDA e : size[e], s)

\* sendSyncFrame: a frame over the cap goes in fragments.
SyncFrames(s) ==
    IF Size(s) <= FrameCap
    THEN <<Frame("write", s)>>
    ELSE <<Frame("first", s), Frame("last", s)>>

\* What a send puts on the wire: nothing on a socket that is not open.
Sent(frames) == IF sock = "open" THEN up \o frames ELSE up

\* joinDocument, then sendSyncStep1.
HandshakeJoins == <<Frame("join", {})>> \* mutant of Handshake
Handshake == <<Frame("join", {}), Frame("step1", local)>>

\* A local edit: handleDocumentUpdate.
Edit(e) ==
    /\ e \in Mine \ local
    /\ local' = local \union {e}
    /\ up' = Sent(SyncFrames({e}))
    /\ UNCHANGED <<sock, status, authed, synced, attempts, timers, echoes,
                   token, asked, cancelled, old, orphan, down, doc, ends, size, troubles>>

-----------------------------------------------------------------------------
(* The socket. *)

ClearWire == up' = <<>> /\ down' = <<>>

\* What the relay keeps of a connection that is over, or has just begun.
Fresh(task) ==
    /\ session' = FALSE /\ joined' = FALSE /\ base' = {}
    /\ fwd' = task /\ queue' = <<>> /\ part' = {}

\* connect() does nothing while there is a socket.
MayConnectAnyway == TRUE \* mutant of MayConnect
MayConnect == sock = "none"

\* connect(), called with the timer in state t.
Connect(t) ==
    /\ timer' = t
    /\ IF MayConnect
       THEN /\ sock' = "opening" /\ status' = "connecting"
            /\ orphan' = (orphan \/ sock = "open")
            /\ ClearWire /\ Fresh(FALSE)
       ELSE UNCHANGED <<sock, status, orphan, up, down, ends>>

\* scheduleReconnect after the status became s; a hidden tab keeps its budget.
ScheduleReconnect(s) ==
    IF attempts >= MaxAttempts
    THEN status' = "error" /\ UNCHANGED <<attempts, timer>>
    ELSE status' = s /\ timer' = TRUE /\ attempts' \in {attempts, attempts + 1}

\* stopHeartbeat and cancelResync.
StopTimers == pong' = FALSE /\ resync' = FALSE /\ watchdog' = FALSE

\* What handleClose resets.
Forget == sock' = "none" /\ synced' = FALSE /\ authed' = FALSE

\* handleClose, when the socket of this.ws has closed.
HandleClose ==
    /\ Forget /\ StopTimers
    /\ ScheduleReconnect("disconnected")
    /\ ClearWire /\ Fresh(FALSE)
    /\ UNCHANGED <<local, echoes, token, asked, cancelled, old, orphan, doc>>

\* handleOpen.
HandleOpen ==
    /\ sock = "opening"
    /\ sock' = "open" /\ status' = "authenticating" /\ attempts' = 0
    /\ up' = <<Frame(token, {})>> \o Handshake
    /\ watchdog' = TRUE
    /\ Fresh(TRUE)
    /\ UNCHANGED <<local, authed, synced, timer, resync, pong, echoes, token,
                   asked, cancelled, old, orphan, down, doc, size, troubles>>

\* The socket fails to open, or closes and both sides are told.
Lose ==
    /\ sock \in {"opening", "open"} /\ troubles < MaxTroubles
    /\ troubles' = troubles + 1
    /\ HandleClose
    /\ UNCHANGED size

\* The socket dies and nobody is told.
Die ==
    /\ sock = "open" /\ troubles < MaxTroubles
    /\ troubles' = troubles + 1
    /\ sock' = "dead" /\ ClearWire /\ Fresh(FALSE)
    /\ UNCHANGED <<local, status, authed, synced, attempts, timers, echoes,
                   token, asked, cancelled, old, orphan, doc, size>>

\* dropForReconnect: the system reported that the network went away.
NetworkOffline ==
    /\ sock \in {"opening", "open", "dead"} /\ troubles < MaxTroubles
    /\ troubles' = troubles + 1
    /\ sock' = "closing" /\ ClearWire /\ Fresh(FALSE)
    /\ UNCHANGED <<local, status, authed, synced, attempts, timers, echoes,
                   token, asked, cancelled, old, orphan, doc, size>>

\* A socket that was closed, or that the system gave up, reports its close.
Closed ==
    /\ sock \in {"closing", "dead"}
    /\ HandleClose /\ UNCHANGED <<size, troubles>>

\* The backoff of the reconnection is over.
Reconnect ==
    /\ timer /\ ("staleClose" \in Coincide \/ old = "none")
    /\ Connect(FALSE)
    /\ UNCHANGED <<local, authed, synced, attempts, resync, watchdog, pong,
                   echoes, token, asked, cancelled, old, doc, size, troubles>>

\* disconnect() clears the backoff and abandons the socket.
DisconnectTimer == FALSE

\* cancelReconnect.
Cancel ==
    /\ troubles < MaxTroubles /\ old = "none"
    /\ "cancelOpening" \in Coincide \/ sock # "opening"
    /\ "cancelRefresh" \in Coincide \/ ~asked
    /\ troubles' = troubles + 1 /\ cancelled' = TRUE
    /\ timer' = DisconnectTimer /\ StopTimers
    /\ Forget /\ status' = "disconnected"
    /\ old' = CASE sock = "none" -> "none" [] sock = "opening" -> "opening"
                 [] OTHER -> "open"
    /\ ClearWire /\ Fresh(FALSE)
    /\ UNCHANGED <<local, attempts, echoes, token, asked, orphan, doc, size>>

\* The close of an abandoned socket reaches handleClose all the same; one
\* that never opened reports an error first (handleError).
OldCloses ==
    /\ old # "none" /\ old' = "none"
    /\ Forget /\ StopTimers
    /\ orphan' = (orphan \/ sock \in {"opening", "open"})
    /\ IF old = "opening" \/ status # "disconnected"
       THEN ScheduleReconnect("disconnected")
       ELSE UNCHANGED <<status, attempts, timer>>
    /\ ClearWire /\ Fresh(FALSE)
    /\ UNCHANGED <<local, echoes, token, asked, cancelled, doc, size, troubles>>

\* retryNow after clearReconnectTerminal, which lifts a cancel: the user asks
\* to reconnect, the network returns or the app wakes.
Retry ==
    /\ "staleClose" \in Coincide \/ old = "none"
    /\ timer \/ sock = "none"
    /\ cancelled' = FALSE /\ attempts' = 0
    /\ Connect(FALSE)
    /\ UNCHANGED <<local, authed, synced, resync, watchdog, pong, echoes, token,
                   asked, old, doc, size, troubles>>

-----------------------------------------------------------------------------
(* Tokens. *)

\* The token expires.  The relay's recheck closes the session it opened; the
\* editor may have a fresh one from the expiry monitor, a REST call or a wake.
Expire ==
    /\ token = "fresh" /\ troubles < MaxTroubles
    /\ troubles' = troubles + 1
    /\ IF session
       THEN /\ token' \in {"fresh", "stale"} /\ Forget /\ StopTimers
            /\ ScheduleReconnect("disconnected") /\ ClearWire /\ Fresh(FALSE)
       ELSE /\ token' = "stale"
            /\ up' = [i \in DOMAIN up |-> IF up[i].kind = "fresh"
                                          THEN Frame("stale", {}) ELSE up[i]]
            /\ UNCHANGED <<sock, status, authed, synced, attempts, timers, down,
                           ends>>
    /\ UNCHANGED <<local, echoes, asked, cancelled, old, orphan, doc, size>>

\* attemptTokenRefresh after a refused AUTH, then retryNow: a cancel is neither
\* asked about nor lifted.
RefreshAndRetry ==
    /\ asked /\ ("staleClose" \in Coincide \/ old = "none")
    /\ asked' = FALSE /\ token' = "fresh"
    /\ attempts' = 0
    /\ Connect(FALSE)
    /\ UNCHANGED <<local, authed, synced, resync, watchdog, pong, echoes,
                   cancelled, old, doc, size, troubles>>

-----------------------------------------------------------------------------
(* The relay.  It takes the frames of a connection one at a time. *)

Take(kind) == up # <<>> /\ Head(up).kind = kind /\ up' = Tail(up)
Reply(kind, s) == down' = Append(down, Frame(kind, s))

\* handle_auth: the token decides.
ServeAuth ==
    /\ \/ Take("fresh") /\ session' = TRUE /\ Reply("granted", {})
       \/ Take("stale") /\ UNCHANGED session /\ Reply("denied", {})
    /\ UNCHANGED <<client, doc, joined, base, fwd, queue, part, size, troubles>>

\* handle_join_doc: an unauthenticated client may read no document; in the
\* workspace it is taken to be in the document may not even exist.
ServeJoin ==
    /\ Take("join")
    /\ IF session
       THEN /\ joined' = TRUE
            /\ base' = IF joined THEN base ELSE doc
            /\ Reply("step1", doc)
       ELSE /\ UNCHANGED <<joined, base>>
            /\ \E why \in {"unknown", "forbidden"} : Reply(why, {})
    /\ UNCHANGED <<client, doc, session, fwd, queue, part, size, troubles>>

\* handle_sync of a SyncStep1: a read, answered unless no document is joined.
ServeState ==
    /\ Take("step1")
    /\ IF joined THEN Reply("step2", doc \ Head(up).edits) ELSE UNCHANGED down
    /\ UNCHANGED <<client, doc, ends, size, troubles>>

\* handle_sync of a write: drawn from the bucket, then applied if joined.
Write(s) ==
    \/ /\ troubles < MaxTroubles
       /\ troubles' = troubles + 1 /\ Reply("limited", {})
       /\ UNCHANGED doc
    \/ /\ doc' = IF joined THEN doc \union s ELSE doc
       /\ UNCHANGED <<down, troubles>>

ServeWrite ==
    /\ Take("write") /\ Write(Head(up).edits)
    /\ UNCHANGED <<client, ends, size>>

\* handle_sync_chunk: only an authenticated client may buffer, and only
\* fragments of an update that is not too large: others are logged and dropped.
Buffers(s) == session /\ Size(s) <= Ceiling

ServeFirst ==
    /\ Take("first")
    /\ part' = IF Buffers(Head(up).edits) THEN part \union {"first"} ELSE part
    /\ UNCHANGED <<client, down, doc, session, joined, base, fwd, queue,
                   size, troubles>>

Reassembled(s) == Buffers(s) /\ "first" \in part

\* The last fragment completes the frame; prune_stale has dropped the others
\* if it is late, and nobody is told.
ServeLast ==
    /\ Take("last") /\ part' = {}
    /\ \E late \in IF "slow" \in Coincide THEN BOOLEAN ELSE {FALSE} :
          IF Reassembled(Head(up).edits) /\ ~late
          THEN Write(Head(up).edits)
          ELSE UNCHANGED <<down, doc, troubles>>
    /\ UNCHANGED <<client, session, joined, base, fwd, queue, size>>

\* Another editor's update: applied, and broadcast to every subscriber.
PeerEdit(e) ==
    /\ e \in Theirs \ doc
    /\ doc' = doc \union {e}
    /\ IF ~fwd
       THEN UNCHANGED <<fwd, queue>>
       ELSE IF Len(queue) < BroadcastRoom
            THEN queue' = Append(queue, {e}) /\ UNCHANGED fwd
            ELSE "lag" \in Coincide /\ queue' = <<>> /\ fwd' = FALSE
    /\ UNCHANGED <<client, wire, session, joined, base, part, size, troubles>>

\* The forwarding task: only what is addressed to the joined document.
Forward ==
    /\ queue # <<>>
    /\ queue' = Tail(queue)
    /\ IF joined THEN Reply("update", Head(queue)) ELSE UNCHANGED down
    /\ UNCHANGED <<client, up, doc, session, joined, base, fwd, part,
                   size, troubles>>

-----------------------------------------------------------------------------
(* Frames to the editor (handleMessage). *)

Got(kind) == down # <<>> /\ Head(down).kind = kind /\ down' = Tail(down)

\* handleAuthResponse.  A refused editor asks for a new token unless it did
\* so in the last 30 seconds; the socket stays open.
ReceiveAuth ==
    /\ \/ /\ Got("granted")
          /\ authed' = TRUE /\ status' = "authenticated" /\ UNCHANGED asked
       \/ /\ Got("denied")
          /\ status' = "error" /\ asked' \in {asked, TRUE} /\ UNCHANGED authed
    /\ UNCHANGED <<local, sock, synced, attempts, timers, echoes, token,
                   cancelled, old, orphan, up, doc, ends, size, troubles>>

\* Is the document synced after a message of this kind?
SyncedBy(kind) == synced \/ kind = "step2"

\* handleSyncMessage, SyncStep1: the reply is what the relay lacks.
ReceiveState ==
    /\ Got("step1") /\ synced' = SyncedBy("step1")
    /\ up' = Sent(SyncFrames(local \ Head(down).edits))
    /\ UNCHANGED <<local, sock, status, authed, attempts, timers, echoes, token,
                   asked, cancelled, old, orphan, doc, ends, size, troubles>>

\* handleSyncMessage, SyncStep2 or Update.
ReceiveEdits ==
    /\ \E kind \in {"step2", "update"} : Got(kind) /\ synced' = SyncedBy(kind)
    /\ local' = local \union Head(down).edits
    /\ UNCHANGED <<sock, status, authed, attempts, timers, echoes, token, asked,
                   cancelled, old, orphan, up, doc, ends, size, troubles>>

ResyncNever == resync \* mutant of ResyncOnLimit
ResyncOnLimit == TRUE

\* handleErrorMessage: a dropped frame is recovered by re-synchronising, a
\* refused join is final for the connection.
ReceiveError ==
    /\ \/ Got("limited") /\ resync' = ResyncOnLimit /\ UNCHANGED watchdog
       \/ Got("unknown") /\ resync' = FALSE /\ watchdog' = FALSE
       \/ Got("forbidden") /\ UNCHANGED <<resync, watchdog>>
    /\ UNCHANGED <<local, sock, status, authed, synced, attempts, timer, pong,
                   echoes, token, asked, cancelled, old, orphan, up, doc, ends,
                   size, troubles>>

-----------------------------------------------------------------------------
(* Timers of the editor.  A dead socket looks open to them. *)

LooksOpen == sock \in {"open", "dead"}

\* The timers run for seconds: one that fires while an answer is under way is
\* a trouble.
Quiet == up = <<>> /\ down = <<>>
Timeout ==
    \/ Quiet /\ UNCHANGED troubles
    \/ ~Quiet /\ troubles < MaxTroubles /\ troubles' = troubles + 1

\* resync: re-join, re-request the state, and watch for the answer.
ResyncFires ==
    /\ resync /\ Timeout
    /\ resync' = FALSE
    /\ up' = Sent(Handshake)
    /\ watchdog' = (watchdog \/ (LooksOpen /\ ~synced))
    /\ UNCHANGED <<local, sock, status, authed, synced, attempts, timer, pong,
                   echoes, token, asked, cancelled, old, orphan, down, doc, ends, size>>

\* The handshake went unanswered for HANDSHAKE_TIMEOUT_MS.
WatchdogFires ==
    /\ watchdog /\ Timeout
    /\ watchdog' = FALSE
    /\ resync' = (resync \/ ~synced)
    /\ UNCHANGED <<local, sock, status, authed, synced, attempts, timer, pong,
                   echoes, token, asked, cancelled, old, orphan, wire, doc, ends, size>>

\* sendHeartbeat, by its interval or nudgeLiveness.  The relay echoes on a
\* live socket (handleHeartbeatPong), a dead one answers nothing.
Beat ==
    /\ \/ sock = "open" /\ echoes' = TRUE /\ UNCHANGED pong
       \/ sock = "dead" /\ pong' = TRUE /\ UNCHANGED echoes
    /\ UNCHANGED <<local, sock, status, authed, synced, attempts, timer, resync,
                   watchdog, token, asked, cancelled, old, orphan, wire, doc, ends,
                   size, troubles>>

\* Is a missed echo enforced?
NeverEnforced == FALSE \* mutant of Enforced
Enforced == echoes

\* No echo within the deadline: the socket is closed, once the relay is
\* known to echo at all.  An echo that is only late costs a trouble.
Deadline ==
    /\ \/ pong /\ UNCHANGED troubles
       \/ sock = "open" /\ troubles < MaxTroubles /\ troubles' = troubles + 1
    /\ pong' = FALSE
    /\ IF Enforced
       THEN sock' = "closing" /\ ClearWire /\ Fresh(FALSE)
       ELSE UNCHANGED <<sock, wire, ends>>
    /\ UNCHANGED <<local, status, authed, synced, attempts, timer, resync,
                   watchdog, echoes, token, asked, cancelled, old, orphan, doc,
                   size>>

-----------------------------------------------------------------------------
Serve == \/ ServeAuth \/ ServeJoin \/ ServeState \/ ServeWrite
         \/ ServeFirst \/ ServeLast
Receive == \/ ReceiveAuth \/ ReceiveState \/ ReceiveEdits
           \/ ReceiveError

Next ==
    \/ \E e \in Edits : Edit(e) \/ PeerEdit(e)
    \/ HandleOpen \/ Lose \/ Die \/ NetworkOffline \/ Closed
    \/ Reconnect \/ Cancel \/ OldCloses \/ Retry
    \/ Expire \/ RefreshAndRetry
    \/ Serve \/ Forward \/ Receive
    \/ ResyncFires \/ WatchdogFires \/ Beat \/ Deadline

Spec == Init /\ [][Next]_vars

(***************************************************************************)
(* Timers fire, the relay serves what it receives, frames arrive while the *)
(* socket lives, a socket opens, a closed one reports it.  A dead socket   *)
(* is left to the heartbeat once the relay is known to echo; before, only  *)
(* the operating system ends it.  Users owe nothing.                       *)
(***************************************************************************)
Fairness ==
    /\ WF_vars(HandleOpen) /\ WF_vars(OldCloses) /\ WF_vars(Reconnect)
    /\ WF_vars(Closed /\ (sock = "closing" \/ ~echoes))
    /\ WF_vars(RefreshAndRetry)
    /\ WF_vars(Serve) /\ WF_vars(Forward) /\ WF_vars(Receive)
    /\ WF_vars(ResyncFires) /\ WF_vars(WatchdogFires)
    /\ WF_vars(Beat) /\ WF_vars(Deadline)

LiveSpec == Spec /\ Fairness

-----------------------------------------------------------------------------
(* Properties. *)

Frames == [kind : {"fresh", "stale", "join", "step1", "write", "first", "last",
                   "granted", "denied", "step2", "update", "limited",
                   "unknown", "forbidden"},
           edits : SUBSET Edits]

\* Every variable keeps its type; nothing is under way without a socket.
TypeOK ==
    /\ local \subseteq Edits /\ doc \subseteq Edits /\ base \subseteq Edits
    /\ sock \in {"none", "opening", "open", "dead", "closing"}
    /\ status \in {"disconnected", "connecting", "authenticating",
                   "authenticated", "error"}
    /\ attempts \in 0 .. MaxAttempts
    /\ {authed, synced, timer, resync, watchdog, pong, echoes, asked, cancelled,
        orphan, session, joined, fwd} \subseteq BOOLEAN
    /\ token \in {"fresh", "stale"} /\ old \in {"none", "opening", "open"}
    /\ up \in Seq(Frames) /\ down \in Seq(Frames)
    /\ queue \in Seq(SUBSET Edits) /\ part \subseteq {"first"}
    /\ sock # "open" => up = <<>> /\ down = <<>> /\ queue = <<>>
    /\ size \in [Mine -> 1 .. Ceiling + 1] /\ troubles \in 0 .. MaxTroubles

\* A document that is shown as synced contains what the relay had when the
\* connection joined it: until then the document is read-only, so that no
\* edit is made on a state the relay has moved on from.
SyncedHasBase == synced /\ sock = "open" => base \subseteq local

\* The editor has one socket: none that is open is forgotten, to answer
\* heartbeats and hold a connection slot for nobody.
OneSocket == ~orphan

\* Once the user has cancelled, the editor opens no socket and has nothing
\* scheduled that would, until the user asks, the network returns or the app
\* wakes.
CancelHolds == cancelled => sock = "none" /\ ~timer /\ ~resync /\ ~watchdog

\* What the editor believes of its connection is so: it edits on the state it
\* joined, through one socket, and through none while a cancel holds.
Coherent == SyncedHasBase /\ OneSocket /\ CancelHolds

\* The editor has given up: it will not try again unless it is asked.
GivenUp == sock = "none" /\ ~timer /\ status \in {"disconnected", "error"}

\* The relay refused the token, and nothing has closed the socket since.
Rejected == sock = "open" /\ status = "error"

\* The relay takes all that the editor writes in one update, as it must when
\* they meet again.
Fits == Size(Mine) <= Ceiling

\* Every edit reaches the relay, whatever is dropped or lost on the way, unless
\* the editor gives up reconnecting, its token is refused or the edits are too
\* large together.
EditsReachRelay ==
    \A e \in Mine : Fits /\ e \in local ~> (e \in doc \/ GivenUp \/ Rejected)

\* Every edit of another editor reaches this one, with the same exceptions.
EditsReachEditor ==
    \A e \in Theirs : e \in doc ~> (e \in local \/ GivenUp \/ Rejected)

\* A socket that died without a word is found out.
DeadIsNoticed == sock = "dead" ~> sock # "dead"

\* "A WS auth rejection gets ONE silent refresh + immediate retry"
\* (collaborationStore.ts): the editor is authenticated after it.  It does not
\* hold: connect() returns early, as the socket that was refused is still open.
RejectedIsRetried == asked ~> (authed \/ sock # "open")
=============================================================================
