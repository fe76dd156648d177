--------------------------- MODULE SyncLink_proofs ---------------------------
(* Proofs about SyncLink: the state stays well typed, and, unless the user     *)
(* cancels while a socket is opening or a token is refreshed, or reconnects    *)
(* before an abandoned socket has reported its close, what the editor believes *)
(* of its connection is so.                                                    *)
EXTENDS SyncLink, TLAPS, SequenceTheorems

\* The parts of TypeOK.
Statuses == {"disconnected", "connecting", "authenticating", "authenticated",
             "error"}

EditorOK ==
    /\ local \subseteq Edits
    /\ sock \in {"none", "opening", "open", "dead", "closing"}
    /\ status \in Statuses /\ attempts \in 0 .. MaxAttempts
    /\ token \in {"fresh", "stale"} /\ old \in {"none", "opening", "open"}

FlagsOK ==
    /\ authed \in BOOLEAN /\ synced \in BOOLEAN /\ timer \in BOOLEAN
    /\ resync \in BOOLEAN /\ watchdog \in BOOLEAN /\ pong \in BOOLEAN
    /\ echoes \in BOOLEAN /\ asked \in BOOLEAN /\ cancelled \in BOOLEAN
    /\ orphan \in BOOLEAN

WireOK == up \in Seq(Frames) /\ down \in Seq(Frames)

RelayOK ==
    /\ doc \subseteq Edits /\ base \subseteq Edits
    /\ session \in BOOLEAN /\ joined \in BOOLEAN /\ fwd \in BOOLEAN
    /\ queue \in Seq(SUBSET Edits) /\ part \subseteq {"first"}

BoundOK == size \in [Mine -> 1 .. Ceiling + 1] /\ troubles \in 0 .. MaxTroubles

\* What the relay knows of a connection, and what is under way, needs an open
\* socket.
Attached ==
    /\ session \/ joined \/ fwd => sock = "open"
    /\ sock # "open" => up = <<>> /\ down = <<>> /\ queue = <<>>

(* What makes Coherent inductive. *)

\* States sent by an editor that has the edits l, and answers to an editor with
\* the edits l that joined (j) when the relay had the edits b.
Known(l) == {f \in Frames : f.kind = "step1" => f.edits \subseteq l}
Answers(j, b, l) ==
    {f \in Frames : f.kind = "step2" => j /\ b \subseteq f.edits \union l}

\* A document is synced only through a socket, and an echo is awaited only on one.
OnSocket ==
    /\ sock \in {"none", "opening"} => ~synced
    /\ pong => sock \in {"open", "dead", "closing"}

\* A socket that was abandoned had been opened, and nothing has begun since.
Abandoned ==
    old # "none" => old = "open" /\ sock = "none" /\ status = "disconnected"

\* What a synced document and the frames under way contain.
Carried ==
    /\ joined => base \subseteq doc
    /\ synced /\ sock = "open" => joined /\ base \subseteq local
    /\ up \in Seq(Known(local))
    /\ down \in Seq(Answers(joined, base, local))

\* No token is being refreshed for an editor that has cancelled.
Unasked == cancelled => ~asked

LinkInv == OnSocket /\ Abandoned /\ Unasked /\ Carried /\ OneSocket /\ CancelHolds

LEMMA Parts == TypeOK <=>
    EditorOK /\ FlagsOK /\ WireOK /\ RelayOK /\ BoundOK
    /\ (sock # "open" => up = <<>> /\ down = <<>> /\ queue = <<>>)
  BY DEF TypeOK, EditorOK, Statuses, FlagsOK, WireOK, RelayOK, BoundOK
-----------------------------------------------------------------------------
(* Frames and sequences of them *)

Kinds == {"fresh", "stale", "join", "step1", "write", "first", "last",
          "granted", "denied", "step2", "update", "limited",
          "unknown", "forbidden"}

LEMMA FrameOK ==
    ASSUME NEW k \in Kinds, NEW s \in SUBSET Edits
    PROVE  /\ Frame(k, s) \in Frames
           /\ Frame(k, s).kind = k /\ Frame(k, s).edits = s
  BY DEF Frame, Frames, Kinds

LEMMA NoFrames == ASSUME NEW S PROVE <<>> \in Seq(S)
  BY EmptySeq

LEMMA OneFrame == ASSUME NEW S, NEW f \in S PROVE <<f>> \in Seq(S)
  OBVIOUS

LEMMA TwoFrames == ASSUME NEW S, NEW f \in S, NEW g \in S PROVE <<f, g>> \in Seq(S)
  OBVIOUS

LEMMA HeadTail ==
    ASSUME NEW S, NEW q \in Seq(S), q # <<>>
    PROVE  Head(q) \in S /\ Tail(q) \in Seq(S)
  BY HeadTailProperties

LEMMA Appended ==
    ASSUME NEW S, NEW q \in Seq(S), NEW f \in S
    PROVE  Append(q, f) \in Seq(S)
  OBVIOUS

LEMMA Joined ==
    ASSUME NEW S, NEW q \in Seq(S), NEW r \in Seq(S)
    PROVE  q \o r \in Seq(S)
  BY ConcatProperties

LEMMA Wider ==
    ASSUME NEW S, NEW T, S \subseteq T, NEW q \in Seq(S)
    PROVE  q \in Seq(T)
  BY SeqMonotonic

\* Frames whose token has lapsed.
LEMMA Lapsed ==
    ASSUME NEW S, NEW q \in Seq(S), Frame("stale", {}) \in S
    PROVE  [i \in DOMAIN q |-> IF q[i].kind = "fresh" THEN Frame("stale", {})
                                                     ELSE q[i]] \in Seq(S)
<1> DEFINE r == [i \in DOMAIN q |-> IF q[i].kind = "fresh" THEN Frame("stale", {})
                                                          ELSE q[i]]
<1>1. /\ Len(q) \in Nat /\ DOMAIN q = 1 .. Len(q)
      /\ \A i \in 1 .. Len(q) : q[i] \in S
  BY LenProperties, ElementOfSeq
<1>2. r \in [1 .. Len(q) -> S]
  BY <1>1
<1> QED
  BY <1>1, <1>2

\* What a local edit, a reply or a handshake puts on the wire.
LEMMA SyncFramesOK ==
    ASSUME NEW S, Known({}) \subseteq S, NEW s \in SUBSET Edits
    PROVE  SyncFrames(s) \in Seq(S)
<1>1. /\ Frame("write", s) \in S /\ Frame("first", s) \in S
      /\ Frame("last", s) \in S
  BY FrameOK DEF Known, Kinds
<1>2. /\ <<Frame("write", s)>> \in Seq(S)
      /\ <<Frame("first", s), Frame("last", s)>> \in Seq(S)
  BY <1>1, OneFrame, TwoFrames
<1> QED
  BY <1>2 DEF SyncFrames

LEMMA HandshakeOK ==
    ASSUME local \subseteq Edits
    PROVE  Handshake \in Seq(Known(local))
<1>1. Frame("join", {}) \in Known(local) /\ Frame("step1", local) \in Known(local)
  BY FrameOK DEF Known, Kinds
<1> QED
  BY <1>1, TwoFrames DEF Handshake

LEMMA SentOK ==
    ASSUME NEW S, up \in Seq(S), NEW r \in Seq(S)
    PROVE  Sent(r) \in Seq(S)
  BY Joined DEF Sent

LEMMA KnownGrows ==
    ASSUME NEW l, NEW m, l \subseteq m
    PROVE  Known(l) \subseteq Known(m) /\ Known(l) \subseteq Frames
  BY DEF Known

LEMMA AnswersGrow ==
    ASSUME NEW j, NEW b, NEW l, NEW m, l \subseteq m
    PROVE  /\ Answers(j, b, l) \subseteq Answers(j, b, m)
           /\ Answers(j, b, l) \subseteq Frames
  BY DEF Answers
-----------------------------------------------------------------------------
(* Type-correctness *)

Typed == EditorOK /\ FlagsOK /\ WireOK /\ RelayOK /\ BoundOK /\ Attached

\* The relay forgets a connection that is over.
LEMMA ClearedOK ==
    ASSUME RelayOK, NEW task \in BOOLEAN, Fresh(task), doc' = doc
    PROVE  /\ RelayOK' /\ queue' = <<>>
           /\ ~session' /\ ~joined' /\ fwd' = task
<1>1. <<>> \in Seq(SUBSET Edits)
  BY NoFrames
<1> QED
  BY <1>1 DEF Fresh, RelayOK

LEMMA ClearedWireOK == ASSUME ClearWire PROVE WireOK' /\ up' = <<>> /\ down' = <<>>
  BY NoFrames DEF ClearWire, WireOK

LEMMA ScheduleOK ==
    ASSUME attempts \in 0 .. MaxAttempts, timer \in BOOLEAN,
           NEW s \in Statuses, ScheduleReconnect(s)
    PROVE  /\ attempts' \in 0 .. MaxAttempts /\ timer' \in BOOLEAN
           /\ status' \in Statuses
<1>1. CASE attempts >= MaxAttempts
  BY <1>1 DEF ScheduleReconnect, Statuses
<1>2. CASE ~(attempts >= MaxAttempts)
  <2>1. /\ status' = s /\ timer' = TRUE
        /\ attempts' = attempts \/ attempts' = attempts + 1
    BY <1>2 DEF ScheduleReconnect
  <2>2. attempts' \in 0 .. MaxAttempts
    BY <1>2, <2>1, BoundsAssumption
  <2> QED
    BY <2>1, <2>2
<1> QED
  BY <1>1, <1>2

\* A socket that closed leaves the state typed.
LEMMA CloseOK ==
    ASSUME Typed, HandleClose
    PROVE  EditorOK' /\ FlagsOK' /\ WireOK' /\ RelayOK' /\ Attached'
<1>1. RelayOK' /\ WireOK' /\ Attached'
  <2>1. doc' = doc /\ Fresh(FALSE) /\ ClearWire /\ sock' = "none"
    BY DEF HandleClose, Forget
  <2> QED
    BY <2>1, ClearedOK, ClearedWireOK DEF Typed, Attached
<1>2. /\ attempts' \in 0 .. MaxAttempts /\ timer' \in BOOLEAN
      /\ status' \in Statuses
  BY ScheduleOK DEF HandleClose, Typed, EditorOK, FlagsOK, Statuses
<1>3. EditorOK'
  BY <1>2 DEF HandleClose, Forget, Typed, EditorOK
<1>4. FlagsOK'
  BY <1>2 DEF HandleClose, Forget, StopTimers, Typed, FlagsOK
<1> QED
  BY <1>1, <1>3, <1>4

\* connect() leaves the state typed.
LEMMA ConnectOK ==
    ASSUME Typed, Connect(FALSE), UNCHANGED <<local, token, old, doc>>,
           attempts' \in {0, attempts},
           UNCHANGED <<authed, synced, resync, watchdog, pong, echoes>>,
           asked' \in BOOLEAN, cancelled' \in BOOLEAN
    PROVE  EditorOK' /\ FlagsOK' /\ WireOK' /\ RelayOK' /\ Attached'
<1>1. attempts' \in 0 .. MaxAttempts
  BY BoundsAssumption DEF Typed, EditorOK
<1>2. CASE MayConnect
  <2>1. /\ timer' = FALSE /\ sock' = "opening" /\ status' = "connecting"
        /\ orphan' = (orphan \/ sock = "open") /\ ClearWire /\ Fresh(FALSE)
    BY <1>2 DEF Connect
  <2>2. RelayOK' /\ WireOK' /\ Attached'
    BY <2>1, ClearedOK, ClearedWireOK DEF Typed, Attached
  <2>3. EditorOK'
    BY <1>1, <2>1 DEF Typed, EditorOK, Statuses
  <2>4. FlagsOK'
    BY <2>1 DEF Typed, FlagsOK
  <2> QED
    BY <2>2, <2>3, <2>4
<1>3. CASE ~MayConnect
  <2>1. timer' = FALSE /\ UNCHANGED <<sock, status, orphan, up, down, ends>>
    BY <1>3 DEF Connect
  <2>2. EditorOK' /\ FlagsOK'
    BY <1>1, <2>1 DEF Typed, EditorOK, FlagsOK
  <2>3. WireOK' /\ RelayOK' /\ Attached'
    BY <2>1 DEF Typed, WireOK, RelayOK, Attached, ends
  <2> QED
    BY <2>2, <2>3
<1> QED
  BY <1>2, <1>3

\* A frame that is under way was sent on an open socket.
LEMMA OnOpen ==
    ASSUME Attached
    PROVE  up # <<>> \/ down # <<>> \/ queue # <<>> => sock = "open"
  BY DEF Attached

LEMMA TakeOK ==
    ASSUME Typed, NEW k, Take(k)
    PROVE  /\ sock = "open" /\ up' \in Seq(Frames)
           /\ Head(up) \in Frames /\ Head(up).edits \subseteq Edits
<1>1. up # <<>> /\ up \in Seq(Frames) /\ sock = "open" /\ up' = Tail(up)
  BY OnOpen DEF Take, Typed, WireOK
<1>2. Head(up) \in Frames /\ Tail(up) \in Seq(Frames)
  BY <1>1, HeadTail
<1> QED
  BY <1>1, <1>2 DEF Frames

LEMMA GotOK ==
    ASSUME Typed, NEW k, Got(k)
    PROVE  /\ sock = "open" /\ down' \in Seq(Frames)
           /\ Head(down) \in Frames /\ Head(down).edits \subseteq Edits
<1>1. down # <<>> /\ down \in Seq(Frames) /\ sock = "open" /\ down' = Tail(down)
  BY OnOpen DEF Got, Typed, WireOK
<1>2. Head(down) \in Frames /\ Tail(down) \in Seq(Frames)
  BY <1>1, HeadTail
<1> QED
  BY <1>1, <1>2 DEF Frames

LEMMA ReplyOK ==
    ASSUME WireOK, NEW k \in Kinds, NEW s \in SUBSET Edits, Reply(k, s)
    PROVE  down' \in Seq(Frames)
<1>1. Frame(k, s) \in Frames
  BY FrameOK
<1>2. down \in Seq(Frames)
  BY DEF WireOK
<1> QED
  BY <1>1, <1>2, Appended DEF Reply

\* What a frame's edits do to the relay and to the wire, if anything.
LEMMA WriteOK ==
    ASSUME Typed, NEW s \in SUBSET Edits, Write(s)
    PROVE  /\ doc' \subseteq Edits /\ down' \in Seq(Frames)
           /\ troubles' \in 0 .. MaxTroubles
<1>1. CASE /\ troubles < MaxTroubles /\ troubles' = troubles + 1
           /\ Reply("limited", {}) /\ UNCHANGED doc
  <2>1. down' \in Seq(Frames)
    BY <1>1, ReplyOK DEF Typed, Kinds
  <2>2. troubles' \in 0 .. MaxTroubles
    BY <1>1, BoundsAssumption DEF Typed, BoundOK
  <2> QED
    BY <1>1, <2>1, <2>2 DEF Typed, RelayOK
<1>2. CASE /\ doc' = IF joined THEN doc \union s ELSE doc
           /\ UNCHANGED <<down, troubles>>
  BY <1>2 DEF Typed, RelayOK, WireOK, BoundOK
<1> QED
  BY <1>1, <1>2 DEF Write

LEMMA InitType == Init => Typed
<1> SUFFICES ASSUME Init PROVE Typed
  OBVIOUS
<1>1. /\ <<>> \in Seq(Frames) /\ <<>> \in Seq(SUBSET Edits)
      /\ 0 \in 0 .. MaxAttempts /\ 0 \in 0 .. MaxTroubles
  BY NoFrames, BoundsAssumption
<1>2. EditorOK /\ FlagsOK
  BY <1>1 DEF Init, EditorOK, Statuses, FlagsOK
<1>3. WireOK /\ RelayOK /\ BoundOK /\ Attached
  BY <1>1 DEF Init, WireOK, RelayOK, BoundOK, Attached
<1> QED
  BY <1>2, <1>3 DEF Typed

\* A step spends at most one trouble.
LEMMA TroubleOK ==
    ASSUME BoundOK, UNCHANGED size,
           \/ UNCHANGED troubles
           \/ troubles < MaxTroubles /\ troubles' = troubles + 1
    PROVE  BoundOK'
  BY BoundsAssumption DEF BoundOK

LEMMA TimeoutOK == ASSUME BoundOK, UNCHANGED size, Timeout PROVE BoundOK'
  BY TroubleOK DEF Timeout

\* The socket: it opens, closes, dies, is abandoned or replaced.
LEMMA SocketType ==
    ASSUME Typed, \/ HandleOpen \/ Lose \/ Die \/ NetworkOffline \/ Closed
                  \/ Reconnect \/ Cancel \/ OldCloses \/ Retry
                  \/ RefreshAndRetry \/ Deadline
    PROVE  Typed'
<1> USE DEF timers
<1>1. CASE HandleOpen
  <2>1. sock' = "open" /\ Fresh(TRUE) /\ doc' = doc /\ down' = down
    BY <1>1 DEF HandleOpen
  <2>2. up' = <<Frame(token, {})>> \o Handshake
    BY <1>1 DEF HandleOpen
  <2>3. <<Frame(token, {})>> \in Seq(Frames)
    BY FrameOK, OneFrame DEF Typed, EditorOK, Kinds
  <2>4. Handshake \in Seq(Frames)
    BY HandshakeOK, KnownGrows, Wider DEF Typed, EditorOK
  <2>5. WireOK'
    BY <2>1, <2>2, <2>3, <2>4, Joined DEF Typed, WireOK
  <2>6. RelayOK' /\ Attached'
    BY <2>1, ClearedOK DEF Typed, Attached
  <2>7. EditorOK'
    BY <1>1, BoundsAssumption DEF HandleOpen, Typed, EditorOK, Statuses
  <2>8. FlagsOK' /\ BoundOK'
    BY <1>1 DEF HandleOpen, Typed, FlagsOK, BoundOK
  <2> QED
    BY <2>5, <2>6, <2>7, <2>8 DEF Typed
<1>2. CASE Lose
  <2>1. BoundOK'
    BY <1>2, TroubleOK DEF Lose, Typed
  <2> QED
    BY <1>2, <2>1, CloseOK DEF Lose, Typed
<1>3. CASE Die \/ NetworkOffline
  <2>1. /\ troubles < MaxTroubles /\ troubles' = troubles + 1 /\ ClearWire
        /\ Fresh(FALSE) /\ sock' \in {"dead", "closing"}
        /\ UNCHANGED <<local, status, authed, synced, attempts, timers, echoes,
                       token, asked, cancelled, old, orphan, doc, size>>
    BY <1>3 DEF Die, NetworkOffline
  <2>2. RelayOK' /\ WireOK' /\ Attached'
    BY <2>1, ClearedOK, ClearedWireOK DEF Typed, Attached
  <2>3. EditorOK' /\ FlagsOK'
    BY <2>1 DEF Typed, EditorOK, FlagsOK
  <2>4. BoundOK'
    BY <2>1, TroubleOK DEF Typed
  <2> QED
    BY <2>2, <2>3, <2>4 DEF Typed
<1>4. CASE Closed
  <2>1. BoundOK'
    BY <1>4 DEF Closed, Typed, BoundOK
  <2> QED
    BY <1>4, <2>1, CloseOK DEF Closed, Typed
<1>5. CASE Reconnect \/ Retry \/ RefreshAndRetry
  <2>1. /\ Connect(FALSE) /\ UNCHANGED <<local, old, doc, size, troubles>>
        /\ attempts' \in {0, attempts}
        /\ UNCHANGED <<authed, synced, resync, watchdog, pong, echoes>>
    BY <1>5 DEF Reconnect, Retry, RefreshAndRetry
  <2>2. asked' \in BOOLEAN /\ cancelled' \in BOOLEAN /\ token' \in {"fresh", "stale"}
    BY <1>5 DEF Reconnect, Retry, RefreshAndRetry, Typed, FlagsOK, EditorOK
  <2>3. CASE UNCHANGED token
    BY <2>1, <2>2, <2>3, ConnectOK DEF Typed, BoundOK
  <2>4. CASE RefreshAndRetry
    <3>1. attempts' \in 0 .. MaxAttempts
      BY <2>1, BoundsAssumption DEF Typed, EditorOK
    <3>a. sock' \in {sock, "opening"} /\ status' \in {status, "connecting"}
      BY <2>1 DEF Connect
    <3>2. EditorOK'
      BY <2>1, <2>2, <3>1, <3>a DEF Typed, EditorOK, Statuses
    <3>3. timer' = FALSE /\ orphan' \in BOOLEAN
      BY <2>1 DEF Connect, Typed, FlagsOK
    <3>4. FlagsOK'
      BY <2>1, <2>2, <3>3 DEF Typed, FlagsOK
    <3>5. CASE MayConnect
      <4>1. sock' = "opening" /\ ClearWire /\ Fresh(FALSE)
        BY <2>1, <3>5 DEF Connect
      <4>2. RelayOK' /\ WireOK' /\ Attached'
        BY <2>1, <4>1, ClearedOK, ClearedWireOK DEF Typed, Attached
      <4> QED
        BY <2>1, <3>2, <3>4, <4>2 DEF Typed, BoundOK
    <3>6. CASE ~MayConnect
      <4>1. UNCHANGED <<sock, up, down, ends>>
        BY <2>1, <3>6 DEF Connect
      <4>2. RelayOK' /\ WireOK' /\ Attached'
        BY <2>1, <4>1 DEF Typed, RelayOK, WireOK, Attached, ends
      <4> QED
        BY <2>1, <3>2, <3>4, <4>2 DEF Typed, BoundOK
    <3> QED
      BY <3>5, <3>6
  <2> QED
    BY <1>5, <2>3, <2>4 DEF Reconnect, Retry
<1>6. CASE Cancel
  <2>1. /\ Forget /\ ClearWire /\ Fresh(FALSE) /\ doc' = doc
    BY <1>6 DEF Cancel
  <2>2. RelayOK' /\ WireOK' /\ Attached'
    BY <2>1, ClearedOK, ClearedWireOK DEF Typed, Attached, Forget
  <2>3. EditorOK'
    BY <1>6 DEF Cancel, Forget, Typed, EditorOK, Statuses
  <2>4. FlagsOK'
    BY <1>6 DEF Cancel, Forget, StopTimers, DisconnectTimer, Typed, FlagsOK
  <2>5. BoundOK'
    BY <1>6, TroubleOK DEF Cancel, Typed
  <2> QED
    BY <2>2, <2>3, <2>4, <2>5 DEF Typed
<1>7. CASE OldCloses
  <2>1. /\ Forget /\ StopTimers /\ ClearWire /\ Fresh(FALSE) /\ old' = "none"
        /\ orphan' = (orphan \/ sock \in {"opening", "open"})
        /\ UNCHANGED <<local, echoes, token, asked, cancelled, doc, size, troubles>>
    BY <1>7 DEF OldCloses
  <2>2. /\ attempts' \in 0 .. MaxAttempts /\ timer' \in BOOLEAN
        /\ status' \in Statuses
    <3>1. \/ ScheduleReconnect("disconnected")
          \/ UNCHANGED <<status, attempts, timer>>
      BY <1>7 DEF OldCloses
    <3>2. /\ attempts \in 0 .. MaxAttempts /\ timer \in BOOLEAN
          /\ status \in Statuses /\ "disconnected" \in Statuses
      BY DEF Typed, EditorOK, FlagsOK, Statuses
    <3> QED
      BY <3>1, <3>2, ScheduleOK
  <2>3. RelayOK' /\ WireOK' /\ Attached'
    BY <2>1, ClearedOK, ClearedWireOK DEF Typed, Attached, Forget
  <2>4. EditorOK'
    BY <2>1, <2>2 DEF Forget, Typed, EditorOK
  <2>5. FlagsOK'
    BY <2>1, <2>2 DEF Forget, StopTimers, Typed, FlagsOK
  <2> QED
    BY <2>1, <2>3, <2>4, <2>5 DEF Typed, BoundOK
<1>8. CASE Deadline
  <2>1. /\ pong' = FALSE
        /\ UNCHANGED <<local, status, authed, synced, attempts, timer, resync,
                       watchdog, echoes, token, asked, cancelled, old, orphan,
                       doc, size>>
    BY <1>8 DEF Deadline
  <2>2. BoundOK'
    BY <1>8, TroubleOK DEF Deadline, Typed
  <2>3. FlagsOK'
    BY <2>1 DEF Typed, FlagsOK
  <2>4. CASE sock' = "closing" /\ ClearWire /\ Fresh(FALSE)
    <3>1. RelayOK' /\ WireOK' /\ Attached'
      BY <2>1, <2>4, ClearedOK, ClearedWireOK DEF Typed, Attached
    <3>2. EditorOK'
      BY <2>1, <2>4 DEF Typed, EditorOK
    <3> QED
      BY <2>2, <2>3, <3>1, <3>2 DEF Typed
  <2>5. CASE UNCHANGED <<sock, wire, ends>>
    BY <2>1, <2>2, <2>3, <2>5
       DEF Typed, EditorOK, RelayOK, WireOK, Attached, wire, ends
  <2> QED
    BY <1>8, <2>4, <2>5 DEF Deadline
<1> QED
  BY <1>1, <1>2, <1>3, <1>4, <1>5, <1>6, <1>7, <1>8

\* The frames and the timers: neither the socket nor the token changes.
LEMMA FrameType ==
    ASSUME Typed, \/ \E e \in Edits : Edit(e) \/ PeerEdit(e)
                  \/ Serve \/ Forward \/ Receive
                  \/ ResyncFires \/ WatchdogFires \/ Beat
    PROVE  Typed'
<1> USE DEF timers, client, wire, ends
<1>1. ASSUME NEW e \in Edits, Edit(e) PROVE Typed'
  <2>1. Known({}) \subseteq Frames /\ {e} \in SUBSET Edits
    BY KnownGrows
  <2>2. up' \in Seq(Frames)
    BY <1>1, <2>1, SyncFramesOK, SentOK DEF Edit, Typed, WireOK
  <2>3. Attached'
    BY <1>1 DEF Edit, Sent, Typed, Attached
  <2>4. EditorOK' /\ FlagsOK' /\ RelayOK' /\ BoundOK'
    BY <1>1 DEF Edit, Typed, EditorOK, FlagsOK, RelayOK, BoundOK
  <2> QED
    BY <1>1, <2>2, <2>3, <2>4 DEF Edit, Typed, WireOK
<1>2. ASSUME NEW e \in Edits, PeerEdit(e) PROVE Typed'
  <2>1. /\ doc' = doc \union {e} /\ {e} \in SUBSET Edits
        /\ UNCHANGED <<client, wire, session, joined, base, part, size, troubles>>
    BY <1>2 DEF PeerEdit
  <2>2. \/ UNCHANGED <<fwd, queue>>
        \/ fwd /\ queue' = Append(queue, {e}) /\ UNCHANGED fwd
        \/ queue' = <<>> /\ fwd' = FALSE
    BY <1>2 DEF PeerEdit, Typed, RelayOK
  <2>3. queue' \in Seq(SUBSET Edits)
    BY <2>1, <2>2, Appended, NoFrames DEF Typed, RelayOK
  <2>a. Attached'
    BY <2>1, <2>2 DEF Typed, Attached
  <2>b. fwd' \in BOOLEAN
    BY <2>2 DEF Typed, RelayOK
  <2>4. Attached' /\ RelayOK'
    BY <2>1, <2>3, <2>a, <2>b DEF Typed, RelayOK
  <2>5. EditorOK' /\ FlagsOK' /\ BoundOK' /\ WireOK'
    BY <2>1 DEF Typed, EditorOK, FlagsOK, BoundOK, WireOK
  <2> QED
    BY <2>4, <2>5 DEF Typed
<1>3. CASE Serve
  <2> SUFFICES /\ up' \in Seq(Frames) /\ down' \in Seq(Frames)
               /\ RelayOK' /\ BoundOK'
               /\ UNCHANGED <<client, queue, fwd>> /\ sock = "open"
    BY DEF Typed, EditorOK, FlagsOK, WireOK, Attached
  <2>1. CASE ServeAuth
    <3>1. PICK k \in {"fresh", "stale"} :
             /\ Take(k) /\ session' \in BOOLEAN
             /\ \E a \in {"granted", "denied"} : Reply(a, {})
      BY <2>1 DEF ServeAuth, Typed, RelayOK
    <3>2. down' \in Seq(Frames)
      BY <3>1, ReplyOK DEF Typed, Kinds
    <3> QED
      BY <2>1, <3>1, <3>2, TakeOK DEF ServeAuth, Typed, RelayOK, BoundOK
  <2>2. CASE ServeJoin
    <3>1. Take("join") /\ joined' \in BOOLEAN /\ base' \subseteq Edits
      BY <2>2 DEF ServeJoin, Typed, RelayOK
    <3>2. PICK a \in {"step1", "unknown", "forbidden"}, c \in {{}, doc} : Reply(a, c)
      BY <2>2 DEF ServeJoin
    <3>3. down' \in Seq(Frames)
      BY <3>2, ReplyOK DEF Typed, RelayOK, Kinds
    <3> QED
      BY <2>2, <3>1, <3>3, TakeOK DEF ServeJoin, Typed, RelayOK, BoundOK
  <2>3. CASE ServeState
    <3>1. Take("step1") /\ (Reply("step2", doc \ Head(up).edits) \/ UNCHANGED down)
      BY <2>3 DEF ServeState
    <3>2. doc \ Head(up).edits \in SUBSET Edits
      BY DEF Typed, RelayOK
    <3>3. down' \in Seq(Frames)
      BY <3>1, <3>2, ReplyOK DEF Typed, WireOK, Kinds
    <3> QED
      BY <2>3, <3>1, <3>3, TakeOK DEF ServeState, Typed, RelayOK, BoundOK
  <2>4. CASE ServeWrite
    <3>1. Take("write") /\ Write(Head(up).edits)
      BY <2>4 DEF ServeWrite
    <3>2. /\ doc' \subseteq Edits /\ down' \in Seq(Frames)
          /\ troubles' \in 0 .. MaxTroubles
      BY <3>1, TakeOK, WriteOK
    <3> QED
      BY <2>4, <3>1, <3>2, TakeOK DEF ServeWrite, Typed, RelayOK, BoundOK
  <2>5. CASE ServeFirst
    BY <2>5, TakeOK DEF ServeFirst, Typed, RelayOK, BoundOK, WireOK
  <2>6. CASE ServeLast
    <3>1. /\ Take("last") /\ part' = {}
          /\ Write(Head(up).edits) \/ UNCHANGED <<down, doc, troubles>>
          /\ UNCHANGED <<client, session, joined, base, fwd, queue, size>>
      BY <2>6 DEF ServeLast
    <3>2. /\ doc' \subseteq Edits /\ down' \in Seq(Frames)
          /\ troubles' \in 0 .. MaxTroubles
      BY <3>1, TakeOK, WriteOK DEF Typed, RelayOK, WireOK, BoundOK
    <3> QED
      BY <3>1, <3>2, TakeOK DEF Typed, RelayOK, BoundOK
  <2> QED
    BY <1>3, <2>1, <2>2, <2>3, <2>4, <2>5, <2>6 DEF Serve
<1>4. CASE Forward
  <2>1. /\ queue # <<>> /\ queue' = Tail(queue)
        /\ Reply("update", Head(queue)) \/ UNCHANGED down
        /\ UNCHANGED <<client, up, doc, session, joined, base, fwd, part,
                       size, troubles>>
    BY <1>4 DEF Forward
  <2>2. Head(queue) \in SUBSET Edits /\ queue' \in Seq(SUBSET Edits)
    BY <2>1, HeadTail DEF Typed, RelayOK
  <2>3. down' \in Seq(Frames)
    BY <2>1, <2>2, ReplyOK DEF Typed, WireOK, Kinds
  <2>4. sock = "open"
    BY <2>1, OnOpen DEF Typed
  <2> QED
    BY <2>1, <2>2, <2>3, <2>4
       DEF Typed, EditorOK, FlagsOK, WireOK, RelayOK, BoundOK, Attached
<1>5. CASE Receive
  <2> SUFFICES /\ up' \in Seq(Frames) /\ down' \in Seq(Frames)
               /\ EditorOK' /\ FlagsOK'
               /\ UNCHANGED <<doc, ends, size, troubles>> /\ sock' = "open"
    BY DEF Typed, WireOK, RelayOK, BoundOK, Attached
  <2>1. CASE ReceiveAuth
    <3>1. \E k \in {"granted", "denied"} : Got(k)
      BY <2>1 DEF ReceiveAuth
    <3>2. EditorOK'
      BY <2>1 DEF ReceiveAuth, Typed, EditorOK, Statuses
    <3>3. FlagsOK'
      BY <2>1 DEF ReceiveAuth, Typed, FlagsOK
    <3> QED
      BY <2>1, <3>1, <3>2, <3>3, GotOK DEF ReceiveAuth, Typed, WireOK
  <2>2. CASE ReceiveState
    <3>1. Got("step1") /\ up' = Sent(SyncFrames(local \ Head(down).edits))
      BY <2>2 DEF ReceiveState
    <3>2. Known({}) \subseteq Frames /\ local \ Head(down).edits \in SUBSET Edits
      BY KnownGrows DEF Typed, EditorOK
    <3>3. up' \in Seq(Frames)
      BY <3>1, <3>2, SyncFramesOK, SentOK DEF Typed, WireOK
    <3>4. EditorOK' /\ FlagsOK'
      BY <2>2 DEF ReceiveState, SyncedBy, Typed, EditorOK, FlagsOK
    <3> QED
      BY <2>2, <3>1, <3>3, <3>4, GotOK DEF ReceiveState
  <2>3. CASE ReceiveEdits
    <3>1. PICK k \in {"step2", "update"} : Got(k) /\ synced' = SyncedBy(k)
      BY <2>3 DEF ReceiveEdits
    <3>2. local' = local \union Head(down).edits
      BY <2>3 DEF ReceiveEdits
    <3>3. EditorOK'
      BY <2>3, <3>1, <3>2, GotOK DEF ReceiveEdits, Typed, EditorOK
    <3>4. FlagsOK'
      BY <2>3, <3>1 DEF ReceiveEdits, SyncedBy, Typed, FlagsOK
    <3> QED
      BY <2>3, <3>1, <3>3, <3>4, GotOK DEF ReceiveEdits, Typed, WireOK
  <2>4. CASE ReceiveError
    <3>1. \E k \in {"limited", "unknown", "forbidden"} : Got(k)
      BY <2>4 DEF ReceiveError
    <3>2. EditorOK'
      BY <2>4 DEF ReceiveError, Typed, EditorOK
    <3>a. resync' \in BOOLEAN /\ watchdog' \in BOOLEAN
      BY <2>4 DEF ReceiveError, ResyncOnLimit, Typed, FlagsOK
    <3>b. FlagsOK'
      BY <2>4, <3>a DEF ReceiveError, Typed, FlagsOK
    <3> QED
      BY <2>4, <3>1, <3>2, <3>b, GotOK DEF ReceiveError, Typed, WireOK
  <2> QED
    BY <1>5, <2>1, <2>2, <2>3, <2>4 DEF Receive
<1>6. CASE ResyncFires
  <2>1. up' \in Seq(Frames)
    BY <1>6, HandshakeOK, KnownGrows, Wider, SentOK
       DEF ResyncFires, Typed, WireOK, EditorOK
  <2>2. BoundOK'
    BY <1>6, TimeoutOK DEF ResyncFires, Typed
  <2>3. Attached'
    BY <1>6 DEF ResyncFires, Sent, Typed, Attached
  <2>4. EditorOK' /\ RelayOK' /\ WireOK'
    BY <1>6, <2>1 DEF ResyncFires, Typed, EditorOK, RelayOK, WireOK
  <2>5. FlagsOK'
    BY <1>6 DEF ResyncFires, Typed, FlagsOK
  <2> QED
    BY <2>2, <2>3, <2>4, <2>5 DEF Typed
<1>7. CASE WatchdogFires
  <2>1. BoundOK'
    BY <1>7, TimeoutOK DEF WatchdogFires, Typed
  <2>2. EditorOK' /\ RelayOK' /\ WireOK' /\ Attached'
    BY <1>7 DEF WatchdogFires, Typed, EditorOK, RelayOK, WireOK, Attached
  <2>3. FlagsOK'
    BY <1>7 DEF WatchdogFires, Typed, FlagsOK
  <2> QED
    BY <2>1, <2>2, <2>3 DEF Typed
<1>8. CASE Beat
  <2>1. EditorOK' /\ RelayOK' /\ WireOK' /\ Attached' /\ BoundOK'
    BY <1>8 DEF Beat, Typed, EditorOK, RelayOK, WireOK, Attached, BoundOK
  <2>2. FlagsOK'
    BY <1>8 DEF Beat, Typed, FlagsOK
  <2> QED
    BY <2>1, <2>2 DEF Typed
<1> QED
  BY <1>1, <1>2, <1>3, <1>4, <1>5, <1>6, <1>7, <1>8

\* A token that lapses closes the session it opened, or only changes what is
\* under way.
LEMMA ExpireType == ASSUME Typed, Expire PROVE Typed'
<1> USE DEF timers
<1>1. BoundOK'
  BY TroubleOK DEF Expire, Typed
<1>2. UNCHANGED <<local, echoes, asked, cancelled, old, orphan, doc>>
  BY DEF Expire
<1>3. CASE session
  <2>1. /\ token' \in {"fresh", "stale"} /\ Forget /\ StopTimers
        /\ ScheduleReconnect("disconnected") /\ ClearWire /\ Fresh(FALSE)
    BY <1>3 DEF Expire
  <2>2. /\ attempts' \in 0 .. MaxAttempts /\ timer' \in BOOLEAN
        /\ status' \in Statuses
    BY <2>1, ScheduleOK DEF Typed, EditorOK, FlagsOK, Statuses
  <2>3. RelayOK' /\ WireOK' /\ Attached'
    BY <1>2, <2>1, ClearedOK, ClearedWireOK DEF Typed, Attached, Forget
  <2>4. EditorOK'
    BY <1>2, <2>1, <2>2 DEF Forget, Typed, EditorOK
  <2>5. FlagsOK'
    BY <1>2, <2>1, <2>2 DEF Forget, StopTimers, Typed, FlagsOK
  <2> QED
    BY <1>1, <2>3, <2>4, <2>5 DEF Typed
<1>4. CASE ~session
  <2>1. /\ token' = "stale"
        /\ up' = [i \in DOMAIN up |-> IF up[i].kind = "fresh"
                                      THEN Frame("stale", {}) ELSE up[i]]
        /\ UNCHANGED <<sock, status, authed, synced, attempts, timers, down, ends>>
    BY <1>4 DEF Expire
  <2>2. Frame("stale", {}) \in Frames
    BY FrameOK DEF Kinds
  <2>3. up' \in Seq(Frames)
    BY <2>1, <2>2, Lapsed DEF Typed, WireOK
  <2>4. up = <<>> => up' = <<>>
    BY <2>1
  <2>5. EditorOK' /\ FlagsOK'
    BY <1>2, <2>1 DEF Typed, EditorOK, FlagsOK
  <2>6. WireOK' /\ RelayOK' /\ Attached'
    BY <1>2, <2>1, <2>3, <2>4 DEF Typed, WireOK, RelayOK, Attached, ends
  <2> QED
    BY <1>1, <2>5, <2>6 DEF Typed
<1> QED
  BY <1>3, <1>4

LEMMA TypeStep == ASSUME Typed, [Next]_vars PROVE Typed'
<1>1. CASE Next
  BY <1>1, SocketType, FrameType, ExpireType DEF Next
<1>2. CASE UNCHANGED vars
  BY <1>2 DEF vars, client, timers, wire, ends, Typed, EditorOK, FlagsOK, WireOK,
              RelayOK, BoundOK, Attached
<1> QED
  BY <1>1, <1>2

\* The state of the link keeps its type, whatever happens to sockets, frames,
\* tokens and timers: nothing is under way without an open socket.
THEOREM TypeCorrect == Spec => []TypeOK
<1>1. Init => Typed
  BY InitType
<1>2. Typed /\ [Next]_vars => Typed'
  BY TypeStep
<1>3. Typed => TypeOK
  BY Parts DEF Typed, Attached
<1> QED
  BY <1>1, <1>2, <1>3, PTL DEF Spec
-----------------------------------------------------------------------------
(* Coherence *)

\* The user cancels while no socket is opening and no token is refreshed, and an
\* abandoned socket reports its close before the next one is opened.
Calm == Coincide \intersect {"cancelOpening", "cancelRefresh", "staleClose"} = {}

LEMMA LinkInit == Init => LinkInv
<1> SUFFICES ASSUME Init PROVE LinkInv
  OBVIOUS
<1>1. Carried
  BY NoFrames DEF Init, Carried
<1> QED
  BY <1>1 DEF Init, LinkInv, OnSocket, Abandoned, Unasked, OneSocket, CancelHolds

\* Without a socket nothing is carried.
LEMMA ClearedCarried ==
    ASSUME NEW task, ClearWire, Fresh(task), sock' # "open"
    PROVE  Carried'
  BY NoFrames DEF ClearWire, Fresh, Carried

\* Frames and contents that do not change, and frames that are taken or added.
LEMMA CarriedOn ==
    ASSUME Carried, UNCHANGED <<joined, base, local>>, doc \subseteq doc',
           sock' = sock, synced' => synced,
           up' \in Seq(Known(local)), down' \in Seq(Answers(joined, base, local))
    PROVE  Carried'
  BY DEF Carried

LEMMA TakeCarried ==
    ASSUME Carried, NEW k, Take(k)
    PROVE  Head(up) \in Known(local) /\ up' \in Seq(Known(local))
  BY HeadTail DEF Take, Carried

LEMMA GotCarried ==
    ASSUME Carried, NEW k, Got(k)
    PROVE  /\ Head(down) \in Answers(joined, base, local)
           /\ down' \in Seq(Answers(joined, base, local))
  BY HeadTail DEF Got, Carried

LEMMA ReplyCarried ==
    ASSUME Carried, NEW k \in Kinds, NEW s \in SUBSET Edits, Reply(k, s),
           k = "step2" => joined /\ base \subseteq s \union local
    PROVE  down' \in Seq(Answers(joined, base, local))
<1>1. Frame(k, s) \in Answers(joined, base, local)
  BY FrameOK DEF Answers
<1> QED
  BY <1>1, Appended DEF Reply, Carried

LEMMA WriteCarried ==
    ASSUME Carried, NEW s \in SUBSET Edits, Write(s)
    PROVE  doc \subseteq doc' /\ down' \in Seq(Answers(joined, base, local))
<1>1. CASE Reply("limited", {}) /\ UNCHANGED doc
  BY <1>1, ReplyCarried DEF Kinds
<1>2. CASE /\ doc' = IF joined THEN doc \union s ELSE doc
           /\ UNCHANGED <<down, troubles>>
  BY <1>2 DEF Carried
<1> QED
  BY <1>1, <1>2 DEF Write

\* connect(), when no abandoned socket is left.
LEMMA ConnectLink ==
    ASSUME Typed, LinkInv, Connect(FALSE), old = "none", UNCHANGED old,
           UNCHANGED <<local, doc, synced, resync, watchdog, pong>>,
           cancelled' => cancelled /\ sock # "none"
    PROVE  LinkInv'
<1>1. CASE MayConnect
  <2>1. /\ sock = "none" /\ sock' = "opening" /\ timer' = FALSE
        /\ orphan' = (orphan \/ sock = "open") /\ ClearWire /\ Fresh(FALSE)
    BY <1>1 DEF Connect, MayConnect
  <2>2. Carried'
    BY <2>1, ClearedCarried
  <2>3. OnSocket' /\ OneSocket' /\ Abandoned' /\ Unasked' /\ CancelHolds'
    BY <2>1 DEF LinkInv, OnSocket, OneSocket, Abandoned, Unasked, CancelHolds
  <2> QED
    BY <2>2, <2>3 DEF LinkInv
<1>2. CASE ~MayConnect
  <2>1. timer' = FALSE /\ UNCHANGED <<sock, status, orphan, up, down, ends>>
    BY <1>2 DEF Connect
  <2> QED
    BY <2>1 DEF LinkInv, OnSocket, OneSocket, Abandoned, Unasked, CancelHolds, Carried,
            ends
<1> QED
  BY <1>1, <1>2

LEMMA SocketLink ==
    ASSUME Calm, Typed, LinkInv,
           \/ HandleOpen \/ Lose \/ Die \/ NetworkOffline \/ Closed
           \/ Reconnect \/ Cancel \/ OldCloses \/ Retry
           \/ RefreshAndRetry \/ Deadline
    PROVE  LinkInv'
<1> USE DEF timers
<1>1. CASE HandleOpen
  <2>1. /\ sock = "opening" /\ sock' = "open" /\ Fresh(TRUE)
        /\ up' = <<Frame(token, {})>> \o Handshake
        /\ UNCHANGED <<local, synced, timer, resync, pong, asked, cancelled, old,
                       orphan, down, doc>>
    BY <1>1 DEF HandleOpen
  <2>2. ~synced /\ ~cancelled /\ old = "none" /\ down = <<>>
    BY <2>1 DEF LinkInv, OnSocket, CancelHolds, Abandoned, Typed, Attached
  <2>3. /\ Frame(token, {}) \in Known(local)
        /\ Handshake \in Seq(Known(local))
    BY FrameOK, HandshakeOK DEF Typed, EditorOK, Known, Kinds
  <2>4. up' \in Seq(Known(local)) /\ <<>> \in Seq(Answers(FALSE, {}, local))
    BY <2>1, <2>3, OneFrame, Joined, NoFrames
  <2>5. Carried'
    BY <2>1, <2>2, <2>4 DEF Carried, Fresh
  <2>6. OnSocket' /\ Abandoned' /\ Unasked' /\ OneSocket' /\ CancelHolds'
    BY <2>1, <2>2 DEF LinkInv, OnSocket, Abandoned, Unasked, OneSocket, CancelHolds
  <2> QED
    BY <2>5, <2>6 DEF LinkInv
<1>2. CASE Lose \/ Closed
  <2>1. sock # "none" /\ HandleClose
    BY <1>2 DEF Lose, Closed
  <2>2. /\ sock' = "none" /\ synced' = FALSE /\ ClearWire /\ Fresh(FALSE)
        /\ pong' = FALSE /\ UNCHANGED <<asked, cancelled, old, orphan>>
    BY <2>1 DEF HandleClose, Forget, StopTimers
  <2>3. Carried'
    BY <2>2, ClearedCarried
  <2> QED
    BY <2>1, <2>2, <2>3 DEF LinkInv, OnSocket, Abandoned, Unasked, OneSocket, CancelHolds
<1>3. CASE Die \/ NetworkOffline
  <2>1. /\ sock \in {"open", "opening", "dead"} /\ sock' \in {"dead", "closing"}
        /\ ClearWire /\ Fresh(FALSE) /\ UNCHANGED <<asked, cancelled, old, orphan>>
    BY <1>3 DEF Die, NetworkOffline
  <2>2. Carried'
    BY <2>1, ClearedCarried
  <2> QED
    BY <2>1, <2>2 DEF LinkInv, OnSocket, Abandoned, Unasked, OneSocket, CancelHolds
<1>4. CASE Reconnect
  <2>1. timer /\ old = "none" /\ Connect(FALSE)
    BY <1>4 DEF Reconnect, Calm
  <2>2. ~cancelled
    BY <2>1 DEF LinkInv, CancelHolds
  <2> QED
    BY <1>4, <2>1, <2>2, ConnectLink DEF Reconnect
<1>5. CASE Retry \/ RefreshAndRetry
  <2>1. old = "none" /\ Connect(FALSE)
    BY <1>5 DEF Retry, RefreshAndRetry, Calm
  <2>2. Retry => cancelled' = FALSE
    BY DEF Retry
  <2>3. RefreshAndRetry => cancelled' = cancelled /\ asked
    BY DEF RefreshAndRetry
  <2>4. ~cancelled'
    BY <1>5, <2>2, <2>3 DEF LinkInv, Unasked
  <2> QED
    BY <1>5, <2>1, <2>4, ConnectLink DEF Retry, RefreshAndRetry
<1>6. CASE Cancel
  <2>1. /\ old = "none" /\ sock # "opening" /\ sock' = "none"
        /\ synced' = FALSE /\ timer' = FALSE /\ pong' = FALSE
        /\ resync' = FALSE /\ watchdog' = FALSE /\ status' = "disconnected"
        /\ ClearWire /\ Fresh(FALSE) /\ UNCHANGED orphan /\ ~asked'
    BY <1>6 DEF Cancel, Calm, Forget, StopTimers, DisconnectTimer
  <2>2. old' # "none" => old' = "open"
    BY <1>6, <2>1 DEF Cancel
  <2>3. Carried'
    BY <2>1, ClearedCarried
  <2> QED
    BY <2>1, <2>2, <2>3 DEF LinkInv, OnSocket, Abandoned, Unasked, OneSocket, CancelHolds
<1>7. CASE OldCloses
  <2>1. old = "open" /\ sock = "none" /\ status = "disconnected"
    BY <1>7 DEF OldCloses, LinkInv, Abandoned
  <2>2. /\ sock' = "none" /\ synced' = FALSE /\ old' = "none"
        /\ pong' = FALSE /\ resync' = FALSE /\ watchdog' = FALSE
        /\ orphan' = (orphan \/ sock \in {"opening", "open"})
        /\ timer' = timer /\ ClearWire /\ Fresh(FALSE) /\ UNCHANGED <<asked, cancelled>>
    BY <1>7, <2>1 DEF OldCloses, Forget, StopTimers
  <2>3. Carried'
    BY <2>2, ClearedCarried
  <2>4. ~orphan'
    BY <2>1, <2>2 DEF LinkInv, OneSocket
  <2> QED
    BY <2>1, <2>2, <2>3, <2>4
       DEF LinkInv, OnSocket, Abandoned, Unasked, OneSocket, CancelHolds
<1>8. CASE Deadline
  <2>1. /\ sock # "none" /\ pong' = FALSE
        /\ UNCHANGED <<local, status, synced, timer, resync, watchdog,
                       asked, cancelled, old, orphan, doc>>
    BY <1>8 DEF Deadline, LinkInv, OnSocket
  <2>2. old = "none" /\ ~cancelled
    BY <2>1 DEF LinkInv, Abandoned, CancelHolds
  <2>3. CASE sock' = "closing" /\ ClearWire /\ Fresh(FALSE)
    <3>1. Carried'
      BY <2>3, ClearedCarried
    <3> QED
      BY <2>1, <2>2, <2>3, <3>1
         DEF LinkInv, OnSocket, Abandoned, Unasked, OneSocket, CancelHolds
  <2>4. CASE UNCHANGED <<sock, wire, ends>>
    BY <2>1, <2>2, <2>4
       DEF LinkInv, OnSocket, Abandoned, Unasked, OneSocket, CancelHolds, Carried, wire, ends
  <2> QED
    BY <1>8, <2>3, <2>4 DEF Deadline
<1> QED
  BY <1>1, <1>2, <1>3, <1>4, <1>5, <1>6, <1>7, <1>8

\* A step over an open socket that leaves socket and user alone.
LEMMA OpenLink ==
    ASSUME Typed, LinkInv, sock = "open",
           UNCHANGED <<sock, cancelled, old, orphan, pong>>, Carried'
    PROVE  LinkInv'
  BY DEF LinkInv, OnSocket, Abandoned, Unasked, OneSocket, CancelHolds

LEMMA ServeLink == ASSUME Typed, LinkInv, Serve PROVE LinkInv'
<1> USE DEF timers, client
<1>1. PICK k \in Kinds : Take(k)
  BY DEF Serve, ServeAuth, ServeJoin, ServeState, ServeWrite, ServeFirst, ServeLast,
         Kinds
<1>2. /\ sock = "open" /\ Carried /\ UNCHANGED client
      /\ Head(up).edits \in SUBSET Edits
  BY <1>1, TakeOK DEF Serve, ServeAuth, ServeJoin, ServeState, ServeWrite,
         ServeFirst, ServeLast, LinkInv
<1>3. Head(up) \in Known(local) /\ up' \in Seq(Known(local))
  BY <1>1, <1>2, TakeCarried
<1> SUFFICES Carried'
  BY <1>2, OpenLink
<1>4. CASE ServeAuth
  <2>1. \E a \in {"granted", "denied"} : Reply(a, {})
    BY <1>4 DEF ServeAuth
  <2>2. down' \in Seq(Answers(joined, base, local))
    BY <1>2, <2>1, ReplyCarried DEF Kinds
  <2> QED
    BY <1>2, <1>3, <1>4, <2>2, CarriedOn DEF ServeAuth
<1>5. CASE ServeJoin
  <2>1. PICK a \in {"step1", "unknown", "forbidden"}, c \in {{}, doc} : Reply(a, c)
    BY <1>5 DEF ServeJoin
  <2>2. down' \in Seq(Answers(joined, base, local))
    BY <1>2, <2>1, ReplyCarried DEF Typed, RelayOK, Kinds
  <2>3. CASE UNCHANGED <<joined, base>>
    BY <1>2, <1>3, <1>5, <2>2, <2>3, CarriedOn DEF ServeJoin
  <2>4. CASE ~joined /\ joined' /\ base' = doc
    <3>1. ~synced
      BY <1>2, <2>4 DEF Carried
    <3>2. Answers(joined, base, local) \subseteq Answers(joined', base', local)
      BY <2>4 DEF Answers
    <3>3. down' \in Seq(Answers(joined', base', local))
      BY <2>2, <3>2, Wider
    <3>4. UNCHANGED <<doc, local, synced>>
      BY <1>2, <1>5 DEF ServeJoin
    <3>5. up' \in Seq(Known(local'))
      BY <1>3, <3>4
    <3>6. down' \in Seq(Answers(joined', base', local'))
      BY <3>3, <3>4
    <3> QED
      BY <2>4, <3>1, <3>4, <3>5, <3>6 DEF Carried
  <2> QED
    BY <1>5, <2>3, <2>4 DEF ServeJoin, Typed, RelayOK
<1>6. CASE ServeState
  <2>1. Head(up).kind = "step1" /\ Head(up).edits \subseteq local
    BY <1>3, <1>6 DEF ServeState, Take, Known
  <2>2. CASE joined /\ Reply("step2", doc \ Head(up).edits)
    <3>1. base \subseteq (doc \ Head(up).edits) \union local
      BY <1>2, <2>1, <2>2 DEF Carried
    <3>2. doc \ Head(up).edits \in SUBSET Edits
      BY DEF Typed, RelayOK
    <3>3. down' \in Seq(Answers(joined, base, local))
      BY <1>2, <2>2, <3>1, <3>2, ReplyCarried DEF Kinds
    <3> QED
      BY <1>2, <1>3, <1>6, <3>3, CarriedOn DEF ServeState, ends
  <2>3. CASE UNCHANGED down
    <3>1. down' \in Seq(Answers(joined, base, local))
      BY <1>2, <2>3 DEF Carried
    <3> QED
      BY <1>2, <1>3, <1>6, <3>1, CarriedOn DEF ServeState, ends
  <2> QED
    BY <1>6, <2>2, <2>3 DEF ServeState
<1>7. CASE ServeWrite \/ ServeFirst \/ ServeLast
  <2>1. UNCHANGED <<joined, base>>
    BY <1>7 DEF ServeWrite, ServeFirst, ServeLast, ends
  <2>2. Write(Head(up).edits) \/ UNCHANGED <<doc, down>>
    BY <1>7 DEF ServeWrite, ServeFirst, ServeLast
  <2>3. doc \subseteq doc' /\ down' \in Seq(Answers(joined, base, local))
    BY <1>2, <2>2, WriteCarried DEF Carried
  <2> QED
    BY <1>2, <1>3, <2>1, <2>3, CarriedOn
<1> QED
  BY <1>4, <1>5, <1>6, <1>7 DEF Serve

LEMMA ReceiveLink == ASSUME Typed, LinkInv, Receive PROVE LinkInv'
<1> USE DEF timers
<1>1. PICK k \in Kinds : Got(k)
  BY DEF Receive, ReceiveAuth, ReceiveState, ReceiveEdits, ReceiveError, Kinds
<1>2. /\ sock = "open" /\ Carried /\ Head(down).edits \in SUBSET Edits
      /\ UNCHANGED <<sock, pong, cancelled, old, orphan, doc, ends>>
  BY <1>1, GotOK DEF Receive, ReceiveAuth, ReceiveState, ReceiveEdits, ReceiveError,
         LinkInv
<1>3. /\ Head(down) \in Answers(joined, base, local)
      /\ down' \in Seq(Answers(joined, base, local))
  BY <1>1, <1>2, GotCarried
<1> SUFFICES Carried'
  BY <1>2, OpenLink
<1>4. CASE ReceiveAuth \/ ReceiveError
  <2>1. UNCHANGED <<local, synced, up>>
    BY <1>4 DEF ReceiveAuth, ReceiveError
  <2> QED
    BY <1>2, <1>3, <2>1 DEF Carried, ends
<1>5. CASE ReceiveState
  <2>1. /\ up' = Sent(SyncFrames(local \ Head(down).edits)) /\ local' = local
        /\ synced' = synced
    BY <1>5 DEF ReceiveState, SyncedBy, Typed, FlagsOK
  <2>2. Known({}) \subseteq Known(local) /\ local \ Head(down).edits \in SUBSET Edits
    BY KnownGrows DEF Typed, EditorOK
  <2>3. up' \in Seq(Known(local))
    BY <1>2, <2>1, <2>2, SyncFramesOK, SentOK DEF Carried
  <2> QED
    BY <1>2, <1>3, <2>1, <2>3 DEF Carried, ends
<1>6. CASE ReceiveEdits
  <2>1. PICK j \in {"step2", "update"} : Got(j) /\ synced' = SyncedBy(j)
    BY <1>6 DEF ReceiveEdits
  <2>2. local' = local \union Head(down).edits /\ UNCHANGED up
    BY <1>6 DEF ReceiveEdits
  <2>3. up' \in Seq(Known(local')) /\ down' \in Seq(Answers(joined, base, local'))
    BY <1>2, <1>3, <2>2, KnownGrows, AnswersGrow, Wider DEF Carried
  <2>4. synced' => joined /\ base \subseteq local'
    <3>1. CASE synced
      BY <1>2, <2>2, <3>1 DEF Carried
    <3>2. CASE j = "step2"
      BY <1>3, <2>1, <2>2, <3>2 DEF Got, Answers
    <3> QED
      BY <2>1, <3>1, <3>2 DEF SyncedBy
  <2> QED
    BY <1>2, <2>3, <2>4 DEF Carried, ends
<1> QED
  BY <1>4, <1>5, <1>6 DEF Receive

\* Edits, the forwarding task, the timers and the lapse of a token.
LEMMA OtherLink ==
    ASSUME Typed, LinkInv, \/ \E e \in Edits : Edit(e) \/ PeerEdit(e)
                           \/ Forward \/ ResyncFires \/ WatchdogFires \/ Beat
                           \/ Expire
    PROVE  LinkInv'
<1> USE DEF timers
<1>0. Carried
  BY DEF LinkInv
<1>1. ASSUME NEW e \in Edits, Edit(e) PROVE LinkInv'
  <2>1. /\ local' = local \union {e} /\ up' = Sent(SyncFrames({e}))
        /\ UNCHANGED <<sock, status, synced, timer, resync, watchdog, pong,
                       asked, cancelled, old, orphan, down, doc, joined, base>>
    BY <1>1 DEF Edit, ends
  <2>2. /\ Known({}) \subseteq Known(local) /\ Known(local) \subseteq Known(local')
        /\ Answers(joined, base, local) \subseteq Answers(joined, base, local')
    BY <2>1, KnownGrows, AnswersGrow
  <2>3. up' \in Seq(Known(local))
    BY <1>0, <2>1, <2>2, SyncFramesOK, SentOK DEF Carried
  <2>4. up' \in Seq(Known(local')) /\ down \in Seq(Answers(joined, base, local'))
    BY <1>0, <2>2, <2>3, Wider DEF Carried
  <2>5. Carried'
    BY <1>0, <2>1, <2>4 DEF Carried
  <2> QED
    BY <2>1, <2>5 DEF LinkInv, OnSocket, Abandoned, Unasked, OneSocket, CancelHolds
<1>2. ASSUME NEW e \in Edits, PeerEdit(e) PROVE LinkInv'
  <2>1. doc \subseteq doc' /\ UNCHANGED <<client, wire, joined, base>>
    BY <1>2 DEF PeerEdit
  <2>2. Carried'
    BY <1>0, <2>1, CarriedOn DEF client, wire, Carried
  <2> QED
    BY <2>1, <2>2 DEF client, LinkInv, OnSocket, Abandoned, Unasked, OneSocket, CancelHolds
<1>3. CASE Forward
  <2>1. /\ queue # <<>>
        /\ Reply("update", Head(queue)) \/ UNCHANGED down
        /\ UNCHANGED <<client, up, doc, joined, base>>
    BY <1>3 DEF Forward
  <2>2. Head(queue) \in SUBSET Edits
    BY <2>1, HeadTail DEF Typed, RelayOK
  <2>3. down' \in Seq(Answers(joined, base, local))
    BY <1>0, <2>1, <2>2, ReplyCarried DEF Kinds, Carried
  <2>4. Carried'
    BY <1>0, <2>1, <2>3, CarriedOn DEF client, Carried
  <2> QED
    BY <2>1, <2>4 DEF client, LinkInv, OnSocket, Abandoned, Unasked, OneSocket, CancelHolds
<1>4. CASE ResyncFires
  <2>1. /\ resync /\ up' = Sent(Handshake)
        /\ UNCHANGED <<local, sock, status, synced, timer, pong, asked, cancelled, old,
                       orphan, down, doc, joined, base>>
    BY <1>4 DEF ResyncFires, ends
  <2>2. up' \in Seq(Known(local))
    BY <1>0, <2>1, HandshakeOK, SentOK DEF Carried, Typed, EditorOK
  <2>3. Carried'
    BY <1>0, <2>1, <2>2, CarriedOn DEF Carried
  <2> QED
    BY <2>1, <2>3 DEF LinkInv, OnSocket, Abandoned, Unasked, OneSocket, CancelHolds
<1>5. CASE WatchdogFires
  <2>1. /\ watchdog
        /\ UNCHANGED <<local, sock, status, synced, timer, pong, asked, cancelled, old,
                       orphan, wire, doc, joined, base>>
    BY <1>5 DEF WatchdogFires, ends
  <2>2. Carried'
    BY <1>0, <2>1, CarriedOn DEF wire, Carried
  <2> QED
    BY <2>1, <2>2 DEF LinkInv, OnSocket, Abandoned, Unasked, OneSocket, CancelHolds
<1>6. CASE Beat
  <2>1. /\ sock \in {"open", "dead"}
        /\ UNCHANGED <<local, sock, status, synced, timer, resync, watchdog,
                       asked, cancelled, old, orphan, wire, doc, joined, base>>
    BY <1>6 DEF Beat, ends
  <2>2. Carried'
    BY <1>0, <2>1, CarriedOn DEF wire, Carried
  <2> QED
    BY <2>1, <2>2 DEF LinkInv, OnSocket, Abandoned, Unasked, OneSocket, CancelHolds
<1>7. CASE Expire /\ session
  <2>1. /\ sock = "open" /\ sock' = "none" /\ synced' = FALSE /\ pong' = FALSE
        /\ ClearWire /\ Fresh(FALSE) /\ UNCHANGED <<asked, cancelled, old, orphan>>
    BY <1>7 DEF Expire, Forget, StopTimers, Typed, Attached
  <2>2. Carried'
    BY <2>1, ClearedCarried
  <2> QED
    BY <2>1, <2>2 DEF LinkInv, OnSocket, Abandoned, Unasked, OneSocket, CancelHolds
<1>8. CASE Expire /\ ~session
  <2>1. /\ up' = [i \in DOMAIN up |-> IF up[i].kind = "fresh"
                                      THEN Frame("stale", {}) ELSE up[i]]
        /\ UNCHANGED <<local, sock, status, synced, timer, resync, watchdog, pong,
                       asked, cancelled, old, orphan, down, doc, joined, base>>
    BY <1>8 DEF Expire, ends
  <2>2. Frame("stale", {}) \in Known(local)
    BY FrameOK DEF Known, Kinds
  <2>3. up' \in Seq(Known(local))
    BY <1>0, <2>1, <2>2, Lapsed DEF Carried
  <2>4. Carried'
    BY <1>0, <2>1, <2>3, CarriedOn DEF Carried
  <2> QED
    BY <2>1, <2>4 DEF LinkInv, OnSocket, Abandoned, Unasked, OneSocket, CancelHolds
<1> QED
  BY <1>1, <1>2, <1>3, <1>4, <1>5, <1>6, <1>7, <1>8

LEMMA LinkStep == ASSUME Calm, Typed, LinkInv, [Next]_vars PROVE LinkInv'
<1>1. CASE Next
  BY <1>1, SocketLink, ServeLink, ReceiveLink, OtherLink DEF Next
<1>2. CASE UNCHANGED vars
  BY <1>2 DEF vars, client, timers, wire, ends, LinkInv, OnSocket, Abandoned,
              Unasked, Carried, OneSocket, CancelHolds
<1> QED
  BY <1>1, <1>2

\* What the editor believes of its connection is so, for any edits, any number
\* of losses, lapsed tokens and retries, a lagging relay and late fragments:
\* a document shown as synced contains what the relay had at the join, no open
\* socket is forgotten, and nothing is opened or scheduled while a cancel holds.
THEOREM LinkCoherent == Calm /\ Spec => []Coherent
<1> DEFINE IInv == Typed /\ LinkInv
<1>1. Init => IInv
  BY InitType, LinkInit
<1>2. Calm /\ IInv /\ [Next]_vars => IInv'
  BY TypeStep, LinkStep
<1>3. IInv => Coherent
  BY DEF LinkInv, Carried, Coherent, SyncedHasBase
<1>4. Calm => Calm'
  BY DEF Calm
<1> HIDE DEF IInv
<1> QED
  BY <1>1, <1>2, <1>3, <1>4, PTL DEF Spec
=============================================================================
