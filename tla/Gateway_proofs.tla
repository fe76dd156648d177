---------------------------- MODULE Gateway_proofs ----------------------------
(* Proofs about Permissions and Gateway: what the resolver guarantees; the      *)
(* relay's connections stay well typed, and, unless a client authenticates      *)
(* twice or a share is withdrawn from a connected client, frames and Y.Docs are *)
(* for those who joined, and no connection slot leaks.                          *)
EXTENDS Gateway, FiniteSetTheorems, SequenceTheorems, TLAPS

-----------------------------------------------------------------------------
(* What the resolver of permissions.rs guarantees for every document and    *)
(* every caller.                                                            *)

\* A set of levels that has None has a highest one.
LEMMA HighestIsHighest ==
    ASSUME NEW S \in SUBSET Levels, None \in S
    PROVE  Highest(S) \in S /\ \A k \in S : k <= Highest(S)
<1>1. \E l \in S : \A k \in S : k <= l
  <2>1. CASE Owner \in S
    BY <2>1 DEF Levels, Owner
  <2>2. CASE Owner \notin S /\ Editor \in S
    BY <2>2 DEF Levels, Owner, Editor
  <2>3. CASE Owner \notin S /\ Editor \notin S /\ Viewer \in S
    BY <2>3 DEF Levels, Owner, Editor, Viewer
  <2>4. CASE Owner \notin S /\ Editor \notin S /\ Viewer \notin S
    BY <2>4 DEF Levels, Owner, Editor, Viewer, None
  <2> QED
    BY <2>1, <2>2, <2>3, <2>4
<1> QED
  BY <1>1 DEF Highest

LEMMA GrantsType ==
    ASSUME NEW u, NEW role, NEW doc, NEW enforce
    PROVE  /\ Grants(u, role, doc, enforce) \in SUBSET Levels
           /\ None \in Grants(u, role, doc, enforce)
BY DEF Grants, Levels, None, Owner

\* The level of a user: the highest grant, at most the cap of the role.
LEMMA ResolveUser ==
    ASSUME NEW u, NEW role, NEW doc, NEW enforce
    PROVE  /\ Highest(Grants(u, role, doc, enforce)) \in Levels
           /\ Resolve(Member(u, role), doc, enforce) =
                Lesser(Highest(Grants(u, role, doc, enforce)), RoleCap(role))
<1>1. Highest(Grants(u, role, doc, enforce)) \in Levels
  BY GrantsType, HighestIsHighest
<1>2. /\ Member(u, role).kind = "user"
      /\ Member(u, role).user = u /\ Member(u, role).role = role
  BY DEF Member
<1> QED
  BY <1>1, <1>2 DEF Resolve

\* A read-only member edits nothing, whatever the shares and whoever owns the
\* document: the cap of the workspace role in resolve.
THEOREM ViewerCeiling ==
    ASSUME NEW u, NEW doc, NEW enforce
    PROVE  ~MayWrite(Member(u, "viewer"), doc, enforce)
<1>1. Resolve(Member(u, "viewer"), doc, enforce) <= Viewer
  BY ResolveUser DEF Lesser, RoleCap, Viewer, Levels, Owner, None
<1>2. Resolve(Member(u, "viewer"), doc, enforce) \in Nat
  BY ResolveUser DEF Lesser, RoleCap, Viewer, Levels, Owner, None
<1> QED
  BY <1>1, <1>2 DEF MayWrite, CheckPermission, Viewer, Editor

\* A workspace owner manages every document of the workspace.
THEOREM WorkspaceOwnerManages ==
    ASSUME NEW u, NEW doc, NEW enforce
    PROVE  MayManage(Member(u, "owner"), doc, enforce)
<1> DEFINE G == Grants(u, "owner", doc, enforce)
<1>1. Owner \in G
  BY DEF Grants, Levels, Owner, None
<1>2. Highest(G) = Owner
  BY <1>1, GrantsType, HighestIsHighest DEF Levels, Owner, None
<1>3. Resolve(Member(u, "owner"), doc, enforce) = Owner
  BY <1>2, ResolveUser DEF Lesser, RoleCap, Owner
<1>4. Member(u, "owner").kind = "user"
  BY DEF Member
<1> QED
  BY <1>3, <1>4 DEF MayManage, CheckPermission, Owner

\* A caller without an identity may do nothing, and the trusted loopback
\* caller everything.
THEOREM NoIdentityNoAccess ==
    ASSUME NEW doc, NEW enforce
    PROVE  /\ ~MayRead(Anonymous, doc, enforce)
           /\ MayManage(Service, doc, enforce)
<1>1. Resolve(Service, doc, enforce) = Owner
  BY DEF Resolve, Service
<1> QED
  BY <1>1 DEF MayRead, MayManage, CheckPermission, Anonymous, Service, Owner

\* More grants, no less access.
LEMMA MoreGrants ==
    ASSUME NEW u, NEW role, NEW d1, NEW d2, NEW e1, NEW e2,
           Grants(u, role, d1, e1) \subseteq Grants(u, role, d2, e2)
    PROVE  Resolve(Member(u, role), d1, e1) <= Resolve(Member(u, role), d2, e2)
<1>1. Highest(Grants(u, role, d1, e1)) <= Highest(Grants(u, role, d2, e2))
  BY GrantsType, HighestIsHighest
<1>2. RoleCap(role) \in Nat
  BY DEF RoleCap, Viewer, Owner
<1> QED
  BY <1>1, <1>2, ResolveUser DEF Lesser, Levels, None, Owner

\* Adding shares to a document takes no access away, and withdrawing the flag
\* that enforces private documents neither: the sources only ever grant.
THEOREM SharesOnlyGrant ==
    ASSUME NEW u, NEW role, NEW d1, NEW d2,
           d1.owner = d2.owner, d1.shares \subseteq d2.shares
    PROVE  /\ Resolve(Member(u, role), d1, TRUE)
                <= Resolve(Member(u, role), d2, TRUE)
           /\ Resolve(Member(u, role), d1, TRUE)
                <= Resolve(Member(u, role), d1, FALSE)
<1>1. Grants(u, role, d1, TRUE) \subseteq Grants(u, role, d2, TRUE)
  BY DEF Grants
<1>2. Grants(u, role, d1, TRUE) \subseteq Grants(u, role, d1, FALSE)
  BY DEF Grants
<1> QED
  BY <1>1, <1>2, MoreGrants

-----------------------------------------------------------------------------
(* Connections. *)

\* The parts of TypeOK.
TaskOK ==
    /\ pc \in [Conns -> Labels]
    /\ token \in [Conns -> Tokens \union {NoToken}]
    /\ slot \in [Conns -> Tokens \union {NoToken}]
    /\ place \in [Conns -> Places \union {NoPlace}]
    /\ left \in [Conns -> SUBSET Places]
    /\ want \in [Conns -> Places \union {NoPlace}]
    /\ old \in [Conns -> Places \union {NoPlace}]

PipesOK ==
    /\ out \in [Conns -> Seq(Frames \union {Control})]
    /\ \A c \in Conns : Len(out[c]) <= Room
    /\ cast \in [Conns -> Seq(Frames)]
    /\ carry \in [Conns -> Seq(Frames)]

SharedOK ==
    /\ counts \in [Wss -> [editors : Nat, viewers : Nat]]
    /\ resident \subseteq Places
    /\ DOMAIN meta = DOMAIN DocMeta
    /\ lapsed \subseteq Tokens

\* Who is about to enter holds a slot, who is about to join knows what, and the
\* forwarding task carries one frame at most.
PointsOK ==
    \A c \in Conns :
        /\ pc[c] = "enter" => slot[c] \in Tokens
        /\ pc[c] = "join" => want[c] \in Places
        /\ Len(carry[c]) <= 1

LEMMA Parts == TypeOK <=> TaskOK /\ PipesOK /\ SharedOK
  BY DEF TypeOK, TaskOK, PipesOK, SharedOK

LEMMA TokenType ==
    ASSUME NEW c \in Conns, NEW t \in TokensOf[c]
    PROVE  t \in Tokens
  BY DEF Tokens

LEMMA PlaceType ==
    ASSUME NEW t \in Tokens, NEW d \in Docs
    PROVE  <<t.ws, d>> \in Places
  BY DEF Places, Wss

LEMMA RoomForOne == \A i, j \in Nat : i < Room /\ j <= 1 => i + j <= Room
<1>1. Room \in Nat
  BY BoundsAssumption
<1> QED
  BY <1>1

LEMMA DistinctNone ==
    NoToken \notin Tokens /\ NoPlace \notin Places
  BY TokensAssumption, PlacesAssumption

LEMMA InitType == Init => TaskOK /\ PipesOK /\ SharedOK /\ PointsOK
<1> SUFFICES ASSUME Init PROVE TaskOK /\ PipesOK /\ SharedOK /\ PointsOK
  OBVIOUS
<1>1. TaskOK
  BY DEF Init, TaskOK, Labels
<1>2. PipesOK
  BY BoundsAssumption DEF Init, PipesOK
<1>3. SharedOK
  BY DEF Init, SharedOK
<1>4. PointsOK
  BY DEF Init, PointsOK
<1> QED
  BY <1>1, <1>2, <1>3, <1>4

-----------------------------------------------------------------------------
(* Steps: type-correctness *)

LEMMA CountsOK ==
    ASSUME SharedOK, NEW t \in Tokens
    PROVE  /\ Registered(t) \in [Wss -> [editors : Nat, viewers : Nat]]
           /\ Released(t) \in [Wss -> [editors : Nat, viewers : Nat]]
<1>1. t.ws \in Wss
  BY DEF Wss
<1>2. counts[t.ws].editors \in Nat /\ counts[t.ws].viewers \in Nat
  BY <1>1 DEF SharedOK
<1>3. Pred(counts[t.ws].editors) \in Nat /\ Pred(counts[t.ws].viewers) \in Nat
  BY <1>2 DEF Pred
<1> QED
  BY <1>1, <1>2, <1>3 DEF SharedOK, Registered, Released

LEMMA BroadcastOK ==
    ASSUME PipesOK, NEW f \in Frames, NEW except, Broadcast(f, except)
    PROVE  cast' \in [Conns -> Seq(Frames)]
<1>1. \A k \in Conns : cast[k] \in Seq(Frames) /\ Append(cast[k], f) \in Seq(Frames)
  BY DEF PipesOK
<1> QED
  BY <1>1 DEF Broadcast

LEMMA TypeStep ==
    ASSUME TaskOK, PipesOK, SharedOK, PointsOK, [Next]_vars
    PROVE  TaskOK' /\ PipesOK' /\ SharedOK' /\ PointsOK'
<1> DEFINE Typed == TaskOK /\ PipesOK /\ SharedOK /\ PointsOK
<1> USE DEF mine, pipes, shared
\* A task that only moves on, not to a point that claims something.
<1>1. ASSUME NEW c \in Conns, NEW l \in Labels \ {"enter", "join"}, Goto(c, l),
             UNCHANGED <<token, place, left, slot, want, old, pipes, shared>>
      PROVE  Typed'
  <2>1. TaskOK'
    BY <1>1 DEF TaskOK, Goto
  <2>2. PipesOK' /\ SharedOK'
    BY <1>1 DEF PipesOK, SharedOK
  <2>3. PointsOK'
    BY <1>1 DEF PointsOK, Goto, TaskOK
  <2> QED
    BY <2>1, <2>2, <2>3
<1>2. ASSUME NEW c \in Conns, Accept(c) \/ Accepted(c) \/ Break(c) \/ Recheck(c) \/ SendFails(c)
      PROVE  Typed'
  BY <1>1, <1>2 DEF Accept, Accepted, Break, Recheck, SendFails, Labels
<1>3. ASSUME NEW c \in Conns, NEW t \in TokensOf[c], Auth(c, t) PROVE Typed'
  <2>1. t \in Tokens
    BY <1>3, TokenType
  <2>2. CASE /\ Goto(c, "enter")
             /\ slot' = [slot EXCEPT ![c] = t]
             /\ counts' = Registered(t)
    <3>1. UNCHANGED <<token, place, left, want, old, pipes, resident, meta, lapsed>>
      BY <1>3 DEF Auth
    <3>2. TaskOK'
      BY <2>1, <2>2, <3>1 DEF TaskOK, Goto, Labels
    <3>3. PipesOK'
      BY <3>1 DEF PipesOK
    <3>4. SharedOK'
      BY <2>1, <2>2, <3>1, CountsOK DEF SharedOK
    <3>5. PointsOK'
      BY <2>1, <2>2, <3>1 DEF PointsOK, Goto, TaskOK
    <3> QED
      BY <3>2, <3>3, <3>4, <3>5
  <2>3. CASE Answer(c) /\ UNCHANGED <<slot, counts>>
    BY <1>1, <1>3, <2>3 DEF Auth, Answer, Labels
  <2> QED
    BY <1>3, <2>2, <2>3 DEF Auth
<1>4. ASSUME NEW c \in Conns, Enter(c) PROVE Typed'
  <2>1. slot[c] \in Tokens
    BY <1>4 DEF Enter, PointsOK
  <2>2. place[c] \in Places => <<slot[c].ws, place[c][2]>> \in Places
    BY <2>1, PlaceType DEF Places
  <2>3. /\ token' = [token EXCEPT ![c] = slot[c]]
        /\ place' = [place EXCEPT ![c] =
                       IF place[c] = NoPlace THEN place[c] ELSE <<slot[c].ws, place[c][2]>>]
        /\ slot' = [slot EXCEPT ![c] = NoToken]
        /\ Goto(c, "reply")
        /\ UNCHANGED <<left, want, old, pipes, shared>>
    BY <1>4 DEF Enter, Answer
  <2>4. TaskOK'
    BY <2>1, <2>2, <2>3 DEF TaskOK, Goto, Labels
  <2>5. PipesOK' /\ SharedOK'
    BY <2>3 DEF PipesOK, SharedOK
  <2>6. PointsOK'
    BY <2>3 DEF PointsOK, Goto, TaskOK
  <2> QED
    BY <2>4, <2>5, <2>6
<1>5. ASSUME NEW c \in Conns, NEW d \in Docs, Join(c, d) PROVE Typed'
  <2>1. CASE /\ token[c] # NoToken
             /\ Goto(c, "join") /\ want' = [want EXCEPT ![c] = <<token[c].ws, d>>]
    <3>1. UNCHANGED <<token, place, left, slot, old, pipes, shared>>
      BY <1>5 DEF Join
    <3>2. <<token[c].ws, d>> \in Places
      BY <2>1, PlaceType DEF TaskOK
    <3>3. TaskOK'
      BY <2>1, <3>1, <3>2 DEF TaskOK, Goto, Labels
    <3>4. PipesOK' /\ SharedOK'
      BY <3>1 DEF PipesOK, SharedOK
    <3>5. PointsOK'
      BY <2>1, <3>1, <3>2 DEF PointsOK, Goto, TaskOK
    <3> QED
      BY <3>3, <3>4, <3>5
  <2>2. CASE Answer(c) /\ UNCHANGED want
    BY <1>1, <1>5, <2>2 DEF Join, Answer, Labels
  <2> QED
    BY <1>5, <2>1, <2>2 DEF Join
\* The document the task joins is opened.
<1>6. ASSUME NEW c \in Conns, NEW held \in SUBSET Places, Open(c, held), want[c] \in Places,
             place' \in [Conns -> Places \union {NoPlace}],
             left' \in [Conns -> SUBSET Places],
             old' \in [Conns -> Places \union {NoPlace}],
             UNCHANGED <<token, slot, pipes, counts, meta, lapsed>>
      PROVE  Typed'
  <2>1. /\ resident' = held \union {want[c]} /\ want' = [want EXCEPT ![c] = NoPlace]
        /\ Goto(c, "reply")
    BY <1>6 DEF Open, Answer
  <2>2. TaskOK'
    BY <1>6, <2>1 DEF TaskOK, Goto, Labels
  <2>3. PipesOK' /\ SharedOK'
    BY <1>6, <2>1 DEF PipesOK, SharedOK
  <2>4. PointsOK'
    BY <1>6, <2>1 DEF PointsOK, Goto, TaskOK
  <2> QED
    BY <2>2, <2>3, <2>4
<1>7. ASSUME NEW c \in Conns, Joined(c) PROVE Typed'
  <2>1. want[c] \in Places
    BY <1>7 DEF Joined, PointsOK
  <2>2. place' \in [Conns -> Places \union {NoPlace}] /\ left' \in [Conns -> SUBSET Places]
    BY <1>7, <2>1 DEF Joined, TaskOK
  <2>3. UNCHANGED <<token, slot, pipes, counts, meta, lapsed>>
    BY <1>7 DEF Joined
  <2>4. CASE Open(c, resident) /\ UNCHANGED old
    BY <1>6, <2>1, <2>2, <2>3, <2>4 DEF TaskOK, SharedOK
  <2>5. CASE /\ Goto(c, "scan") /\ old' = [old EXCEPT ![c] = place[c]]
             /\ UNCHANGED <<want, resident>>
    <3>1. TaskOK'
      BY <2>2, <2>3, <2>5 DEF TaskOK, Goto, Labels
    <3>2. PipesOK' /\ SharedOK'
      BY <2>3, <2>5 DEF PipesOK, SharedOK
    <3>3. PointsOK'
      BY <2>3, <2>5 DEF PointsOK, Goto, TaskOK
    <3> QED
      BY <3>1, <3>2, <3>3
  <2> QED
    BY <1>7, <2>4, <2>5 DEF Joined
<1>8. ASSUME NEW c \in Conns, NEW held \in SUBSET Places, GoOn(c, held),
             UNCHANGED <<token, place, left, slot, pipes, counts, meta, lapsed>>
      PROVE  Typed'
  <2>1. old' \in [Conns -> Places \union {NoPlace}]
    BY <1>8 DEF GoOn, TaskOK
  <2>2. CASE want[c] # NoPlace /\ Open(c, held)
    BY <1>6, <1>8, <2>1, <2>2 DEF TaskOK
  <2>3. CASE resident' = held /\ Goto(c, "off") /\ UNCHANGED want
    <3>1. TaskOK'
      BY <1>8, <2>1, <2>3 DEF TaskOK, Goto, Labels
    <3>2. PipesOK' /\ SharedOK'
      BY <1>8, <2>3 DEF PipesOK, SharedOK
    <3>3. PointsOK'
      BY <1>8, <2>3 DEF PointsOK, Goto, TaskOK
    <3> QED
      BY <3>1, <3>2, <3>3
  <2> QED
    BY <1>8, <2>2, <2>3 DEF GoOn
<1>9. ASSUME NEW c \in Conns, Scan(c) PROVE Typed'
  <2>1. UNCHANGED <<token, place, left, slot, pipes, counts, meta, lapsed>>
    BY <1>9 DEF Scan
  <2>2. CASE GoOn(c, resident)
    BY <1>8, <2>1, <2>2 DEF SharedOK
  <2>3. CASE Goto(c, "evict") /\ UNCHANGED <<old, want, resident>>
    BY <1>1, <2>1, <2>3 DEF Labels
  <2> QED
    BY <1>9, <2>2, <2>3 DEF Scan
<1>10. ASSUME NEW c \in Conns, Evict(c) PROVE Typed'
  <2>1. resident \ {old[c]} \in SUBSET Places
    BY DEF SharedOK
  <2> QED
    BY <1>8, <1>10, <2>1 DEF Evict
<1>11. ASSUME NEW c \in Conns, Ask(c) PROVE Typed'
  <2>1. /\ Goto(c, "reply") /\ place[c] # NoPlace
        /\ resident' = resident \union {place[c]}
        /\ UNCHANGED <<token, place, left, slot, want, old, pipes, counts, meta, lapsed>>
    BY <1>11 DEF Ask, Answer
  <2>2. TaskOK'
    BY <2>1 DEF TaskOK, Goto, Labels
  <2>3. PipesOK' /\ SharedOK'
    BY <2>1 DEF PipesOK, SharedOK, TaskOK
  <2>4. PointsOK'
    BY <2>1 DEF PointsOK, Goto, TaskOK
  <2> QED
    BY <2>2, <2>3, <2>4
<1>12. ASSUME NEW c \in Conns, Write(c) PROVE Typed'
  <2>1. CASE Answer(c) /\ UNCHANGED <<cast, resident>>
    BY <1>1, <1>12, <2>1 DEF Write, Answer, Labels
  <2>2. CASE /\ resident' = resident \union {place[c]}
             /\ Broadcast(Frame("doc", place[c]), {c}) /\ UNCHANGED pc
    <3>1. /\ place[c] # NoPlace
          /\ UNCHANGED <<token, place, left, slot, want, old, out, carry, counts, meta, lapsed>>
      BY <1>12 DEF Write
    <3>2. place[c] \in Places
      BY <3>1 DEF TaskOK
    <3>3. Frame("doc", place[c]) \in Frames
      BY <3>2 DEF Frame, Frames
    <3>4. TaskOK'
      BY <2>2, <3>1 DEF TaskOK
    <3>5. PipesOK'
      BY <2>2, <3>1, <3>3, BroadcastOK DEF PipesOK
    <3>6. SharedOK'
      BY <2>2, <3>1, <3>2 DEF SharedOK
    <3>7. PointsOK'
      BY <2>2, <3>1 DEF PointsOK
    <3> QED
      BY <3>4, <3>5, <3>6, <3>7
  <2> QED
    BY <1>12, <2>1, <2>2 DEF Write
\* The answer is put into the channel.
<1>13. ASSUME NEW c \in Conns, Len(out[c]) < Room, out' = [out EXCEPT ![c] = Append(@, Control)],
              Goto(c, "idle"), UNCHANGED <<token, place, left, slot, want, old, cast, carry, shared>>
       PROVE  Typed'
  <2>1. TaskOK'
    BY <1>13 DEF TaskOK, Goto, Labels
  <2>2. /\ Append(out[c], Control) \in Seq(Frames \union {Control})
        /\ Len(Append(out[c], Control)) <= Room
    BY <1>13, BoundsAssumption DEF PipesOK
  <2>3. PipesOK'
    BY <1>13, <2>2 DEF PipesOK
  <2>4. SharedOK'
    BY <1>13 DEF SharedOK
  <2>5. PointsOK'
    BY <1>13 DEF PointsOK, Goto, TaskOK
  <2> QED
    BY <2>1, <2>3, <2>4, <2>5
<1>14. ASSUME NEW c \in Conns, Send(c) PROVE Typed'
  <2>1. CASE Len(out[c]) < Room
    BY <1>13, <1>14, <2>1 DEF Send
  <2>2. CASE Goto(c, "blocked") /\ UNCHANGED out
    BY <1>1, <1>14, <2>2 DEF Send, Labels
  <2> QED
    BY <1>14, <2>1, <2>2 DEF Send
<1>15. ASSUME NEW c \in Conns, Unblocked(c) PROVE Typed'
  BY <1>13, <1>15 DEF Unblocked
<1>16. ASSUME NEW c \in Conns, Forward(c) PROVE Typed'
  <2>1. /\ cast[c] # <<>> /\ carry[c] = <<>>
        /\ cast' = [cast EXCEPT ![c] = Tail(@)]
        /\ carry' = [carry EXCEPT ![c] =
                       IF Passes(c, Head(cast[c])) THEN <<Head(cast[c])>> ELSE @]
        /\ UNCHANGED <<mine, out, shared>>
    BY <1>16 DEF Forward
  <2>2. cast[c] \in Seq(Frames)
    BY DEF PipesOK
  <2>3. Tail(cast[c]) \in Seq(Frames) /\ Head(cast[c]) \in Frames
    BY <2>1, <2>2
  <2>4. PipesOK'
    BY <2>1, <2>3 DEF PipesOK
  <2>5. TaskOK' /\ SharedOK'
    BY <2>1 DEF TaskOK, SharedOK
  <2>6. PointsOK'
    BY <2>1, <2>3 DEF PointsOK, PipesOK
  <2> QED
    BY <2>4, <2>5, <2>6
<1>17. ASSUME NEW c \in Conns, Carry(c) PROVE Typed'
  <2>1. /\ Len(out[c]) < Room /\ out' = [out EXCEPT ![c] = @ \o carry[c]]
        /\ carry' = [carry EXCEPT ![c] = <<>>]
        /\ UNCHANGED <<mine, cast, shared>>
    BY <1>17 DEF Carry
  <2>2. out[c] \in Seq(Frames \union {Control}) /\ carry[c] \in Seq(Frames \union {Control})
        /\ Len(carry[c]) <= 1
    BY DEF PipesOK, PointsOK
  <2>3. out[c] \o carry[c] \in Seq(Frames \union {Control}) /\ Len(out[c] \o carry[c]) <= Room
    <3>1. out[c] \o carry[c] \in Seq(Frames \union {Control})
      BY <2>2
    <3>2. Len(out[c] \o carry[c]) = Len(out[c]) + Len(carry[c])
      BY <2>2
    <3>3. Len(out[c]) \in Nat /\ Len(carry[c]) \in Nat
      BY <2>2
    <3>4. Len(out[c]) < Room /\ Len(carry[c]) <= 1
      BY <2>1, <2>2
    <3>5. Len(out[c]) + Len(carry[c]) <= Room
      BY <3>3, <3>4, RoomForOne
    <3> QED
      BY <3>1, <3>2, <3>5
  <2>4. PipesOK'
    BY <2>1, <2>3 DEF PipesOK
  <2>5. TaskOK' /\ SharedOK'
    BY <2>1 DEF TaskOK, SharedOK
  <2>6. PointsOK'
    BY <2>1 DEF PointsOK, PipesOK
  <2> QED
    BY <2>4, <2>5, <2>6
<1>18. ASSUME NEW c \in Conns, Drain(c) PROVE Typed'
  <2>1. /\ out[c] # <<>> /\ out' = [out EXCEPT ![c] = Tail(@)]
        /\ left' = [left EXCEPT ![c] = IF out'[c] \o carry[c] = <<>> THEN {} ELSE @]
        /\ UNCHANGED <<pc, token, place, slot, want, old, cast, carry, shared>>
    BY <1>18 DEF Drain
  <2>2. out[c] \in Seq(Frames \union {Control}) /\ Len(out[c]) <= Room
    BY DEF PipesOK
  <2>3. Tail(out[c]) \in Seq(Frames \union {Control}) /\ Len(Tail(out[c])) <= Room
    BY <2>1, <2>2, BoundsAssumption
  <2>4. PipesOK'
    BY <2>1, <2>3 DEF PipesOK
  <2>5. TaskOK' /\ SharedOK' /\ PointsOK'
    BY <2>1 DEF TaskOK, SharedOK, PointsOK
  <2> QED
    BY <2>4, <2>5
<1>19. ASSUME NEW c \in Conns, Leave(c) PROVE Typed'
  <2>1. TaskOK'
    BY <1>19 DEF Leave, TaskOK, Goto, Labels
  <2>2. PipesOK' /\ SharedOK'
    BY <1>19, BoundsAssumption DEF Leave, PipesOK, SharedOK
  <2>3. PointsOK'
    BY <1>19 DEF Leave, PointsOK, Goto, TaskOK, PipesOK
  <2> QED
    BY <2>1, <2>2, <2>3
<1>20. ASSUME NEW c \in Conns, Release(c) PROVE Typed'
  <2>1. TaskOK'
    BY <1>20 DEF Release, TaskOK, Goto, Labels
  <2>2. PipesOK'
    BY <1>20 DEF Release, PipesOK
  <2>3. SharedOK'
    <3>1. slot[c] # NoToken => slot[c] \in Tokens
      BY DEF TaskOK
    <3> QED
      BY <1>20, <3>1, CountsOK DEF Release, SharedOK
  <2>4. PointsOK'
    BY <1>20 DEF Release, PointsOK, Goto, TaskOK
  <2> QED
    BY <2>1, <2>2, <2>3, <2>4
<1>21. ASSUME NEW t \in Lapsing, Lapse(t) PROVE Typed'
  <2>1. lapsed' \subseteq Tokens
    BY <1>21, PlacesAssumption DEF Lapse, SharedOK
  <2> QED
    BY <1>21, <2>1 DEF Lapse, TaskOK, PipesOK, SharedOK, PointsOK
<1>22. ASSUME NEW g \in Guests, Announce(g[1], g[2]) PROVE Typed'
  <2>1. Frame("event", g[1]) \in Frames
    BY PlacesAssumption DEF Frame, Frames
  <2>2. PipesOK'
    BY <1>22, <2>1, BroadcastOK DEF Announce, PipesOK
  <2>3. SharedOK'
    BY <1>22 DEF Announce, SharedOK
  <2>4. TaskOK' /\ PointsOK'
    BY <1>22 DEF Announce, TaskOK, PointsOK
  <2> QED
    BY <2>2, <2>3, <2>4
<1>23. CASE UNCHANGED vars
  BY <1>23 DEF vars, TaskOK, PipesOK, SharedOK, PointsOK
<1> QED
  BY <1>2, <1>3, <1>4, <1>5, <1>7, <1>9, <1>10, <1>11, <1>12, <1>14, <1>15, <1>16,
     <1>17, <1>18, <1>19, <1>20, <1>21, <1>22, <1>23 DEF Next, Requests, Advance

\* The connections' tasks, channels and counters stay well typed, and no channel
\* ever holds more than its room.
THEOREM TypeCorrect == Spec => []TypeOK
<1> DEFINE Typed == TaskOK /\ PipesOK /\ SharedOK /\ PointsOK
<1>1. Init => Typed
  BY InitType
<1>2. Typed /\ [Next]_vars => Typed'
  BY TypeStep
<1>3. Typed => TypeOK
  BY Parts
<1> QED
  BY <1>1, <1>2, <1>3, PTL DEF Spec

-----------------------------------------------------------------------------
(* Steps: frames and Y.Docs are for those who joined *)

\* A client authenticates once, and keeps its shares while it is connected.
Courteous == Coincide \intersect {"reauth", "unshare"} = {}

May(c, p) == token[c] # NoToken /\ p[1] = token[c].ws /\ Reads(c, p)

\* What a connection has joined, or is about to, it may read; only the task that
\* enters is without a token; what it wants or leaves it deals with at once.
Orderly(c) ==
    /\ place[c] # NoPlace => May(c, place[c])
    /\ pc[c] = "enter" => token[c] = NoToken
    /\ pc[c] = "join" => May(c, want[c])
    /\ want[c] # NoPlace => pc[c] \in {"join", "scan", "evict"}
    /\ want[c] # NoPlace /\ pc[c] \in {"scan", "evict"} => place[c] = want[c]
    /\ old[c] # NoPlace => pc[c] \in {"scan", "evict", "release"}

AllOrderly == \A c \in Conns : Orderly(c)

\* FramesAreOurs, for the frames of one channel and those its client may be sent.
Fit(c) ==
    {f \in Frames \union {Control} :
        f.place # NoPlace =>
            /\ May(c, f.place)
            /\ f.kind = "doc" => f.place \in left[c] \union {place[c]}}
Only(frames, fit) == \A i \in DOMAIN frames : frames[i] \in fit
AllOurs == \A c \in Conns : Only(out[c], Fit(c)) /\ Only(carry[c], Fit(c))

LEMMA MaySame ==
    ASSUME NEW c \in Conns, token'[c] = token[c], meta' = meta, NEW p
    PROVE  May(c, p)' <=> May(c, p)
  BY DEF May, Reads, Known, Principal

\* A connection that a step does not concern stays as it was.
LEMMA OrderlySame ==
    ASSUME NEW c \in Conns, Orderly(c), token'[c] = token[c], meta' = meta,
           place'[c] = place[c], want'[c] = want[c], old'[c] = old[c], pc'[c] = pc[c]
    PROVE  Orderly(c)'
  BY MaySame DEF Orderly

\* A task that moves on from a point where it wants and leaves nothing.
LEMMA OrderlyGoto ==
    ASSUME TaskOK, AllOrderly, NEW c \in Conns, NEW l \in Labels \ {"enter", "join"}, Goto(c, l),
           pc[c] \notin {"join", "scan", "evict", "release"},
           UNCHANGED <<token, meta, place, want, old>>
    PROVE  AllOrderly'
<1>1. ASSUME NEW k \in Conns, k # c PROVE Orderly(k)'
  <2>1. pc'[k] = pc[k]
    BY <1>1 DEF Goto, TaskOK
  <2> QED
    BY <2>1, OrderlySame DEF AllOrderly
<1>2. Orderly(c)'
  <2>1. Orderly(c) /\ pc'[c] = l
    BY DEF AllOrderly, Goto, TaskOK
  <2>2. want[c] = NoPlace /\ old[c] = NoPlace
    BY <2>1 DEF Orderly
  <2>3. place[c] # NoPlace => May(c, place[c])'
    BY <2>1, MaySame DEF Orderly
  <2> QED
    BY <2>1, <2>2, <2>3 DEF Orderly
<1> QED
  BY <1>1, <1>2 DEF AllOrderly

\* The document that a task has joined is opened once the one it left is checked.
LEMMA GoOnStep ==
    ASSUME TaskOK, AllOrderly, NEW c \in Conns, pc[c] \in {"scan", "evict"}, NEW held,
           GoOn(c, held), UNCHANGED <<token, meta, place>>,
           \A p \in held : \E k \in Conns : place[k] = p \/ (k # c /\ old[k] = p)
    PROVE  AllOrderly' /\ ResidentIsUsed'
<1>1. old' = [old EXCEPT ![c] = NoPlace]
  BY DEF GoOn
<1>2. \/ /\ want[c] # NoPlace /\ resident' = held \union {want[c]}
         /\ want' = [want EXCEPT ![c] = NoPlace] /\ pc' = [pc EXCEPT ![c] = "reply"]
      \/ /\ want[c] = NoPlace /\ resident' = held
         /\ want' = want /\ pc' = [pc EXCEPT ![c] = "off"]
  BY DEF GoOn, Open, Answer, Goto
<1>3. ASSUME NEW k \in Conns, k # c PROVE Orderly(k)'
  <2>1. pc'[k] = pc[k] /\ want'[k] = want[k] /\ old'[k] = old[k]
    BY <1>1, <1>2, <1>3 DEF TaskOK
  <2> QED
    BY <2>1, OrderlySame DEF AllOrderly
<1>4. Orderly(c)'
  <2>1. old'[c] = NoPlace /\ want'[c] = NoPlace /\ pc'[c] \in {"reply", "off"}
    BY <1>1, <1>2 DEF TaskOK
  <2>2. place[c] # NoPlace => May(c, place[c])'
    BY MaySame DEF AllOrderly, Orderly
  <2> QED
    BY <2>1, <2>2 DEF Orderly
<1>5. ResidentIsUsed'
  <2>1. \A k \in Conns : k # c => old'[k] = old[k]
    BY <1>1 DEF TaskOK
  <2>2. want[c] # NoPlace => place[c] = want[c]
    BY DEF AllOrderly, Orderly
  <2>3. \A p \in resident' : p \in held \/ p = place[c]
    BY <1>2, <2>2
  <2> QED
    BY <2>1, <2>3 DEF ResidentIsUsed
<1> QED
  BY <1>3, <1>4, <1>5 DEF AllOrderly

LEMMA OrderlyStep ==
    ASSUME Courteous, TaskOK, SharedOK, PointsOK, AllOrderly, ResidentIsUsed, [Next]_vars
    PROVE  AllOrderly' /\ ResidentIsUsed'
<1> DEFINE Kept == AllOrderly' /\ ResidentIsUsed'
<1> USE DEF mine, pipes, shared
<1>0. "reauth" \notin Coincide /\ "unshare" \notin Coincide
  BY DEF Courteous
<1>1. ASSUME UNCHANGED <<place, old, resident>> PROVE ResidentIsUsed'
  BY <1>1 DEF ResidentIsUsed
<1>2. ASSUME NEW c \in Conns, NEW l \in Labels \ {"enter", "join"}, Goto(c, l),
             pc[c] \notin {"join", "scan", "evict", "release"},
             UNCHANGED <<token, meta, place, want, old, resident>>
      PROVE  Kept
  BY <1>1, <1>2, OrderlyGoto
<1>3. ASSUME NEW c \in Conns, Accept(c) \/ Accepted(c) \/ Break(c) \/ Recheck(c) \/ SendFails(c)
      PROVE  Kept
  BY <1>2, <1>3 DEF Accept, Accepted, Break, Recheck, SendFails, Labels
<1>4. ASSUME NEW c \in Conns, NEW t \in TokensOf[c], Auth(c, t) PROVE Kept
  <2>1. /\ pc[c] = "idle" /\ token[c] = NoToken
        /\ UNCHANGED <<token, meta, place, want, old, resident>>
        /\ Goto(c, "enter") \/ Goto(c, "reply")
    BY <1>0, <1>4 DEF Auth, Answer
  <2>2. CASE Goto(c, "reply")
    BY <1>2, <2>1, <2>2 DEF Labels
  <2>3. CASE Goto(c, "enter")
    <3>1. ASSUME NEW k \in Conns, k # c PROVE Orderly(k)'
      <4>1. pc'[k] = pc[k]
        BY <2>3, <3>1 DEF Goto, TaskOK
      <4> QED
        BY <2>1, <4>1, OrderlySame DEF AllOrderly
    <3>2. Orderly(c)'
      <4>1. Orderly(c) /\ pc'[c] = "enter"
        BY <2>3 DEF AllOrderly, Goto, TaskOK
      <4>2. want[c] = NoPlace /\ old[c] = NoPlace /\ place[c] = NoPlace
        BY <2>1, <4>1 DEF Orderly, May
      <4> QED
        BY <2>1, <4>1, <4>2 DEF Orderly
    <3> QED
      BY <1>1, <2>1, <3>1, <3>2 DEF AllOrderly
  <2> QED
    BY <2>1, <2>2, <2>3
<1>5. ASSUME NEW c \in Conns, Enter(c) PROVE Kept
  <2>1. /\ pc[c] = "enter" /\ slot[c] \in Tokens /\ token[c] = NoToken
        /\ want[c] = NoPlace /\ old[c] = NoPlace /\ place[c] = NoPlace
    BY <1>5 DEF Enter, PointsOK, AllOrderly, Orderly, May
  <2>2. /\ token' = [token EXCEPT ![c] = slot[c]] /\ place' = [place EXCEPT ![c] = NoPlace]
        /\ pc' = [pc EXCEPT ![c] = "reply"] /\ UNCHANGED <<want, old, meta, resident>>
    BY <1>5, <2>1 DEF Enter, Answer, Goto
  <2>3. place' = place
    BY <2>1, <2>2 DEF TaskOK
  <2>4. ASSUME NEW k \in Conns, k # c PROVE Orderly(k)'
    <3>1. pc'[k] = pc[k] /\ token'[k] = token[k]
      BY <2>2, <2>4 DEF TaskOK
    <3> QED
      BY <2>2, <2>3, <3>1, OrderlySame DEF AllOrderly
  <2>5. Orderly(c)'
    <3>1. pc'[c] = "reply" /\ place'[c] = NoPlace /\ want'[c] = NoPlace /\ old'[c] = NoPlace
      BY <2>1, <2>2, <2>3 DEF TaskOK
    <3> QED
      BY <3>1 DEF Orderly
  <2> QED
    BY <1>1, <2>2, <2>3, <2>4, <2>5 DEF AllOrderly
<1>6. ASSUME NEW c \in Conns, NEW d \in Docs, Join(c, d) PROVE Kept
  <2>1. pc[c] = "idle" /\ UNCHANGED <<token, meta, place, old, resident>>
    BY <1>6 DEF Join
  <2>2. CASE Answer(c) /\ UNCHANGED want
    BY <1>2, <2>1, <2>2 DEF Answer, Labels
  <2>3. CASE /\ token[c] # NoToken /\ Reads(c, <<token[c].ws, d>>)
             /\ Goto(c, "join") /\ want' = [want EXCEPT ![c] = <<token[c].ws, d>>]
    <3>1. ASSUME NEW k \in Conns, k # c PROVE Orderly(k)'
      <4>1. pc'[k] = pc[k] /\ want'[k] = want[k]
        BY <2>3, <3>1 DEF Goto, TaskOK
      <4> QED
        BY <2>1, <4>1, OrderlySame DEF AllOrderly
    <3>2. Orderly(c)'
      <4>1. pc'[c] = "join" /\ want'[c] = <<token[c].ws, d>>
        BY <2>3 DEF Goto, TaskOK
      <4>2. May(c, <<token[c].ws, d>>)
        BY <2>3 DEF May
      <4>3. May(c, want[c])'
        BY <2>1, <4>1, <4>2 DEF May, Reads, Known, Principal
      <4>4. old[c] = NoPlace /\ (place[c] # NoPlace => May(c, place[c])')
        BY <2>1, MaySame DEF AllOrderly, Orderly
      <4> QED
        BY <2>1, <4>1, <4>3, <4>4 DEF Orderly
    <3> QED
      BY <1>1, <2>1, <3>1, <3>2 DEF AllOrderly
  <2> QED
    BY <1>6, <2>2, <2>3 DEF Join
<1>7. ASSUME NEW c \in Conns, Joined(c) PROVE Kept
  <2>1. /\ pc[c] = "join" /\ want[c] \in Places /\ May(c, want[c]) /\ old[c] = NoPlace
        /\ place' = [place EXCEPT ![c] = want[c]] /\ UNCHANGED <<token, meta>>
    BY <1>7 DEF Joined, PointsOK, AllOrderly, Orderly
  <2>2. \A k \in Conns : place'[k] = IF k = c THEN want[c] ELSE place[k]
    BY <2>1 DEF TaskOK
  <2>4. CASE place[c] \in {NoPlace, want[c]} /\ Open(c, resident) /\ UNCHANGED old
    <3>1. /\ resident' = resident \union {want[c]}
          /\ want' = [want EXCEPT ![c] = NoPlace] /\ pc' = [pc EXCEPT ![c] = "reply"]
      BY <2>4 DEF Open, Answer, Goto
    <3>2. ASSUME NEW k \in Conns, k # c PROVE Orderly(k)'
      <4>1. pc'[k] = pc[k] /\ want'[k] = want[k] /\ place'[k] = place[k]
        BY <2>2, <3>1, <3>2 DEF TaskOK
      <4> QED
        BY <2>1, <2>4, <4>1, OrderlySame DEF AllOrderly
    <3>3. Orderly(c)'
      <4>1. pc'[c] = "reply" /\ want'[c] = NoPlace /\ place'[c] = want[c] /\ old'[c] = NoPlace
        BY <2>1, <2>2, <2>4, <3>1 DEF TaskOK
      <4>2. May(c, place[c])'
        BY <2>1, <4>1 DEF May, Reads, Known, Principal
      <4> QED
        BY <4>1, <4>2 DEF Orderly
    <3>4. \A p \in Places, k \in Conns : place[k] = p => place'[k] = p
      BY <2>2, <2>4, DistinctNone
    <3>5. ResidentIsUsed'
      BY <2>2, <2>4, <3>1, <3>4 DEF ResidentIsUsed, SharedOK
    <3> QED
      BY <3>2, <3>3, <3>5 DEF AllOrderly
  <2>5. CASE /\ Goto(c, "scan") /\ old' = [old EXCEPT ![c] = place[c]]
             /\ UNCHANGED <<want, resident>>
    <3>1. ASSUME NEW k \in Conns, k # c PROVE Orderly(k)'
      <4>1. pc'[k] = pc[k] /\ old'[k] = old[k] /\ place'[k] = place[k]
        BY <2>2, <2>5, <3>1 DEF Goto, TaskOK
      <4> QED
        BY <2>1, <2>5, <4>1, OrderlySame DEF AllOrderly
    <3>2. Orderly(c)'
      <4>1. pc'[c] = "scan" /\ want'[c] = want[c] /\ place'[c] = want[c]
        BY <2>2, <2>5 DEF Goto, TaskOK
      <4>2. May(c, place[c])'
        BY <2>1, <4>1 DEF May, Reads, Known, Principal
      <4> QED
        BY <4>1, <4>2 DEF Orderly
    <3>3. \A k \in Conns : old'[k] = IF k = c THEN place[c] ELSE old[k]
      BY <2>5 DEF TaskOK
    <3>4. \A p \in Places, k \in Conns : place[k] = p \/ old[k] = p => place'[k] = p \/ old'[k] = p
      BY <2>1, <2>2, <3>3, DistinctNone
    <3>5. ResidentIsUsed'
      BY <2>5, <3>4 DEF ResidentIsUsed, SharedOK
    <3> QED
      BY <3>1, <3>2, <3>5 DEF AllOrderly
  <2> QED
    BY <1>7, <2>4, <2>5 DEF Joined
<1>8. ASSUME NEW c \in Conns, Scan(c) PROVE Kept
  <2>1. pc[c] = "scan" /\ UNCHANGED <<token, meta, place>>
    BY <1>8 DEF Scan
  <2>2. CASE (\E k \in Conns : place[k] = old[c]) /\ GoOn(c, resident)
    <3>1. \A p \in resident : \E k \in Conns : place[k] = p \/ (k # c /\ old[k] = p)
      BY <2>2 DEF ResidentIsUsed
    <3> QED
      BY <2>1, <2>2, <3>1, GoOnStep
  <2>3. CASE Goto(c, "evict") /\ UNCHANGED <<old, want, resident>>
    <3>1. ASSUME NEW k \in Conns, k # c PROVE Orderly(k)'
      <4>1. pc'[k] = pc[k]
        BY <2>3, <3>1 DEF Goto, TaskOK
      <4> QED
        BY <2>1, <2>3, <4>1, OrderlySame DEF AllOrderly
    <3>2. Orderly(c)'
      <4>1. pc'[c] = "evict"
        BY <2>3 DEF Goto, TaskOK
      <4>2. place[c] # NoPlace => May(c, place[c])'
        BY <2>1, MaySame DEF AllOrderly, Orderly
      <4> QED
        BY <2>1, <2>3, <4>1, <4>2 DEF AllOrderly, Orderly
    <3> QED
      BY <1>1, <2>1, <2>3, <3>1, <3>2 DEF AllOrderly
  <2> QED
    BY <1>8, <2>2, <2>3 DEF Scan
<1>9. ASSUME NEW c \in Conns, Evict(c) PROVE Kept
  <2>1. \A p \in resident \ {old[c]} : \E k \in Conns : place[k] = p \/ (k # c /\ old[k] = p)
    BY DEF ResidentIsUsed
  <2> QED
    BY <1>9, <2>1, GoOnStep DEF Evict
<1>10. ASSUME NEW c \in Conns, Ask(c) PROVE Kept
  <2>1. /\ pc[c] = "idle" /\ Goto(c, "reply") /\ resident' = resident \union {place[c]}
        /\ UNCHANGED <<token, meta, place, want, old>>
    BY <1>10 DEF Ask, Answer
  <2>2. AllOrderly'
    BY <2>1, OrderlyGoto DEF Labels
  <2> QED
    BY <2>1, <2>2 DEF ResidentIsUsed
<1>11. ASSUME NEW c \in Conns, Write(c) PROVE Kept
  <2>1. CASE Answer(c) /\ UNCHANGED <<cast, resident>>
    BY <1>2, <1>11, <2>1 DEF Write, Answer, Labels
  <2>2. CASE resident' = resident \union {place[c]} /\ UNCHANGED pc
    <3>1. UNCHANGED <<token, meta, place, want, old>>
      BY <1>11 DEF Write
    <3>2. AllOrderly'
      BY <2>2, <3>1, OrderlySame DEF AllOrderly
    <3> QED
      BY <2>2, <3>1, <3>2 DEF ResidentIsUsed
  <2> QED
    BY <1>11, <2>1, <2>2 DEF Write
<1>12. ASSUME NEW c \in Conns, Send(c) \/ Unblocked(c) PROVE Kept
  BY <1>2, <1>12 DEF Send, Unblocked, Labels
<1>13. ASSUME UNCHANGED <<token, meta, place, want, old, pc, resident>> PROVE Kept
  BY <1>1, <1>13, OrderlySame DEF AllOrderly
<1>14. ASSUME NEW c \in Conns, Forward(c) \/ Carry(c) \/ Drain(c) PROVE Kept
  BY <1>13, <1>14 DEF Forward, Carry, Drain
<1>15. ASSUME NEW c \in Conns, Leave(c) PROVE Kept
  <2>1. /\ pc[c] = "leave"
        /\ token' = [token EXCEPT ![c] = NoToken] /\ place' = [place EXCEPT ![c] = NoPlace]
        /\ old' = [old EXCEPT ![c] = place[c]] /\ pc' = [pc EXCEPT ![c] = "release"]
        /\ UNCHANGED <<want, meta, resident>>
    BY <1>15 DEF Leave, Goto
  <2>2. want[c] = NoPlace /\ old[c] = NoPlace
    BY <2>1 DEF AllOrderly, Orderly
  <2>3. ASSUME NEW k \in Conns, k # c PROVE Orderly(k)'
    <3>1. /\ pc'[k] = pc[k] /\ token'[k] = token[k] /\ place'[k] = place[k]
          /\ old'[k] = old[k]
      BY <2>1, <2>3 DEF TaskOK
    <3> QED
      BY <2>1, <3>1, OrderlySame DEF AllOrderly
  <2>4. Orderly(c)'
    <3>1. pc'[c] = "release" /\ place'[c] = NoPlace /\ want'[c] = NoPlace
      BY <2>1, <2>2 DEF TaskOK
    <3> QED
      BY <3>1 DEF Orderly
  <2>5. \A p \in Places, k \in Conns : place[k] = p \/ old[k] = p => place'[k] = p \/ old'[k] = p
    BY <2>1, <2>2, DistinctNone DEF TaskOK
  <2>6. ResidentIsUsed'
    BY <2>1, <2>5 DEF ResidentIsUsed, SharedOK
  <2> QED
    BY <2>3, <2>4, <2>6 DEF AllOrderly
<1>16. ASSUME NEW c \in Conns, Release(c) PROVE Kept
  <2>1. /\ pc[c] = "release"
        /\ pc' = [pc EXCEPT ![c] = IF old[c] = NoPlace THEN "off" ELSE "scan"]
        /\ UNCHANGED <<token, place, want, old, meta, resident>>
    BY <1>16 DEF Release, Goto
  <2>2. ASSUME NEW k \in Conns, k # c PROVE Orderly(k)'
    <3>1. pc'[k] = pc[k]
      BY <2>1, <2>2 DEF TaskOK
    <3> QED
      BY <2>1, <3>1, OrderlySame DEF AllOrderly
  <2>3. Orderly(c)'
    <3>1. Orderly(c) /\ pc'[c] = IF old[c] = NoPlace THEN "off" ELSE "scan"
      BY <2>1 DEF AllOrderly, TaskOK
    <3>2. want[c] = NoPlace /\ (place[c] # NoPlace => May(c, place[c])')
      BY <2>1, <3>1, MaySame DEF Orderly
    <3> QED
      BY <2>1, <3>1, <3>2 DEF Orderly
  <2> QED
    BY <1>1, <2>1, <2>2, <2>3 DEF AllOrderly
<1>17. ASSUME NEW t, Lapse(t) PROVE Kept
  BY <1>13, <1>17 DEF Lapse
<1>18. ASSUME NEW p, NEW u, Announce(p, u) PROVE Kept
  BY <1>0, <1>13, <1>18 DEF Announce
<1>19. CASE UNCHANGED vars
  BY <1>13, <1>19 DEF vars
<1> QED
  BY <1>3, <1>4, <1>5, <1>6, <1>7, <1>8, <1>9, <1>10, <1>11, <1>12, <1>14, <1>15,
     <1>16, <1>17, <1>18, <1>19 DEF Next, Requests, Advance

LEMMA OnlyAppend ==
    ASSUME NEW S, NEW frames \in Seq(S), NEW f, NEW fit, Only(frames, fit), f \in fit
    PROVE  Only(Append(frames, f), fit)
<1>1. \A i \in DOMAIN Append(frames, f) :
         Append(frames, f)[i] = f \/ (i \in DOMAIN frames /\ Append(frames, f)[i] = frames[i])
  OBVIOUS
<1> QED
  BY <1>1 DEF Only

LEMMA OnlyConcat ==
    ASSUME NEW S, NEW x \in Seq(S), NEW y \in Seq(S), NEW fit, Only(x, fit), Only(y, fit)
    PROVE  Only(x \o y, fit)
<1> SUFFICES ASSUME NEW i \in DOMAIN (x \o y)
             PROVE  (x \o y)[i] \in fit
  BY DEF Only
<1>1. /\ x \o y \in Seq(S) /\ Len(x \o y) = Len(x) + Len(y)
      /\ \A k \in 1 .. Len(x) + Len(y) : (x \o y)[k] = IF k <= Len(x) THEN x[k] ELSE y[k - Len(x)]
  BY ConcatProperties
<1>2. i \in 1 .. Len(x) + Len(y) /\ Len(x) \in Nat /\ Len(y) \in Nat
  BY <1>1
<1>3. CASE i <= Len(x)
  <2>1. i \in DOMAIN x /\ (x \o y)[i] = x[i]
    BY <1>1, <1>2, <1>3
  <2> QED
    BY <2>1 DEF Only
<1>4. CASE ~ (i <= Len(x))
  <2>1. i - Len(x) \in 1 .. Len(y)
    BY <1>2, <1>4
  <2>2. i - Len(x) \in DOMAIN y /\ (x \o y)[i] = y[i - Len(x)]
    BY <1>1, <1>2, <1>4, <2>1
  <2> QED
    BY <2>2 DEF Only
<1> QED
  BY <1>3, <1>4

LEMMA OnlyTail ==
    ASSUME NEW S, NEW frames \in Seq(S), frames # <<>>, NEW fit, Only(frames, fit)
    PROVE  Only(Tail(frames), fit)
<1>1. /\ Tail(frames) \in Seq(S) /\ Len(Tail(frames)) = Len(frames) - 1
      /\ \A i \in 1 .. Len(Tail(frames)) : Tail(frames)[i] = frames[i + 1]
  BY HeadTailProperties
<1>2. \A i \in 1 .. Len(Tail(frames)) : i + 1 \in 1 .. Len(frames)
  BY <1>1
<1> QED
  BY <1>1, <1>2 DEF Only

LEMMA NothingIn ==
    ASSUME NEW S, NEW x \in Seq(S), NEW y \in Seq(S), x \o y = <<>>, NEW fit
    PROVE  Only(x, fit) /\ Only(y, fit)
<1>1. Len(x) + Len(y) = 0 /\ Len(x) \in Nat /\ Len(y) \in Nat
  BY ConcatProperties
<1>2. DOMAIN x = {} /\ DOMAIN y = {}
  BY <1>1
<1> QED
  BY <1>2 DEF Only

LEMMA FitSame ==
    ASSUME NEW c \in Conns, token'[c] = token[c], meta' = meta,
           place'[c] = place[c], left'[c] = left[c]
    PROVE  Fit(c)' = Fit(c)
  BY MaySame DEF Fit

\* What is put into a channel is for its client, so what is in it stays so.
LEMMA OursStep ==
    ASSUME Courteous, TaskOK, PipesOK, PointsOK, AllOrderly, AllOurs, [Next]_vars
    PROVE  AllOurs'
<1> USE DEF mine, pipes, shared
<1>0. "reauth" \notin Coincide /\ "unshare" \notin Coincide
  BY DEF Courteous
<1>1. ASSUME UNCHANGED <<token, meta, place, left, out, carry>> PROVE AllOurs'
  BY <1>1, FitSame DEF AllOurs
\* One channel changes, and what it holds is its client's.
<1>2. ASSUME NEW c \in Conns, UNCHANGED meta,
             \A k \in Conns : k # c =>
                 /\ token'[k] = token[k] /\ place'[k] = place[k] /\ left'[k] = left[k]
                 /\ out'[k] = out[k] /\ carry'[k] = carry[k],
             Only(out'[c], Fit(c)'), Only(carry'[c], Fit(c)')
      PROVE  AllOurs'
  <2>1. ASSUME NEW k \in Conns PROVE Only(out'[k], Fit(k)') /\ Only(carry'[k], Fit(k)')
    BY <1>2, FitSame DEF AllOurs
  <2> QED
    BY <2>1 DEF AllOurs
<1>3. ASSUME NEW c \in Conns, Enter(c) PROVE AllOurs'
  <2>1. /\ token[c] = NoToken /\ UNCHANGED <<meta, left, out, carry>>
        /\ token' = [token EXCEPT ![c] = slot[c]]
        /\ place' = [place EXCEPT ![c] = IF @ = NoPlace THEN @ ELSE <<slot[c].ws, @[2]>>]
    BY <1>3 DEF Enter, AllOrderly, Orderly
  <2>2. \A f \in Fit(c) : f \in Frames \union {Control} /\ f.place = NoPlace
    BY <2>1 DEF Fit, May
  <2>3. \A f \in Fit(c) : f \in Fit(c)'
    BY <2>2 DEF Fit
  <2>4. Only(out'[c], Fit(c)') /\ Only(carry'[c], Fit(c)')
    BY <2>1, <2>3 DEF Only, AllOurs
  <2>5. \A k \in Conns : k # c =>
            /\ token'[k] = token[k] /\ place'[k] = place[k] /\ left'[k] = left[k]
            /\ out'[k] = out[k] /\ carry'[k] = carry[k]
    BY <2>1 DEF TaskOK
  <2> QED
    BY <1>2, <2>1, <2>4, <2>5
\* One channel changes, and its client may be sent what it might.
<1>4. ASSUME NEW c \in Conns, UNCHANGED <<token, meta, place, left>>,
             \A k \in Conns : k # c => out'[k] = out[k] /\ carry'[k] = carry[k],
             Only(out'[c], Fit(c)), Only(carry'[c], Fit(c))
      PROVE  AllOurs'
  BY <1>2, <1>4, FitSame
<1>5. ASSUME NEW c \in Conns, Send(c) \/ Unblocked(c) PROVE AllOurs'
  <2>1. CASE UNCHANGED <<token, meta, place, left, out, carry>>
    BY <1>1, <2>1
  <2>2. CASE out' = [out EXCEPT ![c] = Append(@, Control)]
             /\ UNCHANGED <<token, meta, place, left, carry>>
    <3>1. Control \in Fit(c)
      BY DEF Control, Frame, Fit
    <3>2. out[c] \in Seq(Frames \union {Control}) /\ Only(out[c], Fit(c))
      BY DEF PipesOK, AllOurs
    <3>3. Only(Append(out[c], Control), Fit(c))
      BY <3>1, <3>2, OnlyAppend
    <3>4. out'[c] = Append(out[c], Control) /\ \A k \in Conns : k # c => out'[k] = out[k]
      BY <2>2 DEF PipesOK
    <3>5. Only(carry'[c], Fit(c))
      BY <2>2 DEF AllOurs
    <3> QED
      BY <1>4, <2>2, <3>3, <3>4, <3>5
  <2> QED
    BY <1>5, <2>1, <2>2 DEF Send, Unblocked
<1>6. ASSUME NEW c \in Conns, Forward(c) PROVE AllOurs'
  <2> DEFINE f == Head(cast[c])
  <2>1. /\ cast[c] # <<>> /\ carry[c] = <<>> /\ UNCHANGED <<token, meta, place, left, out>>
        /\ carry' = [carry EXCEPT ![c] = IF Passes(c, f) THEN <<f>> ELSE @]
    BY <1>6 DEF Forward
  <2>2. f \in Frames
    BY <2>1 DEF PipesOK
  <2>3. Passes(c, f) /\ f.place # NoPlace =>
            May(c, f.place) /\ (f.kind = "doc" => f.place = place[c])
    <3>1. f.kind \in {"doc", "event"}
      BY <2>2 DEF Frames
    <3> QED
      BY <3>1 DEF Passes, May, AllOrderly, Orderly
  <2>4. Passes(c, f) => f \in Fit(c)
    BY <2>2, <2>3 DEF Fit
  <2>5. \/ carry'[c] = <<>>
        \/ Passes(c, f) /\ carry'[c] = <<f>>
    BY <2>1 DEF PipesOK
  <2>6. Only(carry'[c], Fit(c))
    <3> HIDE DEF f
    <3>1. CASE carry'[c] = <<>>
      BY <3>1 DEF Only
    <3>2. CASE Passes(c, f) /\ carry'[c] = <<f>>
      BY <2>4, <3>2 DEF Only
    <3> QED
      BY <2>5, <3>1, <3>2
  <2>7. Only(out'[c], Fit(c))
    BY <2>1 DEF AllOurs
  <2>8. \A k \in Conns : k # c => out'[k] = out[k] /\ carry'[k] = carry[k]
    BY <2>1 DEF PipesOK
  <2> QED
    BY <1>4, <2>1, <2>6, <2>7, <2>8
<1>7. ASSUME NEW c \in Conns, Carry(c) PROVE AllOurs'
  <2>1. /\ out' = [out EXCEPT ![c] = @ \o carry[c]] /\ carry' = [carry EXCEPT ![c] = <<>>]
        /\ UNCHANGED <<token, meta, place, left>>
    BY <1>7 DEF Carry
  <2>2. out[c] \in Seq(Frames \union {Control}) /\ carry[c] \in Seq(Frames \union {Control})
    BY DEF PipesOK
  <2>3. out'[c] = out[c] \o carry[c] /\ carry'[c] = <<>>
    BY <2>1 DEF PipesOK
  <2>4. Only(out[c] \o carry[c], Fit(c))
    BY <2>2, OnlyConcat DEF AllOurs
  <2>5. Only(carry'[c], Fit(c))
    BY <2>3 DEF Only
  <2>6. \A k \in Conns : k # c => out'[k] = out[k] /\ carry'[k] = carry[k]
    BY <2>1 DEF PipesOK
  <2> QED
    BY <1>4, <2>1, <2>3, <2>4, <2>5, <2>6
<1>8. ASSUME NEW c \in Conns, Drain(c) PROVE AllOurs'
  <2>1. /\ out[c] # <<>> /\ out' = [out EXCEPT ![c] = Tail(@)]
        /\ left' = [left EXCEPT ![c] = IF out'[c] \o carry[c] = <<>> THEN {} ELSE @]
        /\ UNCHANGED <<token, meta, place, carry>>
    BY <1>8 DEF Drain
  <2>2. out[c] \in Seq(Frames \union {Control}) /\ out'[c] = Tail(out[c])
        /\ out'[c] \in Seq(Frames \union {Control}) /\ carry[c] \in Seq(Frames \union {Control})
    BY <2>1 DEF PipesOK
  <2>3. Only(Tail(out[c]), Fit(c)) /\ Only(carry[c], Fit(c))
    BY <2>1, <2>2, OnlyTail DEF AllOurs
  <2>4. Only(out'[c], Fit(c)') /\ Only(carry'[c], Fit(c)')
    <3>1. CASE out'[c] \o carry[c] = <<>>
      BY <2>1, <2>2, <3>1, NothingIn
    <3>2. CASE out'[c] \o carry[c] # <<>>
      <4>1. left'[c] = left[c]
        BY <2>1, <3>2 DEF TaskOK
      <4> QED
        BY <2>1, <2>2, <2>3, <4>1, FitSame
    <3> QED
      BY <3>1, <3>2
  <2>5. \A k \in Conns : k # c =>
            /\ token'[k] = token[k] /\ place'[k] = place[k] /\ left'[k] = left[k]
            /\ out'[k] = out[k] /\ carry'[k] = carry[k]
    BY <2>1 DEF PipesOK, TaskOK
  <2> QED
    BY <1>2, <2>1, <2>4, <2>5
<1>9. ASSUME NEW c \in Conns, Leave(c) PROVE AllOurs'
  <2>1. /\ token' = [token EXCEPT ![c] = NoToken] /\ out' = [out EXCEPT ![c] = <<>>]
        /\ carry' = [carry EXCEPT ![c] = <<>>] /\ UNCHANGED meta
        /\ place' = [place EXCEPT ![c] = NoPlace] /\ left' = [left EXCEPT ![c] = {}]
    BY <1>9 DEF Leave
  <2>2. out'[c] = <<>> /\ carry'[c] = <<>>
    BY <2>1 DEF PipesOK
  <2>3. Only(out'[c], Fit(c)') /\ Only(carry'[c], Fit(c)')
    BY <2>2 DEF Only
  <2>4. \A k \in Conns : k # c =>
            /\ token'[k] = token[k] /\ place'[k] = place[k] /\ left'[k] = left[k]
            /\ out'[k] = out[k] /\ carry'[k] = carry[k]
    BY <2>1 DEF PipesOK, TaskOK
  <2> QED
    BY <1>2, <2>1, <2>3, <2>4
<1>10. ASSUME NEW c \in Conns,
              \/ Accept(c) \/ Accepted(c) \/ Break(c) \/ Recheck(c) \/ SendFails(c)
              \/ \E t \in TokensOf[c] : Auth(c, t)
              \/ \E d \in Docs : Join(c, d)
              \/ Scan(c) \/ Evict(c) \/ Release(c) \/ Ask(c) \/ Write(c)
       PROVE  AllOurs'
  BY <1>1, <1>10 DEF Accept, Accepted, Break, Recheck, SendFails, Auth, Join, Scan, Evict, Release,
                     Ask, Write
\* Who moves to another document has left one, if frames are on the way to it.
<1>14. ASSUME NEW c \in Conns, Joined(c) PROVE AllOurs'
  <2>1. /\ place' = [place EXCEPT ![c] = want[c]]
        /\ left' = [left EXCEPT ![c] = IF out[c] \o carry[c] = <<>> THEN {}
                                      ELSE (@ \union {place[c]}) \ {want[c], NoPlace}]
        /\ UNCHANGED <<token, meta, out, carry>>
    BY <1>14 DEF Joined
  <2>2. out[c] \in Seq(Frames \union {Control}) /\ carry[c] \in Seq(Frames \union {Control})
    BY DEF PipesOK
  <2>3. Only(out'[c], Fit(c)') /\ Only(carry'[c], Fit(c)')
    <3>1. CASE out[c] \o carry[c] = <<>>
      BY <2>1, <2>2, <3>1, NothingIn
    <3>2. CASE out[c] \o carry[c] # <<>>
      <4>1. left'[c] = (left[c] \union {place[c]}) \ {want[c], NoPlace} /\ place'[c] = want[c]
        BY <2>1, <3>2 DEF TaskOK
      <4>2. \A f \in Fit(c) : f \in Fit(c)'
        BY <2>1, <4>1, MaySame DEF Fit
      <4> QED
        BY <2>1, <4>2 DEF Only, AllOurs
    <3> QED
      BY <3>1, <3>2
  <2>4. \A k \in Conns : k # c =>
            /\ token'[k] = token[k] /\ place'[k] = place[k] /\ left'[k] = left[k]
            /\ out'[k] = out[k] /\ carry'[k] = carry[k]
    BY <2>1 DEF TaskOK
  <2> QED
    BY <1>2, <2>1, <2>3, <2>4
<1>11. ASSUME NEW t, Lapse(t) PROVE AllOurs'
  BY <1>1, <1>11 DEF Lapse
<1>12. ASSUME NEW p, NEW u, Announce(p, u) PROVE AllOurs'
  BY <1>0, <1>1, <1>12 DEF Announce
<1>13. CASE UNCHANGED vars
  BY <1>1, <1>13 DEF vars
<1> QED
  BY <1>3, <1>5, <1>6, <1>7, <1>8, <1>9, <1>10, <1>11, <1>12, <1>13, <1>14 DEF Next, Requests, Advance

LEMMA InitOurs == Init => AllOrderly /\ ResidentIsUsed /\ AllOurs
  BY DEF Init, AllOrderly, Orderly, ResidentIsUsed, AllOurs, Only

\* Frames are of the client's workspace and of documents it may read, edits are of
\* documents it joined, and Y.Docs stay only for those who joined, for any connections, tokens, limits and sizes
\* of the channels, as long as clients authenticate once and keep their shares.
THEOREM JoinedServed == Courteous /\ Spec => []JoinedOnly
<1> DEFINE IInv == /\ TaskOK /\ PipesOK /\ SharedOK /\ PointsOK
                   /\ AllOrderly /\ ResidentIsUsed /\ AllOurs
<1>1. Init => IInv
  BY InitType, InitOurs
<1>2. Courteous /\ IInv /\ [Next]_vars => IInv'
  BY TypeStep, OrderlyStep, OursStep
<1>3. IInv => JoinedOnly
  BY DEF JoinedOnly, FramesAreOurs, AllOurs, Only, Fit, May
<1>4. Courteous => Courteous'
  BY DEF Courteous
<1> QED
  BY <1>1, <1>2, <1>3, <1>4, PTL DEF Spec

-----------------------------------------------------------------------------
(* Steps: the counters are the connections *)

\* A task holds a slot outside the table only while it enters or leaves, and then
\* the table has none for it.
SlotApart ==
    \A c \in Conns :
        /\ slot[c] # NoToken => pc[c] \in {"enter", "release"} /\ token[c] = NoToken
        /\ pc[c] = "enter" => token[c] = NoToken

EditorsOf(w) == {c \in Conns : \E t \in Held(c) : t.ws = w /\ IsEditor(t)}
ViewersOf(w) == {c \in Conns : \E t \in Held(c) : t.ws = w /\ ~IsEditor(t)}

LEMMA FiniteOf ==
    ASSUME NEW w
    PROVE  /\ IsFiniteSet(EditorsOf(w)) /\ IsFiniteSet(ViewersOf(w))
           /\ Cardinality(EditorsOf(w)) \in Nat /\ Cardinality(ViewersOf(w)) \in Nat
<1>1. EditorsOf(w) \in SUBSET Conns /\ ViewersOf(w) \in SUBSET Conns
  BY DEF EditorsOf, ViewersOf
<1> QED
  BY <1>1, ConnsAssumption, FS_Subset, FS_CardinalityType

\* What a step does to the slots: nothing, or one connection takes or returns one.
Same == counts' = counts /\ \A c \in Conns : Held(c)' = Held(c)
OthersSame(c) == \A k \in Conns : k # c => Held(k)' = Held(k)
Taken(c, t) == HasRoom(t) /\ counts' = Registered(t) /\ Held(c) = {} /\ Held(c)' = {t} /\ OthersSame(c)
Returned(c, t) == counts' = Released(t) /\ Held(c) = {t} /\ Held(c)' = {} /\ OthersSame(c)
SlotEvent == Same \/ \E c \in Conns, t \in Tokens : Taken(c, t) \/ Returned(c, t)

\* One connection takes a slot for t.
LEMMA BalanceTaken ==
    ASSUME SharedOK, SlotsBalance, NEW c \in Conns, NEW t \in Tokens, Taken(c, t)
    PROVE  SlotsBalance'
<1> SUFFICES ASSUME NEW w \in Wss
             PROVE  /\ counts'[w].editors = Cardinality(EditorsOf(w)')
                    /\ counts'[w].viewers = Cardinality(ViewersOf(w)')
  BY DEF SlotsBalance, EditorsOf, ViewersOf
<1>1. /\ counts[w].editors = Cardinality(EditorsOf(w))
      /\ counts[w].viewers = Cardinality(ViewersOf(w))
  BY DEF SlotsBalance, EditorsOf, ViewersOf
<1>2. c \notin EditorsOf(w) /\ c \notin ViewersOf(w)
  BY DEF EditorsOf, ViewersOf, Taken
<1>3. /\ EditorsOf(w)' = IF t.ws = w /\ IsEditor(t) THEN EditorsOf(w) \union {c} ELSE EditorsOf(w)
      /\ ViewersOf(w)' = IF t.ws = w /\ ~IsEditor(t) THEN ViewersOf(w) \union {c} ELSE ViewersOf(w)
  BY DEF EditorsOf, ViewersOf, OthersSame, Taken
<1>4. /\ Cardinality(EditorsOf(w) \union {c}) = Cardinality(EditorsOf(w)) + 1
      /\ Cardinality(ViewersOf(w) \union {c}) = Cardinality(ViewersOf(w)) + 1
  BY <1>2, FiniteOf, FS_AddElement
<1>5. /\ counts'[w].editors = IF t.ws = w /\ IsEditor(t) THEN counts[w].editors + 1 ELSE counts[w].editors
      /\ counts'[w].viewers = IF t.ws = w /\ ~IsEditor(t) THEN counts[w].viewers + 1 ELSE counts[w].viewers
  <2>1. CASE IsEditor(t)
    <3>1. counts' = [counts EXCEPT ![t.ws].editors = @ + 1]
      BY <2>1 DEF Registered, Taken
    <3> QED
      BY <2>1, <3>1 DEF SharedOK
  <2>2. CASE ~ IsEditor(t)
    <3>1. counts' = [counts EXCEPT ![t.ws].viewers = @ + 1]
      BY <2>2 DEF Registered, Taken
    <3> QED
      BY <2>2, <3>1 DEF SharedOK
  <2> QED
    BY <2>1, <2>2
<1>6. counts'[w].editors = Cardinality(EditorsOf(w)')
  BY <1>1, <1>3, <1>4, <1>5
<1>7. counts'[w].viewers = Cardinality(ViewersOf(w)')
  BY <1>1, <1>3, <1>4, <1>5
<1> QED
  BY <1>6, <1>7

\* One connection gives back the slot it has for t.
LEMMA BalanceReturned ==
    ASSUME SharedOK, SlotsBalance, NEW c \in Conns, NEW t \in Tokens, Returned(c, t)
    PROVE  SlotsBalance'
<1> SUFFICES ASSUME NEW w \in Wss
             PROVE  /\ counts'[w].editors = Cardinality(EditorsOf(w)')
                    /\ counts'[w].viewers = Cardinality(ViewersOf(w)')
  BY DEF SlotsBalance, EditorsOf, ViewersOf
<1>1. /\ counts[w].editors = Cardinality(EditorsOf(w))
      /\ counts[w].viewers = Cardinality(ViewersOf(w))
  BY DEF SlotsBalance, EditorsOf, ViewersOf
<1>2. /\ t.ws = w /\ IsEditor(t) <=> c \in EditorsOf(w)
      /\ t.ws = w /\ ~IsEditor(t) <=> c \in ViewersOf(w)
  BY DEF EditorsOf, ViewersOf, Returned
<1>3. /\ EditorsOf(w)' = EditorsOf(w) \ {c}
      /\ ViewersOf(w)' = ViewersOf(w) \ {c}
  BY DEF EditorsOf, ViewersOf, OthersSame, Returned
<1>4. /\ c \in EditorsOf(w) => Cardinality(EditorsOf(w)) # 0
      /\ c \in ViewersOf(w) => Cardinality(ViewersOf(w)) # 0
  BY FiniteOf, FS_EmptySet
<1>5. /\ Cardinality(EditorsOf(w) \ {c}) =
            IF c \in EditorsOf(w) THEN Cardinality(EditorsOf(w)) - 1 ELSE Cardinality(EditorsOf(w))
      /\ Cardinality(ViewersOf(w) \ {c}) =
            IF c \in ViewersOf(w) THEN Cardinality(ViewersOf(w)) - 1 ELSE Cardinality(ViewersOf(w))
  BY FiniteOf, FS_RemoveElement
<1>6. /\ counts'[w].editors = IF t.ws = w /\ IsEditor(t) THEN Pred(counts[w].editors) ELSE counts[w].editors
      /\ counts'[w].viewers = IF t.ws = w /\ ~IsEditor(t) THEN Pred(counts[w].viewers) ELSE counts[w].viewers
  <2>1. CASE IsEditor(t)
    <3>1. counts' = [counts EXCEPT ![t.ws].editors = Pred(@)]
      BY <2>1 DEF Released, Returned
    <3> QED
      BY <2>1, <3>1 DEF SharedOK
  <2>2. CASE ~ IsEditor(t)
    <3>1. counts' = [counts EXCEPT ![t.ws].viewers = Pred(@)]
      BY <2>2 DEF Released, Returned
    <3> QED
      BY <2>2, <3>1 DEF SharedOK
  <2> QED
    BY <2>1, <2>2
<1>7. counts'[w].editors = Cardinality(EditorsOf(w)')
  BY <1>1, <1>2, <1>3, <1>4, <1>5, <1>6 DEF Pred
<1>8. counts'[w].viewers = Cardinality(ViewersOf(w)')
  BY <1>1, <1>2, <1>3, <1>4, <1>5, <1>6 DEF Pred
<1> QED
  BY <1>7, <1>8

LEMMA SlotStep ==
    ASSUME "reauth" \notin Coincide, TaskOK, SlotApart, [Next]_vars
    PROVE  SlotApart' /\ SlotEvent
<1> DEFINE Kept == SlotApart' /\ SlotEvent
<1> USE DEF mine, pipes, shared
\* A task moves on that neither enters nor releases.
<1>1. ASSUME NEW c \in Conns, pc[c] \notin {"enter", "release"},
             \A k \in Conns : k # c => pc'[k] = pc[k], pc'[c] # "enter",
             UNCHANGED <<token, slot, counts>>
      PROVE  Kept
  <2>1. slot[c] = NoToken
    BY <1>1 DEF SlotApart
  <2>2. SlotApart'
    BY <1>1, <2>1 DEF SlotApart
  <2>3. \A k \in Conns : Held(k)' = Held(k)
    BY <1>1 DEF Held
  <2> QED
    BY <1>1, <2>2, <2>3 DEF SlotEvent, Same
<1>2. ASSUME UNCHANGED <<pc, token, slot, counts>> PROVE Kept
  <2>1. SlotApart'
    BY <1>2 DEF SlotApart
  <2>2. \A k \in Conns : Held(k)' = Held(k)
    BY <1>2 DEF Held
  <2> QED
    BY <1>2, <2>1, <2>2 DEF SlotEvent, Same
<1>3. ASSUME NEW c \in Conns, NEW l, Goto(c, l), l # "enter", pc[c] \notin {"enter", "release"},
             UNCHANGED <<token, slot, counts>>
      PROVE  Kept
  <2>1. pc'[c] = l /\ \A k \in Conns : k # c => pc'[k] = pc[k]
    BY <1>3 DEF Goto, TaskOK
  <2> QED
    BY <1>1, <1>3, <2>1
<1>4. ASSUME NEW c \in Conns,
             \/ Accept(c) \/ Accepted(c) \/ Break(c) \/ Recheck(c) \/ SendFails(c)
             \/ Ask(c) \/ Write(c) \/ Send(c) \/ Unblocked(c)
      PROVE  Kept
  BY <1>2, <1>3, <1>4 DEF Accept, Accepted, Break, Recheck, SendFails, Ask, Write, Send,
                          Unblocked, Answer
<1>5. ASSUME NEW c \in Conns, NEW t \in TokensOf[c], Auth(c, t) PROVE Kept
  <2>1. pc[c] = "idle" /\ token[c] = NoToken /\ UNCHANGED token
    BY <1>5 DEF Auth
  <2>2. CASE Answer(c) /\ UNCHANGED <<slot, counts>>
    BY <1>3, <2>1, <2>2 DEF Answer
  <2>3. CASE /\ Goto(c, "enter") /\ slot' = [slot EXCEPT ![c] = t] /\ counts' = Registered(t)
    <3>1. t \in Tokens /\ t # NoToken
      BY TokenType, DistinctNone
    <3>2. slot[c] = NoToken
      BY <2>1 DEF SlotApart
    <3>3. SlotApart'
      BY <2>1, <2>3 DEF SlotApart, Goto, TaskOK
    <3>4. Held(c) = {} /\ Held(c)' = {t}
      BY <2>1, <2>3, <3>1, <3>2 DEF Held, TaskOK
    <3>5. \A k \in Conns : k # c => Held(k)' = Held(k)
      BY <2>1, <2>3 DEF Held, TaskOK
    <3>6. HasRoom(t)
      BY <1>5, <2>1, <2>3 DEF Auth, Goto, Answer, TaskOK
    <3> QED
      BY <2>3, <3>1, <3>3, <3>4, <3>5, <3>6 DEF SlotEvent, Taken, OthersSame
  <2> QED
    BY <1>5, <2>2, <2>3 DEF Auth
<1>6. ASSUME NEW c \in Conns, Enter(c) PROVE Kept
  <2>1. /\ token' = [token EXCEPT ![c] = slot[c]] /\ slot' = [slot EXCEPT ![c] = NoToken]
        /\ pc' = [pc EXCEPT ![c] = "reply"] /\ UNCHANGED counts /\ token[c] = NoToken
    BY <1>6 DEF Enter, Answer, Goto, SlotApart
  <2>2. SlotApart'
    BY <2>1 DEF SlotApart, TaskOK
  <2>3. \A k \in Conns : Held(k)' = Held(k)
    BY <2>1 DEF Held, TaskOK
  <2> QED
    BY <2>1, <2>2, <2>3 DEF SlotEvent, Same
<1>7. ASSUME NEW c \in Conns, NEW d \in Docs, Join(c, d) PROVE Kept
  BY <1>3, <1>7 DEF Join, Answer
<1>8. ASSUME NEW c \in Conns, Joined(c) PROVE Kept
  BY <1>3, <1>8 DEF Joined, Open, Answer
<1>9. ASSUME NEW c \in Conns, Scan(c) PROVE Kept
  BY <1>3, <1>9 DEF Scan, GoOn, Open, Answer
<1>10. ASSUME NEW c \in Conns, Evict(c) PROVE Kept
  BY <1>3, <1>10 DEF Evict, GoOn, Open, Answer
<1>11. ASSUME NEW c \in Conns, Forward(c) \/ Carry(c) \/ Drain(c) PROVE Kept
  BY <1>2, <1>11 DEF Forward, Carry, Drain
<1>12. ASSUME NEW c \in Conns, Leave(c) PROVE Kept
  <2>1. /\ pc[c] = "leave" /\ token' = [token EXCEPT ![c] = NoToken]
        /\ slot' = [slot EXCEPT ![c] = token[c]]
        /\ pc' = [pc EXCEPT ![c] = "release"] /\ UNCHANGED counts
    BY <1>12 DEF Leave, Goto
  <2>2. slot[c] = NoToken
    BY <2>1 DEF SlotApart
  <2>3. SlotApart'
    BY <2>1 DEF SlotApart, TaskOK
  <2>4. \A k \in Conns : Held(k)' = Held(k)
    BY <2>1, <2>2 DEF Held, TaskOK
  <2> QED
    BY <2>1, <2>3, <2>4 DEF SlotEvent, Same
<1>13. ASSUME NEW c \in Conns, Release(c) PROVE Kept
  <2>1. /\ pc[c] = "release" /\ slot' = [slot EXCEPT ![c] = NoToken] /\ UNCHANGED token
        /\ pc' = [pc EXCEPT ![c] = IF old[c] = NoPlace THEN "off" ELSE "scan"]
        /\ counts' = IF slot[c] = NoToken THEN counts ELSE Released(slot[c])
    BY <1>13 DEF Release, Goto
  <2>2. SlotApart'
    BY <2>1 DEF SlotApart, TaskOK
  <2>3. \A k \in Conns : k # c => Held(k)' = Held(k)
    BY <2>1 DEF Held, TaskOK
  <2>4. CASE slot[c] = NoToken
    <3>1. Held(c)' = Held(c)
      BY <2>1, <2>4 DEF Held, TaskOK
    <3> QED
      BY <2>1, <2>2, <2>3, <2>4, <3>1 DEF SlotEvent, Same
  <2>5. CASE slot[c] # NoToken
    <3>1. slot[c] \in Tokens /\ token[c] = NoToken
      BY <2>5 DEF TaskOK, SlotApart
    <3>2. Held(c) = {slot[c]} /\ Held(c)' = {}
      BY <2>1, <2>5, <3>1 DEF Held, TaskOK
    <3> QED
      BY <2>1, <2>2, <2>3, <2>5, <3>1, <3>2 DEF SlotEvent, Returned, OthersSame
  <2> QED
    BY <2>4, <2>5
<1>14. ASSUME NEW t, Lapse(t) PROVE Kept
  BY <1>2, <1>14 DEF Lapse
<1>15. ASSUME NEW p, NEW u, Announce(p, u) PROVE Kept
  BY <1>2, <1>15 DEF Announce
<1>16. CASE UNCHANGED vars
  BY <1>2, <1>16 DEF vars
<1> QED
  BY <1>4, <1>5, <1>6, <1>7, <1>8, <1>9, <1>10, <1>11, <1>12, <1>13, <1>14, <1>15,
     <1>16 DEF Next, Requests, Advance

LEMMA BalanceStep ==
    ASSUME SharedOK, SlotsBalance, SlotEvent
    PROVE  SlotsBalance'
<1>1. ASSUME Same PROVE SlotsBalance'
  <2>1. \A w : EditorsOf(w)' = EditorsOf(w) /\ ViewersOf(w)' = ViewersOf(w)
    BY <1>1 DEF Same, EditorsOf, ViewersOf
  <2> QED
    BY <1>1, <2>1 DEF Same, SlotsBalance, EditorsOf, ViewersOf
<1> QED
  BY <1>1, BalanceTaken, BalanceReturned DEF SlotEvent

LEMMA InitBalance == Init => SlotApart /\ SlotsBalance
<1> SUFFICES ASSUME Init PROVE SlotApart /\ SlotsBalance
  OBVIOUS
<1>1. SlotApart
  BY DEF Init, SlotApart
<1>2. \A c \in Conns : Held(c) = {}
  BY DEF Init, Held
<1>3. \A w : EditorsOf(w) = {} /\ ViewersOf(w) = {}
  BY <1>2 DEF EditorsOf, ViewersOf
<1>4. \A w \in Wss : counts[w].editors = 0 /\ counts[w].viewers = 0
  BY DEF Init
<1> QED
  BY <1>1, <1>3, <1>4, FS_EmptySet DEF SlotsBalance, EditorsOf, ViewersOf

-----------------------------------------------------------------------------
(* Steps: the limits *)

\* Of any editors of a workspace, one was let in under a limit that is not below
\* their number: the one that came last.  (Of any, since editors leave.)
LimitsRespected ==
    \A w \in Wss : \A S \in SUBSET EditorsOf(w) :
        S # {} => \E c \in S : \E t \in Held(c) : t.limit > 0 => Cardinality(S) <= t.limit

TotalsRespected == \A w \in Wss : Total(w) <= Cap

LEMMA TotalsStep ==
    ASSUME SharedOK, TotalsRespected, SlotEvent
    PROVE  TotalsRespected'
<1> SUFFICES ASSUME NEW w \in Wss PROVE Total(w)' <= Cap
  BY DEF TotalsRespected
<1>1. /\ counts[w].editors \in Nat /\ counts[w].viewers \in Nat /\ Cap \in Nat
      /\ counts[w].editors + counts[w].viewers <= Cap
  BY BoundsAssumption DEF SharedOK, TotalsRespected, Total
<1>2. CASE Same
  BY <1>1, <1>2 DEF Same, Total
<1>3. ASSUME NEW c \in Conns, NEW t \in Tokens, Taken(c, t) PROVE Total(w)' <= Cap
  <2>1. t.ws = w => counts[w].editors + counts[w].viewers < Cap
    BY <1>3 DEF Taken, HasRoom, Total
  <2>2. \/ counts' = [counts EXCEPT ![t.ws].editors = @ + 1]
        \/ counts' = [counts EXCEPT ![t.ws].viewers = @ + 1]
    BY <1>3 DEF Taken, Registered
  <2>3. \/ counts'[w] = counts[w]
        \/ t.ws = w /\ counts'[w].editors = counts[w].editors + 1 /\ counts'[w].viewers = counts[w].viewers
        \/ t.ws = w /\ counts'[w].editors = counts[w].editors /\ counts'[w].viewers = counts[w].viewers + 1
    BY <2>2 DEF SharedOK
  <2> QED
    BY <1>1, <2>1, <2>3 DEF Total
<1>4. ASSUME NEW c \in Conns, NEW t \in Tokens, Returned(c, t) PROVE Total(w)' <= Cap
  <2>1. \A n \in Nat : Pred(n) \in Nat /\ Pred(n) <= n
    BY DEF Pred
  <2>2. \/ counts' = [counts EXCEPT ![t.ws].editors = Pred(@)]
        \/ counts' = [counts EXCEPT ![t.ws].viewers = Pred(@)]
    BY <1>4 DEF Returned, Released
  <2>3. \/ counts'[w] = counts[w]
        \/ counts'[w].editors = Pred(counts[w].editors) /\ counts'[w].viewers = counts[w].viewers
        \/ counts'[w].editors = counts[w].editors /\ counts'[w].viewers = Pred(counts[w].viewers)
    BY <2>2 DEF SharedOK
  <2> HIDE DEF Pred
  <2> QED
    BY <1>1, <2>1, <2>3 DEF Total
<1> QED
  BY <1>2, <1>3, <1>4 DEF SlotEvent

LEMMA LimitsStep ==
    ASSUME SharedOK, SlotsBalance, LimitsRespected, SlotEvent
    PROVE  LimitsRespected'
<1> SUFFICES ASSUME NEW w \in Wss, NEW S \in SUBSET (EditorsOf(w)'), S # {}
             PROVE  \E c \in S : \E t \in Held(c)' : t.limit > 0 => Cardinality(S) <= t.limit
  BY DEF LimitsRespected
\* Editors that were there before.
<1>1. ASSUME S \subseteq EditorsOf(w), \A c \in S : Held(c)' = Held(c)
      PROVE  \E c \in S : \E t \in Held(c)' : t.limit > 0 => Cardinality(S) <= t.limit
  BY <1>1 DEF LimitsRespected
<1>2. CASE Same
  <2>1. S \subseteq EditorsOf(w) /\ \A c \in S : Held(c)' = Held(c)
    BY <1>2 DEF Same, EditorsOf
  <2> QED
    BY <1>1, <2>1
<1>3. ASSUME NEW c \in Conns, NEW t \in Tokens, Taken(c, t)
      PROVE  \E k \in S : \E u \in Held(k)' : u.limit > 0 => Cardinality(S) <= u.limit
  <2>1. CASE c \notin S
    <3>1. S \subseteq EditorsOf(w) /\ \A k \in S : Held(k)' = Held(k)
      BY <1>3, <2>1 DEF Taken, OthersSame, EditorsOf
    <3> QED
      BY <1>1, <3>1
  <2>2. CASE c \in S
    <3>1. t.ws = w /\ IsEditor(t) /\ Held(c)' = {t}
      BY <1>3, <2>2 DEF Taken, EditorsOf
    <3>2. t.limit > 0 => Cardinality(EditorsOf(w)) < t.limit
      BY <1>3, <3>1 DEF Taken, HasRoom, SlotsBalance, EditorsOf
    <3>3. S \in SUBSET (EditorsOf(w) \union {c})
      BY <1>3 DEF Taken, OthersSame, EditorsOf
    <3>4. /\ IsFiniteSet(EditorsOf(w) \union {c})
          /\ Cardinality(EditorsOf(w) \union {c}) <= Cardinality(EditorsOf(w)) + 1
          /\ Cardinality(EditorsOf(w)) \in Nat
      <4>1. IsFiniteSet(EditorsOf(w)) /\ Cardinality(EditorsOf(w)) \in Nat
        BY FiniteOf
      <4>2. /\ IsFiniteSet(EditorsOf(w) \union {c})
            /\ Cardinality(EditorsOf(w) \union {c}) =
                 IF c \in EditorsOf(w) THEN Cardinality(EditorsOf(w))
                                       ELSE Cardinality(EditorsOf(w)) + 1
        BY <4>1, FS_AddElement
      <4> QED
        BY <4>1, <4>2
    <3>5. Cardinality(S) <= Cardinality(EditorsOf(w) \union {c}) /\ IsFiniteSet(S)
      BY <3>3, <3>4, FS_Subset
    <3>6. Cardinality(S) \in Nat /\ Cardinality(EditorsOf(w) \union {c}) \in Nat
      BY <3>4, <3>5, FS_CardinalityType
    <3>7. t.limit \in Nat
      BY TokensAssumption
    <3>8. t.limit > 0 => Cardinality(S) <= t.limit
      BY <3>2, <3>4, <3>5, <3>6, <3>7
    <3> QED
      BY <2>2, <3>1, <3>8
  <2> QED
    BY <2>1, <2>2
<1>4. ASSUME NEW c \in Conns, NEW t \in Tokens, Returned(c, t)
      PROVE  \E k \in S : \E u \in Held(k)' : u.limit > 0 => Cardinality(S) <= u.limit
  <2>1. S \subseteq EditorsOf(w) /\ \A k \in S : Held(k)' = Held(k)
    BY <1>4 DEF Returned, OthersSame, EditorsOf
  <2> QED
    BY <1>1, <2>1
<1> QED
  BY <1>2, <1>3, <1>4 DEF SlotEvent

\* The slots' invariants bound the connections in the table.
LEMMA LimitsFollow ==
    ASSUME TaskOK, SharedOK, SlotApart, SlotsBalance, LimitsRespected, TotalsRespected
    PROVE  CapsHold
<1> SUFFICES ASSUME NEW w \in Wss
             PROVE  LET in == {c \in Conns : token[c] # NoToken /\ token[c].ws = w}
                        editors == {c \in in : IsEditor(token[c])} IN
                    /\ Cardinality(in) <= Cap
                    /\ editors # {} =>
                         \E c \in editors :
                             token[c].limit > 0 => Cardinality(editors) <= token[c].limit
  BY DEF CapsHold
<1> DEFINE in == {c \in Conns : token[c] # NoToken /\ token[c].ws = w}
           editors == {c \in in : IsEditor(token[c])}
<1>1. \A c \in in : Held(c) = {token[c]}
  BY DEF SlotApart, Held
<1>2. editors \in SUBSET EditorsOf(w)
  BY <1>1 DEF EditorsOf
<1>3. in \in SUBSET (EditorsOf(w) \union ViewersOf(w))
  BY <1>1 DEF EditorsOf, ViewersOf
<1>4. Cardinality(in) <= Cap
  <2>1. EditorsOf(w) \intersect ViewersOf(w) = {}
    <3>1. \A c \in Conns : slot[c] = NoToken \/ token[c] = NoToken
      BY DEF SlotApart
    <3> QED
      BY <3>1 DEF EditorsOf, ViewersOf, Held
  <2>2. /\ IsFiniteSet(EditorsOf(w) \union ViewersOf(w))
        /\ Cardinality(EditorsOf(w) \union ViewersOf(w)) =
              Cardinality(EditorsOf(w)) + Cardinality(ViewersOf(w))
              - Cardinality(EditorsOf(w) \intersect ViewersOf(w))
    BY FiniteOf, FS_Union
  <2>3. Cardinality(EditorsOf(w) \intersect ViewersOf(w)) = 0
    BY <2>1, FS_EmptySet
  <2>4. Cardinality(EditorsOf(w)) + Cardinality(ViewersOf(w)) <= Cap
    BY DEF SlotsBalance, TotalsRespected, Total, EditorsOf, ViewersOf
  <2>5. Cardinality(in) <= Cardinality(EditorsOf(w) \union ViewersOf(w)) /\ IsFiniteSet(in)
    BY <1>3, <2>2, FS_Subset
  <2>6. /\ Cardinality(in) \in Nat /\ Cardinality(EditorsOf(w) \union ViewersOf(w)) \in Nat
        /\ Cardinality(EditorsOf(w)) \in Nat /\ Cardinality(ViewersOf(w)) \in Nat /\ Cap \in Nat
    BY <2>2, <2>5, FiniteOf, FS_CardinalityType, BoundsAssumption
  <2> HIDE DEF in
  <2> QED
    BY <2>2, <2>3, <2>4, <2>5, <2>6
<1>5. editors # {} =>
         \E c \in editors : token[c].limit > 0 => Cardinality(editors) <= token[c].limit
  <2> SUFFICES ASSUME editors # {}
               PROVE  \E c \in editors : token[c].limit > 0 => Cardinality(editors) <= token[c].limit
    OBVIOUS
  <2>1. PICK c \in editors : \E t \in Held(c) : t.limit > 0 => Cardinality(editors) <= t.limit
    BY <1>2 DEF LimitsRespected
  <2> QED
    BY <1>1, <2>1
<1> QED
  BY <1>4, <1>5

LEMMA InitLimits == Init => SlotApart /\ SlotsBalance /\ LimitsRespected /\ TotalsRespected
<1> SUFFICES ASSUME Init PROVE LimitsRespected /\ TotalsRespected
  BY InitBalance
<1>1. \A w : EditorsOf(w) = {}
  BY DEF Init, EditorsOf, Held
<1>2. \A w \in Wss : Total(w) = 0
  BY DEF Init, Total
<1> QED
  BY <1>1, <1>2, BoundsAssumption DEF LimitsRespected, TotalsRespected

\* Clients that authenticate once.
AuthOnce == "reauth" \notin Coincide

\* The counters are the connections, whatever ends those: no slot leaks and none
\* is given back twice.  So a workspace has Cap connections at most, and at most
\* as many editors as one of them was let in under, for any connections, tokens,
\* limits and timing, as long as clients authenticate once.
THEOREM SlotsAndLimits == AuthOnce /\ Spec => []LimitsHold
<1> DEFINE IInv == /\ TaskOK /\ PipesOK /\ SharedOK /\ PointsOK
                   /\ SlotApart /\ SlotsBalance /\ LimitsRespected /\ TotalsRespected
<1>1. Init => IInv
  BY InitType, InitLimits
<1>2. AuthOnce /\ IInv /\ [Next]_vars => IInv'
  <2> SUFFICES ASSUME AuthOnce, IInv, [Next]_vars PROVE IInv'
    OBVIOUS
  <2>1. TaskOK' /\ PipesOK' /\ SharedOK' /\ PointsOK'
    BY TypeStep
  <2>2. SlotApart' /\ SlotEvent
    BY SlotStep DEF AuthOnce
  <2> QED
    BY <2>1, <2>2, BalanceStep, LimitsStep, TotalsStep
<1>3. IInv => LimitsHold
  BY LimitsFollow DEF LimitsHold
<1>4. AuthOnce => AuthOnce'
  BY DEF AuthOnce
<1> QED
  BY <1>1, <1>2, <1>3, <1>4, PTL DEF Spec
=============================================================================
