----------------------------- MODULE Permissions -----------------------------
(***************************************************************************)
(* Who may do what to a document: the resolver of                          *)
(* relay/src/server/permissions.rs.  The effective level is the highest    *)
(* grant, clamped by the cap of the workspace role.                        *)
(*                                                                         *)
(* A document's metadata has an owner (or NoOwner, the legacy documents)   *)
(* and a set of shares, records of a user and a level.                     *)
(***************************************************************************)
EXTENDS Naturals

CONSTANT NoOwner

None == 0
Viewer == 1
Editor == 2
Owner == 3
Levels == None..Owner

Roles == {"owner", "member", "viewer"}

Service == [kind |-> "service"]
Anonymous == [kind |-> "anonymous"]
Member(u, role) == [kind |-> "user", user |-> u, role |-> role]

\* The sources that grant a level to a user.
Grants(u, role, doc, enforce) ==
    {l \in Levels :
        \/ l = None
        \/ l = Editor /\ (~enforce \/ doc.owner = NoOwner)
        \/ l = Owner /\ (doc.owner = u \/ role = "owner")
        \/ \E s \in doc.shares : s.user = u /\ s.level = l}

Highest(S) == CHOOSE l \in S : \A k \in S : k <= l

RoleCap(role) == IF role = "viewer" THEN Viewer ELSE Owner

Lesser(a, b) == IF a <= b THEN a ELSE b

\* The effective permission of a principal on a document.
Resolve(p, doc, enforce) ==
    CASE p.kind = "service" -> Owner
      [] p.kind = "anonymous" -> None
      [] OTHER -> Lesser(Highest(Grants(p.user, p.role, doc, enforce)),
                         RoleCap(p.role))

CheckPermission(p, doc, enforce, required) ==
    p.kind # "anonymous" /\ Resolve(p, doc, enforce) >= required

MayRead(p, doc, enforce) == CheckPermission(p, doc, enforce, Viewer)
MayWrite(p, doc, enforce) == CheckPermission(p, doc, enforce, Editor)
MayManage(p, doc, enforce) == CheckPermission(p, doc, enforce, Owner)
=============================================================================
