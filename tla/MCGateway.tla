------------------------------ MODULE MCGateway ------------------------------
(* An instance of Gateway for TLC: two workspaces that have a document of the
   same id, an editor and a viewer in the first, a member in the second. *)
EXTENDS Gateway, TLC

editor == [ws |-> "w1", user |-> "u", role |-> "member", limit |-> 1]
viewer == [ws |-> "w1", user |-> "v", role |-> "viewer", limit |-> 1]
abroad == [ws |-> "w2", user |-> "u", role |-> "member", limit |-> 0]

MCTokensOf ==
    (1 :> {editor}) @@ (2 :> {editor, viewer, abroad})
MCLapsing == {viewer}
MCGuests == {<<<<"w1", "d">>, "v">>}

MCDocMeta ==
    (<<"w1", "d">> :> [owner |-> "u",
                       shares |-> {[user |-> "v", level |-> Viewer]}]) @@
    (<<"w2", "e">> :> [owner |-> "u", shares |-> {}]) @@
    (<<"w2", "d">> :> [owner |-> NoOwner, shares |-> {}])
=============================================================================
