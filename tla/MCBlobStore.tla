---------------------------- MODULE MCBlobStore ----------------------------
(* Instances of BlobStore for TLC. *)
EXTENDS BlobStore, TLC

CONSTANTS d1, d2, w1, w2

\* Two documents in different workspaces, which share a file, or in one.
OneEach   == d1 :> w1 @@ d2 :> w2
BothInOne == d1 :> w1 @@ d2 :> w1
Mode(o, ow) == [objects: {o}, grace: BOOLEAN, owner: {ow}]
AllModes == Mode(FALSE, OneEach) \union Mode(FALSE, BothInOne) \union Mode(TRUE, BothInOne)
=============================================================================
