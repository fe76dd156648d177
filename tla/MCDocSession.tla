---------------------------- MODULE MCDocSession ----------------------------
(* Instances of DocSession for TLC. *)
EXTENDS DocSession, TLC

\* Clients are interchangeable: no property names one.
ClientSymmetry == Permutations(Clients)
=============================================================================
