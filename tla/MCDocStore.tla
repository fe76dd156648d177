----------------------------- MODULE MCDocStore -----------------------------
(* Instances of DocStore for TLC. *)
EXTENDS DocStore
=============================================================================
