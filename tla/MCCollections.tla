---------------------------- MODULE MCCollections ----------------------------
(* Instances of Collections for TLC. *)
EXTENDS Collections
=============================================================================
