----------------------------- MODULE MCSyncLink -----------------------------
(* Instances of SyncLink for TLC. *)
EXTENDS SyncLink
=============================================================================
