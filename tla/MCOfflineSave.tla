--------------------------- MODULE MCOfflineSave ----------------------------
(* Instances of OfflineSave for TLC. *)
EXTENDS OfflineSave
=============================================================================
