---------------------------- MODULE MCOfflineQueue ----------------------------
(***************************************************************************)
(* A device with two items and at most two passes at a time.               *)
(***************************************************************************)
EXTENDS OfflineQueue
=============================================================================
