------------------------------ MODULE MCOffline ------------------------------
(***************************************************************************)
(* Instances of OfflineQueue for TLC: the people and calls of MCTracker.   *)
(***************************************************************************)
EXTENDS OfflineQueue, MCTracker
=============================================================================
