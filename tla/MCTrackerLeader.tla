-------------------------- MODULE MCTrackerLeader --------------------------
(* Two trackers that have learned the list in different orders. *)
EXTENDS TrackerLeader

MCOrder == <<<<1, 2>>, <<2, 1>>>>

=============================================================================
