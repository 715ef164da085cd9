---------------------------- MODULE MCAssocTable ----------------------------
(* Four keys in two buckets that become four.  The requests are for k1, which   *)
(* is stored, and k4, which is not: they share a bucket and a lock before the   *)
(* expansion, and k4 is the item that makes the table too full.                 *)
EXTENDS AssocTable, TLC

CONSTANTS k1, k2, k3, k4

MCKeys == {k1, k2, k3, k4}
MChash == k1 :> 0 @@ k2 :> 1 @@ k3 :> 3 @@ k4 :> 2
MCStored == {k1, k2, k3}
MCAsked == {k1, k4}
=============================================================================
