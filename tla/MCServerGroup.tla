---------------------------- MODULE MCServerGroup ----------------------------
(* ServerGroup for TLC: the group g1 has a master and a slave, g2 has a       *)
(* master; the first slot belongs to g1 or is not assigned, the others are   *)
(* not assigned.                                                             *)
EXTENDS ServerGroup, TLC

CONSTANTS g1, g2, a1, a2, a3

MCGroups == {g1, g2}
MCAddrs == {a1, a2, a3}
MCServers ==
    [g \in MCGroups |-> [a \in MCAddrs |->
        CASE g = g1 /\ a = a1 -> "master"
          [] g = g1 /\ a = a2 -> "slave"
          [] g = g2 /\ a = a3 -> "master"
          [] OTHER -> "none"]]
MCOwners ==
    {[s \in 1 .. SlotNum |-> IF s = 1 THEN g ELSE NoGroup] : g \in {g1, NoGroup}}
Symmetry == Permutations(Callers)
=============================================================================
