---------------------------- MODULE MCRebalance ----------------------------
(* Rebalance for TLC: three groups whose memory gives quotas that differ,   *)
(* quotas of 0 with one or two slots left over, or an error.                *)
EXTENDS Rebalance

CONSTANTS g1, g2, g3

MCGroups == {g1, g2, g3}
Memory(a, b, c) == [g \in MCGroups |-> CASE g = g1 -> a [] g = g2 -> b [] g = g3 -> c]
MCMemories == {Memory(2, 4, 1), Memory(9, 9, 1), Memory(1, 1, 0)}
MCOthers == {[slot |-> 1, to |-> g1]}
=============================================================================
