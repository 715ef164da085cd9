------------------------------ MODULE Rebalance ------------------------------
(***************************************************************************)
(* Automatic rebalancing (cmd/cconfig/rebalancer.go): one call reads the   *)
(* memory of every group, gives each a quota of slots in proportion, reads *)
(* who owns which slot, and posts a migrate task for every slot that a     *)
(* group has beyond its quota.  Meanwhile MigrateManager.loop runs the     *)
(* tasks, and the administrator may post others.                           *)
(*                                                                         *)
(* A running task makes its slot "migrate" and then "online" in the other  *)
(* group; SlotMigration has the details.  The set of groups stays the same *)
(* during a call.                                                          *)
(***************************************************************************)
EXTENDS Integers, Sequences, FiniteSets, Functions, SequencesExt

CONSTANTS
    Groups,
    SlotNum,        \* DEFAULT_SLOT_NUM
    Memories,       \* what maxmemory of the groups may be; 0: not set, or no master
    Others          \* bound: tasks that the administrator may post, each once

ASSUME RebalanceAssumption ==
    /\ IsFiniteSet(Groups) /\ Groups # {}
    /\ SlotNum \in Nat \ {0} /\ Memories \subseteq [Groups -> Nat]
    /\ Others \subseteq [slot : 1 .. SlotNum, to : Groups]

Slots == 1 .. SlotNum

VARIABLES
    \* ZooKeeper and the redis servers
    memory,     \* maxmemory of each group's master
    owner,      \* group of each slot
    moving,     \* the slots in the state migrate
    tasks,      \* migrate_tasks
    \* the call
    rpc,        \* "check", "quota", "nodes", "slots", "plan", or how it has ended
    quota,      \* targetQuota
    nodes,      \* livingNodes, in the order of the nodes in ZooKeeper
    cur,        \* CurSlots of each
    nread,      \* slots read so far
    node, dest, \* indices of the two loops over livingNodes
    migrates    \* tasks posted by the administrator

callVars == <<rpc, quota, nodes, cur, nread, node, dest>>
vars == <<memory, owner, moving, tasks, callVars, migrates>>

Tasks == [slot : Slots, to : Groups]
Count(own, g) == Cardinality({s \in Slots : own[s] = g})

TypeOK ==
    /\ memory \in Memories
    /\ owner \in [Slots -> Groups]
    /\ moving \in SUBSET Slots
    /\ tasks \in Seq(Tasks)
    /\ rpc \in {"check", "quota", "nodes", "slots", "plan", "done", "error", "panic"}
    /\ quota \in [Groups -> 0 .. SlotNum]
    /\ nodes \in Seq(Groups)
    /\ cur \in [Groups -> Seq(Slots)]
    /\ nread \in 0 .. SlotNum
    /\ node \in 1 .. Cardinality(Groups) + 1 /\ dest \in 1 .. Cardinality(Groups) + 1
    /\ migrates \in SUBSET Others

\* All slots have been assigned and are online.
Init ==
    /\ memory \in Memories
    /\ owner \in [Slots -> Groups]
    /\ moving = {} /\ tasks = <<>>
    /\ rpc = "check"
    /\ quota = [g \in Groups |-> 0] /\ cur = [g \in Groups |-> <<>>]
    /\ nodes = <<>> /\ nread = 0 /\ node = 1 /\ dest = 1
    /\ migrates = {}

-----------------------------------------------------------------------------
\* apiRebalance: not while there are tasks.
Check ==
    /\ rpc = "check"
    /\ rpc' = IF tasks = <<>> THEN "quota" ELSE "error"
    /\ UNCHANGED <<memory, owner, moving, tasks, quota, nodes, cur, nread, node, dest, migrates>>

\* The division truncates, so slots are left over.
Share(g) == (SlotNum * memory[g]) \div SumFunction(memory)

\* getQuotaMap: it is an error if a slot is not online or a group has no master
\* with maxmemory.  What is left over goes to the group that the iteration over the map
\* begins with, which is any.
getQuotaMap_NoRoundUp ==
    /\ rpc = "quota"
    /\ IF moving # {} \/ \E g \in Groups : memory[g] = 0
       THEN rpc' = "error" /\ UNCHANGED quota
       ELSE rpc' = "nodes" /\ quota' = [g \in Groups |-> Share(g)]
    /\ UNCHANGED <<memory, owner, moving, tasks, nodes, cur, nread, node, dest, migrates>>
getQuotaMap ==
    /\ rpc = "quota"
    /\ IF moving # {} \/ \E g \in Groups : memory[g] = 0
       THEN rpc' = "error" /\ UNCHANGED quota
       ELSE /\ rpc' = "nodes"
            /\ \E k \in Groups :
                  LET share == [g \in Groups |-> Share(g)] IN
                  quota' = [share EXCEPT ![k] = @ + SlotNum - SumFunction(share)]
    /\ UNCHANGED <<memory, owner, moving, tasks, nodes, cur, nread, node, dest, migrates>>

\* getLivingNodeInfos: the groups, in any order ...
ServerGroups ==
    /\ rpc = "nodes"
    /\ nodes' \in SetToSeqs(Groups)
    /\ rpc' = "slots"
    /\ UNCHANGED <<memory, owner, moving, tasks, quota, cur, nread, node, dest, migrates>>

\* ... and the slots, one by one; it is an error if one of them is not online.
ReadSlot ==
    LET s == nread + 1 IN
    /\ rpc = "slots" /\ nread < SlotNum
    /\ IF s \in moving
       THEN rpc' = "error" /\ UNCHANGED <<cur, nread>>
       ELSE /\ cur' = [cur EXCEPT ![owner[s]] = Append(@, s)]
            /\ nread' = s
            /\ rpc' = IF s = SlotNum THEN "plan" ELSE "slots"
    /\ UNCHANGED <<memory, owner, moving, tasks, quota, nodes, node, dest, migrates>>

-----------------------------------------------------------------------------
\* Rebalance: a turn of the inner loop.  node gives its last slot to dest if dest
\* has less than its quota, even when node has no more than its own by now; it is
\* a panic if node has none at all.
Needy(g, h) == g # h /\ Len(cur[h]) < quota[h]

Give_Fill ==
    LET g == nodes[node]
        h == nodes[dest]
        s == Last(cur[g])
    IN
    IF cur[g] = <<>>
    THEN rpc' = "panic" /\ UNCHANGED <<tasks, cur, dest>>
    ELSE /\ cur' = [cur EXCEPT ![g] = Front(@), ![h] = Append(@, s)]
         /\ tasks' = Append(tasks, [slot |-> s, to |-> h])
         /\ UNCHANGED <<rpc, dest>>
Give_First ==
    LET g == nodes[node]
        h == nodes[dest]
        s == Head(cur[g])
    IN
    IF cur[g] = <<>>
    THEN rpc' = "panic" /\ UNCHANGED <<tasks, cur, dest>>
    ELSE /\ cur' = [cur EXCEPT ![g] = Front(@), ![h] = Append(@, s)]
         /\ tasks' = Append(tasks, [slot |-> s, to |-> h])
         /\ dest' = dest + 1
         /\ UNCHANGED rpc
Give ==
    LET g == nodes[node]
        h == nodes[dest]
        s == Last(cur[g])
    IN
    IF cur[g] = <<>>
    THEN rpc' = "panic" /\ UNCHANGED <<tasks, cur, dest>>
    ELSE /\ cur' = [cur EXCEPT ![g] = Front(@), ![h] = Append(@, s)]
         /\ tasks' = Append(tasks, [slot |-> s, to |-> h])
         /\ dest' = dest + 1
         /\ UNCHANGED rpc

\* The outer loop has an index in node; the loop in it begins when dest = 1.
Plan ==
    LET n == Len(nodes)
        g == nodes[node]
    IN
    /\ rpc = "plan"
    /\ \/ /\ node > n
          /\ rpc' = "done" /\ UNCHANGED <<tasks, cur, node, dest>>
       \/ /\ node <= n /\ dest = 1 /\ Len(cur[g]) <= quota[g]
          /\ node' = node + 1
          /\ UNCHANGED <<rpc, tasks, cur, dest>>
       \/ /\ node <= n /\ dest <= n /\ (dest > 1 \/ Len(cur[g]) > quota[g])
          /\ IF Needy(g, nodes[dest]) THEN Give
             ELSE dest' = dest + 1 /\ UNCHANGED <<rpc, tasks, cur>>
          /\ UNCHANGED node
       \/ /\ node <= n /\ dest > n
          /\ dest' = 1 /\ UNCHANGED <<rpc, tasks, cur, node>>
    /\ UNCHANGED <<memory, owner, moving, quota, nodes, nread, migrates>>

-----------------------------------------------------------------------------
\* MigrateManager.loop: the first task; one whose slot is already there is dropped.
RunTask ==
    /\ tasks # <<>> /\ moving = {}
    /\ IF owner[Head(tasks).slot] = Head(tasks).to
       THEN tasks' = Tail(tasks) /\ UNCHANGED moving
       ELSE moving' = {Head(tasks).slot} /\ UNCHANGED tasks
    /\ UNCHANGED <<memory, owner, callVars, migrates>>

FinishTask ==
    /\ moving # {}
    /\ owner' = [owner EXCEPT ![Head(tasks).slot] = Head(tasks).to]
    /\ moving' = {} /\ tasks' = Tail(tasks)
    /\ UNCHANGED <<memory, callVars, migrates>>

\* apiDoMigrate, for one slot.
DoMigrate(t) ==
    /\ t \notin migrates
    /\ migrates' = migrates \cup {t}
    /\ tasks' = Append(tasks, t)
    /\ UNCHANGED <<memory, owner, moving, callVars>>

CallStep == Check \/ getQuotaMap \/ ServerGroups \/ ReadSlot \/ Plan
TaskStep == RunTask \/ FinishTask

Next == CallStep \/ TaskStep \/ \E t \in Others : DoMigrate(t)

Spec == Init /\ [][Next]_vars

\* The goroutine of the call and that of the migrate loop are scheduled, and a
\* migration succeeds in the end (SlotMigration says when).
FairSpec == Spec /\ WF_vars(CallStep) /\ WF_vars(TaskStep)

-----------------------------------------------------------------------------
\* The inner loop takes the last slot of a group without looking whether there is
\* one; that is out of range only for a group whose quota is so small that one slot
\* more than it is not enough to give one to each of the other groups.
PanicOnlyWhenTiny ==
    rpc = "panic" => quota[nodes[node]] + 1 < Cardinality(Groups) - 1

\* When nobody else posts tasks, the tasks that a finished call has posted bring
\* the cluster to its quotas.
QuotaReached ==
    rpc = "done" ~> (migrates # {} \/ \A g \in Groups : Count(owner, g) = quota[g])

\* The outer loop ends: whenever a group has too many slots, another has too few.
RebalanceEnds == rpc = "plan" ~> rpc \in {"done", "panic"}
=============================================================================
