--------------------------- MODULE TrackerLeader ---------------------------
(***************************************************************************)
(* How the trackers of FastDFS agree on a leader (tracker_relationship.c,  *)
(* and the handlers of its messages in tracker_service.c).                 *)
(*                                                                         *)
(* The relationship thread of a tracker that knows no leader asks all      *)
(* trackers for their status and takes the best: one that is leader, else  *)
(* the one that has run longest, was down shortest, and has the greatest   *)
(* address.  If that is the tracker itself it tells all of them twice,     *)
(* notify and then commit; else it follows the leader, or waits.  With a   *)
(* leader it pings it, and forgets it after three failures.                *)
(*                                                                         *)
(* A call connects, runs the handler in the other process and returns its  *)
(* answer; calls come one after the other, those of different trackers in  *)
(* any order.  A tracker may crash and start again, knowing nobody until a *)
(* storage server has joined it.  A call to a live tracker may fail (cut): *)
(* it does not connect, or it does, and then the caller gives up on a      *)
(* message whose handler runs before that, later, or never.                *)
(***************************************************************************)
EXTENDS Integers, Sequences, FiniteSets

CONSTANTS
    Trackers,       \* a set of numbers, in the order of ip_addr and port
    Order,          \* the order of g_tracker_servers.servers, of each tracker
    MaxRun,         \* bound: running_time, in units of TRACKER_SYNC_STATUS_FILE_INTERVAL
    MaxInterval,    \* bound: restart_interval, likewise
    MaxCrashes,     \* bound: crashes of all trackers
    MaxCuts         \* bound: calls to live trackers that fail

None == 0           \* the index -1

ASSUME TrackerAssumption ==
    /\ Trackers \subseteq Nat \ {None} /\ IsFiniteSet(Trackers) /\ Cardinality(Trackers) \in Nat
    /\ \A t \in Trackers : Order[t] \in [1 .. Cardinality(Trackers) -> Trackers]
    /\ \A t, s \in Trackers : \E n \in 1 .. Cardinality(Trackers) :
          \A m \in 1 .. Cardinality(Trackers) : Order[t][m] = s <=> m = n
    /\ MaxRun \in Nat /\ MaxInterval \in Nat /\ MaxCrashes \in Nat /\ MaxCuts \in Nat

VARIABLES
    up,
    joined,         \* servers # NULL: a storage server has joined
    groups,         \* g_groups.count > 0, which is saved
    if_leader_self, leader_index, next_leader_index,
    running_time, restart_interval,
    fail_count,
    pc, at,         \* the relationship thread, and the server it calls
    best,           \* the greatest status so far
    success,        \* success_count > 0
    crashes, cuts,
    late,           \* messages whose senders have given up
    seen            \* history: leaders from before this election began until now

node == <<up, joined, groups, running_time, restart_interval, crashes>>
leader == <<if_leader_self, leader_index, next_leader_index>>
thread == <<fail_count, pc, at, best, success>>
vars == <<node, leader, thread, cuts, late, seen>>

N == Cardinality(Trackers)
NoStatus == [server |-> None, if_leader |-> FALSE, running |-> 0, interval |-> 0]

Init ==
    /\ up = [t \in Trackers |-> TRUE]
    /\ joined = [t \in Trackers |-> FALSE] /\ groups = [t \in Trackers |-> FALSE]
    /\ if_leader_self = [t \in Trackers |-> FALSE]
    /\ leader_index = [t \in Trackers |-> None] /\ next_leader_index = [t \in Trackers |-> None]
    /\ running_time = [t \in Trackers |-> 0] /\ restart_interval = [t \in Trackers |-> 0]
    /\ fail_count = [t \in Trackers |-> 0]
    /\ pc = [t \in Trackers |-> "idle"] /\ at = [t \in Trackers |-> 1]
    /\ best = [t \in Trackers |-> NoStatus] /\ success = [t \in Trackers |-> FALSE]
    /\ crashes = 0 /\ cuts = 0 /\ late = {}
    /\ seen = [t \in Trackers |-> {}]

Leaders == {t \in Trackers : if_leader_self[t]}
Goto(t, l) == pc' = [pc EXCEPT ![t] = l] /\ at' = [at EXCEPT ![t] = 1]
Server(t) == Order[t][at[t]]

-----------------------------------------------------------------------------
(***************************************************************************)
(* Choosing.                                                               *)
(***************************************************************************)

\* Mutant: the leader does not come before the others.
Less_leaderless(a, b) ==
    \/ a.running < b.running
    \/ a.running = b.running /\ a.interval > b.interval
    \/ a.running = b.running /\ a.interval = b.interval /\ a.server < b.server

\* relationship_cmp_tracker_status(a, b) < 0.
Less(a, b) ==
    \/ b.if_leader /\ ~a.if_leader
    \/ /\ a.if_leader = b.if_leader
       /\ \/ a.running < b.running
          \/ a.running = b.running /\ a.interval > b.interval
          \/ a.running = b.running /\ a.interval = b.interval /\ a.server < b.server

\* tracker_deal_get_tracker_status
Status(s) == [server |-> s, if_leader |-> if_leader_self[s],
              running |-> running_time[s], interval |-> restart_interval[s]]

select_leader(t) ==
    /\ up[t] /\ joined[t] /\ pc[t] = "idle" /\ leader_index[t] = None
    /\ Goto(t, "status")
    /\ best' = [best EXCEPT ![t] = NoStatus]
    /\ seen' = [seen EXCEPT ![t] = Leaders]
    /\ UNCHANGED <<node, leader, fail_count, success, cuts, late>>

\* A call of t to s that fails although s is up.
Cut(t, s) == /\ t # s /\ up[s] /\ cuts < MaxCuts
             /\ cuts' = cuts + 1

\* relationship_get_tracker_leader: the answer of one server, if there is one.
get_status(t) ==
    /\ up[t] /\ pc[t] = "status"
    /\ LET s == Server(t) IN
       \/ /\ up[s] /\ groups[s]
          /\ best' = [best EXCEPT ![t] = IF @.server = None \/ Less(@, Status(s)) THEN Status(s) ELSE @]
          /\ UNCHANGED cuts
       \/ ~(up[s] /\ groups[s]) /\ UNCHANGED <<best, cuts>>
       \/ Cut(t, s) /\ UNCHANGED best
    /\ IF at[t] < N THEN at' = [at EXCEPT ![t] = @ + 1] /\ UNCHANGED pc ELSE Goto(t, "decide")
    /\ UNCHANGED <<node, leader, fail_count, success, late, seen>>

decide(t) ==
    /\ up[t] /\ pc[t] = "decide"
    /\ LET b == best[t] IN
       /\ Goto(t, IF b.server = t THEN "notify" ELSE "idle")
       /\ leader_index' = [leader_index EXCEPT ![t] =
              IF b.server \notin {t, None} /\ b.if_leader THEN b.server ELSE @]
    /\ best' = [best EXCEPT ![t] = NoStatus]
    /\ success' = [success EXCEPT ![t] = FALSE]
    /\ UNCHANGED <<node, if_leader_self, next_leader_index, fail_count, cuts, late, seen>>

-----------------------------------------------------------------------------
(***************************************************************************)
(* Announcing.  A handler says what it does to the tracker s that is told  *)
(* of the leader t, and whether its answer is 0.                           *)
(***************************************************************************)

tracker_deal_notify_next_leader(s, t, ok) ==
    \/ /\ ~joined[s] /\ ~ok                              \* t is not in its list: ENOENT
       /\ UNCHANGED <<leader, seen>>
    \/ /\ joined[s] /\ if_leader_self[s] /\ s # t /\ ~ok  \* two leader occur
       /\ if_leader_self' = [if_leader_self EXCEPT ![s] = FALSE]
       /\ leader_index' = [leader_index EXCEPT ![s] = None]
       /\ seen' = [x \in Trackers |-> seen[x] \ {s}]
       /\ UNCHANGED next_leader_index
    \/ /\ joined[s] /\ ~(if_leader_self[s] /\ s # t) /\ ok
       /\ next_leader_index' = [next_leader_index EXCEPT ![s] = t]
       /\ UNCHANGED <<if_leader_self, leader_index, seen>>

\* Mutant: any leader is committed, notified or not.
tracker_deal_commit_next_leader_unnotified(s, t, ok) ==
    \/ ~joined[s] /\ ~ok /\ UNCHANGED leader
    \/ /\ joined[s] /\ ok
       /\ leader_index' = [leader_index EXCEPT ![s] = t]
       /\ if_leader_self' = [if_leader_self EXCEPT ![s] = @ \/ s = t]
       /\ UNCHANGED next_leader_index

tracker_deal_commit_next_leader(s, t, ok) ==
    \/ /\ ~(joined[s] /\ next_leader_index[s] = t) /\ ~ok
       /\ UNCHANGED leader
    \/ /\ joined[s] /\ next_leader_index[s] = t /\ ok
       /\ leader_index' = [leader_index EXCEPT ![s] = t]
       /\ if_leader_self' = [if_leader_self EXCEPT ![s] = @ \/ s = t]
       /\ UNCHANGED next_leader_index

\* The loop goes on: to the next server, or to what comes after the last one.
NextServer(t, done, next) ==
    /\ success' = [success EXCEPT ![t] = IF at[t] = N THEN FALSE ELSE done]
    /\ IF at[t] < N THEN at' = [at EXCEPT ![t] = @ + 1] /\ UNCHANGED pc
                    ELSE Goto(t, IF done THEN next ELSE "idle")

GiveUp(t) == Goto(t, "idle") /\ success' = [success EXCEPT ![t] = FALSE]

\* do_notify_leader_changed with bConnectFail: the loop goes on without this server.
Refused(t, s, next) ==
    /\ \/ ~up[s] /\ UNCHANGED cuts
       \/ Cut(t, s)
    /\ NextServer(t, success[t], next)
    /\ UNCHANGED <<leader, late, seen>>

\* It connects, and then there is no answer.
Unanswered(t, s, cmd) ==
    /\ Cut(t, s) /\ GiveUp(t)
    /\ late' = late \cup {[cmd |-> cmd, from |-> t, to |-> s]}
    /\ UNCHANGED <<leader, seen>>

notify(t) ==
    /\ up[t] /\ pc[t] = "notify"
    /\ LET s == Server(t) IN
       \/ Refused(t, s, "commit")
       \/ Unanswered(t, s, "notify")
       \/ /\ up[s] /\ UNCHANGED <<cuts, late>>
          /\ \/ tracker_deal_notify_next_leader(s, t, TRUE) /\ NextServer(t, TRUE, "commit")
             \/ tracker_deal_notify_next_leader(s, t, FALSE) /\ GiveUp(t)
    /\ UNCHANGED <<node, fail_count, best>>

commit(t) ==
    /\ up[t] /\ pc[t] = "commit"
    /\ LET s == Server(t) IN
       \/ Refused(t, s, "idle")
       \/ Unanswered(t, s, "commit")
       \/ /\ up[s] /\ UNCHANGED <<cuts, late, seen>>
          /\ \/ tracker_deal_commit_next_leader(s, t, TRUE) /\ NextServer(t, TRUE, "idle")
             \/ tracker_deal_commit_next_leader(s, t, FALSE) /\ GiveUp(t)
    /\ UNCHANGED <<node, fail_count, best>>

\* The handler runs after all.
deliver_late(m) ==
    /\ up[m.to]
    /\ late' = late \ {m}
    /\ \E ok \in BOOLEAN :
         \/ m.cmd = "notify" /\ tracker_deal_notify_next_leader(m.to, m.from, ok)
         \/ m.cmd = "commit" /\ tracker_deal_commit_next_leader(m.to, m.from, ok) /\ UNCHANGED seen
    /\ UNCHANGED <<node, thread, cuts>>

-----------------------------------------------------------------------------
(***************************************************************************)
(* Following.                                                              *)
(***************************************************************************)

\* It has seen a leader: it will ping.
has_leader(t) ==
    /\ up[t] /\ joined[t] /\ pc[t] = "idle" /\ leader_index[t] # None
    /\ Goto(t, "ping")
    /\ UNCHANGED <<node, leader, fail_count, best, success, cuts, late, seen>>

\* Mutant: the third failure in a row is the first again.
ping_leader_patient(t) ==
    /\ up[t] /\ pc[t] = "ping"
    /\ LET l == leader_index[t] IN
       fail_count' = [fail_count EXCEPT ![t] =
           IF if_leader_self[t] \/ (l # None /\ up[l] /\ if_leader_self[l]) \/ @ = 2 THEN 0 ELSE @ + 1]
    /\ Goto(t, "idle")
    /\ UNCHANGED <<node, leader, best, success, cuts, late, seen>>

\* tracker_deal_ping_leader answers 0 only if it is the leader.  A leader does not ping; and
\* there may be none any more, which counts as a failure.
ping_leader(t) ==
    /\ up[t] /\ pc[t] = "ping"
    /\ LET l == leader_index[t]
           answers == l # None /\ up[l] /\ if_leader_self[l]
           failed == LET n == IF fail_count[t] < 3 THEN fail_count[t] + 1 ELSE 3 IN
                     /\ fail_count' = [fail_count EXCEPT ![t] = n]
                     /\ Goto(t, IF n = 3 THEN "forget" ELSE "idle")
       IN
       \/ /\ if_leader_self[t] \/ answers
          /\ fail_count' = [fail_count EXCEPT ![t] = 0]
          /\ Goto(t, "idle")
          /\ UNCHANGED cuts
       \/ ~if_leader_self[t] /\ ~answers /\ failed /\ UNCHANGED cuts
       \/ ~if_leader_self[t] /\ answers /\ Cut(t, l) /\ failed
    /\ UNCHANGED <<node, leader, best, success, late, seen>>

\* What the handlers did to leader_index in the meantime is lost.
forget(t) ==
    /\ up[t] /\ pc[t] = "forget"
    /\ leader_index' = [leader_index EXCEPT ![t] = None]
    /\ Goto(t, "idle")
    /\ UNCHANGED <<node, if_leader_self, next_leader_index, fail_count, best, success, cuts, late, seen>>

-----------------------------------------------------------------------------
(***************************************************************************)
(* The processes.                                                          *)
(***************************************************************************)

\* A storage server joins and brings the list of the trackers.
join(t) ==
    /\ up[t] /\ ~joined[t]
    /\ joined' = [joined EXCEPT ![t] = TRUE]
    /\ UNCHANGED <<up, groups, running_time, restart_interval, crashes, leader, thread, cuts, late, seen>>

add_group(t) ==
    /\ up[t] /\ joined[t] /\ ~groups[t]
    /\ groups' = [groups EXCEPT ![t] = TRUE]
    /\ UNCHANGED <<up, joined, running_time, restart_interval, crashes, leader, thread, cuts, late, seen>>

tick(t) ==
    /\ up[t] /\ running_time[t] < MaxRun
    /\ running_time' = [running_time EXCEPT ![t] = @ + 1]
    /\ UNCHANGED <<up, joined, groups, restart_interval, crashes, leader, thread, cuts, late, seen>>

crash(t) ==
    /\ up[t] /\ crashes < MaxCrashes
    /\ crashes' = crashes + 1
    /\ up' = [up EXCEPT ![t] = FALSE] /\ joined' = [joined EXCEPT ![t] = FALSE]
    /\ if_leader_self' = [if_leader_self EXCEPT ![t] = FALSE]
    /\ leader_index' = [leader_index EXCEPT ![t] = None]
    /\ next_leader_index' = [next_leader_index EXCEPT ![t] = None]
    /\ running_time' = [running_time EXCEPT ![t] = 0]
    /\ fail_count' = [fail_count EXCEPT ![t] = 0]
    /\ best' = [best EXCEPT ![t] = NoStatus] /\ success' = [success EXCEPT ![t] = FALSE]
    /\ Goto(t, "idle")
    /\ seen' = [x \in Trackers |-> IF x = t THEN {} ELSE seen[x] \ {t}]
    /\ late' = {m \in late : m.to # t}
    /\ UNCHANGED <<groups, restart_interval, cuts>>

restart(t) ==
    /\ ~up[t]
    /\ up' = [up EXCEPT ![t] = TRUE]
    /\ \E i \in 0 .. MaxInterval : restart_interval' = [restart_interval EXCEPT ![t] = i]
    /\ UNCHANGED <<joined, groups, running_time, crashes, leader, thread, cuts, late, seen>>

relationship_thread_entrance(t) ==
    \/ select_leader(t) \/ get_status(t) \/ decide(t)
    \/ notify(t) \/ commit(t)
    \/ has_leader(t) \/ ping_leader(t) \/ forget(t)

Next ==
    \/ \E t \in Trackers :
          \/ relationship_thread_entrance(t)
          \/ join(t) \/ add_group(t) \/ tick(t) \/ crash(t) \/ restart(t)
    \/ \E m \in late : deliver_late(m)

Spec == Init /\ [][Next]_vars

\* The thread runs on, and storage servers go on trying to join every tracker.
Fairness ==
    \A t \in Trackers : WF_vars(relationship_thread_entrance(t)) /\ WF_vars(join(t) \/ add_group(t))

FairSpec == Spec /\ Fairness

-----------------------------------------------------------------------------
(***************************************************************************)
(* Properties.                                                             *)
(***************************************************************************)

Labels == {"idle", "status", "decide", "notify", "commit", "ping", "forget"}
Statuses == [server : Trackers \cup {None}, if_leader : BOOLEAN,
             running : 0 .. MaxRun, interval : 0 .. MaxInterval]
Messages == [cmd : {"notify", "commit"}, from : Trackers, to : Trackers]

TypeOK ==
    /\ up \in [Trackers -> BOOLEAN] /\ joined \in [Trackers -> BOOLEAN] /\ groups \in [Trackers -> BOOLEAN]
    /\ if_leader_self \in [Trackers -> BOOLEAN]
    /\ leader_index \in [Trackers -> Trackers \cup {None}]
    /\ next_leader_index \in [Trackers -> Trackers \cup {None}]
    /\ running_time \in [Trackers -> 0 .. MaxRun] /\ restart_interval \in [Trackers -> 0 .. MaxInterval]
    /\ fail_count \in [Trackers -> 0 .. 3]
    /\ pc \in [Trackers -> Labels] /\ at \in [Trackers -> 1 .. N]
    /\ best \in [Trackers -> Statuses] /\ success \in [Trackers -> BOOLEAN]
    /\ crashes \in 0 .. MaxCrashes /\ cuts \in 0 .. MaxCuts
    /\ late \subseteq Messages
    /\ seen \in [Trackers -> SUBSET Trackers]

\* As long as no call to a live tracker has failed there are never two leaders, however the
\* elections overlap and whoever crashes and comes back in the middle of one.
OneLeader == cuts = 0 => \A t, s \in Leaders : t = s

\* A tracker that acts as leader takes itself for the leader, also when it has just been told
\* of another one: its commit can come only before or after, never between.
LeaderKnowsItself ==
    \A t \in Leaders : leader_index[t] = t /\ next_leader_index[t] = t

\* An election that began while l was the leader does not depose it: one of the answers says
\* so.  Only an election that was already running can.
SittingLeaderSafe ==
    [][\A l \in Trackers : cuts' = 0 /\ if_leader_self[l] /\ ~if_leader_self'[l] /\ up'[l] =>
          \E t \in Trackers \ {l} : pc[t] = "notify" /\ pc'[t] = "idle" /\ l \notin seen[t]]_vars

\* When no tracker crashes and no call fails any more, every live tracker comes to a leader
\* that is alive and knows it is, and keeps it.
LeaderFound ==
    <>[](\A t \in Trackers : up[t] =>
            /\ leader_index[t] # None
            /\ leader_index[t] \in Leaders)

=============================================================================
