------------------------ MODULE TrackerLeaderProofs ------------------------
(***************************************************************************)
(* The election, for any number of trackers, each with the list in an      *)
(* order of its own, and any bounds: a leader knows it is the leader, and  *)
(* there is at most one as long as no call to a live tracker has failed.   *)
(*                                                                         *)
(* The second is about two elections that overlap.  A candidate stands     *)
(* when it has told itself last, and it is stopped by another tracker when *)
(* it still has to tell it, or has to commit there, before it commits to   *)
(* itself, what is not the last thing that tracker was told.  Of two that  *)
(* stand one is stopped by the other, and never the leader.                *)
(***************************************************************************)
EXTENDS TrackerLeader, TLAPS

\* The places of the trackers in the lists, and the types of the variables.

\* Where s is in t's list.
Pos(t, s) == CHOOSE n \in 1 .. N : Order[t][n] = s

\* The number of trackers is a natural number, and every tracker is in every list once.
LEMMA Lists ==
    /\ N \in Nat
    /\ \A t, s \in Trackers : /\ Pos(t, s) \in 1 .. N
                              /\ \A m \in 1 .. N : Order[t][m] = s <=> m = Pos(t, s)
    /\ \A t \in Trackers, m \in 1 .. N : Order[t][m] \in Trackers
<1>1. N \in Nat
  BY TrackerAssumption, Zenon DEF N
<1>2. ASSUME NEW t \in Trackers, NEW s \in Trackers
      PROVE  Pos(t, s) \in 1 .. N /\ \A m \in 1 .. N : Order[t][m] = s <=> m = Pos(t, s)
  <2>1. PICK n \in 1 .. N : \A m \in 1 .. N : Order[t][m] = s <=> m = n
    BY TrackerAssumption, Zenon DEF N
  <2>2. Order[t][n] = s
    BY <2>1, Zenon
  <2>3. Pos(t, s) \in 1 .. N /\ Order[t][Pos(t, s)] = s
    BY <2>2, Zenon DEF Pos
  <2>. QED
    BY <2>1, <2>3
<1>3. ASSUME NEW t \in Trackers, NEW m \in 1 .. N PROVE Order[t][m] \in Trackers
  BY TrackerAssumption, Zenon DEF N
<1>. QED
  BY <1>1, <1>2, <1>3

\* The bounds are natural numbers, and no tracker is None.
LEMMA Bounds ==
    /\ MaxRun \in Nat /\ MaxInterval \in Nat /\ MaxCrashes \in Nat /\ MaxCuts \in Nat
    /\ None \notin Trackers
  BY TrackerAssumption, Zenon DEF None

\* Different trackers have different places, from 1 to N.
LEMMA Places ==
    /\ \A t, s \in Trackers : Pos(t, s) \in Nat /\ 1 <= Pos(t, s) /\ Pos(t, s) <= N
    /\ \A t, s, u \in Trackers : Pos(t, s) = Pos(t, u) => s = u
<1>1. \A t, s \in Trackers : Pos(t, s) \in 1 .. N /\ Order[t][Pos(t, s)] = s
  BY Lists, Zenon
<1>2. \A t, s \in Trackers : Pos(t, s) \in Nat /\ 1 <= Pos(t, s) /\ Pos(t, s) <= N
  BY <1>1, Lists
<1>. QED
  BY <1>1, <1>2

\* Goto moves its own thread only.
LEMMA GotoMoves ==
    ASSUME TypeOK, NEW t \in Trackers, NEW l, Goto(t, l)
    PROVE  /\ pc'[t] = l /\ at'[t] = 1
           /\ \A x \in Trackers \ {t} : pc'[x] = pc[x] /\ at'[x] = at[x]
  BY Zenon DEF TypeOK, Goto

\* The helpers keep the types of the thread's place in its loops.
LEMMA GotoType ==
    ASSUME TypeOK, NEW t \in Trackers, NEW l, Goto(t, l),
           l \in Labels
    PROVE  /\ pc' \in [Trackers -> Labels]
           /\ at' \in [Trackers -> 1 .. N]
  BY Lists DEF TypeOK, Goto

\* One turn of the notify or the commit loop.
LEMMA CallTypes ==
    ASSUME TypeOK, NEW t \in Trackers, NEW s \in Trackers, NEW done \in BOOLEAN, NEW next,
           next \in {"idle", "commit"}
    PROVE  /\ Cut(t, s) => cuts' \in 0 .. MaxCuts
           /\ NextServer(t, done, next) \/ GiveUp(t) =>
                /\ pc' \in [Trackers -> Labels]
                /\ at' \in [Trackers -> 1 .. N]
                /\ success' \in [Trackers -> BOOLEAN]
<1>1. Cut(t, s) => cuts' \in 0 .. MaxCuts
  BY Bounds DEF TypeOK, Cut
<1>2. CASE GiveUp(t)
  BY <1>1, <1>2, GotoType, Zenon DEF GiveUp, TypeOK, Labels
<1>3. CASE NextServer(t, done, next)
  <2>1. success' \in [Trackers -> BOOLEAN]
    BY <1>3, Zenon DEF NextServer, TypeOK
  <2>2. CASE at[t] < N
    <3>1. at' = [at EXCEPT ![t] = @ + 1] /\ pc' = pc
      BY <1>3, <2>2, Zenon DEF NextServer
    <3>2. at' \in [Trackers -> 1 .. N]
      BY <2>2, <3>1, Lists DEF TypeOK
    <3>. QED
      BY <1>1, <2>1, <3>1, <3>2 DEF TypeOK
  <2>3. CASE ~(at[t] < N)
    <3>1. Goto(t, IF done THEN next ELSE "idle")
      BY <1>3, <2>3, Zenon DEF NextServer
    <3>. QED
      BY <1>1, <2>1, <3>1, GotoType DEF Labels
  <2>. QED
    BY <2>2, <2>3
<1>. QED
  BY <1>1, <1>2, <1>3

\* The handlers keep the types of what they write.
LEMMA HandlerTypes ==
    ASSUME TypeOK, NEW s \in Trackers, NEW t \in Trackers, NEW ok \in BOOLEAN
    PROVE  /\ tracker_deal_notify_next_leader(s, t, ok) =>
                /\ if_leader_self' \in [Trackers -> BOOLEAN]
                /\ leader_index' \in [Trackers -> Trackers \cup {None}]
                /\ next_leader_index' \in [Trackers -> Trackers \cup {None}]
                /\ seen' \in [Trackers -> SUBSET Trackers]
           /\ tracker_deal_commit_next_leader(s, t, ok) =>
                /\ if_leader_self' \in [Trackers -> BOOLEAN]
                /\ leader_index' \in [Trackers -> Trackers \cup {None}]
                /\ next_leader_index' \in [Trackers -> Trackers \cup {None}]
<1>1. ASSUME tracker_deal_notify_next_leader(s, t, ok)
      PROVE  /\ if_leader_self' \in [Trackers -> BOOLEAN]
             /\ leader_index' \in [Trackers -> Trackers \cup {None}]
             /\ next_leader_index' \in [Trackers -> Trackers \cup {None}]
             /\ seen' \in [Trackers -> SUBSET Trackers]
  <2>1. seen' = seen \/ seen' = [x \in Trackers |-> seen[x] \ {s}]
    BY <1>1, Zenon DEF tracker_deal_notify_next_leader
  <2>2. seen' \in [Trackers -> SUBSET Trackers]
    BY <2>1 DEF TypeOK
  <2>. QED
    <3>1. if_leader_self' = if_leader_self \/ if_leader_self' = [if_leader_self EXCEPT ![s] = FALSE]
      BY <1>1, Zenon DEF tracker_deal_notify_next_leader, leader
    <3>2. leader_index' = leader_index \/ leader_index' = [leader_index EXCEPT ![s] = None]
      BY <1>1, Zenon DEF tracker_deal_notify_next_leader, leader
    <3>3. \/ next_leader_index' = next_leader_index
          \/ next_leader_index' = [next_leader_index EXCEPT ![s] = t]
      BY <1>1, Zenon DEF tracker_deal_notify_next_leader, leader
    <3>. QED
      BY <2>2, <3>1, <3>2, <3>3, ZenonT(30) DEF TypeOK
<1>2. ASSUME tracker_deal_commit_next_leader(s, t, ok)
      PROVE  /\ if_leader_self' \in [Trackers -> BOOLEAN]
             /\ leader_index' \in [Trackers -> Trackers \cup {None}]
             /\ next_leader_index' \in [Trackers -> Trackers \cup {None}]
  BY <1>2 DEF TypeOK, tracker_deal_commit_next_leader, leader
<1>. QED
  BY <1>1, <1>2

\* A step of the thread that calls nobody keeps the types.
LEMMA ThreadTypes ==
    ASSUME TypeOK, NEW t \in Trackers,
           select_leader(t) \/ get_status(t) \/ decide(t) \/ has_leader(t) \/ ping_leader(t) \/ forget(t)
    PROVE  TypeOK'
<1>0. Server(t) \in Trackers
  BY Lists, Zenon DEF TypeOK, Server
<1>1. CASE select_leader(t)
  <2>1. best' \in [Trackers -> Statuses]
    BY <1>1, Bounds DEF select_leader, TypeOK, NoStatus, Statuses
  <2>2. seen' \in [Trackers -> SUBSET Trackers]
    BY <1>1, Zenon DEF select_leader, TypeOK, Leaders
  <2>. QED
    BY <1>1, <2>1, <2>2, GotoType DEF Labels, select_leader, TypeOK, node, leader
<1>2. CASE get_status(t)
  <2>1. best' \in [Trackers -> Statuses]
    <3>1. Status(Server(t)) \in Statuses
      BY <1>0, Zenon DEF TypeOK, Status, Statuses
    <3>. QED
      BY <1>2, <3>1 DEF get_status, TypeOK
  <2>2. cuts' \in 0 .. MaxCuts
    BY <1>0, <1>2, Bounds DEF get_status, Cut, TypeOK
  <2>3. /\ pc' \in [Trackers -> Labels]
        /\ at' \in [Trackers -> 1 .. N]
    <3>1. CASE at[t] < N
      <4>1. pc' = pc /\ at' = [at EXCEPT ![t] = @ + 1]
        BY <1>2, <3>1, Zenon DEF get_status
      <4>2. at[t] \in Nat /\ N \in Nat
        BY Lists DEF TypeOK
      <4>3. at[t] + 1 \in 1 .. N
        BY <3>1, <4>2
      <4>. QED
        BY <4>1, <4>3 DEF TypeOK
    <3>2. CASE ~(at[t] < N)
      BY <1>2, <3>2, GotoType, Zenon DEF get_status, Labels
    <3>. QED
      BY <3>1, <3>2
  <2>. QED
    BY <1>2, <2>1, <2>2, <2>3 DEF get_status, TypeOK, node, leader
<1>3. CASE decide(t)
  <2>1. best' \in [Trackers -> Statuses]
    BY <1>3, Bounds DEF decide, TypeOK, NoStatus, Statuses
  <2>2. leader_index' \in [Trackers -> Trackers \cup {None}]
    BY <1>3, Zenon DEF decide, TypeOK, Statuses
  <2>3. Goto(t, IF best[t].server = t THEN "notify" ELSE "idle")
    BY <1>3, Zenon DEF decide
  <2>4. /\ pc' \in [Trackers -> Labels]
        /\ at' \in [Trackers -> 1 .. N]
    BY <2>3, GotoType, Zenon DEF Labels
  <2>. QED
    BY <1>3, <2>1, <2>2, <2>4 DEF decide, TypeOK, node
<1>4. CASE has_leader(t)
  BY <1>4, GotoType, Zenon DEF Labels, has_leader, TypeOK, node, leader
<1>5. CASE ping_leader(t)
  <2>1. fail_count' \in [Trackers -> 0 .. 3]
    BY <1>5 DEF ping_leader, TypeOK
  <2>2. Goto(t, "idle") \/ Goto(t, "forget")
    BY <1>5, Zenon DEF ping_leader
  <2>3. /\ pc' \in [Trackers -> Labels]
        /\ at' \in [Trackers -> 1 .. N]
    BY <2>2, GotoType, Zenon DEF Labels
  <2>4. cuts' \in 0 .. MaxCuts
    BY <1>5, Bounds DEF ping_leader, Cut, TypeOK
  <2>. QED
    BY <1>5, <2>1, <2>3, <2>4 DEF ping_leader, TypeOK, node, leader
<1>6. CASE forget(t)
  BY <1>6, GotoType, Zenon DEF Labels, forget, TypeOK, node
<1>. QED
  BY <1>1, <1>2, <1>3, <1>4, <1>5, <1>6

\* A call of an announcing thread, a late message and the processes' own steps keep the types.
LEMMA AnnounceTypes ==
    ASSUME TypeOK, NEW t \in Trackers, notify(t) \/ commit(t)
    PROVE  TypeOK'
<1>1. PICK s \in Trackers : s = Server(t)
  BY Lists, Zenon DEF TypeOK, Server
<1>2. success[t] \in BOOLEAN
  BY Zenon DEF TypeOK
<1>3. PICK next \in {"idle", "commit"}, cmd \in {"notify", "commit"} :
         Refused(t, s, next) \/ Unanswered(t, s, cmd)
         \/ /\ UNCHANGED <<cuts, late>>
            /\ \/ NextServer(t, TRUE, next) \/ GiveUp(t)
            /\ \E ok \in BOOLEAN : \/ tracker_deal_notify_next_leader(s, t, ok)
                                   \/ tracker_deal_commit_next_leader(s, t, ok) /\ UNCHANGED seen
  <2>1. CASE notify(t)
    BY <1>1, <2>1, Zenon DEF notify
  <2>2. CASE commit(t)
    BY <1>1, <2>2, Zenon DEF commit
  <2>. QED
    BY <2>1, <2>2, Zenon
<1>4. UNCHANGED <<node, fail_count, best>>
  BY Zenon DEF notify, commit
<1>5. /\ pc' \in [Trackers -> Labels]
      /\ at' \in [Trackers -> 1 .. N]
      /\ success' \in [Trackers -> BOOLEAN]
  BY <1>2, <1>3, CallTypes, Zenon DEF Refused, Unanswered
<1>6. cuts' \in 0 .. MaxCuts
  BY <1>3, CallTypes, Zenon DEF Refused, Unanswered, TypeOK
<1>7. late' \subseteq Messages
  <2>1. late' = late \/ late' = late \cup {[cmd |-> cmd, from |-> t, to |-> s]}
    BY <1>3, Zenon DEF Refused, Unanswered
  <2>. QED
    BY <2>1 DEF TypeOK, Messages
<1>8. /\ if_leader_self' \in [Trackers -> BOOLEAN]
      /\ leader_index' \in [Trackers -> Trackers \cup {None}]
      /\ next_leader_index' \in [Trackers -> Trackers \cup {None}]
      /\ seen' \in [Trackers -> SUBSET Trackers]
  <2>1. CASE UNCHANGED <<leader, seen>>
    BY <2>1, Zenon DEF TypeOK, leader
  <2>2. CASE \E ok \in BOOLEAN : tracker_deal_notify_next_leader(s, t, ok)
    BY <2>2, HandlerTypes, Zenon
  <2>3. CASE \E ok \in BOOLEAN : tracker_deal_commit_next_leader(s, t, ok) /\ UNCHANGED seen
    BY <2>3, HandlerTypes DEF TypeOK
  <2>. QED
    BY <1>3, <2>1, <2>2, <2>3, Zenon DEF Refused, Unanswered
<1>. QED
  BY <1>4, <1>5, <1>6, <1>7, <1>8 DEF TypeOK, node

\* Joining, ageing, crashing and starting.
LEMMA ProcessTypes ==
    ASSUME TypeOK, NEW t \in Trackers,
           join(t) \/ add_group(t) \/ tick(t) \/ crash(t) \/ restart(t)
    PROVE  TypeOK'
<1>1. CASE join(t) \/ add_group(t)
  BY <1>1, Zenon DEF join, add_group, TypeOK, leader, thread
<1>2. CASE tick(t)
  <2>1. running_time' \in [Trackers -> 0 .. MaxRun]
    BY <1>2, Bounds DEF tick, TypeOK
  <2>. QED
    BY <1>2, <2>1 DEF tick, TypeOK, leader, thread
<1>3. CASE crash(t)
  <2>1. /\ running_time' \in [Trackers -> 0 .. MaxRun] /\ crashes' \in 0 .. MaxCrashes
        /\ fail_count' \in [Trackers -> 0 .. 3]
    BY <1>3, Bounds DEF crash, TypeOK
  <2>2. best' \in [Trackers -> Statuses]
    BY <1>3, Bounds DEF crash, TypeOK, NoStatus, Statuses
  <2>3. /\ seen' \in [Trackers -> SUBSET Trackers]
        /\ late' \subseteq Messages
    BY <1>3, Zenon DEF crash, TypeOK
  <2>4. /\ pc' \in [Trackers -> Labels]
        /\ at' \in [Trackers -> 1 .. N]
    BY <1>3, GotoType, Zenon DEF crash, Labels
  <2>. QED
    BY <1>3, <2>1, <2>2, <2>3, <2>4 DEF crash, TypeOK
<1>4. CASE restart(t)
  BY <1>4 DEF restart, TypeOK, leader, thread
<1>. QED
  BY <1>1, <1>2, <1>3, <1>4

\* A handler that runs after its caller has given up.
LEMMA LateTypes ==
    ASSUME TypeOK, NEW m \in late, deliver_late(m)
    PROVE  TypeOK'
<1>1. m.to \in Trackers /\ m.from \in Trackers
  BY Zenon DEF TypeOK, Messages
<1>2. /\ if_leader_self' \in [Trackers -> BOOLEAN]
      /\ leader_index' \in [Trackers -> Trackers \cup {None}]
      /\ next_leader_index' \in [Trackers -> Trackers \cup {None}]
      /\ seen' \in [Trackers -> SUBSET Trackers]
  BY <1>1, HandlerTypes DEF deliver_late, TypeOK
<1>. QED
  BY <1>2 DEF deliver_late, TypeOK, node, thread

\* The program starts with the types right.
LEMMA InitTypes == Init => TypeOK
<1>1. \A t \in Trackers : 1 \in 1 .. N
  BY Lists, SMT
<1>. QED
  BY <1>1, Bounds DEF Init, TypeOK, NoStatus, Statuses, Labels

\* Every step keeps the types; the loops stay inside the list.
LEMMA TypeStep == TypeOK /\ [Next]_vars => TypeOK'
<1>1. ASSUME TypeOK, Next PROVE TypeOK'
  BY <1>1, ThreadTypes, AnnounceTypes, ProcessTypes, LateTypes, Zenon DEF Next, relationship_thread_entrance
<1>2. ASSUME TypeOK, UNCHANGED vars PROVE TypeOK'
  BY <1>2, Zenon DEF TypeOK, vars, node, leader, thread
<1>. QED
  BY <1>1, <1>2

\* The variables of the leader election have their types (tracker_relationship.c).
THEOREM TypesCorrect == Spec => []TypeOK
  BY InitTypes, TypeStep, PTL DEF Spec

-----------------------------------------------------------------------------
\* A leader and its thread.

\* A leader is up, knows itself, and its thread has committed to itself.
Office ==
    \A t \in Trackers : if_leader_self[t] =>
        /\ up[t] /\ joined[t] /\ leader_index[t] = t /\ next_leader_index[t] = t
        /\ pc[t] \in {"idle", "ping"} \/ (pc[t] = "commit" /\ at[t] > Pos(t, t))

\* A thread at work is in a live tracker with a list; nobody loses a call to itself.
Awake ==
    /\ \A t \in Trackers : (pc[t] # "idle" => up[t] /\ joined[t]) /\ (joined[t] => up[t])
    /\ \A m \in late : m.from # m.to
    /\ cuts = 0 => late = {}

ThreadInv == TypeOK /\ Office /\ Awake

\* What a handler run for another tracker leaves as it is: nobody becomes leader by it, and
\* a leader either is unchanged or is none any more.
LEMMA Told2 ==
    ASSUME TypeOK, Office, NEW s \in Trackers, NEW t \in Trackers, NEW ok \in BOOLEAN, s # t,
           tracker_deal_notify_next_leader(s, t, ok) \/ tracker_deal_commit_next_leader(s, t, ok)
    PROVE  \A x \in Trackers : if_leader_self'[x] =>
               /\ if_leader_self[x]
               /\ leader_index'[x] = leader_index[x] /\ next_leader_index'[x] = next_leader_index[x]
  BY SMTT(30) DEF TypeOK, Office, tracker_deal_notify_next_leader, tracker_deal_commit_next_leader, leader

\* A call moves its own thread only: to the next server, to commit, or back.
LEMMA OwnThread ==
    ASSUME TypeOK, NEW t \in Trackers, NEW s \in Trackers, NEW done, NEW next, NEW cmd,
           NextServer(t, done, next) \/ GiveUp(t) \/ Refused(t, s, next) \/ Unanswered(t, s, cmd)
    PROVE  /\ \A x \in Trackers \ {t} : pc'[x] = pc[x] /\ at'[x] = at[x]
           /\ pc'[t] = "idle" \/ (pc'[t] = next /\ at'[t] = 1)
              \/ (pc'[t] = pc[t] /\ at'[t] = at[t] + 1)
<1>1. ASSUME NEW d, NextServer(t, d, next)
      PROVE  /\ \A x \in Trackers \ {t} : pc'[x] = pc[x] /\ at'[x] = at[x]
             /\ pc'[t] = "idle" \/ (pc'[t] = next /\ at'[t] = 1)
                \/ (pc'[t] = pc[t] /\ at'[t] = at[t] + 1)
  <2>1. CASE at[t] < N
    BY <1>1, <2>1, Lists DEF NextServer, TypeOK
  <2>2. CASE ~(at[t] < N)
    BY <1>1, <2>2, Zenon DEF NextServer, Goto, TypeOK
  <2>. QED
    BY <2>1, <2>2
<1>2. CASE GiveUp(t)
  BY <1>2, Zenon DEF GiveUp, Goto, TypeOK
<1>. QED
  BY <1>1, <1>2 DEF Refused, Unanswered

\* Every step keeps the leaders knowing themselves: only a commit makes one, and a notify
\* that would change its next_leader_index deposes it first.
LEMMA OfficeStep ==
    ASSUME ThreadInv, TypeOK', Next
    PROVE  Office'
<1>. USE DEF ThreadInv
<1>1. ASSUME NEW t \in Trackers, select_leader(t) \/ get_status(t) \/ decide(t) \/ has_leader(t)
                                 \/ ping_leader(t) \/ forget(t)
      PROVE  Office'
  <2>1. /\ UNCHANGED <<up, joined, if_leader_self, next_leader_index>>
        /\ \A x \in Trackers \ {t} : pc'[x] = pc[x] /\ at'[x] = at[x] /\ leader_index'[x] = leader_index[x]
    <3>1. CASE select_leader(t) \/ decide(t) \/ has_leader(t) \/ forget(t)
      BY <3>1 DEF TypeOK, select_leader, decide, has_leader, forget, Goto, node, leader
    <3>2. CASE get_status(t)
      BY <3>2, Zenon DEF TypeOK, get_status, Goto, node, leader
    <3>3. CASE ping_leader(t)
      BY <3>3 DEF TypeOK, ping_leader, Goto, node, leader
    <3>. QED
      BY <1>1, <3>1, <3>2, <3>3
  <2>2. if_leader_self[t] => pc'[t] \in {"idle", "ping"} /\ leader_index'[t] = leader_index[t]
    BY <1>1, Bounds
       DEF Office, TypeOK, select_leader, get_status, decide, has_leader, ping_leader, forget, Goto, leader
  <2>. QED
    BY <2>1, <2>2 DEF Office
<1>2. ASSUME NEW t \in Trackers, notify(t) PROVE Office'
  <2>1. PICK s \in Trackers : s = Server(t)
    BY Lists, Zenon DEF TypeOK, Server
  <2>2. ~if_leader_self[t] /\ UNCHANGED <<up, joined>>
    BY <1>2, Zenon DEF notify, Office, node
  <2>3. \A x \in Trackers \ {t} : pc'[x] = pc[x] /\ at'[x] = at[x]
    BY <1>2, <2>1, OwnThread, Zenon DEF notify
  <2>4. \A x \in Trackers : if_leader_self'[x] =>
           /\ if_leader_self[x]
           /\ leader_index'[x] = leader_index[x] /\ next_leader_index'[x] = next_leader_index[x]
    <3>1. CASE UNCHANGED leader
      BY <3>1, Zenon DEF leader
    <3>2. CASE \E ok \in BOOLEAN : tracker_deal_notify_next_leader(s, t, ok)
      BY <2>2, <3>2 DEF TypeOK, Office, tracker_deal_notify_next_leader, leader
    <3>. QED
      BY <1>2, <2>1, <3>1, <3>2, Zenon DEF notify, Refused, Unanswered
  <2>. QED
    BY <2>2, <2>3, <2>4 DEF Office
<1>3. ASSUME NEW t \in Trackers, commit(t) PROVE Office'
  <2>1. PICK s \in Trackers : s = Server(t)
    BY Lists, Zenon DEF TypeOK, Server
  <2>2. UNCHANGED <<up, joined>> /\ up[t] /\ pc[t] = "commit" /\ joined[t]
    BY <1>3, Zenon DEF commit, node, Awake
  <2>3. /\ \A x \in Trackers \ {t} : pc'[x] = pc[x] /\ at'[x] = at[x]
        /\ pc'[t] = "idle" \/ (pc'[t] = "commit" /\ at'[t] = at[t] + 1)
    <3>1. \/ NextServer(t, TRUE, "idle") \/ GiveUp(t)
          \/ Refused(t, s, "idle") \/ Unanswered(t, s, "commit")
      BY <1>3, <2>1, Zenon DEF commit
    <3>. QED
      <4>1. \A x \in Trackers \ {t} : pc'[x] = pc[x] /\ at'[x] = at[x]
        BY <3>1, OwnThread, Zenon
      <4>2. \/ pc'[t] = "idle" \/ (pc'[t] = pc[t] /\ at'[t] = at[t] + 1)
        BY <3>1, OwnThread, Zenon
      <4>. QED
        BY <2>2, <4>1, <4>2
  <2>4. CASE UNCHANGED leader
    <3>1. \A x \in Trackers : at[x] \in Nat /\ Pos(x, x) \in Nat
      BY Lists DEF TypeOK
    <3>2. UNCHANGED <<if_leader_self, leader_index, next_leader_index>>
      BY <2>4, Zenon DEF leader
    <3>. QED
      BY <2>2, <2>3, <3>1, <3>2 DEF Office
  <2>5. CASE s # t /\ \E ok \in BOOLEAN : tracker_deal_commit_next_leader(s, t, ok)
    <3>1. \A x \in Trackers : if_leader_self'[x] =>
             /\ if_leader_self[x]
             /\ leader_index'[x] = leader_index[x] /\ next_leader_index'[x] = next_leader_index[x]
      BY <2>5, Told2, Zenon
    <3>2. \A x \in Trackers : at[x] \in Nat /\ Pos(x, x) \in Nat
      BY Lists DEF TypeOK
    <3>. QED
      BY <2>2, <2>3, <3>1, <3>2 DEF Office
  <2>6. CASE s = t /\ NextServer(t, TRUE, "idle") /\ tracker_deal_commit_next_leader(s, t, TRUE)
    <3>1. at[t] = Pos(t, t)
      <4>1. at[t] \in 1 .. N /\ Order[t][at[t]] = t
        BY <2>1, <2>6, Zenon DEF Server, TypeOK
      <4>. QED
        BY <4>1, Lists
    <3>. QED
      BY <2>2, <2>3, <2>6, <3>1, Lists DEF Office, TypeOK, tracker_deal_commit_next_leader
  <2>7. CASE s = t /\ tracker_deal_commit_next_leader(s, t, FALSE)
    BY <2>4, <2>7 DEF tracker_deal_commit_next_leader
  <2>. QED
    BY <1>3, <2>1, <2>4, <2>5, <2>6, <2>7, Zenon DEF commit, Refused, Unanswered
<1>4. ASSUME NEW t \in Trackers, join(t) \/ add_group(t) \/ tick(t) \/ crash(t) \/ restart(t)
      PROVE  Office'
  BY SMTT(30), <1>4 DEF Office, TypeOK, join, add_group, tick, crash, restart, Goto, leader, thread
<1>5. ASSUME NEW m \in late, deliver_late(m) PROVE Office'
  <2>1. m.to \in Trackers /\ m.from \in Trackers /\ m.to # m.from
    BY Zenon DEF TypeOK, Awake, Messages
  <2>2. UNCHANGED <<up, joined, pc, at>>
    BY <1>5, Zenon DEF deliver_late, node, thread
  <2>3. \A x \in Trackers : if_leader_self'[x] =>
           /\ if_leader_self[x]
           /\ leader_index'[x] = leader_index[x] /\ next_leader_index'[x] = next_leader_index[x]
    BY <1>5, <2>1, Told2, Zenon DEF deliver_late
  <2>. QED
    BY <2>2, <2>3 DEF Office
<1>. QED
  BY <1>1, <1>2, <1>3, <1>4, <1>5 DEF Next, relationship_thread_entrance

\* Every step leaves threads at work in live trackers only (a crash ends its thread), and a
\* message is late only after a call has failed.
LEMMA AwakeStep ==
    ASSUME ThreadInv, TypeOK', Next
    PROVE  Awake'
<1>. USE DEF ThreadInv
<1>1. ASSUME NEW t \in Trackers, select_leader(t) \/ decide(t) \/ has_leader(t) \/ forget(t)
      PROVE  Awake'
  BY <1>1 DEF Awake, TypeOK, select_leader, decide, has_leader, forget, Goto, node
<1>2. ASSUME NEW t \in Trackers, get_status(t) \/ ping_leader(t) PROVE Awake'
  <2>1. UNCHANGED <<up, joined, late>> /\ up[t] /\ joined[t]
    BY <1>2, Zenon DEF get_status, ping_leader, node, Awake
  <2>2. \A x \in Trackers \ {t} : pc'[x] = pc[x]
    <3>1. CASE get_status(t)
      BY <3>1, Zenon DEF TypeOK, get_status, Goto
    <3>2. CASE ping_leader(t)
      BY <3>2 DEF TypeOK, ping_leader, Goto
    <3>. QED
      BY <1>2, <3>1, <3>2
  <2>3. cuts' = 0 => cuts = 0
    <3>1. cuts \in Nat
      BY Bounds DEF TypeOK
    <3>2. cuts' = cuts \/ cuts' = cuts + 1
      BY <1>2, Zenon DEF get_status, ping_leader, Cut
    <3>. QED
      BY <3>1, <3>2
  <2>. QED
    BY <2>1, <2>2, <2>3 DEF Awake
<1>3. ASSUME NEW t \in Trackers, notify(t) \/ commit(t) PROVE Awake'
  <2>1. PICK s \in Trackers : s = Server(t)
    BY Lists, Zenon DEF TypeOK, Server
  <2>2. UNCHANGED <<up, joined>> /\ up[t] /\ joined[t]
    BY <1>3, Zenon DEF notify, commit, node, Awake
  <2>3. \A x \in Trackers \ {t} : pc'[x] = pc[x]
    BY <1>3, <2>1, OwnThread, Zenon DEF notify, commit
  <2>4. \/ UNCHANGED late /\ (cuts' = 0 => cuts = 0)
        \/ /\ t # s /\ cuts' # 0
           /\ \E c \in {"notify", "commit"} : late' = late \cup {[cmd |-> c, from |-> t, to |-> s]}
    <3>1. Cut(t, s) => t # s /\ cuts' # 0
      BY DEF Cut, TypeOK
    <3>2. CASE \E c \in {"notify", "commit"} : Unanswered(t, s, c)
      BY <3>1, <3>2, Zenon DEF Unanswered
    <3>3. CASE \E n \in {"idle", "commit"} : Refused(t, s, n)
      BY <3>1, <3>3, Zenon DEF Refused
    <3>4. CASE UNCHANGED <<cuts, late>>
      BY <3>4
    <3>. QED
      BY <1>3, <2>1, <3>2, <3>3, <3>4, Zenon DEF notify, commit
  <2>. QED
    <3>1. \A x \in Trackers : (pc'[x] # "idle" => up'[x] /\ joined'[x]) /\ (joined'[x] => up'[x])
      BY <2>2, <2>3, Zenon DEF Awake
    <3>2. (\A m \in late' : m.from # m.to) /\ (cuts' = 0 => late' = {})
      BY <2>4 DEF Awake
    <3>. QED
      BY <3>1, <3>2 DEF Awake
<1>4. ASSUME NEW t \in Trackers, join(t) \/ add_group(t) \/ tick(t) \/ crash(t) \/ restart(t)
      PROVE  Awake'
  BY <1>4 DEF Awake, TypeOK, join, add_group, tick, crash, restart, Goto, leader, thread
<1>5. ASSUME NEW m \in late, deliver_late(m) PROVE Awake'
  BY <1>5, Zenon DEF Awake, deliver_late, node, thread
<1>. QED
  BY <1>1, <1>2, <1>3, <1>4, <1>5 DEF Next, relationship_thread_entrance

\* The leader's tracker knows its place, and threads at work are in live trackers, in every
\* state the trackers can be in.
THEOREM ThreadInvariant == Spec => []ThreadInv
<1>1. Init => ThreadInv
  <2>1. Init => Office /\ Awake
    BY Zenon DEF Init, Office, Awake
  <2>. QED
    BY <2>1, InitTypes DEF ThreadInv
<1>2. ThreadInv /\ [Next]_vars => ThreadInv'
  <2>1. ASSUME ThreadInv, [Next]_vars PROVE TypeOK'
    BY <2>1, TypeStep, Zenon DEF ThreadInv
  <2>2. ASSUME ThreadInv, Next PROVE Office' /\ Awake'
    BY <2>1, <2>2, OfficeStep, AwakeStep, Zenon
  <2>3. ASSUME ThreadInv, UNCHANGED vars PROVE Office' /\ Awake'
    BY <2>3 DEF ThreadInv, Office, Awake, Pos, vars, node, leader, thread
  <2>. QED
    BY <2>1, <2>2, <2>3 DEF ThreadInv
<1>. QED
  BY <1>1, <1>2, PTL DEF Spec

\* A tracker that acts as leader has itself as leader_index and next_leader_index, whatever
\* was lost or came late (tracker_deal_notify_next_leader, tracker_deal_commit_next_leader).
THEOREM LeadersKnowThemselves == Spec => []LeaderKnowsItself
<1>1. ThreadInv => LeaderKnowsItself
  BY DEF ThreadInv, Office, LeaderKnowsItself, Leaders
<1>. QED
  BY <1>1, ThreadInvariant, PTL

-----------------------------------------------------------------------------
\* Two elections.

Told(t, s) == pc[t] = "commit" \/ (pc[t] = "notify" /\ Pos(t, s) < at[t])

Stands(t) ==
    \/ if_leader_self[t]
    \/ pc[t] \in {"notify", "commit"} /\ Told(t, t) /\ next_leader_index[t] = t

StoppedBy(t, s) ==
    \/ pc[t] = "notify" /\ ~Told(t, s)
    \/ /\ pc[t] \in {"notify", "commit"} /\ (pc[t] = "commit" => at[t] <= Pos(t, s))
       /\ Pos(t, s) < Pos(t, t) /\ next_leader_index[s] # t

Rivals ==
    \A t, s \in Trackers : t # s /\ Stands(t) /\ Stands(s) =>
        StoppedBy(s, t) \/ (~if_leader_self[t] /\ StoppedBy(t, s))

-----------------------------------------------------------------------------

\* A step after which the same trackers stand, or fewer, and the threads of those that do are
\* where they were, keeps the rivals apart.
LEMMA Quiet ==
    ASSUME TypeOK, Office, Rivals,
           \A x \in Trackers : Stands(x)' =>
               /\ Stands(x)
               /\ pc[x] \in {"notify", "commit"} /\ ~if_leader_self[x] => pc'[x] = pc[x] /\ at'[x] = at[x]
               /\ if_leader_self'[x] => if_leader_self[x]
               /\ next_leader_index'[x] = next_leader_index[x]
    PROVE  Rivals'
<1>. SUFFICES ASSUME NEW t \in Trackers, NEW s \in Trackers, t # s, Stands(t)', Stands(s)'
              PROVE  StoppedBy(s, t)' \/ (~if_leader_self'[t] /\ StoppedBy(t, s)')
  BY Zenon DEF Rivals
<1>1. StoppedBy(s, t) \/ (~if_leader_self[t] /\ StoppedBy(t, s))
  BY Zenon DEF Rivals
<1>2. ASSUME NEW x \in Trackers, NEW y \in Trackers, Stands(x)', Stands(y)', StoppedBy(x, y)
      PROVE  StoppedBy(x, y)'
  <2>1. ~if_leader_self[x]
    <3>1. at[x] \in Nat /\ Pos(x, x) \in Nat /\ Pos(x, y) \in Nat
      BY Lists DEF TypeOK
    <3>. QED
      BY <1>2, <3>1 DEF StoppedBy, Told, Office
  <2>. QED
    BY <1>2, <2>1 DEF StoppedBy, Told, Pos
<1>3. (StoppedBy(s, t) => StoppedBy(s, t)') /\ (StoppedBy(t, s) => StoppedBy(t, s)')
  BY <1>2
<1>. QED
  BY <1>1, <1>3

\* Joining, ageing, crashing and starting leave the elections of the others as they are.
LEMMA ProcessQuiet ==
    ASSUME TypeOK, Office, Rivals, NEW t \in Trackers,
           join(t) \/ add_group(t) \/ tick(t) \/ restart(t)
    PROVE  Rivals'
<1>1. UNCHANGED <<if_leader_self, next_leader_index, pc, at>>
  BY Zenon DEF join, add_group, tick, restart, leader, thread
<1>. QED
  BY <1>1, Quiet DEF Stands, Told, Pos

\* A crash takes one tracker out of the elections and leaves the others.
LEMMA CrashQuiet ==
    ASSUME TypeOK, Office, Rivals, NEW t \in Trackers, crash(t)
    PROVE  Rivals'
<1>1. pc'[t] = "idle" /\ \A x \in Trackers \ {t} : pc'[x] = pc[x] /\ at'[x] = at[x]
  BY GotoMoves, Zenon DEF crash
<1>2. /\ ~if_leader_self'[t]
      /\ \A x \in Trackers \ {t} : if_leader_self'[x] = if_leader_self[x]
  BY Zenon DEF crash, TypeOK
<1>3. \A x \in Trackers \ {t} : next_leader_index'[x] = next_leader_index[x]
  BY Zenon DEF crash, TypeOK
<1>4. ~Stands(t)' /\ \A x \in Trackers \ {t} : Stands(x)' => Stands(x)
  BY <1>1, <1>2, <1>3, Zenon DEF Stands, Told, Pos
<1>. QED
  BY <1>1, <1>2, <1>3, <1>4, Quiet

\* Nor does a thread that asks, decides, pings or forgets.
LEMMA ThreadQuiet ==
    ASSUME TypeOK, Office, Rivals, NEW t \in Trackers,
           \/ select_leader(t) \/ get_status(t) \/ decide(t)
           \/ has_leader(t) \/ ping_leader(t) \/ forget(t)
    PROVE  Rivals'
<1>1. UNCHANGED <<if_leader_self, next_leader_index>>
  BY Zenon DEF select_leader, get_status, decide, has_leader, ping_leader, forget, leader
<1>2. \/ pc[t] = "status" /\ pc' = pc /\ at' = [at EXCEPT ![t] = @ + 1]
      \/ pc[t] \in {"idle", "ping"} /\ leader_index[t] # None /\ Goto(t, "ping")
      \/ pc[t] = "ping" /\ (Goto(t, "idle") \/ (~if_leader_self[t] /\ Goto(t, "forget")))
      \/ pc[t] \notin {"notify", "commit", "ping"} /\ ~(pc[t] = "idle" /\ leader_index[t] # None)
         /\ \E l \in {"status", "decide", "notify", "idle"} : Goto(t, l)
  <2>1. CASE select_leader(t) \/ decide(t) \/ has_leader(t) \/ forget(t)
    BY <2>1, Zenon DEF select_leader, decide, has_leader, forget
  <2>2. CASE get_status(t)
    BY <2>2, Zenon DEF get_status
  <2>3. CASE ping_leader(t)
    BY <2>3, Zenon DEF ping_leader
  <2>. QED
    BY <2>1, <2>2, <2>3
<1>3. \A x \in Trackers \ {t} : pc'[x] = pc[x] /\ at'[x] = at[x]
  BY <1>2, GotoMoves, Zenon DEF TypeOK
<1>4. /\ pc[t] \notin {"notify", "commit"}
      /\ pc'[t] \notin {"notify", "commit"} \/ (pc'[t] = "notify" /\ at'[t] = 1)
  BY <1>2, GotoMoves, Zenon
<1>5. Stands(t)' => if_leader_self[t]
  <2>1. ~(Pos(t, t)' < 1)
    BY Places DEF Pos
  <2>. QED
    BY <1>1, <1>4, <2>1 DEF Stands, Told
<1>6. if_leader_self[t] => pc'[t] \in {"idle", "ping"}
  <2>1. if_leader_self[t] => pc[t] \in {"idle", "ping"} /\ leader_index[t] # None
    BY <1>4, Bounds, Zenon DEF Office
  <2>. QED
    BY <1>2, <2>1, GotoMoves
<1>7. \A x \in Trackers : Stands(x)' => Stands(x)
  <2>1. \A x \in Trackers \ {t} : Stands(x)' => Stands(x)
    BY <1>1, <1>3, Zenon DEF Stands, Told, Pos
  <2>. QED
    BY <1>5, <2>1 DEF Stands
<1>. QED
  BY <1>1, <1>3, <1>4, <1>5, <1>7, Quiet

\* Who stands was told of itself last.
LEMMA StandsTold ==
    ASSUME Office, NEW x \in Trackers, Stands(x)
    PROVE  next_leader_index[x] = x
  BY Zenon DEF Office, Stands

\* A candidate t goes past a tracker s that does not stand, or does not any more.
LEMMA GoesPast ==
    ASSUME TypeOK, TypeOK', Office, Rivals, NEW t \in Trackers, NEW s \in Trackers, t # s,
           pc[t] \in {"notify", "commit"}, at[t] = Pos(t, s), ~Stands(s)', UNCHANGED if_leader_self,
           \A x \in Trackers \ {s} : next_leader_index'[x] = next_leader_index[x],
           \A x \in Trackers \ {t} : pc'[x] = pc[x] /\ at'[x] = at[x],
           \/ pc'[t] = "idle"
           \/ pc'[t] = pc[t] /\ at'[t] = at[t] + 1
           \/ pc[t] = "notify" /\ pc'[t] = "commit" /\ at'[t] = 1 /\ at[t] = N
    PROVE  Rivals'
<1>0. \A x, y \in Trackers : Pos(x, y) \in Nat /\ Pos(x, y)' = Pos(x, y) /\ at[x] \in Nat
  <2>1. \A x, y \in Trackers : Pos(x, y)' = Pos(x, y)
    BY Zenon DEF Pos
  <2>2. \A x \in Trackers : at[x] \in Nat
    BY Lists DEF TypeOK
  <2>. QED
    BY <2>1, <2>2, Places
<1>1. \A y \in Trackers \ {s} : Pos(t, y) # at[t]
  BY Places, Zenon
<1>2. \A x \in Trackers : Stands(x)' => x # s /\ Stands(x)
  <2>1. ASSUME Stands(t)' PROVE Stands(t)
    <3>1. at[t] # Pos(t, t) /\ Pos(t, t) <= N /\ Pos(t, t) \in Nat /\ at[t] \in Nat
      BY <1>0, <1>1, Places
    <3>. QED
      BY <2>1, <1>0, <3>1 DEF Stands, Told
  <2>. QED
    BY <1>0, <2>1 DEF Stands, Told
<1>3. ASSUME NEW x \in Trackers, NEW y \in Trackers, x # y, Stands(x)', Stands(y)', StoppedBy(x, y)
      PROVE  StoppedBy(x, y)'
  <2>0. x # s /\ y # s /\ next_leader_index'[y] = next_leader_index[y]
    BY <1>2, <1>3, Zenon
  <2>1. CASE x # t
    BY <1>0, <1>3, <2>0, <2>1, Zenon DEF StoppedBy, Told
  <2>2. CASE x = t
    <3>1. ~if_leader_self[t]
      BY <1>0, <1>3, <2>2 DEF StoppedBy, Told, Office
    <3>2. pc'[t] # "idle"
      BY <1>3, <2>2, <3>1, Zenon DEF Stands
    <3>3. Pos(t, y) # at[t]
      BY <1>1, <2>0, Zenon
    <3>4. CASE pc'[t] = "notify"
      BY SMTT(30), <1>0, <1>3, <2>0, <2>2, <3>2, <3>3, <3>4 DEF StoppedBy, Told
    <3>5. CASE pc[t] = "commit" /\ pc'[t] = "commit"
      BY SMTT(30), <1>0, <1>3, <2>0, <2>2, <3>2, <3>3, <3>5 DEF StoppedBy, Told
    <3>6. CASE pc[t] = "notify" /\ pc'[t] = "commit"
      <4>1. Pos(t, y) < at[t] /\ at'[t] <= Pos(t, y)
        <5>1. Pos(t, y) \in Nat /\ 1 <= Pos(t, y) /\ Pos(t, y) <= N /\ at[t] = N /\ at'[t] = 1 /\ N \in Nat
          BY SMTT(30), <3>6, Places, Lists
        <5>. QED
          BY <3>3, <5>1
      <4>. QED
        BY <1>0, <1>3, <2>0, <2>2, <3>6, <4>1 DEF StoppedBy, Told
    <3>. QED
      BY SMTT(30), <3>2, <3>4, <3>5, <3>6
  <2>. QED
    BY <2>1, <2>2
<1>. SUFFICES ASSUME NEW x \in Trackers, NEW y \in Trackers, x # y, Stands(x)', Stands(y)'
              PROVE  StoppedBy(y, x)' \/ (~if_leader_self'[x] /\ StoppedBy(x, y)')
  BY DEF Rivals
<1>4. StoppedBy(y, x) \/ (~if_leader_self[x] /\ StoppedBy(x, y))
  BY <1>2, Zenon DEF Rivals
<1>. QED
  BY <1>3, <1>4

\* A candidate tells itself: who stands already stops it.
LEMMA TellsItself ==
    ASSUME TypeOK, TypeOK', Office, Office', Rivals, NEW t \in Trackers,
           pc[t] = "notify", at[t] = Pos(t, t), UNCHANGED if_leader_self,
           \A x \in Trackers \ {t} : next_leader_index'[x] = next_leader_index[x],
           \A x \in Trackers \ {t} : pc'[x] = pc[x] /\ at'[x] = at[x],
           \/ pc'[t] = "notify" /\ at'[t] = at[t] + 1
           \/ pc'[t] = "commit" /\ at'[t] = 1 /\ at[t] = N
    PROVE  Rivals'
<1>0. \A x, y \in Trackers : Pos(x, y) \in Nat /\ Pos(x, y)' = Pos(x, y) /\ at[x] \in Nat
  <2>1. \A x, y \in Trackers : Pos(x, y)' = Pos(x, y)
    BY Zenon DEF Pos
  <2>2. \A x \in Trackers : at[x] \in Nat
    BY Lists DEF TypeOK
  <2>. QED
    BY <2>1, <2>2, Places
<1>1. \A y \in Trackers \ {t} : Pos(t, y) # at[t]
  BY Places, Zenon
<1>2. ~if_leader_self'[t]
  BY Zenon DEF Office
<1>3. ASSUME NEW y \in Trackers, y # t, Stands(y)' PROVE StoppedBy(t, y)'
  <2>1. next_leader_index'[y] # t
    BY <1>3, Zenon DEF Office, Stands
  <2>2. CASE pc'[t] = "notify"
    BY <1>0, <1>1, <1>3, <2>1, <2>2 DEF StoppedBy, Told
  <2>3. CASE pc'[t] = "commit"
    <3>1. Pos(t, y) < Pos(t, t) /\ at'[t] <= Pos(t, y)
      <4>1. Pos(t, y) \in Nat /\ 1 <= Pos(t, y) /\ Pos(t, y) <= N /\ at[t] = N /\ at'[t] = 1 /\ N \in Nat
        BY <2>3, Places, Lists
      <4>. QED
        BY <1>1, <1>3, <4>1
    <3>. QED
      BY <1>0, <2>1, <2>3, <3>1 DEF StoppedBy
  <2>. QED
    BY <2>2, <2>3
<1>4. ASSUME NEW x \in Trackers \ {t}, NEW y \in Trackers \ {t}
      PROVE  Stands(x)' = Stands(x) /\ StoppedBy(x, y)' = StoppedBy(x, y)
  BY <1>0, Zenon DEF Stands, StoppedBy, Told
<1>. SUFFICES ASSUME NEW x \in Trackers, NEW y \in Trackers, x # y, Stands(x)', Stands(y)'
              PROVE  StoppedBy(y, x)' \/ (~if_leader_self'[x] /\ StoppedBy(x, y)')
  BY DEF Rivals
<1>5. CASE x = t
  BY <1>2, <1>3, <1>5, Zenon
<1>6. CASE y = t
  BY <1>3, <1>6, Zenon
<1>7. CASE x # t /\ y # t
  BY <1>4, <1>7, Zenon DEF Rivals
<1>. QED
  BY SMTT(30), <1>5, <1>6, <1>7

\* A candidate commits to itself: it was not stopped, so the others are.
LEMMA TakesOffice ==
    ASSUME TypeOK, TypeOK', Office, Rivals, NEW t \in Trackers,
           pc[t] = "commit", at[t] = Pos(t, t), next_leader_index[t] = t, UNCHANGED next_leader_index,
           \A x \in Trackers \ {t} : if_leader_self'[x] = if_leader_self[x],
           \A x \in Trackers \ {t} : pc'[x] = pc[x] /\ at'[x] = at[x]
    PROVE  Rivals'
<1>0. \A x, y \in Trackers : Pos(x, y) \in Nat /\ Pos(x, y)' = Pos(x, y) /\ at[x] \in Nat
  <2>1. \A x, y \in Trackers : Pos(x, y)' = Pos(x, y)
    BY Zenon DEF Pos
  <2>2. \A x \in Trackers : at[x] \in Nat
    BY Lists DEF TypeOK
  <2>. QED
    BY <2>1, <2>2, Places
<1>1. Stands(t)
  BY Zenon DEF Stands, Told
<1>2. ASSUME NEW y \in Trackers PROVE ~StoppedBy(t, y)
  BY <1>0 DEF StoppedBy, Told
<1>3. ASSUME NEW x \in Trackers \ {t}, NEW y \in Trackers
      PROVE  Stands(x)' = Stands(x) /\ StoppedBy(x, y)' = StoppedBy(x, y)
  BY <1>0, Zenon DEF Stands, StoppedBy, Told
<1>4. ASSUME NEW x \in Trackers \ {t}, Stands(x)' PROVE StoppedBy(x, t)' /\ ~if_leader_self'[x]
  <2>1. Stands(x)
    BY <1>3, <1>4, Zenon
  <2>2. StoppedBy(t, x) \/ (~if_leader_self[x] /\ StoppedBy(x, t))
    BY <1>1, <2>1, Zenon DEF Rivals
  <2>. QED
    BY <1>2, <1>3, <2>2
<1>. SUFFICES ASSUME NEW x \in Trackers, NEW y \in Trackers, x # y, Stands(x)', Stands(y)'
              PROVE  StoppedBy(y, x)' \/ (~if_leader_self'[x] /\ StoppedBy(x, y)')
  BY DEF Rivals
<1>5. CASE x = t
  BY <1>4, <1>5, Zenon
<1>6. CASE y = t
  BY <1>4, <1>6, Zenon
<1>7. CASE x # t /\ y # t
  BY <1>3, <1>7, Zenon DEF Rivals
<1>. QED
  BY <1>5, <1>6, <1>7

\* NextServer goes on to the next server, or past the last one.
LEMMA Advance ==
    ASSUME TypeOK, NEW t \in Trackers, NEW done \in BOOLEAN, NEW next, NextServer(t, done, next)
    PROVE  /\ \A x \in Trackers \ {t} : pc'[x] = pc[x] /\ at'[x] = at[x]
           /\ \/ ~done /\ pc'[t] = "idle"
              \/ pc'[t] = pc[t] /\ at'[t] = at[t] + 1
              \/ pc'[t] = next /\ at'[t] = 1 /\ at[t] = N
<1>0. at[t] \in Nat /\ at[t] <= N /\ N \in Nat
  BY Lists DEF TypeOK
<1>1. CASE at[t] < N
  BY <1>1, Zenon DEF NextServer, TypeOK
<1>2. CASE ~(at[t] < N)
  BY <1>0, <1>2 DEF NextServer, Goto, TypeOK
<1>. QED
  BY SMTT(30), <1>1, <1>2

\* The server that is called is at the place where the loop is.
LEMMA CalledPlace ==
    ASSUME TypeOK, NEW t \in Trackers
    PROVE  Server(t) \in Trackers /\ at[t] = Pos(t, Server(t))
<1>1. at[t] \in 1 .. N
  BY Zenon DEF TypeOK
<1>2. Server(t) \in Trackers
  BY <1>1, Lists, Zenon DEF Server
<1>. QED
  BY <1>1, <1>2, Lists DEF Server

\* The notify loop (do_notify_leader_changed) keeps the rivals apart, whoever is called.
LEMMA NotifyRivals ==
    ASSUME ThreadInv, (cuts = 0 => Rivals), TypeOK', Office', NEW t \in Trackers, notify(t), cuts' = 0
    PROVE  Rivals'
<1>. USE DEF ThreadInv
<1>1. PICK s \in Trackers : s = Server(t) /\ at[t] = Pos(t, s)
  BY CalledPlace, Zenon
<1>2. ~Cut(t, s) /\ cuts = 0
  <2>1. cuts \in Nat
    BY Bounds DEF TypeOK
  <2>2. Cut(t, s) => cuts' # 0
    BY <2>1, SMTT(30) DEF Cut
  <2>. QED
    BY <1>1, <2>2, Zenon DEF notify, Refused, Unanswered
<1>3. Rivals /\ pc[t] = "notify" /\ up[t] /\ joined[t] /\ ~if_leader_self[t] /\ success[t] \in BOOLEAN
  BY <1>2, Zenon DEF notify, Awake, Office, TypeOK
<1>4. CASE Refused(t, s, "commit")
  <2>1. ~up[s] /\ s # t /\ UNCHANGED leader /\ NextServer(t, success[t], "commit")
    BY <1>2, <1>3, <1>4, Zenon DEF Refused
  <2>2. /\ \A x \in Trackers \ {t} : pc'[x] = pc[x] /\ at'[x] = at[x]
        /\ \/ pc'[t] = "idle" \/ (pc'[t] = pc[t] /\ at'[t] = at[t] + 1)
           \/ pc'[t] = "commit" /\ at'[t] = 1 /\ at[t] = N
    BY <1>3, <2>1, Advance, Zenon
  <2>3. ~Stands(s)'
    BY <2>1, <2>2 DEF Stands, Office, Awake, leader
  <2>. QED
    BY <1>1, <1>3, <2>1, <2>2, <2>3, GoesPast, SMTT(30) DEF leader
<1>5. CASE tracker_deal_notify_next_leader(s, t, TRUE) /\ NextServer(t, TRUE, "commit")
  <2>1. /\ next_leader_index' = [next_leader_index EXCEPT ![s] = t] /\ UNCHANGED if_leader_self
        /\ ~(if_leader_self[s] /\ s # t)
    BY <1>5, Zenon DEF tracker_deal_notify_next_leader
  <2>2. /\ \A x \in Trackers \ {t} : pc'[x] = pc[x] /\ at'[x] = at[x]
        /\ \/ pc'[t] = pc[t] /\ at'[t] = at[t] + 1
           \/ pc'[t] = "commit" /\ at'[t] = 1 /\ at[t] = N
    BY <1>5, Advance, Zenon
  <2>3. \A x \in Trackers \ {s} : next_leader_index'[x] = next_leader_index[x]
    BY <2>1, Zenon DEF TypeOK
  <2>4. CASE s = t
    BY <1>1, <1>3, <2>1, <2>2, <2>3, <2>4, TellsItself, Zenon
  <2>5. CASE s # t
    <3>1. ~Stands(s)'
      BY <2>1, <2>5, Zenon DEF Stands, TypeOK
    <3>. QED
      BY <1>1, <1>3, <2>1, <2>2, <2>3, <2>5, <3>1, GoesPast
  <2>. QED
    BY <2>4, <2>5
<1>6. CASE tracker_deal_notify_next_leader(s, t, FALSE) /\ GiveUp(t)
  <2>1. /\ \A x \in Trackers : if_leader_self'[x] => if_leader_self[x]
        /\ UNCHANGED next_leader_index
    BY <1>6, Zenon DEF tracker_deal_notify_next_leader, leader, TypeOK
  <2>2. (\A x \in Trackers \ {t} : pc'[x] = pc[x] /\ at'[x] = at[x]) /\ pc'[t] = "idle"
    BY <1>6, Zenon DEF GiveUp, Goto, TypeOK
  <2>3. ~Stands(t)'
    BY <1>3, <2>1, <2>2, Zenon DEF Stands
  <2>4. \A x \in Trackers \ {t} : Stands(x)' => Stands(x)
    BY <2>1, <2>2 DEF Stands, Told, Pos
  <2>. QED
    BY <1>3, <2>1, <2>2, <2>3, <2>4, Quiet
<1>. QED
  BY <1>1, <1>2, <1>4, <1>5, <1>6, Zenon DEF notify, Unanswered

\* So does the commit loop.
LEMMA CommitRivals ==
    ASSUME ThreadInv, (cuts = 0 => Rivals), TypeOK', NEW t \in Trackers, commit(t), cuts' = 0
    PROVE  Rivals'
<1>. USE DEF ThreadInv
<1>1. PICK s \in Trackers : s = Server(t) /\ at[t] = Pos(t, s)
  BY CalledPlace, Zenon
<1>2. ~Cut(t, s) /\ cuts = 0
  <2>1. cuts \in Nat
    BY Bounds DEF TypeOK
  <2>2. Cut(t, s) => cuts' # 0
    BY <2>1, SMTT(30) DEF Cut
  <2>. QED
    BY <1>1, <2>2, Zenon DEF commit, Refused, Unanswered
<1>3. Rivals /\ pc[t] = "commit" /\ up[t] /\ joined[t] /\ success[t] \in BOOLEAN
  BY <1>2, Zenon DEF commit, Awake, TypeOK
<1>4. CASE Refused(t, s, "idle")
  <2>1. ~up[s] /\ s # t /\ UNCHANGED leader /\ NextServer(t, success[t], "idle")
    BY <1>2, <1>3, <1>4, Zenon DEF Refused
  <2>2. /\ \A x \in Trackers \ {t} : pc'[x] = pc[x] /\ at'[x] = at[x]
        /\ pc'[t] = "idle" \/ (pc'[t] = pc[t] /\ at'[t] = at[t] + 1)
    BY <1>3, <2>1, Advance, Zenon
  <2>3. ~Stands(s)'
    BY <2>1, <2>2, Zenon DEF Stands, Office, Awake, leader
  <2>. QED
    BY <1>1, <1>3, <2>1, <2>2, <2>3, GoesPast DEF leader
<1>5. CASE tracker_deal_commit_next_leader(s, t, TRUE) /\ NextServer(t, TRUE, "idle")
  <2>1. /\ UNCHANGED next_leader_index /\ next_leader_index[s] = t
        /\ if_leader_self' = [if_leader_self EXCEPT ![s] = @ \/ s = t]
    BY <1>5, Zenon DEF tracker_deal_commit_next_leader
  <2>2. /\ \A x \in Trackers \ {t} : pc'[x] = pc[x] /\ at'[x] = at[x]
        /\ pc'[t] = "idle" \/ (pc'[t] = pc[t] /\ at'[t] = at[t] + 1)
    BY <1>5, Advance, Zenon
  <2>3. CASE s = t
    <3>1. \A x \in Trackers \ {t} : if_leader_self'[x] = if_leader_self[x]
      BY <2>1, <2>3, Zenon DEF TypeOK
    <3>. QED
      BY <1>1, <1>3, <2>1, <2>2, <2>3, <3>1, TakesOffice
  <2>4. CASE s # t
    <3>1. UNCHANGED if_leader_self
      BY <2>1, <2>4 DEF TypeOK
    <3>2. ~Stands(s)'
      BY <2>1, <2>4, <3>1, Zenon DEF Stands, Office
    <3>. QED
      BY <1>1, <1>3, <2>1, <2>2, <2>4, <3>1, <3>2, GoesPast
  <2>. QED
    BY <2>3, <2>4
<1>6. CASE tracker_deal_commit_next_leader(s, t, FALSE) /\ GiveUp(t)
  <2>1. UNCHANGED <<if_leader_self, next_leader_index>>
    BY <1>6, Zenon DEF tracker_deal_commit_next_leader, leader
  <2>2. (\A x \in Trackers \ {t} : pc'[x] = pc[x] /\ at'[x] = at[x]) /\ pc'[t] = "idle"
    BY <1>6, Zenon DEF GiveUp, Goto, TypeOK
  <2>3. Stands(t)' => if_leader_self[t]
    BY <2>1, <2>2, Zenon DEF Stands
  <2>4. \A x \in Trackers : Stands(x)' => Stands(x)
    BY <2>1, <2>2, <2>3 DEF Stands, Told, Pos
  <2>. QED
    BY <1>3, <2>1, <2>2, <2>3, <2>4, Quiet
<1>. QED
  BY <1>1, <1>2, <1>4, <1>5, <1>6, Zenon DEF commit, Unanswered

\* Of two candidates that stand one is stopped by the other, in every state before the first
\* failed call (relationship_notify_leader_changed).
THEOREM RivalsApart == Spec => [](cuts = 0 => Rivals)
<1>1. Init => Rivals
  BY Zenon DEF Init, Rivals, Stands
<1>2. ASSUME ThreadInv, ThreadInv', cuts = 0 => Rivals, Next, cuts' = 0 PROVE Rivals'
  <2>1. ASSUME NEW m \in late, deliver_late(m) PROVE FALSE
    BY <1>2, <2>1, Zenon DEF ThreadInv, Awake, deliver_late
  <2>2. ASSUME NEW t \in Trackers, get_status(t) \/ ping_leader(t) PROVE cuts = 0
    <3>1. cuts \in Nat
      BY <1>2, Bounds, SMTT(30) DEF ThreadInv, TypeOK
    <3>2. cuts' = cuts \/ cuts' = cuts + 1
      BY <2>2, Zenon DEF get_status, ping_leader, Cut
    <3>. QED
      BY <1>2, <3>1, <3>2
  <2>3. ASSUME NEW t \in Trackers,
               \/ select_leader(t) \/ decide(t) \/ has_leader(t) \/ forget(t)
               \/ join(t) \/ add_group(t) \/ tick(t) \/ crash(t) \/ restart(t)
        PROVE  cuts = 0
    BY <1>2, <2>3, Zenon DEF select_leader, decide, has_leader, forget, join, add_group, tick, crash, restart
  <2>4. ASSUME NEW t \in Trackers, notify(t) \/ commit(t) PROVE Rivals'
    BY <1>2, <2>4, NotifyRivals, CommitRivals, Zenon DEF ThreadInv
  <2>5. TypeOK /\ Office
    BY <1>2, Zenon DEF ThreadInv
  <2>. QED
    BY <1>2, <2>1, <2>2, <2>3, <2>4, <2>5, ProcessQuiet, CrashQuiet, ThreadQuiet
       DEF Next, relationship_thread_entrance
<1>3. ASSUME ThreadInv, cuts = 0 => Rivals, UNCHANGED vars, cuts' = 0 PROVE Rivals'
  <2>1. UNCHANGED <<cuts, if_leader_self, next_leader_index, pc, at>>
    BY <1>3, Zenon DEF vars, leader, thread
  <2>2. \A t \in Trackers : Stands(t)' => Stands(t)
    BY <2>1, Zenon DEF Stands, Told, Pos
  <2>. QED
    BY <1>3, <2>1, <2>2, Quiet DEF ThreadInv
<1>4. ThreadInv /\ ThreadInv' /\ (cuts = 0 => Rivals) /\ [Next]_vars => (cuts = 0 => Rivals)'
  BY <1>2, <1>3
<1>. QED
  BY <1>1, <1>4, ThreadInvariant, PTL DEF Spec

\* As long as no call to a live tracker has failed there is at most one leader, for any
\* number of trackers (relationship_notify_leader_changed).
THEOREM AtMostOneLeader == Spec => []OneLeader
<1>1. ThreadInv /\ (cuts = 0 => Rivals) => OneLeader
  <2>. SUFFICES ASSUME ThreadInv, Rivals, cuts = 0, NEW t \in Leaders, NEW s \in Leaders, t # s
                PROVE  FALSE
    BY Zenon DEF OneLeader
  <2>1. t \in Trackers /\ s \in Trackers /\ if_leader_self[t] /\ if_leader_self[s]
    BY Zenon DEF Leaders
  <2>2. StoppedBy(s, t)
    BY <2>1, Zenon DEF Rivals, Stands
  <2>3. at[s] \in Nat /\ Pos(s, s) \in Nat /\ Pos(s, t) \in Nat
    BY <2>1, Places, Lists DEF ThreadInv, TypeOK
  <2>. QED
    BY <2>1, <2>2, <2>3 DEF StoppedBy, Told, ThreadInv, Office
<1>. QED
  BY <1>1, ThreadInvariant, RivalsApart, PTL
=============================================================================
