-------------------------- MODULE ServerGroupProofs --------------------------
(***************************************************************************)
(* The groups of servers, for any number of groups, servers, slots,        *)
(* requests and faults.                                                    *)
(*                                                                         *)
(* The lock of the product makes the requests follow one another, so what  *)
(* one of them has read about the servers stays true until it writes       *)
(* (CallInv).  The proxy takes no lock.  It takes an action only when it   *)
(* has answered the one before (ProxyInv): when it confirms a promotion,   *)
(* all it knows of the group was read after the new master was recorded    *)
(* (PromoteInv), and between the listing of a group's servers and the last *)
(* read of one the master may only have changed by a request that still    *)
(* waits (ListInv).                                                        *)
(***************************************************************************)
EXTENDS ServerGroup, TLAPS

Active(c) == pc[c] # "idle"

\* A request that is going on holds the lock, alone.
LockInv == \A c \in Callers : Active(c) => lock = {c} /\ call[c] \in Calls

\* The promotion has recorded the new master.
Recorded(c) == pc[c] \in {"notify", "wait"} /\ call[c].op = "promote"
\* A request between its reads and its writes.
CallInv(c) ==
    /\ pc[c] = "create" => call[c].op \in {"add_group", "add_server"}
    /\ pc[c] \in {"range", "range_set"} => call[c].op = "range"
    /\ pc[c] \in {"promote", "demote"} => call[c].op = "promote"
    /\ pc[c] \in {"read", "write"} => call[c].op \in {"add_server", "promote"}
    /\ pc[c] = "write" /\ call[c].type = "master" => Master(server[call[c].group]) = {}
    /\ call[c].op = "promote" /\ pc[c] \in {"read", "write"} =>
          call[c].type = "master" /\ Master(server[call[c].group]) = {}
    /\ Recorded(c) => Master(server[call[c].group]) = {call[c].addr}
    /\ call[c].op = "promote" /\ pc[c] \in {"demote", "read", "write", "notify", "wait"} =>
          role[call[c].addr] = NoAddr
CallsInv == \A c \in Callers : Active(c) => CallInv(c)

\* Without a migrate task, which takes no lock, the check that no slot uses the group
\* stays true until the group is deleted.
UseInv ==
    posted = 0 =>
        /\ task = {} /\ pc[Migrator] = "idle"
        /\ \A s \in Slots : /\ slotInfo[s].group \in group \cup {NoGroup}
                            /\ slotInfo[s].from = NoGroup
        /\ \A c \in Callers :
              /\ pc[c] = "check" => \A s \in Slots \ todo[c] : slotInfo[s].group # call[c].group
              /\ pc[c] = "delete" => \A s \in Slots : slotInfo[s].group # call[c].group
              /\ pc[c] = "range_set" => call[c].group \in group

\* The migrate task knows which status comes next.
TaskInv ==
    /\ pc[Migrator] \in {"update", "notify", "wait"} => goal # "none"
    /\ pc[Migrator] = "migrate" => goal = "online"

\* The proxy reads slots and servers only for an action that it has not answered.
ProxyInv ==
    /\ Len(actions) <= MaxActions /\ last <= Len(actions)
    /\ \A n \in resp : 0 < n /\ n <= last
    /\ last \in resp \cup {0} => fill = {}
    /\ fill = {} => read = NoRead
    /\ read = NoRead => want = <<>> /\ found = <<>>
    /\ want = <<>> => children = {} /\ seen = {}
    /\ children # {} => Head(want) \in Groups
    /\ read # NoRead /\ found = <<>> => want # <<>> /\ Head(want) = read.info.group

\* The proxy has taken the action of the request, or one after it.
Noticed(c) == 0 < seq[c] /\ seq[c] <= last

\* All that the proxy has read of the group is the new master; a slot of the group that
\* is not yet routed to it is one that the proxy has still to fill.
Knows(c) ==
    /\ found # <<>> /\ read.info.group = call[c].group => found[1] = call[c].addr
    /\ want # <<>> /\ Head(want) = call[c].group => seen \subseteq {call[c].addr}
    /\ seq[c] = last \/ seq[c] \in resp =>
          \A s \in Slots : groups[s] = call[c].group =>
              route[s].addr = call[c].addr \/ (s \in fill /\ seq[c] \notin resp)
PromoteInv ==
    \A c \in Callers : pc[c] = "wait" =>
        /\ seq[c] = 0 => ~up
        /\ seq[c] <= Len(actions)
        /\ call[c].op = "promote" /\ seq[c] # 0 => actions[seq[c]].group = call[c].group
        /\ up /\ call[c].op = "promote" /\ Noticed(c) => Knows(c)

\* A request has recorded a master of the group, and the proxy may not have noticed.
Disturbs(c, g) ==
    /\ pc[c] \in {"notify", "wait"} /\ call[c].group = g
    /\ call[c].op \in {"promote", "add_server"}
    /\ ~(pc[c] = "wait" /\ Noticed(c))

\* The master is among the servers that the proxy has still to read or has seen.
ListInv ==
    up /\ faults = 0 /\ children # {} =>
        LET g == Head(want) IN
        Master(server[g]) = {} \/ (\E c \in Callers : Disturbs(c, g))
            \/ (Master(server[g]) \subseteq children \cup seen /\ seen \subseteq Master(server[g]))

GroupInv ==
    TypeOK /\ LockInv /\ CallsInv /\ OneMaster /\ UseInv /\ TaskInv /\ ProxyInv /\ PromoteInv /\ ListInv


\* TypeOK in four parts.
ZkTypes ==
    /\ group \in SUBSET Groups
    /\ server \in [Groups -> [Addrs -> Types \cup {"none"}]]
    /\ slotInfo \in [Slots -> SlotInfo]
    /\ actions \in Seq(Action) /\ resp \in SUBSET (1 .. MaxActions)
    /\ fence \in BOOLEAN
    /\ role \in [Addrs -> Addrs \cup {NoAddr}]
    /\ faults \in 0 .. MaxFaults
CallTypes ==
    /\ pc \in [Procs -> PCs] /\ call \in [Callers -> Calls \cup {NoCall}]
    /\ masters \in [Callers -> SUBSET Addrs] /\ todo \in [Callers -> SUBSET Slots]
    /\ seq \in [Procs -> 0 .. MaxActions]
    /\ calls \in 0 .. MaxCalls
TaskTypes ==
    /\ task \in SUBSET Task /\ cur \in SlotInfo
    /\ goal \in {"none", "pre_migrate", "migrate", "online", "rollback"}
    /\ posted \in 0 .. MaxTasks
ProxyTypes ==
    /\ up \in BOOLEAN /\ last \in 0 .. MaxActions
    /\ fill \in SUBSET Slots /\ read \in [slot : Slots, info : SlotInfo] \cup {NoRead}
    /\ want \in Seq(Groups \cup {NoGroup})
    /\ children \in SUBSET Addrs /\ seen \in SUBSET Addrs
    /\ found \in Seq(Addrs)
    /\ route \in [Slots -> [addr : Addrs \cup {NoAddr}, from : Addrs \cup {NoAddr}]]
    /\ groups \in [Slots -> Groups \cup {NoGroup}]
    /\ panicked \in {"no", "group", "master", "same"}
LockTypes == lock \in SUBSET Callers /\ AtMostOne(lock)

\* What is used of sequences.
LEMMA Lengths ==
    ASSUME NEW S
    PROVE  /\ \A s \in Seq(S) : Len(s) \in Nat /\ (s # <<>> <=> Len(s) # 0)
           /\ <<>> \in Seq(S) /\ Len(<<>>) = 0
OBVIOUS
LEMMA Appends ==
    ASSUME NEW S, NEW s \in Seq(S), NEW x \in S
    PROVE  /\ Append(s, x) \in Seq(S) /\ Len(Append(s, x)) = Len(s) + 1
           /\ Append(s, x)[Len(s) + 1] = x /\ \A i \in 1 .. Len(s) : Append(s, x)[i] = s[i]
OBVIOUS
LEMMA Concats ==
    ASSUME NEW S, NEW s \in Seq(S), NEW t \in Seq(S)
    PROVE  /\ s \o t \in Seq(S) /\ Len(s \o t) = Len(s) + Len(t)
           /\ \A i \in 1 .. Len(s) + Len(t) :
                 (s \o t)[i] = IF i <= Len(s) THEN s[i] ELSE t[i - Len(s)]
OBVIOUS
LEMMA Tails ==
    ASSUME NEW S, NEW s \in Seq(S), s # <<>>
    PROVE  Head(s) \in S /\ Tail(s) \in Seq(S)
OBVIOUS

LEMMA TypeParts == TypeOK <=> ZkTypes /\ CallTypes /\ TaskTypes /\ ProxyTypes /\ LockTypes
BY Zenon DEF TypeOK, ZkTypes, CallTypes, TaskTypes, ProxyTypes, LockTypes

LEMMA Constants ==
    /\ Migrator \notin Callers /\ Callers \subseteq Procs /\ Migrator \in Procs
    /\ NoGroup \notin Groups /\ NoAddr \notin Addrs
    /\ MaxCalls \in Nat /\ MaxTasks \in Nat /\ MaxActions \in Nat /\ MaxFaults \in Nat
    /\ SlotNum \in Nat \ {0}
BY GroupsAssumption, Zenon DEF Procs

\* A call has all its fields, NoCall has none of them.
LEMMA CallFields ==
    /\ NoCall \notin Calls
    /\ \A k \in Calls : /\ k.group \in Groups /\ k.addr \in Addrs /\ k.type \in Types
                        /\ k.slots \subseteq Slots
                        /\ k.op \in {"add_group", "add_server", "promote", "remove_server",
                                    "remove_group", "range"}
BY Zenon DEF Calls, NoCall


LEMMA Returned ==
    ASSUME CallTypes, NEW c \in Callers, Return(c)
    PROVE  CallTypes'
BY Constants DEF CallTypes, Return, Goto, PCs

LEMMA Continued ==
    ASSUME CallTypes, NEW c \in Callers, NEW l \in PCs, Continue(c, l)
    PROVE  CallTypes'
BY Constants, Zenon DEF CallTypes, Continue, Goto

LEMMA ServerSet ==
    ASSUME server \in [Groups -> [Addrs -> Types \cup {"none"}]],
           NEW g \in Groups, NEW a \in Addrs, NEW x \in Types \cup {"none"}
    PROVE  /\ [server EXCEPT ![g][a] = x] \in [Groups -> [Addrs -> Types \cup {"none"}]]
           /\ \A h \in Groups : h # g => [server EXCEPT ![g][a] = x][h] = server[h]
           /\ \A b \in Addrs : [server EXCEPT ![g][a] = x][g][b] = IF b = a THEN x ELSE server[g][b]
BY Zenon


LEMMA RequestTypes ==
    ASSUME TypeOK, LockInv, NEW c \in Callers, RequestStep(c)
    PROVE  ZkTypes' /\ CallTypes'
<1>0. ZkTypes /\ CallTypes /\ c \in Procs
  BY TypeParts, Constants, Zenon
<1>c. pc[c] # "idle" => call[c] \in Calls
  BY Zenon DEF LockInv, Active

<1>1. CASE Create(c)
  <2>1. ZkTypes'
    BY <1>0, <1>c, <1>1, CallFields, Constants DEF Create, Return, Continue, Goto, ZkTypes
  <2>2. CallTypes'
    <3>1. Return(c) \/ \E l \in PCs : Continue(c, l)
      BY <1>1, Zenon DEF Create, PCs
    <3> QED BY <1>0, <3>1, Returned, Continued, Zenon
  <2> QED BY <2>1, <2>2, Zenon

<1>2. CASE Announce(c)
  <2>1. ZkTypes'
    <3>1. call[c] \in Calls
      BY <1>c, <1>2, Zenon DEF Announce
    <3>2. [group |-> IF call[c].op = "remove_group" THEN NoGroup ELSE call[c].group, slots |-> {}] \in Action
      BY <3>1, CallFields, Zenon DEF Action
    <3>3. actions' \in Seq(Action)
      BY <1>0, <1>2, <3>2, Appends, Zenon DEF Announce, NewAction, ZkTypes
    <3> QED BY <1>0, <1>2, <3>3, Zenon DEF Announce, NewAction, ZkTypes
  <2>2. CallTypes'
    <3>1. Return(c) \/ \E l \in PCs : Continue(c, l)
      BY <1>2, Zenon DEF Announce, PCs
    <3> QED BY <1>0, <3>1, Returned, Continued, Zenon
  <2> QED BY <2>1, <2>2, Zenon

<1>3. CASE ReadServers(c)
  <2>1. ZkTypes'
    BY <1>0, <1>c, <1>3, CallFields, Constants, Zenon DEF ReadServers, Return, Goto, ZkTypes
  <2>2. CallTypes'
    <3>1. CASE Return(c)
      BY <1>0, <3>1, Returned, Zenon
    <3>2. CASE ~Return(c)
      <4>1. call[c] \in Calls
        BY <1>c, <1>3, Zenon DEF ReadServers
      <4>2. PICK ty \in Types : call' = [call EXCEPT ![c].type = ty]
        BY <1>3, <3>2, <4>1, CallFields, Zenon DEF ReadServers, Types
      <4>3. call' \in [Callers -> Calls \cup {NoCall}]
        BY <1>0, <4>1, <4>2, Zenon DEF CallTypes, Calls
      <4>4. Master(server[call[c].group]) \subseteq Addrs
        BY Zenon DEF Master
      <4> QED BY <1>0, <1>3, <3>2, <4>3, <4>4, Zenon DEF ReadServers, Goto, CallTypes, PCs
    <3> QED BY <3>1, <3>2, Zenon
  <2> QED BY <2>1, <2>2, Zenon

<1>4. CASE WriteServer(c)
  <2>1. ZkTypes'
    BY <1>0, <1>c, <1>4, CallFields, Constants, Zenon DEF WriteServer, Return, Continue, Goto, ZkTypes
  <2>2. CallTypes'
    <3>1. Return(c) \/ \E l \in PCs : Continue(c, l)
      BY <1>4, Zenon DEF WriteServer, PCs
    <3> QED BY <1>0, <3>1, Returned, Continued, Zenon
  <2> QED BY <2>1, <2>2, Zenon

<1>5. CASE SlaveOf(c)
  <2>1. ZkTypes'
    <3>1. call[c].addr \in Addrs
      BY <1>c, <1>5, CallFields, Zenon DEF SlaveOf
    <3>2. role' \in [Addrs -> Addrs \cup {NoAddr}]
      BY <1>0, <1>5, <3>1, Zenon DEF SlaveOf, ZkTypes, CallTypes
    <3> QED BY <1>0, <1>5, <3>2, Constants DEF SlaveOf, Fault, ZkTypes
  <2>2. CallTypes'
    <3>1. Return(c) \/ \E l \in PCs : Continue(c, l)
      BY <1>5, Zenon DEF SlaveOf, PCs
    <3> QED BY <1>0, <3>1, Returned, Continued, Zenon
  <2> QED BY <2>1, <2>2, Zenon

<1>6. CASE Promote(c)
  <2>1. ZkTypes'
    BY <1>0, <1>c, <1>6, CallFields, Constants DEF Promote, Return, Continue, Goto, Fault, ZkTypes
  <2>2. CallTypes'
    <3>1. Return(c) \/ \E l \in PCs : Continue(c, l)
      BY <1>6, Zenon DEF Promote, PCs
    <3> QED BY <1>0, <3>1, Returned, Continued, Zenon
  <2> QED BY <2>1, <2>2, Zenon

<1>7. CASE Demote(c)
  <2>1. ZkTypes'
    <3>1. call[c].group \in Groups
      BY <1>c, <1>7, CallFields, Zenon DEF Demote
    <3>2. server' \in [Groups -> [Addrs -> Types \cup {"none"}]]
      <4>1. server' = [server EXCEPT ![call[c].group] =
                 [a \in Addrs |-> IF @[a] = "master" THEN "offline" ELSE @[a]]]
        BY <1>7, Zenon DEF Demote
      <4>2. [a \in Addrs |-> IF server[call[c].group][a] = "master" THEN "offline" ELSE server[call[c].group][a]]
               \in [Addrs -> Types \cup {"none"}]
        BY <1>0, <3>1, Zenon DEF ZkTypes, Types
      <4> QED BY <1>0, <4>1, <4>2, Zenon DEF ZkTypes
    <3> QED BY <1>0, <1>7, <3>2, Zenon DEF Demote, ZkTypes
  <2>2. CallTypes'
    <3>1. call[c] \in Calls
      BY <1>c, <1>7, Zenon DEF Demote
    <3>2. call' \in [Callers -> Calls \cup {NoCall}]
      BY <1>0, <1>7, <3>1, Zenon DEF Demote, CallTypes, Calls, Types
    <3> QED BY <1>0, <1>7, <3>2, Zenon DEF Demote, Goto, CallTypes, PCs
  <2> QED BY <2>1, <2>2, Zenon

<1>8. CASE RemoveServer(c)
  <2>1. ZkTypes'
    <3>1. call[c].group \in Groups /\ call[c].addr \in Addrs
      BY <1>c, <1>8, CallFields, Zenon DEF RemoveServer
    <3>2. server' \in [Groups -> [Addrs -> Types \cup {"none"}]]
      <4>1. [server EXCEPT ![call[c].group][call[c].addr] = "none"] \in [Groups -> [Addrs -> Types \cup {"none"}]]
        BY <1>0, <3>1, ServerSet, Zenon DEF ZkTypes
      <4> QED BY <1>0, <1>8, <4>1, Zenon DEF RemoveServer, ZkTypes
    <3> QED BY <1>0, <1>8, <3>2, Zenon DEF RemoveServer, ZkTypes
  <2>2. CallTypes'
    <3>1. Return(c) \/ \E l \in PCs : Continue(c, l)
      BY <1>8, Zenon DEF RemoveServer, PCs
    <3> QED BY <1>0, <3>1, Returned, Continued, Zenon
  <2> QED BY <2>1, <2>2, Zenon

<1>9. CASE CheckSlot(c)
  <2>1. ZkTypes'
    BY <1>0, <1>c, <1>9, CallFields, Constants, Zenon DEF CheckSlot, Return, Goto, ZkTypes
  <2>2. CallTypes'
    BY <1>0, <1>9, Returned, Zenon DEF CheckSlot, Goto, CallTypes, PCs
  <2> QED BY <2>1, <2>2, Zenon

<1>10. CASE DeleteRecursive(c)
  <2>1. ZkTypes'
    <3>1. call[c].group \in Groups
      BY <1>c, <1>10, CallFields, Zenon DEF DeleteRecursive
    <3>2. server' \in [Groups -> [Addrs -> Types \cup {"none"}]]
      <4>1. ASSUME NEW a \in Addrs
            PROVE  [server EXCEPT ![call[c].group][a] = "none"] \in [Groups -> [Addrs -> Types \cup {"none"}]]
        BY <1>0, <3>1, ServerSet, Zenon DEF ZkTypes
      <4>2. server' = server \/ \E a \in Addrs : server' = [server EXCEPT ![call[c].group][a] = "none"]
        BY <1>10, Zenon DEF DeleteRecursive
      <4> QED BY <1>0, <4>1, <4>2, Zenon DEF ZkTypes
    <3> QED BY <1>0, <1>10, <3>2, Zenon DEF DeleteRecursive, ZkTypes
  <2>2. CallTypes'
    <3>1. Return(c) \/ \E l \in PCs : Continue(c, l)
      BY <1>10, Zenon DEF DeleteRecursive, PCs
    <3> QED BY <1>0, <3>1, Returned, Continued, Zenon
  <2> QED BY <2>1, <2>2, Zenon

<1>11. CASE SetSlotRange(c)
  <2>1. ZkTypes'
    BY <1>0, <1>c, <1>11, CallFields, Constants, Zenon DEF SetSlotRange, Return, Continue, Goto, ZkTypes
  <2>2. CallTypes'
    <3>1. Return(c) \/ \E l \in PCs : Continue(c, l)
      BY <1>11, Zenon DEF SetSlotRange, PCs
    <3> QED BY <1>0, <3>1, Returned, Continued, Zenon
  <2> QED BY <2>1, <2>2, Zenon

<1>12. CASE SetSlot(c)
  <2>1. ZkTypes'
    <3>1. call[c].group \in Groups
      BY <1>c, <1>12, CallFields, Zenon DEF SetSlot
    <3>2. slotInfo' \in [Slots -> SlotInfo]
      <4> DEFINE m == Min(todo[c])
      <4>1. slotInfo' = slotInfo \/ slotInfo' = [slotInfo EXCEPT ![m].group = call[c].group, ![m].status = "online"]
        BY <1>12, Zenon DEF SetSlot
      <4> HIDE DEF m
      <4>2. slotInfo \in [Slots -> SlotInfo]
        BY <1>0, Zenon DEF ZkTypes
      <4>3. ASSUME m \in Slots PROVE [slotInfo[m] EXCEPT !.group = call[c].group, !.status = "online"] \in SlotInfo
        BY <3>1, <4>2, <4>3, Zenon DEF SlotInfo, Status
      <4> QED BY <4>1, <4>2, <4>3, Zenon
    <3> QED BY <1>0, <1>12, <3>2, Zenon DEF SetSlot, ZkTypes
  <2>2. CallTypes'
    BY <1>0, <1>12, Returned, Zenon DEF SetSlot, Goto, CallTypes, PCs
  <2> QED BY <2>1, <2>2, Zenon

<1>13. ASSUME NEW k \in Requests, Request(c, k) PROVE ZkTypes' /\ CallTypes'
  <2>1. ZkTypes'
    BY <1>0, <1>13, Constants, Zenon DEF Request, ZkTypes
  <2>2. CallTypes'
    BY <1>0, <1>13, CallFields, Constants DEF Request, Goto, FirstStep, CallTypes, PCs, Requests
  <2> QED BY <2>1, <2>2, Zenon
<1> QED BY <1>1, <1>2, <1>3, <1>4, <1>5, <1>6, <1>7, <1>8, <1>9, <1>10, <1>11, <1>12, <1>13, Zenon DEF RequestStep

\* A step of a goroutine leaves the others where they are.
Rest(c) ==
    /\ \A d \in Procs \ {c} : pc'[d] = pc[d] /\ seq'[d] = seq[d]
    /\ \A d \in Callers \ {c} : call'[d] = call[d] /\ todo'[d] = todo[d]
\* The request has returned, or it goes on without a confirmation.
Moved(c) ==
    /\ Rest(c)
    /\ \/ pc'[c] = "idle" /\ lock' = {}
       \/ pc'[c] \notin {"idle", "wait"} /\ lock' = {c} /\ call'[c] \in Calls

LEMMA ReturnMoves ==
    ASSUME CallTypes, NEW c \in Callers, lock = {c}, Return(c)
    PROVE  Rest(c) /\ Moved(c) /\ pc'[c] = "idle" /\ lock' = {} /\ seq'[c] = 0
<1>1. Rest(c)
  BY Constants, Zenon DEF Return, Goto, Rest, CallTypes
<1>2. pc'[c] = "idle" /\ lock' = {} /\ seq'[c] = 0
  BY Constants, Zenon DEF Return, Goto, CallTypes
<1> QED BY <1>1, <1>2, Zenon DEF Moved

LEMMA ContinueMoves ==
    ASSUME CallTypes, NEW c \in Callers, lock = {c}, call[c] \in Calls,
           NEW l \in PCs \ {"idle", "wait"}, Continue(c, l)
    PROVE  /\ Rest(c) /\ Moved(c) /\ pc'[c] = l /\ lock' = {c} /\ call' = call
           /\ todo' = todo /\ masters' = masters
<1>1. Rest(c)
  BY Constants, Zenon DEF Continue, Goto, Rest, CallTypes
<1>2. pc'[c] = l /\ lock' = {c} /\ call' = call /\ todo' = todo /\ masters' = masters
  BY Constants, Zenon DEF Continue, Goto, CallTypes
<1> QED BY <1>1, <1>2, Zenon DEF Moved

\* What each step of a request does to its own part of the invariant.
LEMMA RequestMoves ==
    ASSUME TypeOK, LockInv, CallsInv, OneMaster, NEW c \in Callers, RequestStep(c)
    PROVE  Moved(c) /\ (pc'[c] # "idle" => CallInv(c)')
<1> DEFINE g == call[c].group
           a == call[c].addr
<1>0. ZkTypes /\ CallTypes /\ c \in Procs
  BY TypeParts, Constants, Zenon
<1>c. pc[c] # "idle" => lock = {c} /\ call[c] \in Calls /\ CallInv(c) /\ g \in Groups /\ a \in Addrs
  BY CallFields, Zenon DEF LockInv, CallsInv, Active
<1>r. ASSUME pc[c] # "idle", Return(c) PROVE Moved(c) /\ (pc'[c] # "idle" => CallInv(c)')
  BY <1>0, <1>c, <1>r, ReturnMoves, Zenon
\* Going on to a step about which CallInv says nothing.
<1>k. ASSUME pc[c] # "idle", NEW l \in PCs \ {"idle", "wait"}, Continue(c, l),
             l \in {"announce", "slaveof", "delete", "check"}
      PROVE  Moved(c) /\ (pc'[c] # "idle" => CallInv(c)')
  BY <1>0, <1>c, <1>k, ContinueMoves, Zenon DEF CallInv, Recorded
<1>1. CASE Create(c)
  <2>1. Return(c) \/ Continue(c, "announce") \/ (call[c].op # "add_group" /\ Continue(c, "read"))
    BY <1>1, Zenon DEF Create
  <2>2. pc[c] # "idle" /\ call[c].op \in {"add_group", "add_server"}
    BY <1>1, <1>c, Zenon DEF Create, CallInv
  <2>3. CASE call[c].op # "add_group" /\ Continue(c, "read")
    BY <1>0, <1>c, <2>2, <2>3, ContinueMoves DEF CallInv, Recorded, PCs
  <2> QED BY <1>r, <1>k, <2>1, <2>2, <2>3, Zenon DEF PCs
<1>2. CASE Announce(c)
  <2>1. pc[c] # "idle" /\ (Return(c) \/ (call[c].op = "add_server" /\ Continue(c, "read")))
    BY <1>2, Zenon DEF Announce
  <2>2. CASE call[c].op = "add_server" /\ Continue(c, "read")
    BY <1>0, <1>c, <2>1, <2>2, ContinueMoves DEF CallInv, Recorded, PCs
  <2> QED BY <1>r, <2>1, <2>2, Zenon
<1>3. CASE ReadServers(c)
  <2>1. pc[c] = "read"
    BY <1>3, Zenon DEF ReadServers
  <2>2. CASE ~Return(c)
    <3>1. /\ ~(call[c].type = "master" /\ Master(server[g]) # {})
          /\ call' = [call EXCEPT ![c].type = IF \A x \in Addrs : server[g][x] = "none" THEN "master" ELSE @]
          /\ pc' = [pc EXCEPT ![c] = "write"]
          /\ UNCHANGED <<lock, todo, seq, server, role>>
      BY <1>3, <2>2, Zenon DEF ReadServers, Goto
    <3>2. /\ call'[c].type = IF \A x \in Addrs : server[g][x] = "none" THEN "master" ELSE call[c].type
          /\ call'[c] \in Calls /\ call'[c].group = g /\ call'[c].addr = a /\ call'[c].op = call[c].op
      BY <1>0, <1>c, <2>1, <3>1, Zenon DEF CallTypes, Calls, Types
    <3>3. Rest(c) /\ pc'[c] = "write" /\ lock' = {c}
      BY <1>0, <1>c, <2>1, <3>1, Zenon DEF Rest, CallTypes
    <3>4. call'[c].type = "master" => Master(server[g]) = {}
      BY <3>1, <3>2, Zenon DEF Master
    <3>5. call[c].op \in {"add_server", "promote"} /\ (call[c].op = "promote" =>
              call[c].type = "master" /\ Master(server[g]) = {} /\ role[a] = NoAddr)
      BY <1>c, <2>1, Zenon DEF CallInv
    <3>6. call[c].op = "promote" => call'[c].type = "master"
      BY <3>2, <3>5, Zenon
    <3>7. Moved(c)
      BY <3>2, <3>3, Zenon DEF Moved
    <3>8. CallInv(c)'
      BY <3>1, <3>2, <3>3, <3>4, <3>5, <3>6, Zenon DEF CallInv, Recorded
    <3> QED BY <3>7, <3>8, Zenon
  <2> QED BY <1>r, <2>1, <2>2, Zenon
<1>4. CASE WriteServer(c)
  <2>1. /\ pc[c] = "write" /\ server' = [server EXCEPT ![g][a] = call[c].type] /\ role' = role
        /\ \/ Return(c) \/ Continue(c, "slaveof")
           \/ call[c].type = "master" /\ Continue(c, "notify")
    BY <1>4, Zenon DEF WriteServer
  <2>2. CASE call[c].type = "master" /\ Continue(c, "notify")
    <3>1. Moved(c) /\ pc'[c] = "notify" /\ call' = call
      BY <1>0, <1>c, <2>1, <2>2, ContinueMoves, Zenon DEF PCs
    <3>2. Master(server[g]) = {} /\ call[c].op \in {"add_server", "promote"}
          /\ (call[c].op = "promote" => role[a] = NoAddr)
      BY <1>c, <2>1, <2>2, Zenon DEF CallInv
    <3>3. \A b \in Addrs : server'[g][b] = IF b = a THEN "master" ELSE server[g][b]
      BY <1>0, <1>c, <2>1, <2>2, Zenon DEF ZkTypes
    <3>4. Master(server'[g]) = {a}
      BY <1>c, <2>1, <3>2, <3>3, Zenon DEF Master
    <3>5. CallInv(c)'
      BY <2>1, <3>1, <3>2, <3>4, Zenon DEF CallInv, Recorded
    <3> QED BY <3>1, <3>5, Zenon
  <2> QED BY <1>r, <1>k, <2>1, <2>2, Zenon DEF PCs
<1>5. CASE SlaveOf(c)
  BY <1>5, <1>r, Zenon DEF SlaveOf
<1>6. CASE Promote(c)
  <2>1. pc[c] = "promote" /\ (Return(c) \/ (role' = [role EXCEPT ![a] = NoAddr] /\ Continue(c, "demote")))
    BY <1>6, Zenon DEF Promote
  <2>2. CASE role' = [role EXCEPT ![a] = NoAddr] /\ Continue(c, "demote")
    <3>1. Moved(c) /\ pc'[c] = "demote" /\ call' = call
      BY <1>0, <1>c, <2>1, <2>2, ContinueMoves, Zenon DEF PCs
    <3>2. role'[a] = NoAddr /\ call[c].op = "promote"
      BY <1>0, <1>c, <2>1, <2>2, Zenon DEF ZkTypes, CallInv
    <3> QED BY <3>1, <3>2, Zenon DEF CallInv, Recorded
  <2> QED BY <1>r, <2>1, <2>2, Zenon
<1>7. CASE Demote(c)
  <2>1. /\ pc[c] = "demote" /\ role' = role
        /\ server' = [server EXCEPT ![g] = [x \in Addrs |-> IF @[x] = "master" THEN "offline" ELSE @[x]]]
        /\ call' = [call EXCEPT ![c].type = "master"] /\ pc' = [pc EXCEPT ![c] = "read"]
        /\ UNCHANGED <<lock, todo, seq>>
    BY <1>7, Zenon DEF Demote, Goto
  <2>2. /\ call'[c].type = "master" /\ call'[c] \in Calls
        /\ call'[c].group = g /\ call'[c].addr = a /\ call'[c].op = call[c].op
    BY <1>0, <1>c, <2>1, Zenon DEF CallTypes, Calls, Types
  <2>3. Rest(c) /\ pc'[c] = "read" /\ lock' = {c}
    BY <1>0, <1>c, <2>1, Zenon DEF Rest, CallTypes
  <2>4. Master(server'[g]) = {}
    <3>1. server'[g] = [x \in Addrs |-> IF server[g][x] = "master" THEN "offline" ELSE server[g][x]]
      BY <1>0, <1>c, <2>1, Zenon DEF ZkTypes
    <3> QED BY <3>1, Zenon DEF Master
  <2>5. call[c].op = "promote" /\ role[a] = NoAddr
    BY <1>c, <2>1, Zenon DEF CallInv
  <2>6. CallInv(c)'
    BY <2>1, <2>2, <2>3, <2>4, <2>5, Zenon DEF CallInv, Recorded
  <2> QED BY <2>2, <2>3, <2>6, Zenon DEF Moved
<1>8. CASE RemoveServer(c)
  BY <1>8, <1>r, <1>k, Zenon DEF RemoveServer, PCs
<1>9. CASE CheckSlot(c)
  <2>1. pc[c] = "check" /\ (Return(c) \/ \E l \in {"delete", "check"} :
            /\ pc' = [pc EXCEPT ![c] = l] /\ UNCHANGED <<lock, call, seq>>
            /\ todo' = [todo EXCEPT ![c] = @ \ {Min(todo[c])}])
    BY <1>9, Zenon DEF CheckSlot, Goto
  <2>2. ASSUME NEW l \in {"delete", "check"}, pc' = [pc EXCEPT ![c] = l], UNCHANGED <<lock, call, seq>>,
               todo' = [todo EXCEPT ![c] = @ \ {Min(todo[c])}]
        PROVE  Moved(c) /\ CallInv(c)'
    <3>1. pc'[c] = l /\ lock' = {c} /\ call'[c] \in Calls
      BY <1>0, <1>c, <2>1, <2>2, Zenon DEF CallTypes
    <3>2. Rest(c)
      BY <1>0, <2>2, Zenon DEF Rest, CallTypes
    <3> QED BY <3>1, <3>2, Zenon DEF CallInv, Moved, Recorded
  <2> QED BY <1>r, <2>1, <2>2, Zenon
<1>10. CASE DeleteRecursive(c)
  BY <1>10, <1>k, Zenon DEF DeleteRecursive, PCs
<1>11. CASE SetSlotRange(c)
  <2>1. pc[c] = "range" /\ (Return(c) \/ Continue(c, "range_set"))
    BY <1>11, Zenon DEF SetSlotRange
  <2>2. CASE Continue(c, "range_set")
    BY <1>0, <1>c, <2>1, <2>2, ContinueMoves DEF CallInv, Recorded, PCs
  <2> QED BY <1>r, <2>1, <2>2, Zenon
<1>12. CASE SetSlot(c)
  <2>1. pc[c] = "range_set" /\ (Return(c) \/ \E l \in {"notify", "range_set"} :
            /\ pc' = [pc EXCEPT ![c] = l] /\ UNCHANGED <<lock, call, seq>>
            /\ todo' = [todo EXCEPT ![c] = @ \ {Min(todo[c])}])
    BY <1>12, Zenon DEF SetSlot, Goto
  <2>2. ASSUME NEW l \in {"notify", "range_set"}, pc' = [pc EXCEPT ![c] = l], UNCHANGED <<lock, call, seq>>,
               todo' = [todo EXCEPT ![c] = @ \ {Min(todo[c])}]
        PROVE  Moved(c) /\ CallInv(c)'
    <3>1. pc'[c] = l /\ lock' = {c} /\ call'[c] \in Calls /\ call'[c].op = "range"
      BY <1>0, <1>c, <2>1, <2>2, Zenon DEF CallTypes, CallInv
    <3>2. Rest(c)
      BY <1>0, <2>2, Zenon DEF Rest, CallTypes
    <3> QED BY <3>1, <3>2, Zenon DEF CallInv, Moved, Recorded
  <2> QED BY <1>r, <2>1, <2>2, Zenon
<1>13. ASSUME NEW k \in Requests, Request(c, k) PROVE Moved(c) /\ CallInv(c)'
  <2>1. /\ k \in Calls /\ lock' = {c} /\ call'[c] = k /\ pc'[c] = FirstStep(k.op)
        /\ UNCHANGED seq
    BY <1>0, <1>13, Zenon DEF Request, Goto, CallTypes, Requests
  <2>2. Rest(c)
    BY <1>0, <1>13, Zenon DEF Request, Goto, Rest, CallTypes
  <2>3. /\ pc'[c] \in {"create", "promote", "remove_server", "check", "range"}
        /\ pc'[c] = "create" => k.op \in {"add_group", "add_server"}
        /\ pc'[c] \in {"promote", "range"} => k.op = pc'[c]
    BY <2>1, CallFields, Zenon DEF FirstStep
  <2>4. CallInv(c)'
    BY <2>1, <2>3, Zenon DEF CallInv, Recorded
  <2> QED BY <2>1, <2>2, <2>3, <2>4, Zenon DEF Moved
<1> QED BY <1>1, <1>2, <1>3, <1>4, <1>5, <1>6, <1>7, <1>8, <1>9, <1>10, <1>11, <1>12, <1>13, Zenon DEF RequestStep

Confirmation(c) == Notify(c) \/ Wait(c) \/ WaitTimeout(c)

\* The lock lets one request run at a time.
LEMMA Alone ==
    ASSUME TypeOK, LockInv, NEW c \in Callers, RequestStep(c) \/ Confirmation(c)
    PROVE  \A d \in Callers \ {c} : pc[d] = "idle"
<1>1. CASE pc[c] # "idle"
  BY <1>1, Zenon DEF LockInv, Active
<1>2. CASE lock = {}
  BY <1>2, Zenon DEF LockInv, Active
<1>3. pc[c] # "idle" \/ lock = {}
  BY Zenon DEF RequestStep, Create, Announce, ReadServers, WriteServer, SlaveOf, Promote, Demote,
         RemoveServer, CheckSlot, DeleteRecursive, SetSlotRange, SetSlot, Request,
         Confirmation, Notify, Wait, WaitTimeout
<1> QED BY <1>1, <1>2, <1>3, Zenon

\* What a step of a request leaves alone.
LEMMA RequestFrame ==
    ASSUME NEW c \in Callers, RequestStep(c)
    PROVE  /\ UNCHANGED <<taskVars, proxyVars, resp, fence>>
           /\ pc[c] \notin {"notify", "wait"}
<1>1. UNCHANGED <<taskVars, proxyVars, resp, fence>>
  BY Zenon DEF RequestStep, Create, Announce, ReadServers, WriteServer, SlaveOf, Promote, Demote,
         RemoveServer, CheckSlot, DeleteRecursive, SetSlotRange, SetSlot, Request, Elsewhere, NewAction
<1>2. pc[c] \notin {"notify", "wait"}
  BY Zenon DEF RequestStep, Create, Announce, ReadServers, WriteServer, SlaveOf, Promote, Demote,
         RemoveServer, CheckSlot, DeleteRecursive, SetSlotRange, SetSlot, Request
<1> QED BY <1>1, <1>2, Zenon

\* NewAction with a confirmation, by a request: the action is created, or the request
\* returns.
LEMMA ConfirmMoves ==
    ASSUME TypeOK, LockInv, NEW c \in Callers, Confirmation(c)
    PROVE  /\ Rest(c) /\ call[c] \in Calls /\ lock = {c} /\ pc[c] \in {"notify", "wait"}
           /\ UNCHANGED <<group, server, slotInfo, role, faults, taskVars>>
           /\ \/ /\ pc[c] = "notify" /\ pc'[c] = "wait" /\ call' = call /\ lock' = lock
                 /\ Len(actions) < MaxActions /\ actions' = Append(actions, About(c))
                 /\ seq'[c] = IF up THEN Len(actions) + 1 ELSE 0
                 /\ UNCHANGED <<proxyVars, resp, fence, masters, todo, calls>>
              \/ /\ Return(c) /\ UNCHANGED <<actions, resp>>
                 /\ \/ pc[c] = "notify" /\ ~up /\ UNCHANGED <<proxyVars, fence>>
                    \/ pc[c] = "wait" /\ Confirmed(c) /\ UNCHANGED <<proxyVars, fence>>
                    \/ ~up /\ UNCHANGED <<proxyVars, fence>>
                    \/ Stop /\ fence' = FALSE /\ UNCHANGED panicked
<1>0. CallTypes /\ c \in Procs /\ c # Migrator
  BY TypeParts, Constants, Zenon
<1>1. pc[c] \in {"notify", "wait"}
  BY Zenon DEF Confirmation, Notify, Wait, WaitTimeout
<1>2. call[c] \in Calls /\ lock = {c}
  BY <1>1, Zenon DEF LockInv, Active
<1>3. UNCHANGED <<group, server, slotInfo, role, faults>>
  BY Zenon DEF Confirmation, Notify, Wait, WaitTimeout, NewAction
<1>4. CASE Notify(c)
  <2>1. CASE fence /\ ~up
    <3>1. Return(c) /\ UNCHANGED <<taskVars, actions, resp, fence, proxyVars>> /\ pc[c] = "notify"
      BY <1>0, <1>4, <2>1, Zenon DEF Notify, Failed
    <3>2. Rest(c)
      BY <1>0, <1>2, <3>1, ReturnMoves, Zenon
    <3> QED BY <1>1, <1>2, <1>3, <2>1, <3>1, <3>2, Zenon
  <2>2. CASE ~(fence /\ ~up)
    <3>1. /\ pc[c] = "notify" /\ Len(actions) < MaxActions /\ actions' = Append(actions, About(c))
          /\ seq' = [seq EXCEPT ![c] = IF up THEN Len(actions) + 1 ELSE 0]
          /\ pc' = [pc EXCEPT ![c] = "wait"]
          /\ UNCHANGED <<lock, call, masters, todo, calls, taskVars, proxyVars, resp, fence>>
      BY <1>4, <2>2, Zenon DEF Notify, NewAction, Goto
    <3>2. Rest(c) /\ pc'[c] = "wait" /\ seq'[c] = IF up THEN Len(actions) + 1 ELSE 0
      BY <1>0, <3>1, Zenon DEF Rest, CallTypes
    <3> QED BY <1>1, <1>2, <1>3, <3>1, <3>2, Zenon
  <2> QED BY <2>1, <2>2, Zenon
<1>5. CASE Wait(c)
  <2>1. Return(c) /\ UNCHANGED <<taskVars, actions, resp, fence, proxyVars>> /\ pc[c] = "wait" /\ Confirmed(c)
    BY <1>0, <1>5, Zenon DEF Wait, Succeeded
  <2>2. Rest(c)
    BY <1>0, <1>2, <2>1, ReturnMoves, Zenon
  <2> QED BY <1>1, <1>2, <1>3, <2>1, <2>2, Zenon
<1>6. CASE WaitTimeout(c)
  <2>1. /\ Return(c) /\ UNCHANGED <<taskVars, actions, resp>>
        /\ IF up THEN Stop /\ fence' = FALSE /\ UNCHANGED panicked ELSE UNCHANGED <<fence, proxyVars>>
    BY <1>0, <1>6, Zenon DEF WaitTimeout, Failed
  <2>2. Rest(c)
    BY <1>0, <1>2, <2>1, ReturnMoves, Zenon
  <2> QED BY <1>1, <1>2, <1>3, <2>1, <2>2, Zenon
<1> QED BY <1>4, <1>5, <1>6, Zenon DEF Confirmation

\* What the migrate task may do to the requests, which is nothing, and to itself.
TaskFrame ==
    /\ UNCHANGED <<lock, call, masters, todo, calls>>
    /\ \A d \in Callers : pc'[d] = pc[d] /\ seq'[d] = seq[d]
    /\ CallTypes' /\ TaskTypes' /\ TaskInv'

LEMMA FailFrame ==
    ASSUME TypeOK, Fail
    PROVE  TaskFrame /\ posted' = posted
<1>0. ZkTypes /\ CallTypes /\ TaskTypes
  BY TypeParts, Zenon
<1>1. PICK t \in task : IF goal # "rollback" /\ slotInfo[t.slot].status = "pre_migrate"
          THEN Goto(Migrator, "update") /\ goal' = "rollback" /\ cur' = slotInfo[t.slot]
          ELSE Goto(Migrator, "idle") /\ goal' = "none" /\ UNCHANGED cur
  BY Zenon DEF Fail
<1>2. t.slot \in Slots
  BY <1>0, Zenon DEF TaskTypes, Task
<1>3. slotInfo[t.slot] \in SlotInfo
  BY <1>0, <1>2, Zenon DEF ZkTypes
<1>4. /\ seq' = [seq EXCEPT ![Migrator] = 0] /\ UNCHANGED <<lock, call, masters, todo, calls, task, posted>>
  BY Zenon DEF Fail
<1>5. \/ pc' = [pc EXCEPT ![Migrator] = "update"] /\ goal' = "rollback" /\ cur' \in SlotInfo
      \/ pc' = [pc EXCEPT ![Migrator] = "idle"] /\ goal' = "none" /\ cur' \in SlotInfo
  BY <1>0, <1>1, <1>3, Zenon DEF Goto, TaskTypes
<1>6. CallTypes'
  BY <1>0, <1>4, <1>5, Constants DEF CallTypes, PCs
<1>7. TaskTypes' /\ TaskInv'
  BY <1>0, <1>4, <1>5, Constants, Zenon DEF TaskTypes, TaskInv, CallTypes
<1>8. \A d \in Callers : pc'[d] = pc[d] /\ seq'[d] = seq[d]
  BY <1>0, <1>4, <1>5, Constants, Zenon DEF CallTypes
<1> QED BY <1>4, <1>6, <1>7, <1>8, Zenon DEF TaskFrame

LEMMA UpdatedFrame ==
    ASSUME TypeOK, Updated, goal # "none"
    PROVE  TaskFrame /\ posted' = posted
<1>0. CallTypes /\ TaskTypes
  BY TypeParts, Zenon
<1>1. \/ pc' = [pc EXCEPT ![Migrator] = "update"] /\ goal' = "migrate"
      \/ pc' = [pc EXCEPT ![Migrator] = "migrate"] /\ goal' = "online"
      \/ pc' = [pc EXCEPT ![Migrator] = "finish"] /\ goal' = "none"
      \/ pc' = [pc EXCEPT ![Migrator] = "idle"] /\ goal' = "none"
  BY <1>0, Zenon DEF Updated, Goto, TaskTypes
<1>2. seq' = [seq EXCEPT ![Migrator] = 0] /\ UNCHANGED <<lock, call, masters, todo, calls, task, cur, posted>>
  BY Zenon DEF Updated
<1>3. CallTypes'
  BY <1>0, <1>1, <1>2, Constants DEF CallTypes, PCs
<1>4. TaskTypes' /\ TaskInv'
  BY <1>0, <1>1, <1>2, Constants, Zenon DEF TaskTypes, TaskInv, CallTypes
<1>5. \A d \in Callers : pc'[d] = pc[d] /\ seq'[d] = seq[d]
  BY <1>0, <1>1, <1>2, Constants, Zenon DEF CallTypes
<1> QED BY <1>2, <1>3, <1>4, <1>5, Zenon DEF TaskFrame

LEMMA GotoFrame ==
    ASSUME TypeOK, NEW l \in PCs, TaskGoto(l)
    PROVE  /\ CallTypes' /\ \A d \in Callers : pc'[d] = pc[d] /\ seq'[d] = seq[d]
           /\ pc'[Migrator] = l /\ UNCHANGED <<lock, call, masters, todo, calls>>
<1>0. CallTypes
  BY TypeParts, Zenon
<1> QED BY <1>0, Constants, Zenon DEF TaskGoto, Goto, CallTypes

MigratorStep == Confirmation(Migrator) \/ \E t \in Task : PostTask(t) \/ MigrateStep(t)

LEMMA MigratorMoves ==
    ASSUME TypeOK, TaskInv, ProxyInv, MigratorStep
    PROVE  /\ TaskFrame /\ UNCHANGED <<group, server, role, resp>>
           /\ \/ UNCHANGED <<proxyVars, fence>>
              \/ Stop /\ fence' = FALSE /\ UNCHANGED <<panicked, actions>>
           /\ \/ actions' = actions
              \/ About(Migrator) \in Action /\ Len(actions) < MaxActions
                    /\ actions' = Append(actions, About(Migrator))
           /\ slotInfo' \in [Slots -> SlotInfo]
           /\ faults' = faults \/ Fault
           /\ task = {} /\ pc[Migrator] = "idle" => posted' > 0
<1>0. ZkTypes /\ CallTypes /\ TaskTypes /\ ProxyTypes
  BY TypeParts, Zenon
<1>a. About(Migrator) \in Action
  BY <1>0, Zenon DEF About, Action, TaskTypes, Task
<1>s. slotInfo \in [Slots -> SlotInfo] /\ posted \in Nat
  BY <1>0, Constants DEF ZkTypes, TaskTypes
<1>1. CASE Notify(Migrator)
  <2>1. CASE fence /\ ~up
    <3>1. Fail /\ UNCHANGED <<group, server, slotInfo, actions, resp, fence, role, faults, proxyVars>>
      BY <1>1, <2>1, Zenon DEF Notify, Failed
    <3>2. pc[Migrator] # "idle"
      BY <1>1, Zenon DEF Notify
    <3> QED BY <1>s, <3>1, <3>2, FailFrame, Zenon
  <2>2. CASE ~(fence /\ ~up)
    <3>1. /\ pc[Migrator] = "notify" /\ Len(actions) < MaxActions
          /\ actions' = Append(actions, About(Migrator))
          /\ seq' = [seq EXCEPT ![Migrator] = IF up THEN Len(actions) + 1 ELSE 0]
          /\ pc' = [pc EXCEPT ![Migrator] = "wait"]
          /\ UNCHANGED <<lock, call, masters, todo, calls, taskVars, role, faults, proxyVars>>
          /\ UNCHANGED <<group, server, slotInfo, resp, fence>>
      BY <1>1, <2>2, Zenon DEF Notify, NewAction, Goto
    <3>2. Len(actions) + 1 \in 0 .. MaxActions /\ 0 \in 0 .. MaxActions
      <4>1. Len(actions) \in Nat
        BY <1>0 DEF ZkTypes
      <4> QED BY <3>1, <4>1, Constants
    <3>3. CallTypes'
      BY <1>0, <3>1, <3>2, Constants, Zenon DEF CallTypes, PCs
    <3>4. TaskTypes' /\ TaskInv'
      BY <1>0, <3>1, Constants, Zenon DEF TaskTypes, TaskInv, CallTypes, taskVars
    <3>5. \A d \in Callers : pc'[d] = pc[d] /\ seq'[d] = seq[d]
      BY <1>0, <3>1, Constants, Zenon DEF CallTypes
    <3> QED BY <1>a, <1>s, <3>1, <3>3, <3>4, <3>5, Zenon DEF TaskFrame
  <2> QED BY <2>1, <2>2, Zenon
<1>2. CASE Wait(Migrator)
  <2>1. pc[Migrator] = "wait" /\ Updated
        /\ UNCHANGED <<group, server, slotInfo, actions, resp, fence, role, faults, proxyVars>>
    BY <1>2, Zenon DEF Wait, Succeeded
  <2>2. goal # "none"
    BY <2>1, Zenon DEF TaskInv
  <2> QED BY <1>s, <2>1, <2>2, UpdatedFrame, Zenon
<1>3. CASE WaitTimeout(Migrator)
  <2>1. /\ pc[Migrator] = "wait" /\ Fail
        /\ UNCHANGED <<group, server, slotInfo, actions, resp, role, faults>>
        /\ IF up THEN Stop /\ fence' = FALSE /\ UNCHANGED panicked ELSE UNCHANGED <<fence, proxyVars>>
    BY <1>3, Zenon DEF WaitTimeout, Failed
  <2> QED BY <1>s, <2>1, FailFrame, Zenon
<1>4. ASSUME NEW t \in Task, PostTask(t)
      PROVE  /\ TaskFrame /\ posted' > 0
             /\ UNCHANGED <<group, server, role, resp, proxyVars, fence, actions, slotInfo, faults>>
  <2>1. /\ task' = {t} /\ posted < MaxTasks /\ posted' = posted + 1
        /\ UNCHANGED <<zkVars, role, callVars, cur, goal, faults, proxyVars>>
    BY <1>4, Zenon DEF PostTask
  <2>2. CallTypes'
    BY <1>0, <2>1, Zenon DEF callVars, CallTypes
  <2>3. TaskTypes' /\ TaskInv' /\ posted' > 0
    BY <1>0, <1>s, <2>1, Constants DEF callVars, TaskTypes, TaskInv
  <2> QED BY <2>1, <2>2, <2>3, Zenon DEF TaskFrame, callVars, zkVars
<1>5. ASSUME NEW t \in Task, MigrateStep(t)
      PROVE  /\ TaskFrame /\ task # {}
             /\ UNCHANGED <<group, server, role, resp, proxyVars, fence, actions>>
             /\ slotInfo' \in [Slots -> SlotInfo] /\ (faults' = faults \/ Fault)
  <2>0. t \in task /\ UNCHANGED <<group, server, actions, resp, fence, role, proxyVars>>
    BY Zenon, <1>5 DEF MigrateStep, NextTask, FromExists, ToExists, Update, Migrate, FinishTask, TaskStep
  <2>t. t.slot \in Slots /\ t.to \in Groups /\ slotInfo[t.slot] \in SlotInfo
    BY <1>s, Zenon DEF Task
  <2>1. CASE NextTask(t)
    <3>1. \E l \in {"finish", "from"} : TaskGoto(l)
      BY <2>1, Zenon DEF NextTask
    <3>2. cur' \in SlotInfo /\ UNCHANGED <<slotInfo, task, goal, posted, faults>>
      BY <2>1, <2>t, Zenon DEF NextTask
    <3>3. TaskTypes'
      BY <1>0, <3>2, Zenon DEF TaskTypes
    <3>4. TaskInv' /\ CallTypes' /\ UNCHANGED <<lock, call, masters, todo, calls>>
          /\ \A d \in Callers : pc'[d] = pc[d] /\ seq'[d] = seq[d]
      BY <3>1, GotoFrame, Zenon DEF TaskInv, PCs
    <3> QED BY <1>s, <2>0, <3>2, <3>3, <3>4, Zenon DEF TaskFrame
  <2>2. CASE FromExists(t)
    <3>1. (TaskGoto("to") /\ UNCHANGED taskVars) \/ Fail
      BY <2>2, Zenon DEF FromExists
    <3>2. UNCHANGED <<slotInfo, faults>>
      BY <2>2, Zenon DEF FromExists
    <3>3. CASE TaskGoto("to") /\ UNCHANGED taskVars
      <4>1. TaskTypes'
        BY <1>0, <3>3, Zenon DEF TaskTypes, taskVars
      <4>2. TaskInv' /\ CallTypes' /\ UNCHANGED <<lock, call, masters, todo, calls>>
          /\ \A d \in Callers : pc'[d] = pc[d] /\ seq'[d] = seq[d]
        BY <3>3, GotoFrame, Zenon DEF TaskInv, PCs
      <4> QED BY <1>s, <2>0, <3>1, <3>2, <4>1, <4>2, Zenon DEF TaskFrame
    <3> QED BY <1>s, <2>0, <3>1, <3>2, <3>3, FailFrame, Zenon
  <2>3. CASE ToExists(t)
    <3>1. \/ Fail
          \/ TaskGoto("finish") /\ UNCHANGED <<goal, task, cur, posted>>
          \/ TaskGoto("update") /\ goal' \in {"migrate", "pre_migrate"} /\ UNCHANGED <<task, cur, posted>>
      BY <2>3, Zenon DEF ToExists
    <3>2. UNCHANGED <<slotInfo, faults>>
      BY <2>3, Zenon DEF ToExists
    <3>3. CASE TaskGoto("finish") /\ UNCHANGED <<goal, task, cur, posted>>
      <4>1. TaskTypes'
        BY <1>0, <3>3, Zenon DEF TaskTypes
      <4>2. TaskInv' /\ CallTypes' /\ UNCHANGED <<lock, call, masters, todo, calls>>
          /\ \A d \in Callers : pc'[d] = pc[d] /\ seq'[d] = seq[d]
        BY <3>3, GotoFrame, Zenon DEF TaskInv, PCs
      <4> QED BY <1>s, <2>0, <3>1, <3>2, <4>1, <4>2, Zenon DEF TaskFrame
    <3>4. CASE TaskGoto("update") /\ goal' \in {"migrate", "pre_migrate"} /\ UNCHANGED <<task, cur, posted>>
      <4>1. TaskTypes'
        BY <1>0, <3>4, Zenon DEF TaskTypes
      <4>2. TaskInv' /\ CallTypes' /\ UNCHANGED <<lock, call, masters, todo, calls>>
          /\ \A d \in Callers : pc'[d] = pc[d] /\ seq'[d] = seq[d]
        BY <3>4, GotoFrame, Zenon DEF TaskInv, PCs
      <4> QED BY <1>s, <2>0, <3>1, <3>2, <4>1, <4>2, Zenon DEF TaskFrame
    <3> QED BY <1>s, <2>0, <3>1, <3>2, <3>3, <3>4, FailFrame, Zenon
  <2>4. CASE Update(t)
    <3>1. pc[Migrator] = "update" /\ TaskGoto("notify") /\ slotInfo' = [slotInfo EXCEPT ![t.slot] = cur']
          /\ UNCHANGED <<task, goal, posted, faults>>
      BY <2>4, Zenon DEF Update, TaskStep
    <3>2. goal \in {"pre_migrate", "migrate", "online", "rollback"}
      BY <1>0, <3>1, Zenon DEF TaskInv, TaskTypes
    <3>3. cur' \in SlotInfo
      <4>1. cur.group \in Groups \cup {NoGroup} /\ cur.from \in Groups \cup {NoGroup} /\ cur \in SlotInfo
        BY <1>0, Zenon DEF TaskTypes, SlotInfo
      <4>2. fromGroup \in Groups \cup {NoGroup}
        BY <4>1, Zenon DEF fromGroup
      <4>3. [group |-> t.to, status |-> "migrate", from |-> fromGroup] \in SlotInfo
        BY <2>t, <4>2, Zenon DEF SlotInfo, Status
      <4>4. /\ [cur EXCEPT !.status = "pre_migrate"] \in SlotInfo
            /\ [cur EXCEPT !.status = "online", !.from = NoGroup] \in SlotInfo
            /\ [cur EXCEPT !.status = "online"] \in SlotInfo
        BY <4>1, Zenon DEF SlotInfo, Status
      <4> QED BY <2>4, <3>2, <4>3, <4>4, Zenon DEF Update
    <3>4. slotInfo' \in [Slots -> SlotInfo]
      BY <1>s, <3>1, <3>3, Zenon
    <3>5. TaskTypes'
      BY <1>0, <3>1, <3>3, Zenon DEF TaskTypes
    <3>6. TaskInv' /\ CallTypes' /\ UNCHANGED <<lock, call, masters, todo, calls>>
          /\ \A d \in Callers : pc'[d] = pc[d] /\ seq'[d] = seq[d]
      BY <3>1, <3>2, GotoFrame, Zenon DEF TaskInv, PCs
    <3> QED BY <2>0, <3>1, <3>4, <3>5, <3>6, Zenon DEF TaskFrame
  <2>5. CASE Migrate(t)
    <3>1. /\ pc[Migrator] = "migrate" /\ slotInfo' = slotInfo
          /\ \/ TaskGoto("update") /\ UNCHANGED <<taskVars, faults>>
             \/ Fail /\ UNCHANGED faults
             \/ Fail /\ Fault
      BY <2>5, Zenon DEF Migrate, TaskStep
    <3>2. CASE TaskGoto("update") /\ UNCHANGED <<taskVars, faults>>
      <4>1. TaskTypes'
        BY <1>0, <3>2, Zenon DEF TaskTypes, taskVars
      <4>2. TaskInv' /\ CallTypes' /\ UNCHANGED <<lock, call, masters, todo, calls>>
          /\ \A d \in Callers : pc'[d] = pc[d] /\ seq'[d] = seq[d]
        BY <3>1, <3>2, GotoFrame, Zenon DEF TaskInv, PCs, taskVars
      <4> QED BY <1>s, <2>0, <3>1, <3>2, <4>1, <4>2, Zenon DEF TaskFrame
    <3> QED BY <1>s, <2>0, <3>1, <3>2, FailFrame, Zenon
  <2>6. CASE FinishTask(t)
    <3>1. TaskGoto("idle") /\ task' = {} /\ UNCHANGED <<slotInfo, cur, goal, posted, faults>>
      BY <2>6, Zenon DEF FinishTask
    <3>2. TaskTypes'
      BY <1>0, <3>1, Zenon DEF TaskTypes
    <3>3. TaskInv' /\ CallTypes' /\ UNCHANGED <<lock, call, masters, todo, calls>>
          /\ \A d \in Callers : pc'[d] = pc[d] /\ seq'[d] = seq[d]
      BY <3>1, GotoFrame, Zenon DEF TaskInv, PCs
    <3> QED BY <1>s, <2>0, <3>1, <3>2, <3>3, Zenon DEF TaskFrame
  <2> QED BY <1>5, <2>1, <2>2, <2>3, <2>4, <2>5, <2>6, Zenon DEF MigrateStep
<1>6. CASE \E t \in Task : PostTask(t)
  BY <1>s, <1>4, <1>6, Zenon
<1>7. CASE \E t \in Task : MigrateStep(t)
  BY <1>5, <1>7, Zenon
<1> QED BY <1>1, <1>2, <1>3, <1>6, <1>7, Zenon DEF MigratorStep, Confirmation

LEMMA MigratorPosts ==
    ASSUME MigratorStep
    PROVE  posted' = posted \/ posted' = posted + 1
BY Zenon, Constants DEF MigratorStep, Confirmation, Notify, Wait, WaitTimeout, Failed, Succeeded, Fail, Updated,
   PostTask, MigrateStep, NextTask, FromExists, ToExists, Update, Migrate, FinishTask, taskVars

\* The proxy has stopped.
LEMMA StopTypes ==
    ASSUME ProxyTypes, Stop, panicked' \in {"no", "group", "master", "same"}
    PROVE  ProxyTypes' /\ ~up'
<1>1. /\ up' = FALSE /\ fill' = {} /\ read' = NoRead /\ want' = <<>>
      /\ children' = {} /\ seen' = {} /\ found' = <<>> /\ UNCHANGED <<last, route, groups>>
  BY Zenon DEF Stop
<1>2. want' \in Seq(Groups \cup {NoGroup}) /\ found' \in Seq(Addrs)
  BY <1>1
<1> QED BY <1>1, <1>2, Zenon DEF ProxyTypes

LEMMA ConfirmTypes ==
    ASSUME TypeOK, LockInv, ProxyInv, NEW c \in Callers, Confirmation(c)
    PROVE  ZkTypes' /\ CallTypes' /\ TaskTypes' /\ ProxyTypes' /\ lock' \in {lock, {}}
<1>0. ZkTypes /\ CallTypes /\ TaskTypes /\ ProxyTypes /\ LockTypes
  BY TypeParts, Zenon
<1>1. /\ call[c] \in Calls /\ lock = {c}
      /\ UNCHANGED <<group, server, slotInfo, role, faults, taskVars>>
  BY ConfirmMoves, Zenon
<1>2. TaskTypes'
  BY <1>0, <1>1, Zenon DEF TaskTypes, taskVars
<1>3. CASE /\ pc[c] = "notify" /\ pc'[c] = "wait" /\ call' = call /\ lock' = lock
           /\ Len(actions) < MaxActions /\ actions' = Append(actions, About(c))
           /\ seq'[c] = IF up THEN Len(actions) + 1 ELSE 0
           /\ UNCHANGED <<proxyVars, resp, fence, masters, todo, calls>>
  <2>1. About(c) \in Action
    BY <1>1, CallFields, Constants, Zenon DEF About, Action
  <2>2. actions' \in Seq(Action) /\ Len(actions) \in Nat
    BY <1>0, <1>3, <2>1, Appends DEF ZkTypes
  <2>3. ZkTypes'
    BY <1>0, <1>1, <1>3, <2>2, Zenon DEF ZkTypes
  <2>4. seq'[c] \in 0 .. MaxActions
    BY <1>3, <2>2, Constants
  <2>5. pc' \in [Procs -> PCs] /\ seq' \in [Procs -> 0 .. MaxActions]
    <3>1. /\ pc' = [pc EXCEPT ![c] = "wait"]
          /\ seq' = [seq EXCEPT ![c] = IF up THEN Len(actions) + 1 ELSE 0]
      <4>1. Notify(c)
        BY <1>3, Zenon DEF Confirmation, Wait, WaitTimeout
      <4>2. ~(fence /\ ~up)
        BY <1>0, <1>3, <4>1, Constants, Zenon DEF Notify, Failed, Return, Goto, CallTypes
      <4> QED BY <4>1, <4>2, Zenon DEF Notify, Goto
    <3>2. c \in Procs
      BY Constants, Zenon
    <3> QED BY <1>0, <1>3, <2>4, <3>1, <3>2, Zenon DEF CallTypes, PCs
  <2>6. CallTypes'
    BY <1>0, <1>3, <2>5, Zenon DEF CallTypes
  <2>7. ProxyTypes'
    BY <1>0, <1>3, Zenon DEF ProxyTypes, proxyVars
  <2> QED BY <1>2, <1>3, <2>3, <2>6, <2>7, Zenon
<1>4. CASE /\ Return(c) /\ UNCHANGED <<actions, resp>>
           /\ UNCHANGED <<proxyVars, fence>> \/ (Stop /\ fence' = FALSE /\ UNCHANGED panicked)
  <2>1. CallTypes' /\ lock' = {}
    BY <1>0, <1>1, <1>4, Returned, ReturnMoves, Zenon
  <2>2. ZkTypes'
    BY <1>0, <1>1, <1>4, Zenon DEF ZkTypes
  <2>3. ProxyTypes'
    <3>1. CASE UNCHANGED proxyVars
      BY <1>0, <3>1, Zenon DEF ProxyTypes, proxyVars
    <3>2. CASE Stop /\ UNCHANGED panicked
      BY <1>0, <3>2, StopTypes, Zenon DEF ProxyTypes
    <3> QED BY <1>4, <3>1, <3>2, Zenon
  <2> QED BY <1>2, <2>1, <2>2, <2>3, Zenon
<1> QED BY <1>3, <1>4, ConfirmMoves, Zenon

\* The steps of the proxy.
Serve ==
    \/ ActionEvent \/ ListServers \/ FillSlot \/ Respond
    \/ \E s \in Slots : ReadSlot(s)
    \/ \E a \in Addrs : GetServer(a)

LEMMA ServeFrame ==
    ASSUME Serve
    PROVE  up /\ UNCHANGED <<group, server, slotInfo, lock, actions, fence, role, callVars, taskVars, faults>>
BY Zenon DEF Serve, ActionEvent, ListServers, FillSlot, Respond, ReadSlot, GetServer, ProxyStep

\* What GetServer(x) does when it does not panic.
LEMMA GetServerCases ==
    ASSUME NEW x \in Addrs, GetServer(x)
    PROVE  LET g == Head(want)
               now == seen \cup (IF server[g][x] = "master" THEN {x} ELSE {})
           IN  /\ x \in children /\ UNCHANGED resp
               /\ \/ server[g][x] = "none" /\ Panic("group")
                  \/ children = {x} /\ ~One(now) /\ Panic("master")
                  \/ /\ children = {x} /\ One(now)
                     /\ found' = found \o <<CHOOSE m \in now : TRUE>>
                     /\ want' = Tail(want) /\ children' = {} /\ seen' = {}
                     /\ UNCHANGED <<up, last, fill, read, route, groups, panicked>>
                  \/ /\ children # {x} /\ children' = children \ {x} /\ seen' = now
                     /\ UNCHANGED <<up, last, fill, read, want, found, route, groups, panicked>>
BY Zenon DEF GetServer

LEMMA ListServersCases ==
    ASSUME ListServers
    PROVE  /\ want # <<>> /\ children = {} /\ seen = {} /\ UNCHANGED resp
           /\ \/ Panic("group")
              \/ (\A a \in Addrs : server[Head(want)][a] = "none") /\ Panic("master")
              \/ /\ Head(want) \in group
                 /\ children' = {a \in Addrs : server[Head(want)][a] # "none"}
                 /\ UNCHANGED <<up, last, fill, read, want, seen, found, route, groups, panicked>>
BY Zenon DEF ListServers

LEMMA FillSlotCases ==
    ASSUME FillSlot
    PROVE  /\ read # NoRead /\ want = <<>> /\ UNCHANGED resp
           /\ \/ Panic("same")
              \/ /\ groups' = [groups EXCEPT ![read.slot] = read.info.group]
                 /\ route' = [route EXCEPT ![read.slot] =
                        [addr |-> found[1], from |-> IF Len(found) = 2 THEN found[2] ELSE NoAddr]]
                 /\ fill' = fill \ {read.slot}
                 /\ read' = NoRead /\ found' = <<>>
                 /\ UNCHANGED <<up, last, want, children, seen, panicked>>
BY Zenon DEF FillSlot

LEMMA StopInv ==
    ASSUME ProxyInv, Stop, UNCHANGED <<actions, resp>>
    PROVE  ProxyInv'
<1>1. /\ fill' = {} /\ read' = NoRead /\ want' = <<>> /\ last' = last
      /\ children' = {} /\ seen' = {} /\ found' = <<>>
  BY Zenon DEF Stop
<1> QED BY <1>1, Zenon DEF ProxyInv

\* The proxy does one thing after the other.
LEMMA ServeKeeps ==
    ASSUME TypeOK, ProxyInv, Serve
    PROVE  ProxyTypes' /\ ProxyInv' /\ resp' \in SUBSET (1 .. MaxActions)
<1>0. ZkTypes /\ ProxyTypes
  BY TypeParts, Zenon
<1>1. UNCHANGED <<actions, group, server, slotInfo>> /\ up
  BY ServeFrame, Zenon
<1>n. Len(actions) \in Nat /\ last \in Nat /\ last <= MaxActions /\ MaxActions \in Nat
  BY <1>0, Constants DEF ZkTypes, ProxyTypes
<1>p. ASSUME NEW why \in {"group", "master", "same"}, Panic(why), UNCHANGED resp
      PROVE  ProxyTypes' /\ ProxyInv' /\ resp' \in SUBSET (1 .. MaxActions)
  <2>1. Stop /\ panicked' = why
    BY <1>p, Zenon DEF Panic
  <2>2. ProxyTypes'
    BY <1>0, <2>1, StopTypes, Zenon
  <2>3. ProxyInv'
    BY <1>1, <1>p, <2>1, StopInv, Zenon
  <2> QED BY <1>0, <1>p, <2>2, <2>3, Zenon DEF ZkTypes
<1>2. CASE ActionEvent
  <2>1. /\ last < Len(actions) /\ last \in resp \cup {0} /\ last' = Len(actions)
        /\ fill' = actions[last'].slots \cup
               {s \in Slots : groups[s] # NoGroup /\ groups[s] = actions[last'].group}
        /\ UNCHANGED <<resp, up, read, want, children, seen, found, route, groups, panicked>>
    BY <1>2, Zenon DEF ActionEvent
  <2>2. last' \in 1 .. Len(actions)
    BY <1>n, <2>1
  <2>3. actions[last'] \in Action
    BY <1>0, <2>2 DEF ZkTypes
  <2>4. fill' \in SUBSET Slots
    BY <2>1, <2>3, Zenon DEF Action
  <2>5. last' \in 0 .. MaxActions
    BY <1>n, <2>1 DEF ProxyInv
  <2>6. ProxyTypes'
    BY <1>0, <2>1, <2>4, <2>5, Zenon DEF ProxyTypes
  <2>7. \A n \in resp : 0 < n /\ n <= last' /\ n # last'
    <3>1. \A n \in resp : n \in Nat
      BY <1>0, <1>n DEF ZkTypes
    <3>2. \A n \in resp : 0 < n /\ n <= last
      BY Zenon DEF ProxyInv
    <3>3. last < last' /\ last' \in Nat
      BY <1>n, <2>1, Zenon
    <3> QED BY <1>n, <3>1, <3>2, <3>3
  <2>8. fill = {} /\ read = NoRead
    BY <2>1, Zenon DEF ProxyInv
  <2>9. ProxyInv'
    BY <1>1, <1>n, <2>1, <2>2, <2>7, <2>8 DEF ProxyInv
  <2> QED BY <1>0, <2>1, <2>6, <2>9, Zenon DEF ZkTypes
<1>3. CASE ListServers
  <2>1. CASE /\ Head(want) \in group
             /\ children' = {a \in Addrs : server[Head(want)][a] # "none"}
             /\ UNCHANGED <<up, last, fill, read, want, seen, found, route, groups, panicked>>
    <3>1. ProxyTypes'
      BY <1>0, <2>1, Zenon DEF ProxyTypes
    <3>2. want # <<>> /\ UNCHANGED resp
      BY <1>3, ListServersCases, Zenon
    <3>3. ProxyInv'
      BY <1>0, <1>1, <2>1, <3>2, Zenon DEF ProxyInv, ZkTypes
    <3> QED BY <1>0, <3>1, <3>2, <3>3, Zenon DEF ZkTypes
  <2> QED BY <1>3, <1>p, <2>1, ListServersCases, Zenon
<1>4. CASE FillSlot
  <2>1. CASE /\ groups' = [groups EXCEPT ![read.slot] = read.info.group]
             /\ route' = [route EXCEPT ![read.slot] =
                        [addr |-> found[1], from |-> IF Len(found) = 2 THEN found[2] ELSE NoAddr]]
             /\ fill' = fill \ {read.slot}
             /\ read' = NoRead /\ found' = <<>>
             /\ UNCHANGED <<up, last, want, children, seen, panicked>>
    <3>1. read # NoRead /\ want = <<>> /\ UNCHANGED resp
      BY <1>4, FillSlotCases, Zenon
    <3>2. found # <<>> /\ found \in Seq(Addrs) /\ Len(found) \in Nat
      BY <1>0, <3>1 DEF ProxyInv, ProxyTypes
    <3>3. found[1] \in Addrs /\ (Len(found) = 2 => found[2] \in Addrs)
      <4>1. 1 \in 1 .. Len(found) /\ (Len(found) = 2 => 2 \in 1 .. Len(found))
        <5>1. Len(found) \in Nat \ {0}
          BY <3>2, Lengths, Zenon
        <5> QED BY <5>1
      <4> QED BY <3>2, <4>1
    <3>4. read.slot \in Slots /\ read.info \in SlotInfo /\ read.info.group \in Groups \cup {NoGroup}
      BY <1>0, <3>1, Zenon DEF ProxyTypes, SlotInfo
    <3>5. route' \in [Slots -> [addr : Addrs \cup {NoAddr}, from : Addrs \cup {NoAddr}]]
      BY <1>0, <2>1, <3>3, <3>4, Zenon DEF ProxyTypes
    <3>6. groups' \in [Slots -> Groups \cup {NoGroup}]
      BY <1>0, <2>1, <3>4, Zenon DEF ProxyTypes
    <3>7. found' \in Seq(Addrs)
      BY <2>1
    <3>8. ProxyTypes'
      BY <1>0, <2>1, <3>5, <3>6, <3>7, Zenon DEF ProxyTypes
    <3>9. ProxyInv'
      BY <1>1, <2>1, <3>1, Zenon DEF ProxyInv
    <3> QED BY <1>0, <3>1, <3>8, <3>9, Zenon DEF ZkTypes
  <2> QED BY <1>4, <1>p, <2>1, FillSlotCases, Zenon
<1>5. CASE Respond
  <2>1. last > 0 /\ last \notin resp /\ fill = {} /\ resp' = resp \cup {last} /\ UNCHANGED proxyVars
    BY <1>5, Zenon DEF Respond
  <2>2. ProxyTypes'
    BY <1>0, <2>1, Zenon DEF ProxyTypes, proxyVars
  <2>3. last \in 1 .. MaxActions
    BY <1>n, <2>1
  <2>4. ProxyInv'
    BY <1>1, <1>n, <2>1 DEF ProxyInv, proxyVars
  <2> QED BY <1>0, <2>1, <2>2, <2>3, <2>4, Zenon DEF ZkTypes
<1>6. ASSUME NEW s \in Slots, ReadSlot(s)
      PROVE  ProxyTypes' /\ ProxyInv' /\ resp' \in SUBSET (1 .. MaxActions)
  <2> DEFINE i == slotInfo[s]
             rest == IF i.status = "migrate" THEN <<i.from>> ELSE <<>>
  <2>1. /\ s \in fill /\ read = NoRead /\ read' = [slot |-> s, info |-> i] /\ want' = <<i.group>> \o rest
        /\ UNCHANGED <<resp, up, last, fill, children, seen, found, route, groups, panicked>>
    BY <1>6, Zenon DEF ReadSlot
  <2>2. i \in SlotInfo /\ i.group \in Groups \cup {NoGroup} /\ i.from \in Groups \cup {NoGroup}
    BY <1>0, Zenon DEF ZkTypes, SlotInfo
  <2> HIDE DEF i
  <2>3. rest \in Seq(Groups \cup {NoGroup}) /\ <<i.group>> \in Seq(Groups \cup {NoGroup})
    <3>1. <<i.group>> \in Seq(Groups \cup {NoGroup}) /\ <<i.from>> \in Seq(Groups \cup {NoGroup})
      BY <2>2
    <3>2. <<>> \in Seq(Groups \cup {NoGroup})
      OBVIOUS
    <3> QED BY <3>1, <3>2, Zenon
  <2> HIDE DEF rest
  <2>4. want' \in Seq(Groups \cup {NoGroup}) /\ want' # <<>> /\ Head(want') = i.group
    <3>1. /\ want' \in Seq(Groups \cup {NoGroup}) /\ Len(want') = 1 + Len(rest)
          /\ want'[1] = i.group
      BY <2>1, <2>3, Concats
    <3>2. Len(rest) \in Nat
      BY <2>3
    <3>3. want' # <<>>
      BY <3>1, <3>2, Lengths
    <3> QED BY <3>1, <3>3
  <2>5. ProxyTypes'
    BY <1>0, <2>1, <2>2, <2>4, Zenon DEF ProxyTypes
  <2>6. read' # NoRead /\ read'.info.group = i.group
    BY <2>1, Zenon DEF NoRead
  <2>7. fill # {} /\ want = <<>> /\ found = <<>> /\ children = {} /\ seen = {}
    BY <2>1, Zenon DEF ProxyInv
  <2>8. ProxyInv'
    BY <1>1, <2>1, <2>4, <2>6, <2>7, Zenon DEF ProxyInv
  <2> QED BY <1>0, <2>1, <2>5, <2>8, Zenon DEF ZkTypes
<1>7. ASSUME NEW x \in Addrs, GetServer(x)
      PROVE  ProxyTypes' /\ ProxyInv' /\ resp' \in SUBSET (1 .. MaxActions)
  <2> DEFINE g == Head(want)
             now == seen \cup (IF server[g][x] = "master" THEN {x} ELSE {})
             m == CHOOSE y \in now : TRUE
  <2>1. x \in children /\ UNCHANGED resp /\ now \subseteq Addrs /\ want # <<>>
    BY <1>0, <1>7, GetServerCases, Zenon DEF ProxyTypes, ProxyInv
  <2>2. CASE /\ children = {x} /\ One(now)
             /\ found' = found \o <<m>>
             /\ want' = Tail(want) /\ children' = {} /\ seen' = {}
             /\ UNCHANGED <<up, last, fill, read, route, groups, panicked>>
    <3>1. now # {}
      BY <2>2, Zenon DEF One
    <3>2. m \in Addrs
      BY <2>1, <3>1, Zenon
    <3> HIDE DEF m, now
    <3>3. <<m>> \in Seq(Addrs) /\ found \in Seq(Addrs) /\ want \in Seq(Groups \cup {NoGroup})
      BY <1>0, <3>2 DEF ProxyTypes
    <3>4. found' \in Seq(Addrs) /\ found' # <<>>
      <4>1. Len(found') = Len(found) + 1 /\ found' \in Seq(Addrs) /\ Len(found) \in Nat
        BY <2>2, <3>3, Concats
      <4> QED BY <4>1, Lengths
    <3>5. want' \in Seq(Groups \cup {NoGroup})
      BY <2>1, <2>2, <3>3, Tails, Zenon
    <3>6. ProxyTypes'
      BY <1>0, <2>2, <3>4, <3>5, Zenon DEF ProxyTypes
    <3>7. read # NoRead
      BY <2>1, Zenon DEF ProxyInv
    <3>8. ProxyInv'
      BY <1>1, <2>1, <2>2, <3>4, <3>7, Zenon DEF ProxyInv
    <3> QED BY <1>0, <2>1, <3>6, <3>8, Zenon DEF ZkTypes
  <2>3. CASE /\ children # {x} /\ children' = children \ {x} /\ seen' = now
             /\ UNCHANGED <<up, last, fill, read, want, found, route, groups, panicked>>
    <3> HIDE DEF now
    <3>1. ProxyTypes'
      BY <1>0, <2>1, <2>3, Zenon DEF ProxyTypes
    <3>2. ProxyInv'
      BY <1>1, <2>1, <2>3, Zenon DEF ProxyInv
    <3> QED BY <1>0, <2>1, <3>1, <3>2, Zenon DEF ZkTypes
  <2>4. CASE Panic("group") \/ Panic("master")
    BY <1>p, <2>1, <2>4, Zenon
  <2> QED BY <1>7, <2>2, <2>3, <2>4, GetServerCases, Zenon
<1> QED BY <1>2, <1>3, <1>4, <1>5, <1>6, <1>7, Zenon DEF Serve

LEMMA Kinds ==
    ASSUME [Next]_vars
    PROVE  \/ \E c \in Callers : RequestStep(c) \/ Confirmation(c)
           \/ MigratorStep \/ DashboardCrash \/ Serve \/ UNCHANGED vars
BY Zenon DEF Next, Procs, MigratorStep, Confirmation, Serve

\* A request may set the master of a group that has none, and then tells the proxies.
LEMMA RequestMasters ==
    ASSUME TypeOK, LockInv, CallsInv, OneMaster, NEW c \in Callers, RequestStep(c), NEW g \in Groups
    PROVE  \/ Master(server'[g]) = {}
           \/ Master(server'[g]) = Master(server[g])
           \/ \E x \in Addrs :
                 /\ Master(server'[g]) = {x} /\ pc'[c] = "notify" /\ call'[c].group = g
                 /\ call'[c].op \in {"promote", "add_server"}
<1>0. ZkTypes /\ CallTypes
  BY TypeParts, Zenon
<1>c. pc[c] # "idle" => lock = {c} /\ call[c] \in Calls /\ CallInv(c)
                          /\ call[c].group \in Groups /\ call[c].addr \in Addrs
  BY CallFields, Zenon DEF LockInv, CallsInv, Active
<1>s. ASSUME NEW h \in Groups, NEW x \in Addrs, NEW y \in Types \cup {"none"}, y # "master",
             server' = [server EXCEPT ![h][x] = y]
      PROVE  Master(server'[g]) = {} \/ Master(server'[g]) = Master(server[g])
  <2>1. CASE g # h
    BY <1>0, <1>s, <2>1, Zenon DEF ZkTypes
  <2>2. CASE g = h
    <3>1. \A b \in Addrs : server'[g][b] = IF b = x THEN y ELSE server[g][b]
      BY <1>0, <1>s, <2>2, Zenon DEF ZkTypes
    <3>2. Master(server'[g]) = Master(server[g]) \ {x}
      BY <1>s, <3>1, Zenon DEF Master
    <3> QED BY <3>2, Zenon DEF OneMaster, AtMostOne
  <2> QED BY <2>1, <2>2, Zenon
<1>1. CASE server' = server
  BY <1>1, Zenon
<1>2. CASE WriteServer(c)
  <2>1. pc[c] = "write" /\ server' = [server EXCEPT ![call[c].group][call[c].addr] = call[c].type]
    BY <1>2, Zenon DEF WriteServer
  <2>2. CASE call[c].type # "master"
    <3>1. call[c].type \in Types
      BY <1>c, <2>1, CallFields, Zenon
    <3> QED BY <1>c, <1>s, <2>1, <2>2, <3>1, Zenon
  <2>3. CASE call[c].type = "master"
    <3>1. Continue(c, "notify")
      BY <1>2, <2>3, Zenon DEF WriteServer
    <3>2. pc'[c] = "notify" /\ call' = call
      BY <1>0, <1>c, <2>1, <3>1, ContinueMoves, Zenon DEF PCs
    <3>3. Master(server[call[c].group]) = {} /\ call[c].op \in {"promote", "add_server"}
      BY <1>c, <2>1, <2>3, Zenon DEF CallInv
    <3>4. CASE g # call[c].group
      BY <1>0, <2>1, <3>4, Zenon DEF ZkTypes
    <3>5. CASE g = call[c].group
      <4>1. \A b \in Addrs : server'[g][b] = IF b = call[c].addr THEN "master" ELSE server[g][b]
        BY <1>0, <2>1, <2>3, <3>5, Zenon DEF ZkTypes
      <4>2. Master(server'[g]) = {call[c].addr}
        BY <1>c, <2>1, <3>3, <3>5, <4>1 DEF Master
      <4> QED BY <1>c, <2>1, <3>2, <3>3, <3>5, <4>2, Zenon
    <3> QED BY <3>4, <3>5, Zenon
  <2> QED BY <2>2, <2>3, Zenon
<1>3. CASE Demote(c)
  <2>1. pc[c] = "demote" /\ server' = [server EXCEPT ![call[c].group] =
            [x \in Addrs |-> IF @[x] = "master" THEN "offline" ELSE @[x]]]
    BY <1>3, Zenon DEF Demote
  <2>2. CASE g # call[c].group
    BY <1>0, <2>1, <2>2, Zenon DEF ZkTypes
  <2>3. CASE g = call[c].group
    <3>1. server'[g] = [x \in Addrs |-> IF server[g][x] = "master" THEN "offline" ELSE server[g][x]]
      BY <1>0, <2>1, <2>3, Zenon DEF ZkTypes
    <3> QED BY <3>1, Zenon DEF Master
  <2> QED BY <2>2, <2>3, Zenon
<1>4. CASE RemoveServer(c)
  <2>1. pc[c] # "idle"
        /\ (server' = server \/ server' = [server EXCEPT ![call[c].group][call[c].addr] = "none"])
    BY <1>4, Zenon DEF RemoveServer
  <2> QED BY <1>1, <1>c, <1>s, <2>1, Zenon
<1>5. CASE DeleteRecursive(c)
  <2>1. pc[c] # "idle"
        /\ (server' = server \/ \E x \in Addrs : server' = [server EXCEPT ![call[c].group][x] = "none"])
    BY <1>5, Zenon DEF DeleteRecursive
  <2> QED BY <1>1, <1>c, <1>s, <2>1, Zenon
<1>6. server' = server \/ WriteServer(c) \/ Demote(c) \/ RemoveServer(c) \/ DeleteRecursive(c)
  BY Zenon DEF RequestStep, Create, Announce, ReadServers, SlaveOf, Promote, CheckSlot, SetSlotRange,
        SetSlot, Request, NewAction
<1> QED BY <1>1, <1>2, <1>3, <1>4, <1>5, <1>6, Zenon

\* Without a migrate task, whatever a request does.
LEMMA RequestUse ==
    ASSUME TypeOK, LockInv, CallsInv, OneMaster, UseInv, NEW c \in Callers, RequestStep(c)
    PROVE  UseInv'
<1>0. ZkTypes /\ CallTypes /\ c \in Procs
  BY TypeParts, Constants, Zenon
<1>a. \A d \in Callers \ {c} : pc[d] = "idle" /\ pc'[d] = "idle"
  BY Alone, RequestMoves, Constants, Zenon DEF Moved, Rest
<1>m. UNCHANGED <<task, posted>> /\ pc'[Migrator] = pc[Migrator]
  BY RequestFrame, RequestMoves, Constants, Zenon DEF taskVars, Moved, Rest
<1>c. pc[c] # "idle" => lock = {c} /\ call[c] \in Calls /\ CallInv(c) /\ call[c].group \in Groups
  BY CallFields, Zenon DEF LockInv, CallsInv, Active
\* It is enough to look at the slots and at the request itself.
<1>u. ASSUME posted = 0 =>
                /\ \A s \in Slots : /\ slotInfo'[s].group \in group' \cup {NoGroup}
                                    /\ slotInfo'[s].from = NoGroup
                /\ pc'[c] = "check" => \A s \in Slots \ todo'[c] : slotInfo'[s].group # call'[c].group
                /\ pc'[c] = "delete" => \A s \in Slots : slotInfo'[s].group # call'[c].group
                /\ pc'[c] = "range_set" => call'[c].group \in group'
      PROVE  UseInv'
  BY <1>a, <1>m, <1>u, Zenon DEF UseInv
\* A step that leaves the slots alone and removes no group.
<1>q. ASSUME slotInfo' = slotInfo, group \subseteq group', pc'[c] \notin {"check", "delete", "range_set"}
      PROVE  UseInv'
  BY <1>q, <1>u, Zenon DEF UseInv
<1>1. CASE Create(c)
  <2>1. pc'[c] \in {"announce", "idle", "read"}
    BY <1>0, <1>1, Zenon DEF Create, Return, Continue, Goto, CallTypes
  <2> QED BY <1>1, <1>q, <2>1, Zenon DEF Create
<1>2. CASE Announce(c)
  <2>1. pc'[c] \in {"idle", "read"}
    BY <1>0, <1>2, Zenon DEF Announce, Return, Continue, Goto, CallTypes
  <2> QED BY <1>2, <1>q, <2>1, Zenon DEF Announce, NewAction
<1>3. CASE ReadServers(c)
  <2>1. pc'[c] \in {"idle", "write"}
    BY <1>0, <1>3, Zenon DEF ReadServers, Return, Goto, CallTypes
  <2> QED BY <1>3, <1>q, <2>1, Zenon DEF ReadServers
<1>4. CASE WriteServer(c)
  <2>1. pc'[c] \in {"idle", "notify", "slaveof"}
    BY <1>0, <1>4, Zenon DEF WriteServer, Return, Continue, Goto, CallTypes
  <2> QED BY <1>4, <1>q, <2>1, Zenon DEF WriteServer
<1>5. CASE SlaveOf(c)
  <2>1. pc'[c] = "idle"
    BY <1>0, <1>5, Zenon DEF SlaveOf, Return, Goto, CallTypes
  <2> QED BY <1>5, <1>q, <2>1, Zenon DEF SlaveOf
<1>6. CASE Promote(c)
  <2>1. pc'[c] \in {"idle", "demote"}
    BY <1>0, <1>6, Zenon DEF Promote, Return, Continue, Goto, CallTypes
  <2> QED BY <1>6, <1>q, <2>1, Zenon DEF Promote
<1>7. CASE Demote(c)
  <2>1. pc'[c] = "read"
    BY <1>0, <1>7, Zenon DEF Demote, Goto, CallTypes
  <2> QED BY <1>7, <1>q, <2>1, Zenon DEF Demote
<1>8. CASE RemoveServer(c)
  <2>1. pc'[c] \in {"idle", "announce"}
    BY <1>0, <1>8, Zenon DEF RemoveServer, Return, Continue, Goto, CallTypes
  <2> QED BY <1>8, <1>q, <2>1, Zenon DEF RemoveServer
<1>9. CASE CheckSlot(c)
  <2> DEFINE s == Min(todo[c])
  <2>1. pc[c] = "check" /\ UNCHANGED <<group, slotInfo>>
    BY <1>9, Zenon DEF CheckSlot
  <2>2. CASE Return(c)
    <3>1. pc'[c] = "idle"
      BY <1>0, <2>2, Zenon DEF Return, Goto, CallTypes
    <3> QED BY <1>q, <2>1, <3>1, Zenon
  <2>3. CASE ~Return(c)
    <3>1. /\ ~Uses(s, call[c].group) /\ todo' = [todo EXCEPT ![c] = @ \ {s}] /\ call' = call
          /\ pc' = [pc EXCEPT ![c] = IF todo'[c] = {} THEN "delete" ELSE "check"]
      BY <1>9, <2>3, Zenon DEF CheckSlot, Goto
    <3>2. slotInfo[s].group # call[c].group
      BY <3>1, Zenon DEF Uses
    <3> HIDE DEF s
    <3>3. todo'[c] = todo[c] \ {s} /\ pc'[c] = IF todo'[c] = {} THEN "delete" ELSE "check"
      BY <1>0, <3>1, Zenon DEF CallTypes
    <3>4. posted = 0 => \A r \in Slots \ todo'[c] : slotInfo[r].group # call[c].group
      BY <2>1, <3>2, <3>3, Zenon DEF UseInv
    <3> QED BY <1>u, <2>1, <3>1, <3>3, <3>4 DEF UseInv
  <2> QED BY <2>2, <2>3, Zenon
<1>10. CASE DeleteRecursive(c)
  <2>1. pc[c] = "delete" /\ slotInfo' = slotInfo /\ group' \in {group, group \ {call[c].group}}
        /\ (Continue(c, "delete") \/ Continue(c, "announce"))
    BY <1>10, Zenon DEF DeleteRecursive
  <2>2. call' = call /\ pc'[c] \in {"delete", "announce"}
    BY <1>0, <2>1, Zenon DEF Continue, Goto, CallTypes
  <2>3. posted = 0 => \A s \in Slots : slotInfo[s].group # call[c].group /\ slotInfo[s].from = NoGroup
                                         /\ slotInfo[s].group \in group \cup {NoGroup}
    BY <2>1, Zenon DEF UseInv
  <2>4. posted = 0 => \A s \in Slots : slotInfo[s].group \in group' \cup {NoGroup}
    BY <2>1, <2>3, Zenon
  <2> QED BY <1>u, <2>1, <2>2, <2>3, <2>4, Zenon
<1>11. CASE SetSlotRange(c)
  <2>1. pc[c] = "range" /\ UNCHANGED <<slotInfo, group>>
        /\ (Return(c) \/ (call[c].group \in group /\ Continue(c, "range_set")))
    BY <1>11, Zenon DEF SetSlotRange
  <2>2. pc'[c] = "idle" \/ (pc'[c] = "range_set" /\ call' = call /\ call[c].group \in group)
    BY <1>0, <2>1, Zenon DEF Return, Continue, Goto, CallTypes
  <2> QED BY <1>u, <2>1, <2>2, Zenon DEF UseInv
<1>12. CASE SetSlot(c)
  <2> DEFINE s == Min(todo[c])
  <2>1. pc[c] = "range_set" /\ UNCHANGED group
    BY <1>12, Zenon DEF SetSlot
  <2>2. CASE Return(c) /\ UNCHANGED slotInfo
    <3>1. pc'[c] = "idle"
      BY <1>0, <2>2, Zenon DEF Return, Goto, CallTypes
    <3> QED BY <1>q, <2>1, <2>2, <3>1, Zenon
  <2>3. CASE ~(Return(c) /\ UNCHANGED slotInfo)
    <3>1. /\ slotInfo' = [slotInfo EXCEPT ![s].group = call[c].group, ![s].status = "online"]
          /\ call' = call /\ \E l \in {"notify", "range_set"} : pc' = [pc EXCEPT ![c] = l]
      BY <1>12, <2>3, Zenon DEF SetSlot, Goto
    <3> HIDE DEF s
    <3>2. pc'[c] \in {"notify", "range_set"}
      BY <1>0, <3>1, Zenon DEF CallTypes
    <3>3. \A r \in Slots : /\ slotInfo'[r].from = slotInfo[r].from
                           /\ slotInfo'[r].group \in {slotInfo[r].group, call[c].group}
      <4>1. slotInfo \in [Slots -> SlotInfo]
        BY <1>0, Zenon DEF ZkTypes
      <4>2. \A r \in Slots : r # s => slotInfo'[r] = slotInfo[r]
        BY <3>1, <4>1, Zenon
      <4>3. ASSUME s \in Slots
            PROVE  slotInfo'[s].from = slotInfo[s].from /\ slotInfo'[s].group = call[c].group
        BY <3>1, <4>1, <4>3, Zenon DEF SlotInfo
      <4> QED BY <4>2, <4>3, Zenon
    <3>4. posted = 0 => call[c].group \in group
      BY <2>1, Zenon DEF UseInv
    <3>5. posted = 0 => \A r \in Slots : /\ slotInfo'[r].group \in group' \cup {NoGroup}
                                         /\ slotInfo'[r].from = NoGroup
      BY <2>1, <3>3, <3>4, Zenon DEF UseInv
    <3>6. posted = 0 => call'[c].group \in group'
      BY <2>1, <3>1, <3>4, Zenon
    <3> QED BY <1>u, <3>2, <3>5, <3>6, Zenon
  <2> QED BY <2>2, <2>3, Zenon
<1>13. ASSUME NEW k \in Requests, Request(c, k) PROVE UseInv'
  <2>1. /\ call'[c] = k /\ k \in Calls /\ UNCHANGED <<slotInfo, group>>
        /\ pc'[c] = FirstStep(k.op) /\ todo'[c] = IF k.op = "range" THEN k.slots ELSE Slots
    BY <1>0, <1>13, Zenon DEF Request, Goto, CallTypes, Requests
  <2>2. /\ pc'[c] \in {"create", "promote", "remove_server", "check", "range"}
        /\ pc'[c] = "check" => k.op = "remove_group"
    BY <2>1, CallFields, Zenon DEF FirstStep
  <2> QED BY <1>u, <2>1, <2>2, Zenon DEF UseInv
<1> QED BY <1>1, <1>2, <1>3, <1>4, <1>5, <1>6, <1>7, <1>8, <1>9, <1>10, <1>11, <1>12, <1>13, Zenon DEF RequestStep

\* The part of the invariant that is not about what the proxy knows of the servers.
Base == TypeOK /\ LockInv /\ CallsInv /\ OneMaster /\ UseInv /\ TaskInv /\ ProxyInv

LEMMA Locked ==
    ASSUME lock' \in {{}, lock} \/ \E c \in Callers : lock' = {c}, LockTypes
    PROVE  LockTypes'
<1>1. CASE lock' = {}
  BY <1>1, Zenon DEF LockTypes, AtMostOne
<1>2. CASE lock' = lock
  BY <1>2, Zenon DEF LockTypes
<1>3. ASSUME NEW c \in Callers, lock' = {c} PROVE LockTypes'
  BY <1>3, Zenon DEF LockTypes, AtMostOne
<1> QED BY <1>1, <1>2, <1>3, Zenon

\* The actions are added at the end.
LEMMA Added ==
    ASSUME TypeOK, NEW x \in Action, Len(actions) < MaxActions, actions' = Append(actions, x)
    PROVE  /\ actions' \in Seq(Action) /\ Len(actions') = Len(actions) + 1
           /\ Len(actions) \in Nat /\ Len(actions') <= MaxActions
           /\ \A i \in 1 .. Len(actions) : actions'[i] = actions[i]
           /\ actions'[Len(actions')] = x
<1>1. actions \in Seq(Action)
  BY Zenon DEF TypeOK
<1>2. Len(actions) \in Nat
  BY <1>1, Lengths, Zenon
<1>3. /\ actions' \in Seq(Action) /\ Len(actions') = Len(actions) + 1
      /\ \A i \in 1 .. Len(actions) : actions'[i] = actions[i]
      /\ actions'[Len(actions) + 1] = x
  BY <1>1, Appends
<1> QED BY <1>2, <1>3, Constants

LEMMA AddedInv ==
    ASSUME TypeOK, ProxyInv, NEW x \in Action, Len(actions) < MaxActions,
           actions' = Append(actions, x), UNCHANGED <<proxyVars, resp>>
    PROVE  ProxyInv'
<1>1. Len(actions) \in Nat /\ Len(actions') = Len(actions) + 1 /\ Len(actions') <= MaxActions
  BY Added, Zenon
<1>2. last \in Nat
  BY Constants DEF TypeOK
<1>3. Len(actions') <= MaxActions /\ last' <= Len(actions')
  BY <1>1, <1>2 DEF ProxyInv, proxyVars
<1> QED BY <1>3, Zenon DEF ProxyInv, proxyVars

LEMMA RequestActions ==
    ASSUME TypeOK, LockInv, NEW c \in Callers, RequestStep(c)
    PROVE  \/ actions' = actions
           \/ \E x \in Action : Len(actions) < MaxActions /\ actions' = Append(actions, x)
<1>1. CASE Announce(c)
  <2> DEFINE x == [group |-> IF call[c].op = "remove_group" THEN NoGroup ELSE call[c].group,
                   slots |-> {}]
  <2>1. pc[c] # "idle" /\ Len(actions) < MaxActions /\ actions' = Append(actions, x)
    BY <1>1, Zenon DEF Announce, NewAction
  <2>2. call[c].group \in Groups
    BY <2>1, CallFields, Zenon DEF LockInv, Active
  <2>3. x \in Action
    BY <2>2, Zenon DEF Action
  <2> QED BY <2>1, <2>3, Zenon
<1>2. CASE ~Announce(c)
  BY Zenon, <1>2 DEF RequestStep, Create, ReadServers, WriteServer, SlaveOf, Promote, Demote, RemoveServer,
        CheckSlot, DeleteRecursive, SetSlotRange, SetSlot, Request
<1> QED BY <1>1, <1>2, Zenon

LEMMA RequestBase ==
    ASSUME Base, NEW c \in Callers, RequestStep(c)
    PROVE  Base'
<1>0. /\ TypeOK /\ LockInv /\ CallsInv /\ OneMaster /\ UseInv /\ TaskInv /\ ProxyInv
      /\ TaskTypes /\ ProxyTypes /\ LockTypes
  BY TypeParts, Zenon DEF Base
<1>m. Moved(c) /\ (pc'[c] # "idle" => CallInv(c)')
  BY <1>0, RequestMoves, Zenon
<1>f. UNCHANGED <<taskVars, proxyVars, resp>>
  BY RequestFrame, Zenon
<1>a. \A d \in Callers \ {c} : pc'[d] = "idle"
  BY <1>0, <1>m, Alone, Constants, Zenon DEF Moved, Rest
<1>1. TypeOK'
  <2>1. ZkTypes' /\ CallTypes'
    BY <1>0, RequestTypes, Zenon
  <2>2. TaskTypes' /\ ProxyTypes'
    BY <1>0, <1>f, Zenon DEF TaskTypes, ProxyTypes, taskVars, proxyVars
  <2>3. LockTypes'
    BY <1>0, <1>m, Locked, Zenon DEF Moved
  <2> QED BY <2>1, <2>2, <2>3, Zenon DEF TypeOK, ZkTypes, CallTypes, TaskTypes, ProxyTypes, LockTypes
<1>2. LockInv'
  BY <1>m, <1>a, Zenon DEF LockInv, Active, Moved
<1>3. CallsInv'
  BY <1>m, <1>a, Zenon DEF CallsInv, Active
<1>4. OneMaster'
  BY <1>0, RequestMasters DEF OneMaster, AtMostOne
<1>5. UseInv'
  BY <1>0, RequestUse, Zenon
<1>6. TaskInv'
  BY <1>0, <1>f, <1>m, Constants, Zenon DEF TaskInv, taskVars, Moved, Rest
<1>7. ProxyInv'
  <2>1. CASE actions' = actions
    BY <1>0, <1>f, <2>1, Zenon DEF ProxyInv, proxyVars
  <2>2. CASE actions' # actions
    <3>1. PICK x \in Action : Len(actions) < MaxActions /\ actions' = Append(actions, x)
      BY <1>0, <2>2, RequestActions, Zenon
    <3> QED BY <1>0, <1>f, <3>1, AddedInv, Zenon
  <2> QED BY <2>1, <2>2, Zenon
<1> QED BY <1>1, <1>2, <1>3, <1>4, <1>5, <1>6, <1>7, Zenon DEF Base

LEMMA ConfirmAbout ==
    ASSUME NEW c \in Callers, call[c] \in Calls
    PROVE  /\ About(c) \in Action
           /\ call[c].op # "range" => About(c).group = call[c].group
<1>1. call[c].group \in Groups /\ call[c].slots \subseteq Slots /\ c # Migrator
  BY CallFields, Constants, Zenon
<1> QED BY <1>1, Zenon DEF About, Action

\* What the requests and the group of a slot depend on when none of them begins.
LEMMA CalmInv ==
    ASSUME Base, UNCHANGED <<server, role, call, todo, group, slotInfo, posted, task>>,
           pc'[Migrator] = pc[Migrator],
           \A d \in Callers : pc'[d] \in {pc[d], "idle"} \/ (pc[d] = "notify" /\ pc'[d] = "wait")
    PROVE  CallsInv' /\ OneMaster' /\ UseInv'
<1>1. CallsInv'
  <2> SUFFICES ASSUME NEW d \in Callers, pc'[d] # "idle" PROVE CallInv(d)'
    BY Zenon DEF CallsInv, Active
  <2>1. CallInv(d)
    BY Zenon DEF Base, CallsInv, Active
  <2> QED BY <2>1, Zenon DEF CallInv, Recorded
<1>2. OneMaster' /\ UseInv'
  BY Zenon DEF Base, OneMaster, AtMostOne, UseInv
<1> QED BY <1>1, <1>2, Zenon

LEMMA ConfirmBase ==
    ASSUME Base, NEW c \in Callers, Confirmation(c)
    PROVE  Base'
<1>0. /\ TypeOK /\ LockInv /\ CallsInv /\ OneMaster /\ UseInv /\ TaskInv /\ ProxyInv /\ LockTypes
      /\ CallTypes
  BY TypeParts, Zenon DEF Base
<1>m. /\ Rest(c) /\ call[c] \in Calls /\ lock = {c} /\ pc[c] \in {"notify", "wait"}
      /\ UNCHANGED <<group, server, slotInfo, role, faults, taskVars>>
  BY <1>0, ConfirmMoves, Zenon
<1>a. \A d \in Callers \ {c} : pc'[d] = "idle"
  BY <1>0, <1>m, Alone, Constants, Zenon DEF Rest
<1>t. TypeOK'
  <2>1. ZkTypes' /\ CallTypes' /\ TaskTypes' /\ ProxyTypes' /\ lock' \in {lock, {}}
    BY <1>0, ConfirmTypes, Zenon
  <2>2. LockTypes'
    BY <1>0, <2>1, Locked, Zenon
  <2> QED BY <2>1, <2>2, Zenon DEF TypeOK, ZkTypes, CallTypes, TaskTypes, ProxyTypes, LockTypes
<1>k. TaskInv'
  BY <1>0, <1>m, Constants, Zenon DEF TaskInv, taskVars, Rest
<1>1. CASE pc'[c] = "wait"
  <2>1. /\ pc[c] = "notify" /\ call' = call /\ lock' = lock
        /\ Len(actions) < MaxActions /\ actions' = Append(actions, About(c))
        /\ UNCHANGED <<proxyVars, resp, todo>>
    <3>1. Return(c) => pc'[c] = "idle"
      BY <1>0, <1>m, ReturnMoves, Zenon
    <3> QED BY <1>0, <1>1, <3>1, ConfirmMoves, Zenon
  <2>2. ProxyInv'
    BY <1>0, <1>m, <2>1, AddedInv, ConfirmAbout, Zenon
  <2>3. CallsInv' /\ OneMaster' /\ UseInv'
    BY <1>m, <1>a, <1>1, <2>1, CalmInv, Constants, Zenon DEF taskVars, Rest
  <2>4. LockInv'
    BY <1>m, <1>a, <2>1, Zenon DEF LockInv, Active
  <2> QED BY <1>t, <1>k, <2>2, <2>3, <2>4, Zenon DEF Base
<1>2. CASE pc'[c] # "wait"
  <2>1. Return(c) /\ UNCHANGED <<actions, resp>>
        /\ (UNCHANGED proxyVars \/ Stop)
    BY <1>0, <1>2, ConfirmMoves, Zenon
  <2>2. ProxyInv'
    <3>1. CASE Stop
      BY <1>0, <2>1, <3>1, StopInv, Zenon
    <3>2. CASE UNCHANGED proxyVars
      BY <1>0, <2>1, <3>2, Zenon DEF ProxyInv, proxyVars
    <3> QED BY <2>1, <3>1, <3>2, Zenon
  <2>3. \A d \in Callers : pc'[d] = "idle"
    BY <1>0, <1>m, <1>a, <2>1, ReturnMoves, Zenon
  <2>4. CallsInv' /\ LockInv'
    BY <2>3, Zenon DEF CallsInv, LockInv, Active
  <2>5. OneMaster' /\ UseInv'
    BY <1>0, <1>m, <2>3, Constants, Zenon DEF OneMaster, AtMostOne, UseInv, taskVars, Rest
  <2> QED BY <1>t, <1>k, <2>2, <2>4, <2>5, Zenon DEF Base
<1> QED BY <1>1, <1>2, Zenon

LEMMA MigratorBase ==
    ASSUME Base, MigratorStep
    PROVE  Base'
<1>0. /\ TypeOK /\ LockInv /\ CallsInv /\ OneMaster /\ UseInv /\ TaskInv /\ ProxyInv
      /\ ZkTypes /\ ProxyTypes /\ LockTypes
  BY TypeParts, Zenon DEF Base
<1>m. /\ TaskFrame /\ UNCHANGED <<group, server, role, resp>>
      /\ \/ UNCHANGED <<proxyVars, fence>>
         \/ Stop /\ fence' = FALSE /\ UNCHANGED <<panicked, actions>>
      /\ \/ actions' = actions
         \/ About(Migrator) \in Action /\ Len(actions) < MaxActions
               /\ actions' = Append(actions, About(Migrator))
      /\ slotInfo' \in [Slots -> SlotInfo]
      /\ faults' = faults \/ Fault
      /\ task = {} /\ pc[Migrator] = "idle" => posted' > 0
  BY <1>0, MigratorMoves, Zenon
<1>1. TypeOK'
  <2>1. ProxyTypes'
    <3>1. CASE Stop /\ UNCHANGED panicked
      BY <1>0, <3>1, StopTypes, Zenon DEF ProxyTypes
    <3>2. CASE UNCHANGED proxyVars
      BY <1>0, <3>2, Zenon DEF ProxyTypes, proxyVars
    <3> QED BY <1>m, <3>1, <3>2, Zenon
  <2>2. actions' \in Seq(Action)
    BY <1>0, <1>m, Added, Zenon DEF ZkTypes
  <2>3. faults' \in 0 .. MaxFaults
    BY <1>0, <1>m, Constants DEF ZkTypes, Fault
  <2>4. ZkTypes'
    BY <1>0, <1>m, <2>2, <2>3, Zenon DEF ZkTypes
  <2>5. LockTypes'
    BY <1>0, <1>m, Zenon DEF LockTypes, TaskFrame
  <2> QED BY <1>m, <2>1, <2>4, <2>5, Zenon DEF TypeOK, ZkTypes, CallTypes, TaskTypes, ProxyTypes, LockTypes, TaskFrame
<1>2. LockInv' /\ TaskInv' /\ OneMaster'
  BY <1>0, <1>m, Zenon DEF LockInv, Active, OneMaster, AtMostOne, TaskFrame
<1>3. CallsInv'
  BY <1>0, <1>m, Zenon DEF CallsInv, CallInv, Recorded, Active, TaskFrame
<1>4. UseInv'
  <2>1. posted \in Nat /\ posted' \in {posted, posted + 1}
    BY <1>0, MigratorPosts, Constants DEF TypeOK
  <2>2. posted' # 0
    BY <1>0, <1>m, <2>1 DEF UseInv
  <2> QED BY <2>2, Zenon DEF UseInv
<1>5. ProxyInv'
  <2>1. CASE Stop /\ actions' = actions
    BY <1>0, <1>m, <2>1, StopInv, Zenon
  <2>2. CASE UNCHANGED proxyVars /\ actions' = actions
    BY <1>0, <1>m, <2>2, Zenon DEF ProxyInv, proxyVars
  <2>3. CASE UNCHANGED proxyVars /\ actions' # actions
    BY <1>0, <1>m, <2>3, AddedInv, Zenon
  <2> QED BY <1>m, <2>1, <2>2, <2>3, Zenon
<1> QED BY <1>1, <1>2, <1>3, <1>4, <1>5, Zenon DEF Base

LEMMA CrashBase ==
    ASSUME Base, DashboardCrash
    PROVE  Base' /\ (\A c \in Callers : pc'[c] = "idle") /\ faults' > 0
<1>0. /\ TypeOK /\ LockInv /\ CallsInv /\ OneMaster /\ UseInv /\ TaskInv /\ ProxyInv
  BY Zenon DEF Base
<1>1. /\ Fault /\ pc' = [c \in Procs |-> "idle"] /\ lock' = {}
      /\ call' = [c \in Callers |-> NoCall]
      /\ masters' = [c \in Callers |-> {}] /\ todo' = [c \in Callers |-> {}]
      /\ seq' = [c \in Procs |-> 0] /\ goal' = "none"
      /\ UNCHANGED <<group, server, slotInfo, actions, resp, fence, role, calls, task, cur, posted,
                     proxyVars>>
  BY Zenon DEF DashboardCrash
<1>2. faults' > 0 /\ faults' \in 0 .. MaxFaults
  BY <1>0, <1>1, Constants DEF TypeOK, Fault
<1>3. \A c \in Procs : pc'[c] = "idle"
  BY <1>1, Zenon
<1>4. TypeOK'
  <2>1. ZkTypes'
    BY <1>0, <1>1, <1>2, TypeParts, Zenon DEF ZkTypes
  <2>2. CallTypes'
    BY <1>0, <1>1, Constants, TypeParts DEF CallTypes, PCs
  <2>3. TaskTypes' /\ ProxyTypes'
    BY <1>0, <1>1, TypeParts, Zenon DEF TaskTypes, ProxyTypes, proxyVars
  <2>4. LockTypes'
    BY <1>0, <1>1, Locked, TypeParts, Zenon
  <2> QED BY <2>1, <2>2, <2>3, <2>4, Zenon DEF TypeOK, ZkTypes, CallTypes, TaskTypes, ProxyTypes, LockTypes
<1>5. LockInv' /\ CallsInv' /\ TaskInv' /\ OneMaster'
  BY <1>0, <1>1, <1>3, Constants, Zenon DEF LockInv, CallsInv, Active, TaskInv, OneMaster, AtMostOne
<1>6. UseInv' /\ ProxyInv'
  BY <1>0, <1>1, <1>3, Constants, Zenon DEF UseInv, ProxyInv, proxyVars
<1> QED BY <1>2, <1>3, <1>4, <1>5, <1>6, Constants, Zenon DEF Base

LEMMA ServeBase ==
    ASSUME Base, Serve
    PROVE  Base'
<1>1. UNCHANGED <<group, server, slotInfo, lock, actions, fence, role, callVars, taskVars, faults>>
  BY ServeFrame, Zenon
<1>2. ProxyTypes' /\ ProxyInv' /\ resp' \in SUBSET (1 .. MaxActions)
  BY ServeKeeps, Zenon DEF Base
<1>3. TypeOK'
  <2>1. ZkTypes' /\ LockTypes'
    BY <1>1, <1>2, TypeParts, Zenon DEF Base, ZkTypes, LockTypes
  <2>2. CallTypes' /\ TaskTypes'
    BY <1>1, TypeParts, Zenon DEF Base, CallTypes, TaskTypes, callVars, taskVars
  <2> QED BY <1>2, <2>1, <2>2, Zenon DEF TypeOK, ZkTypes, CallTypes, TaskTypes, ProxyTypes, LockTypes
<1>4. LockInv' /\ TaskInv'
  BY <1>1, Zenon DEF Base, LockInv, TaskInv, Active, callVars, taskVars
<1>5. CallsInv' /\ OneMaster' /\ UseInv'
  BY <1>1, CalmInv, Zenon DEF callVars, taskVars
<1> QED BY <1>2, <1>3, <1>4, <1>5, Zenon DEF Base

LEMMA StutterKeeps ==
    ASSUME GroupInv, UNCHANGED vars
    PROVE  GroupInv'
<1> USE DEF vars, zkVars, callVars, taskVars, proxyVars
<1>1. TypeOK'
  BY Zenon DEF GroupInv, TypeOK
<1>2. LockInv' /\ CallsInv' /\ OneMaster' /\ UseInv' /\ TaskInv' /\ ProxyInv'
  BY Zenon DEF GroupInv, LockInv, CallsInv, CallInv, Recorded, Active, OneMaster, AtMostOne, UseInv, TaskInv, ProxyInv
<1>3. PromoteInv'
  BY Zenon DEF GroupInv, PromoteInv, Noticed, Knows
<1>4. ListInv'
  BY Zenon DEF GroupInv, ListInv, Disturbs, Noticed
<1> QED BY <1>1, <1>2, <1>3, <1>4, Zenon DEF GroupInv

LEMMA RequestPromote ==
    ASSUME Base, NEW c \in Callers, RequestStep(c)
    PROVE  PromoteInv'
<1>1. Moved(c) /\ \A d \in Callers \ {c} : pc[d] = "idle"
  BY RequestMoves, Alone, Zenon DEF Base
<1>2. \A d \in Callers : pc'[d] # "wait"
  BY <1>1, Constants, Zenon DEF Moved, Rest
<1> QED BY <1>2, Zenon DEF PromoteInv

LEMMA ConfirmPromote ==
    ASSUME Base, NEW c \in Callers, Confirmation(c)
    PROVE  PromoteInv'
<1>0. TypeOK /\ LockInv /\ ProxyInv /\ CallTypes
  BY TypeParts, Zenon DEF Base
<1>m. Rest(c) /\ call[c] \in Calls /\ lock = {c}
  BY <1>0, ConfirmMoves, Zenon
<1>a. \A d \in Callers \ {c} : pc'[d] = "idle"
  BY <1>0, <1>m, Alone, Constants, Zenon DEF Rest
<1>r. Return(c) => pc'[c] = "idle"
  BY <1>0, <1>m, ReturnMoves, Zenon
<1>1. CASE pc'[c] = "wait"
  <2>1. /\ call' = call /\ Len(actions) < MaxActions /\ actions' = Append(actions, About(c))
        /\ seq'[c] = IF up THEN Len(actions) + 1 ELSE 0
        /\ up' = up /\ last' = last
    BY <1>0, <1>1, <1>r, ConfirmMoves, Zenon DEF proxyVars
  <2>2. About(c) \in Action /\ (call[c].op # "range" => About(c).group = call[c].group)
    BY <1>m, ConfirmAbout, Zenon
  <2>3. /\ Len(actions) \in Nat /\ Len(actions') = Len(actions) + 1
        /\ actions'[Len(actions')] = About(c)
    BY <1>0, <2>1, <2>2, Added, Zenon
  <2>4. last \in Nat /\ last <= Len(actions)
    BY <1>0, Constants DEF TypeOK, ProxyInv
  <2>5. (seq'[c] = 0 => ~up') /\ seq'[c] <= Len(actions') /\ ~Noticed(c)'
    BY <2>1, <2>3, <2>4 DEF Noticed
  <2>6. call'[c].op = "promote" /\ seq'[c] # 0 => actions'[seq'[c]].group = call'[c].group
    BY <2>1, <2>2, <2>3, Zenon
  <2> QED BY <1>a, <2>5, <2>6, Zenon DEF PromoteInv
<1>2. CASE pc'[c] # "wait"
  BY <1>a, <1>2, Zenon DEF PromoteInv
<1> QED BY <1>1, <1>2, Zenon

LEMMA MigratorPromote ==
    ASSUME Base, PromoteInv, MigratorStep
    PROVE  PromoteInv'
<1>m. /\ TaskFrame /\ resp' = resp
      /\ \/ UNCHANGED proxyVars
         \/ Stop
      /\ \/ actions' = actions
         \/ About(Migrator) \in Action /\ Len(actions) < MaxActions
               /\ actions' = Append(actions, About(Migrator))
  BY MigratorMoves, Zenon DEF Base
<1>l. Len(actions) \in Nat /\ Len(actions) <= Len(actions')
      /\ \A i \in 1 .. Len(actions) : actions'[i] = actions[i]
  <2>1. Len(actions) \in Nat
    BY Lengths, Zenon DEF Base, TypeOK
  <2> QED BY <1>m, <2>1, Added DEF Base
<1> SUFFICES ASSUME NEW c \in Callers, pc'[c] = "wait"
             PROVE  /\ seq'[c] = 0 => ~up'
                    /\ seq'[c] <= Len(actions')
                    /\ call'[c].op = "promote" /\ seq'[c] # 0 =>
                          actions'[seq'[c]].group = call'[c].group
                    /\ up' /\ call'[c].op = "promote" /\ Noticed(c)' => Knows(c)'
  BY Zenon DEF PromoteInv
<1>1. pc[c] = "wait" /\ seq'[c] = seq[c] /\ call' = call /\ seq[c] \in Nat
  BY <1>m, Constants DEF TaskFrame, Base, TypeOK
<1>2. /\ seq[c] = 0 => ~up
      /\ seq[c] <= Len(actions)
      /\ call[c].op = "promote" /\ seq[c] # 0 => actions[seq[c]].group = call[c].group
  BY <1>1, Zenon DEF PromoteInv
<1>3. /\ seq'[c] <= Len(actions')
      /\ call'[c].op = "promote" /\ seq'[c] # 0 => actions'[seq'[c]].group = call'[c].group
  BY <1>1, <1>2, <1>l
<1>4. CASE Stop
  BY <1>3, <1>4, Zenon DEF Stop
<1>5. CASE UNCHANGED proxyVars
  BY <1>m, <1>1, <1>2, <1>3, <1>5, Zenon DEF proxyVars, PromoteInv, Noticed, Knows
<1> QED BY <1>m, <1>4, <1>5, Zenon

LEMMA ServePromote ==
    ASSUME Base, PromoteInv, Serve
    PROVE  PromoteInv'
<1>0. TypeOK /\ ProxyInv /\ CallsInv /\ LockInv /\ ProxyTypes /\ ZkTypes
  BY TypeParts, Zenon DEF Base
<1>f. up /\ UNCHANGED <<server, actions, pc, call, seq>>
  BY ServeFrame, Zenon DEF callVars
<1> SUFFICES ASSUME NEW c \in Callers, pc[c] = "wait", call[c].op = "promote", up', Noticed(c)'
             PROVE  Knows(c)'
  BY <1>f, Zenon DEF PromoteInv
<1> DEFINE G == call[c].group
           A == call[c].addr
           Q == seq[c]
<1>c. G \in Groups /\ A \in Addrs /\ Master(server[G]) = {A}
  BY <1>0, CallFields, Zenon DEF LockInv, CallsInv, CallInv, Recorded, Active
<1>q. Q # 0 /\ Q \in Nat /\ Q <= Len(actions) /\ actions[Q].group = G
  BY <1>0, <1>f, Constants DEF PromoteInv, TypeOK
<1>k. Noticed(c) => Knows(c)
  BY <1>f, Zenon DEF PromoteInv
<1>p. ASSUME NEW why, Panic(why) PROVE FALSE
  BY <1>p, Zenon DEF Panic, Stop
<1>n. last' = last => Noticed(c)
  BY <1>f, Zenon DEF Noticed
<1> HIDE DEF G, A, Q
<1>G. call'[c].group = G /\ call'[c].addr = A /\ seq'[c] = Q
  BY <1>f, Zenon DEF G, A, Q
<1>K. Knows(c) <=>
        /\ found # <<>> /\ read.info.group = G => found[1] = A
        /\ want # <<>> /\ Head(want) = G => seen \subseteq {A}
        /\ Q = last \/ Q \in resp =>
              \A s \in Slots : groups[s] = G => route[s].addr = A \/ (s \in fill /\ Q \notin resp)
  BY Zenon DEF Knows, G, A, Q
<1>g. ASSUME found' # <<>> /\ read'.info.group = G => found'[1] = A,
             want' # <<>> /\ Head(want') = G => seen' \subseteq {A},
             Q = last' \/ Q \in resp' =>
               \A s \in Slots : groups'[s] = G => route'[s].addr = A \/ (s \in fill' /\ Q \notin resp')
      PROVE  Knows(c)'
  BY <1>G, <1>g, Zenon DEF Knows
<1>1. CASE ActionEvent
  <2>1. /\ last \in resp \cup {0} /\ last' = Len(actions)
        /\ fill' = actions[last'].slots \cup
                   {s \in Slots : groups[s] # NoGroup /\ groups[s] = actions[last'].group}
        /\ UNCHANGED <<resp, up, read, want, children, seen, found, route, groups, panicked>>
    BY <1>1, <1>f, Zenon DEF ActionEvent
  <2>2. fill = {} /\ read = NoRead /\ want = <<>> /\ found = <<>>
    BY <1>0, <2>1, Zenon DEF ProxyInv
  <2>3. Q \in resp => \A s \in Slots : groups[s] = G => route[s].addr = A
    <3>1. Q \in resp => Noticed(c)
      BY <1>0, Zenon DEF ProxyInv, Noticed, Q
    <3> QED BY <1>k, <1>K, <3>1, Zenon
  <2>4. Q = last' => \A s \in Slots : groups[s] = G => s \in fill'
    BY <1>c, <1>q, <2>1, Constants, Zenon
  <2> QED BY <1>g, <2>1, <2>2, <2>3, <2>4, Zenon
<1>2. ASSUME NEW s \in Slots, ReadSlot(s) PROVE Knows(c)'
  <2>1. read = NoRead /\ UNCHANGED <<resp, last, fill, seen, found, route, groups>>
    BY <1>2, Zenon DEF ReadSlot
  <2>2. found = <<>> /\ seen = {}
    BY <1>0, <2>1, Zenon DEF ProxyInv
  <2> QED BY <1>g, <1>k, <1>n, <1>K, <2>1, <2>2, Zenon
<1>3. CASE ListServers
  <2>1. UNCHANGED <<resp, last, fill, read, want, seen, found, route, groups>>
    BY <1>3, <1>p, ListServersCases, Zenon
  <2> QED BY <1>g, <1>k, <1>n, <1>K, <2>1, Zenon
<1>4. ASSUME NEW x \in Addrs, GetServer(x) PROVE Knows(c)'
  <2> DEFINE g == Head(want)
             now == seen \cup (IF server[g][x] = "master" THEN {x} ELSE {})
             m == CHOOSE y \in now : TRUE
  <2>1. x \in children /\ UNCHANGED <<resp, last, fill, read, route, groups>>
    BY <1>4, <1>p, GetServerCases, Zenon
  <2>2. want # <<>>
    BY <1>0, <2>1, Zenon DEF ProxyInv
  <2>3. /\ found # <<>> /\ read.info.group = G => found[1] = A
        /\ g = G => seen \subseteq {A}
        /\ Q = last \/ Q \in resp =>
              \A s \in Slots : groups[s] = G => route[s].addr = A \/ (s \in fill /\ Q \notin resp)
    BY <1>k, <1>n, <1>K, <2>1, <2>2, Zenon
  <2>4. g = G => now \subseteq {A}
    BY <1>c, <2>3, Zenon DEF Master
  <2>5. \/ /\ One(now) /\ found' = found \o <<m>> /\ seen' = {}
        \/ seen' = now /\ UNCHANGED <<want, found>>
    BY <1>4, <1>p, GetServerCases, Zenon
  <2>6. CASE seen' = now /\ UNCHANGED <<want, found>>
    BY <1>g, <2>1, <2>3, <2>4, <2>6, Zenon
  <2>7. CASE One(now) /\ found' = found \o <<m>> /\ seen' = {}
    <3>1. now # {}
      BY <2>7, Zenon DEF One
    <3>2. m \in now
      BY <3>1, Zenon
    <3> HIDE DEF now, m
    <3>3. found = <<>> /\ read.info.group = G => m = A
      <4>1. read # NoRead
        BY <1>0, <2>2, Zenon DEF ProxyInv
      <4>2. found = <<>> => g = read.info.group
        BY <1>0, <4>1, Zenon DEF ProxyInv
      <4> QED BY <2>4, <3>2, <4>2, Zenon
    <3>4. found \in Seq(Addrs)
      BY <1>0, Zenon DEF TypeOK
    <3>5. found'[1] = IF found = <<>> THEN m ELSE found[1]
      BY <2>7, <3>4
    <3>6. found' # <<>> /\ read.info.group = G => found'[1] = A
      BY <2>3, <3>3, <3>5, Zenon
    <3> QED BY <1>g, <2>1, <2>3, <2>7, <3>6, Zenon
  <2> QED BY <2>5, <2>6, <2>7, Zenon
<1>5. CASE FillSlot
  <2>1. /\ read # NoRead /\ want = <<>> /\ UNCHANGED <<resp, last, want>>
        /\ groups' = [groups EXCEPT ![read.slot] = read.info.group]
        /\ route' = [route EXCEPT ![read.slot] =
               [addr |-> found[1], from |-> IF Len(found) = 2 THEN found[2] ELSE NoAddr]]
        /\ fill' = fill \ {read.slot} /\ found' = <<>>
    BY <1>5, <1>p, FillSlotCases, Zenon
  <2>2. read.slot \in Slots /\ found # <<>>
    BY <1>0, <2>1, Zenon DEF ProxyTypes, ProxyInv
  <2>3. groups'[read.slot] = read.info.group /\ route'[read.slot].addr = found[1]
    BY <1>0, <2>1, <2>2, Zenon DEF ProxyTypes
  <2>4. \A s \in Slots : s # read.slot => groups'[s] = groups[s] /\ route'[s] = route[s]
                                            /\ (s \in fill => s \in fill')
    BY <1>0, <2>1, Zenon DEF ProxyTypes
  <2>5. Noticed(c) /\ Knows(c)
    BY <1>k, <1>n, <2>1, Zenon
  <2>6. ASSUME Q = last \/ Q \in resp, NEW s \in Slots, groups'[s] = G
        PROVE  route'[s].addr = A \/ (s \in fill' /\ Q \notin resp)
    <3>1. CASE s = read.slot
      BY <1>K, <2>2, <2>3, <2>5, <2>6, <3>1, Zenon
    <3>2. CASE s # read.slot
      BY <1>K, <2>4, <2>5, <2>6, <3>2, Zenon
    <3> QED BY <3>1, <3>2, Zenon
  <2> QED BY <1>g, <2>1, <2>6, Zenon
<1>6. CASE Respond
  <2>1. fill = {} /\ resp' = resp \cup {last} /\ UNCHANGED proxyVars
    BY <1>6, Zenon DEF Respond
  <2>2. last' = last
    BY <2>1, Zenon DEF proxyVars
  <2>3. Noticed(c) /\ Knows(c)
    BY <1>k, <1>n, <2>2, Zenon
  <2> QED BY <1>g, <1>K, <2>1, <2>2, <2>3, Zenon DEF proxyVars
<1> QED BY <1>1, <1>2, <1>3, <1>4, <1>5, <1>6, Zenon DEF Serve

LEMMA RequestFaults ==
    ASSUME NEW c \in Callers, RequestStep(c)
    PROVE  faults' = faults \/ Fault
BY Zenon DEF RequestStep, Create, Announce, ReadServers, WriteServer, SlaveOf, Promote, Demote, RemoveServer,
        CheckSlot, DeleteRecursive, SetSlotRange, SetSlot, Request

LEMMA NoFault ==
    ASSUME TypeOK, faults' = faults \/ Fault, faults' = 0
    PROVE  faults = 0
BY Constants DEF TypeOK, Fault

LEMMA RequestList ==
    ASSUME Base, ListInv, NEW c \in Callers, RequestStep(c)
    PROVE  ListInv'
<1>0. TypeOK /\ LockInv /\ CallsInv /\ OneMaster /\ ProxyInv
  BY Zenon DEF Base
<1>1. UNCHANGED <<up, last, want, children, seen>> /\ pc[c] \notin {"notify", "wait"}
  BY RequestFrame, Zenon DEF proxyVars
<1> SUFFICES ASSUME up, faults' = 0, children # {}
             PROVE  \/ Master(server'[Head(want)]) = {} \/ (\E d \in Callers : Disturbs(d, Head(want))')
                    \/ /\ Master(server'[Head(want)]) \subseteq children \cup seen
                       /\ seen \subseteq Master(server'[Head(want)])
  BY <1>1, Zenon DEF ListInv
<1> DEFINE g == Head(want)
<1>2. g \in Groups
  BY <1>0, Zenon DEF ProxyInv
<1>3. faults = 0
  BY <1>0, RequestFaults, NoFault, Zenon
<1>4. \A d \in Callers : ~Disturbs(d, g)
  BY <1>0, <1>1, Alone, Zenon DEF Disturbs
<1>5. \/ Master(server[g]) = {}
      \/ Master(server[g]) \subseteq children \cup seen /\ seen \subseteq Master(server[g])
  BY <1>3, <1>4, Zenon DEF ListInv
<1>6. \/ Master(server'[g]) = {}
      \/ Master(server'[g]) = Master(server[g])
      \/ pc'[c] = "notify" /\ call'[c].group = g /\ call'[c].op \in {"promote", "add_server"}
  BY <1>0, <1>2, RequestMasters, Zenon
<1> QED BY <1>1, <1>5, <1>6, Zenon DEF Disturbs

LEMMA ConfirmList ==
    ASSUME Base, PromoteInv, ListInv, NEW c \in Callers, Confirmation(c)
    PROVE  ListInv'
<1>0. TypeOK /\ LockInv /\ ProxyInv /\ CallTypes
  BY TypeParts, Zenon DEF Base
<1>1. /\ lock = {c} /\ server' = server /\ faults' = faults
      /\ \/ /\ pc[c] = "notify" /\ pc'[c] = "wait" /\ call' = call
            /\ seq'[c] = IF up THEN Len(actions) + 1 ELSE 0
            /\ UNCHANGED proxyVars
         \/ pc[c] = "wait" /\ Confirmed(c) /\ UNCHANGED proxyVars
         \/ ~up /\ UNCHANGED proxyVars
         \/ Stop
  BY <1>0, ConfirmMoves, Zenon
<1>2. CASE Stop \/ (~up /\ UNCHANGED proxyVars)
  BY <1>2, Zenon DEF ListInv, Stop, proxyVars
<1>a. \A d \in Callers \ {c} : \A g : ~Disturbs(d, g)
  BY <1>0, Alone, Zenon DEF Disturbs
<1>3. CASE pc[c] = "notify" /\ pc'[c] = "wait" /\ call' = call /\ UNCHANGED proxyVars
             /\ seq'[c] = IF up THEN Len(actions) + 1 ELSE 0
  <2>1. last \in Nat /\ Len(actions) \in Nat /\ last <= Len(actions)
    BY <1>0, Constants, Lengths DEF TypeOK, ProxyInv
  <2>2. ~Noticed(c)'
    BY <1>3, <2>1 DEF Noticed, proxyVars
  <2>3. \A g : Disturbs(c, g) => Disturbs(c, g)'
    BY <1>3, <2>2, Zenon DEF Disturbs
  <2>4. \A g : (\E d \in Callers : Disturbs(d, g)) => (\E d \in Callers : Disturbs(d, g)')
    BY <1>a, <2>3, Zenon
  <2> QED BY <1>1, <1>3, <2>4, Zenon DEF ListInv, proxyVars
<1>4. CASE pc[c] = "wait" /\ Confirmed(c) /\ UNCHANGED proxyVars
  <2>1. up => Noticed(c)
    BY <1>0, <1>4, Zenon DEF Confirmed, PromoteInv, ProxyInv, Noticed
  <2>2. up => \A g : \A d \in Callers : ~Disturbs(d, g)
    BY <1>a, <1>4, <2>1, Zenon DEF Disturbs
  <2> QED BY <1>1, <1>4, <2>2, Zenon DEF ListInv, proxyVars
<1> QED BY <1>1, <1>2, <1>3, <1>4, Zenon

LEMMA MigratorList ==
    ASSUME Base, ListInv, MigratorStep
    PROVE  ListInv'
<1>1. /\ TaskFrame /\ server' = server /\ (UNCHANGED proxyVars \/ Stop)
      /\ (faults' = faults \/ Fault)
  BY MigratorMoves, Zenon DEF Base
<1>2. faults' = 0 => faults = 0
  BY <1>1, NoFault, Zenon DEF Base
<1>3. CASE Stop
  BY <1>3, Zenon DEF ListInv, Stop
<1>4. CASE UNCHANGED proxyVars
  <2>1. \A g : \A d \in Callers : Disturbs(d, g) => Disturbs(d, g)'
    BY <1>1, <1>4, Zenon DEF Disturbs, Noticed, TaskFrame, proxyVars
  <2> QED BY <1>1, <1>2, <1>4, <2>1, Zenon DEF ListInv, proxyVars
<1> QED BY <1>1, <1>3, <1>4, Zenon

LEMMA ServeList ==
    ASSUME Base, ListInv, Serve
    PROVE  ListInv'
<1>0. TypeOK /\ ProxyInv
  BY Zenon DEF Base
<1>f. up /\ UNCHANGED <<server, actions, pc, call, seq, faults>>
  BY ServeFrame, Zenon DEF callVars
<1>e. CASE ~up' \/ children' = {}
  BY <1>e, Zenon DEF ListInv
<1>d. last' = last => \A g : \A d \in Callers : Disturbs(d, g) => Disturbs(d, g)'
  BY <1>f, Zenon DEF Disturbs, Noticed
<1>p. ASSUME NEW why, Panic(why) PROVE ListInv'
  BY <1>p, Zenon DEF Panic, Stop, ListInv
<1>1. CASE ActionEvent
  <2>1. last \in resp \cup {0} /\ children' = children
    BY <1>1, Zenon DEF ActionEvent
  <2> QED BY <1>0, <1>e, <2>1, Zenon DEF ProxyInv
<1>2. ASSUME NEW s \in Slots, ReadSlot(s) PROVE ListInv'
  <2>1. read = NoRead /\ children' = children
    BY <1>2, Zenon DEF ReadSlot
  <2> QED BY <1>0, <1>e, <2>1, Zenon DEF ProxyInv
<1>3. CASE ListServers
  <2>1. CASE \E why \in {"group", "master"} : Panic(why)
    BY <1>p, <2>1, Zenon
  <2>2. CASE ~\E why \in {"group", "master"} : Panic(why)
    <3>1. /\ children' = {a \in Addrs : server[Head(want)][a] # "none"}
          /\ want' = want /\ seen' = {}
      BY <1>3, <2>2, ListServersCases, Zenon
    <3>2. Master(server[Head(want)]) \subseteq children'
      BY <3>1, Zenon DEF Master
    <3> QED BY <1>f, <3>1, <3>2, Zenon DEF ListInv
  <2> QED BY <2>1, <2>2, Zenon
<1>4. ASSUME NEW x \in Addrs, GetServer(x) PROVE ListInv'
  <2> DEFINE g == Head(want)
             now == seen \cup (IF server[g][x] = "master" THEN {x} ELSE {})
  <2>1. CASE \E why \in {"group", "master"} : Panic(why)
    BY <1>p, <2>1, Zenon
  <2>2. CASE ~\E why \in {"group", "master"} : Panic(why)
    <3>1. x \in children
          /\ (children' = {} \/ (children' = children \ {x} /\ seen' = now /\ UNCHANGED <<want, up, last>>))
      BY <1>4, <2>2, GetServerCases, Zenon
    <3>2. CASE children' = {}
      BY <1>e, <3>2, Zenon
    <3>3. CASE children' = children \ {x} /\ seen' = now /\ UNCHANGED <<want, up, last>>
      <4>1. x \in Master(server[g]) <=> server[g][x] = "master"
        BY Zenon DEF Master
      <4>2. faults = 0 => Master(server[g]) = {} \/ (\E d \in Callers : Disturbs(d, g)')
                             \/ (Master(server[g]) \subseteq children \cup seen /\ seen \subseteq Master(server[g]))
        BY <1>f, <1>d, <3>1, <3>3, Zenon DEF ListInv
      <4>3. faults = 0 => Master(server[g]) = {} \/ (\E d \in Callers : Disturbs(d, g)')
                             \/ (Master(server[g]) \subseteq children' \cup seen' /\ seen' \subseteq Master(server[g]))
        BY <3>3, <4>1, <4>2, Zenon
      <4> QED BY <1>f, <3>3, <4>3, Zenon DEF ListInv
    <3> QED BY <3>1, <3>2, <3>3, Zenon
  <2> QED BY <2>1, <2>2, Zenon
<1>5. CASE FillSlot
  <2>1. CASE Panic("same")
    BY <1>p, <2>1, Zenon
  <2>2. CASE ~Panic("same")
    <3>1. want = <<>> /\ children' = children
      BY <1>5, <2>2, FillSlotCases, Zenon
    <3> QED BY <1>0, <1>e, <3>1, Zenon DEF ProxyInv
  <2> QED BY <2>1, <2>2, Zenon
<1>6. CASE Respond
  <2>1. UNCHANGED proxyVars
    BY <1>6, Zenon DEF Respond
  <2> QED BY <1>f, <1>d, <2>1, Zenon DEF ListInv, proxyVars
<1> QED BY <1>1, <1>2, <1>3, <1>4, <1>5, <1>6, Zenon DEF Serve

-----------------------------------------------------------------------------
LEMMA GroupInit ==
    ASSUME Init
    PROVE  GroupInv
<1>1. PICK owner \in Owners :
        /\ slotInfo = [s \in Slots |->
              [group |-> owner[s], status |-> IF owner[s] = NoGroup THEN "offline" ELSE "online",
               from |-> NoGroup]]
        /\ route = [s \in Slots |->
              IF owner[s] = NoGroup THEN NoRoute
              ELSE [addr |-> CHOOSE a \in Master(Servers[owner[s]]) : TRUE, from |-> NoAddr]]
        /\ groups = owner
  BY Zenon DEF Init
<1>2. owner \in [Slots -> Groups \cup {NoGroup}]
      /\ \A s \in Slots : owner[s] # NoGroup => Master(Servers[owner[s]]) # {}
  BY GroupsAssumption, MastersAssumption, Zenon
<1>3. /\ group = {g \in Groups : \E a \in Addrs : Servers[g][a] # "none"}
      /\ server = Servers /\ Servers \in [Groups -> [Addrs -> Types \cup {"none"}]]
      /\ lock = {} /\ actions = <<>> /\ resp = {} /\ fence = TRUE
      /\ pc = [c \in Procs |-> "idle"]
      /\ call = [c \in Callers |-> NoCall]
      /\ masters = [c \in Callers |-> {}] /\ todo = [c \in Callers |-> {}]
      /\ seq = [c \in Procs |-> 0]
      /\ task = {} /\ cur = slotInfo[1] /\ goal = "none"
      /\ calls = 0 /\ posted = 0 /\ faults = 0
      /\ up = TRUE /\ last = 0 /\ fill = {} /\ read = NoRead /\ want = <<>>
      /\ children = {} /\ seen = {} /\ found = <<>>
      /\ panicked = "no"
  BY GroupsAssumption, Zenon DEF Init
<1>4. TypeOK
  <2>1. slotInfo \in [Slots -> SlotInfo] /\ cur \in SlotInfo
    <3>1. \A s \in Slots : slotInfo[s] \in SlotInfo
      BY <1>1, <1>2, Zenon DEF SlotInfo, Status
    <3>2. 1 \in Slots
      BY Constants DEF Slots
    <3> QED BY <1>1, <1>3, <3>1, <3>2, Zenon
  <2>2. route \in [Slots -> [addr : Addrs \cup {NoAddr}, from : Addrs \cup {NoAddr}]]
    <3>1. \A s \in Slots : owner[s] # NoGroup => (CHOOSE a \in Master(Servers[owner[s]]) : TRUE) \in Addrs
      BY <1>2, Zenon DEF Master
    <3>2. \A s \in Slots : route[s] \in [addr : Addrs \cup {NoAddr}, from : Addrs \cup {NoAddr}]
      BY <1>1, <3>1, Zenon DEF NoRoute
    <3> QED BY <1>1, <3>2, Zenon
  <2>3. role \in [Addrs -> Addrs \cup {NoAddr}]
    <3> DEFINE G(a) == {g \in Groups : Servers[g][a] = "slave"}
               r(a) == IF G(a) = {} THEN NoAddr
                       ELSE CHOOSE m \in Master(Servers[CHOOSE g \in G(a) : TRUE]) : TRUE
    <3>1. role = [a \in Addrs |-> r(a)]
      BY Zenon DEF Init
    <3>2. ASSUME NEW a \in Addrs PROVE r(a) \in Addrs \cup {NoAddr}
      <4>1. CASE G(a) # {}
        <5>1. PICK g \in G(a) : g = CHOOSE h \in G(a) : TRUE
          BY <4>1, Zenon
        <5>2. g \in Groups /\ Servers[g][a] # "none"
          BY Zenon
        <5>3. PICK m \in Addrs : Master(Servers[g]) = {m}
          BY <5>2, MastersAssumption, Zenon
        <5>4. r(a) = m
          BY <4>1, <5>1, <5>3, Zenon
        <5> QED BY <5>4, Zenon
      <4>2. CASE G(a) = {}
        BY <4>2, Zenon
      <4> QED BY <4>1, <4>2, Zenon
    <3> HIDE DEF r
    <3> QED BY <3>1, <3>2, Zenon
  <2>4. ZkTypes
    BY <1>3, <2>1, <2>3, Constants DEF ZkTypes
  <2>5. CallTypes
    BY <1>3, Constants DEF CallTypes, PCs
  <2>6. TaskTypes
    BY <1>3, <2>1, Constants DEF TaskTypes
  <2>7. ProxyTypes
    <3>1. groups \in [Slots -> Groups \cup {NoGroup}]
      BY <1>1, <1>2, Zenon
    <3>2. want \in Seq(Groups \cup {NoGroup}) /\ found \in Seq(Addrs) /\ last \in 0 .. MaxActions
      BY <1>3, Constants
    <3>3. up \in BOOLEAN /\ panicked \in {"no", "group", "master", "same"}
      BY <1>3, Zenon
    <3>4. /\ fill \in SUBSET Slots /\ read \in [slot : Slots, info : SlotInfo] \cup {NoRead}
          /\ children \in SUBSET Addrs /\ seen \in SUBSET Addrs
      BY <1>3, Zenon
    <3> QED BY <2>2, <3>1, <3>2, <3>3, <3>4, Zenon DEF ProxyTypes
  <2>8. LockTypes
    BY <1>3, Zenon DEF LockTypes, AtMostOne
  <2> QED BY <2>4, <2>5, <2>6, <2>7, <2>8, TypeParts, Zenon
<1>5. LockInv /\ CallsInv /\ TaskInv /\ PromoteInv
  BY <1>3, Constants, Zenon DEF LockInv, CallsInv, Active, TaskInv, PromoteInv
<1>6. OneMaster
  <2> SUFFICES ASSUME NEW g \in Groups, NEW a \in Master(Servers[g]), NEW b \in Master(Servers[g])
               PROVE  a = b
    BY <1>3, Zenon DEF OneMaster, AtMostOne
  <2>1. a \in Addrs /\ Servers[g][a] # "none"
    BY Zenon DEF Master
  <2> QED BY <2>1, MastersAssumption
<1>7. UseInv
  <2>1. ASSUME NEW s \in Slots PROVE owner[s] \in group \cup {NoGroup}
    BY <1>2, <1>3, Zenon DEF Master
  <2>2. \A s \in Slots : slotInfo[s].group = owner[s] /\ slotInfo[s].from = NoGroup
    BY <1>1, Zenon
  <2> QED BY <1>3, <2>1, <2>2, Constants, Zenon DEF UseInv
<1>8. ProxyInv /\ ListInv
  BY <1>3, Constants DEF ProxyInv, ListInv
<1> QED BY <1>4, <1>5, <1>6, <1>7, <1>8, Zenon DEF GroupInv

LEMMA GroupStep ==
    ASSUME GroupInv, [Next]_vars
    PROVE  GroupInv'
<1>0. Base /\ PromoteInv /\ ListInv
  BY Zenon DEF GroupInv, Base
<1>1. ASSUME NEW c \in Callers, RequestStep(c) PROVE GroupInv'
  BY <1>0, <1>1, RequestBase, RequestPromote, RequestList, Zenon DEF GroupInv, Base
<1>2. ASSUME NEW c \in Callers, Confirmation(c) PROVE GroupInv'
  BY <1>0, <1>2, ConfirmBase, ConfirmPromote, ConfirmList, Zenon DEF GroupInv, Base
<1>3. CASE MigratorStep
  BY <1>0, <1>3, MigratorBase, MigratorPromote, MigratorList, Zenon DEF GroupInv, Base
<1>4. CASE DashboardCrash
  <2>1. Base' /\ (\A c \in Callers : pc'[c] = "idle") /\ faults' # 0
    BY <1>0, <1>4, CrashBase
  <2>2. PromoteInv' /\ ListInv'
    BY <2>1, Zenon DEF PromoteInv, ListInv
  <2> QED BY <2>1, <2>2, Zenon DEF GroupInv, Base
<1>5. CASE Serve
  BY <1>0, <1>5, ServeBase, ServePromote, ServeList, Zenon DEF GroupInv, Base
<1>6. CASE UNCHANGED vars
  BY <1>6, StutterKeeps, Zenon
<1> QED BY <1>1, <1>2, <1>3, <1>4, <1>5, <1>6, Kinds, Zenon

\* All of the above holds always, in every interleaving of requests, migrate task, proxy
\* and crashes of the dashboard.
THEOREM GroupsAlways == Spec => []GroupInv
BY GroupInit, GroupStep, PTL DEF Spec

\* The masters recorded for a group are at most one in every state: AddServer and Promote
\* write a master only while no other is recorded and keep the lock until they have.
THEOREM MasterUnique == Spec => []OneMaster
<1>1. ASSUME GroupInv PROVE OneMaster
  BY <1>1, Zenon DEF GroupInv
<1> QED BY <1>1, GroupsAlways, PTL

\* ServerGroup.Remove and SetSlotRange leave no slot in a group that does not exist, as
\* long as there is no migrate task.
THEOREM UsedGroupsExist == Spec => []UsedGroupExists
<1>1. ASSUME GroupInv PROVE UsedGroupExists
  BY <1>1, Zenon DEF GroupInv, UseInv, UsedGroupExists
<1> QED BY <1>1, GroupsAlways, PTL

\* apiPromoteServer reports success only when the server is the master of the group, it
\* replicates nobody, and the proxy sends it the requests for all slots of the group.
THEOREM PromotionsDone == Spec => PromoteDone
<1>1. ASSUME GroupInv, NEW c \in Callers, pc[c] = "wait", call[c].op = "promote", Confirmed(c)
      PROVE  /\ Master(server[call[c].group]) = {call[c].addr}
             /\ role[call[c].addr] = NoAddr
             /\ up => \A s \in Slots :
                         groups[s] = call[c].group => route[s].addr = call[c].addr
  <2>1. Master(server[call[c].group]) = {call[c].addr} /\ role[call[c].addr] = NoAddr
    BY <1>1, Zenon DEF GroupInv, CallsInv, CallInv, Recorded, Active
  <2>2. up => seq[c] \in resp
    BY <1>1, Zenon DEF GroupInv, PromoteInv, Confirmed
  <2>3. up => Knows(c)
    BY <1>1, <2>2, Zenon DEF GroupInv, PromoteInv, ProxyInv, Noticed
  <2> QED BY <2>1, <2>2, <2>3, Zenon DEF Knows
<1>2. ASSUME GroupInv
      PROVE  \A c \in Callers :
               pc[c] = "wait" /\ pc'[c] = "idle" /\ call[c].op = "promote" /\ Confirmed(c)
                  /\ faults' = faults =>
                  /\ Master(server[call[c].group]) = {call[c].addr}
                  /\ role[call[c].addr] = NoAddr
                  /\ up => \A s \in Slots :
                              groups[s] = call[c].group => route[s].addr = call[c].addr
  BY <1>1, <1>2, Zenon
<1> QED BY <1>2, GroupsAlways, PTL DEF PromoteDone

\* A proxy panics on groupMaster's assertion, with a master recorded and before any fault,
\* only while a promotion of the group or the adding of a server to it is going on.
THEOREM MissesExplained == Spec => MasterMissed
<1>1. ASSUME GroupInv, NEW c \in Callers, NEW g, Disturbs(c, g)
      PROVE  call[c] # NoCall /\ call[c].group = g /\ call[c].op \in {"promote", "add_server"}
  BY <1>1, CallFields, Zenon DEF GroupInv, LockInv, Active, Disturbs
<1>2. ASSUME GroupInv, Next, panicked = "no", panicked' = "master"
      PROVE  Serve
  <2>0. TypeOK /\ LockInv /\ TaskInv /\ ProxyInv
    BY <1>2, Zenon DEF GroupInv
  <2>1. ASSUME NEW c \in Callers, RequestStep(c) PROVE FALSE
    BY <1>2, <2>1, RequestFrame, Zenon DEF proxyVars
  <2>2. ASSUME NEW c \in Callers, Confirmation(c) PROVE FALSE
    BY <1>2, <2>0, <2>2, ConfirmMoves, Zenon DEF proxyVars
  <2>3. CASE MigratorStep
    BY <1>2, <2>0, <2>3, MigratorMoves, Zenon DEF proxyVars
  <2>4. CASE DashboardCrash
    BY <1>2, <2>4, Zenon DEF DashboardCrash, proxyVars
  <2>5. CASE UNCHANGED vars
    BY <1>2, <2>5, Zenon DEF vars, proxyVars
  <2> QED BY <1>2, <2>1, <2>2, <2>3, <2>4, <2>5, Kinds, Zenon
<1>3. ASSUME GroupInv, Serve, panicked = "no", panicked' = "master", faults = 0,
             Master(server[Head(want)]) # {}
      PROVE  \E c \in Callers : Disturbs(c, Head(want))
  <2> DEFINE g == Head(want)
  <2>1. CASE ListServers
    <3>1. \A a \in Addrs : server[g][a] = "none"
      BY <1>3, <2>1, ListServersCases, Zenon DEF Panic
    <3> QED BY <1>3, <3>1, Zenon DEF Master
  <2>2. ASSUME NEW x \in Addrs, GetServer(x) PROVE \E c \in Callers : Disturbs(c, g)
    <3> DEFINE now == seen \cup (IF server[g][x] = "master" THEN {x} ELSE {})
    <3>1. children = {x} /\ ~One(now) /\ up
      BY <1>3, <2>2, GetServerCases, ServeFrame, Zenon DEF Panic
    <3>2. CASE Master(server[g]) \subseteq children \cup seen /\ seen \subseteq Master(server[g])
      <4>1. x \in Master(server[g]) <=> server[g][x] = "master"
        BY Zenon DEF Master
      <4>2. now = Master(server[g])
        BY <3>1, <3>2, <4>1, Zenon
      <4>3. g \in Groups
        BY <1>3, <3>1, Zenon DEF GroupInv, ProxyInv
      <4>4. \A a, b \in Master(server[g]) : a = b
        BY <1>3, <4>3, Zenon DEF GroupInv, OneMaster, AtMostOne
      <4>5. PICK a \in Master(server[g]) : TRUE
        BY <1>3, Zenon
      <4>6. now = {a}
        BY <4>2, <4>4, <4>5, Zenon
      <4> HIDE DEF now
      <4> QED BY <3>1, <4>6, Zenon DEF One, AtMostOne
    <3> QED BY <1>3, <3>1, <3>2, Zenon DEF GroupInv, ListInv
  <2>3. CASE ActionEvent \/ FillSlot \/ Respond \/ \E s \in Slots : ReadSlot(s)
    <3>1. panicked' \in {panicked, "same"}
      BY <2>3, FillSlotCases, Zenon DEF ActionEvent, Respond, ReadSlot, Panic, proxyVars
    <3> QED BY <1>3, <3>1, Zenon
  <2> QED BY <1>3, <2>1, <2>2, <2>3, Zenon DEF Serve
<1>4. ASSUME GroupInv, [Next]_vars
      PROVE  [panicked = "no" /\ panicked' = "master" /\ faults = 0 =>
                LET g == Head(want) IN
                Master(server[g]) # {} =>
                   \E c \in Callers : call[c] # NoCall /\ call[c].group = g
                                        /\ call[c].op \in {"promote", "add_server"}]_vars
  <2> SUFFICES ASSUME Next, panicked = "no", panicked' = "master", faults = 0,
                      Master(server[Head(want)]) # {}
               PROVE  \E c \in Callers : call[c] # NoCall /\ call[c].group = Head(want)
                                           /\ call[c].op \in {"promote", "add_server"}
    BY <1>4, Zenon
  <2>1. PICK c \in Callers : Disturbs(c, Head(want))
    BY <1>2, <1>3, <1>4, Zenon
  <2> QED BY <1>1, <1>4, <2>1, Zenon
<1> QED BY <1>4, GroupsAlways, PTL DEF Spec, MasterMissed
=============================================================================
