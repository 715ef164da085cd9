------------------------- MODULE SlotMigrationProofs -------------------------
(***************************************************************************)
(* The migration of slots, for any number of slots, groups, proxies,       *)
(* tasks, actions, starts and faults.                                      *)
(*                                                                         *)
(* What a proxy knows of a slot (View) only changes to what the dashboard  *)
(* has written.  So after a write the proxies that have not taken it over  *)
(* can only become fewer, and while the dashboard waits they are receivers *)
(* that have not answered (AckInv): the fences make sure that there are no *)
(* others.  That is why every proxy has the slot locked when the new group *)
(* is written, and at any time the routes that are not locked lead to the  *)
(* group that is written, and to the source of the keys (RouteInv).        *)
(***************************************************************************)
EXTENDS SlotMigration, TLAPS

\* The routes that p uses for s, will use when it has filled all its slots, or is
\* about to put into its router.
Holds(p, s) == serving[p] \/ (ppc[p] = "fill" /\ s \notin todo[p])
View(p, s) ==
    {r \in Routes : \/ Holds(p, s) /\ r = route[p][s]
                    \/ read[p].slot = s /\ r = RouteOf(read[p].info)}
\* All that p knows of s is what the dashboard has written last.
Current(p, s) == View(p, s) \subseteq {RouteOf(slotInfo[s])}

\* A route that does no harm while the slot is i: it is locked, or it leads to the
\* group that is written and, while the slot migrates, pulls the keys from its source.
Harmless(r, i) ==
    ~r.locked => r.backend = i.group /\ (i.status = "migrate" => r.from = i.from)

\* A slot that is not online is the one of the task at the head.
SlotsInv ==
    \A s \in Slots :
        /\ slotInfo[s].status # "migrate" => slotInfo[s].from = NoGroup /\ slotInfo[s].to = NoGroup
        /\ slotInfo[s].status # "online" => tasks # <<>> /\ here = s
        /\ slotInfo[s].status = "pre_migrate" => slotInfo[s].group # task.to
        /\ slotInfo[s].status = "migrate" =>
              /\ slotInfo[s].group = task.to /\ slotInfo[s].to = task.to
              /\ slotInfo[s].from \notin {task.to, NoGroup}

\* What the dashboard knows of that slot at each step of the task.
Written(status) ==
    /\ goal = "pre_migrate" => status = "pre_migrate"
    /\ goal = "migrate" => status = "migrate"
    /\ goal \in {"online", "rollback"} => status = "online"
TaskInv ==
    /\ dpc # "idle" => tasks # <<>>
    /\ dpc \notin {"idle", "finish"} => goal # "none" /\ cur = slotInfo[here]
    /\ dpc = "write" =>
          /\ goal = "pre_migrate" => cur.status # "migrate" /\ cur.group # task.to
          /\ goal = "migrate" => cur.status # "online"
          /\ goal = "online" => cur.status = "migrate"
          /\ goal = "rollback" => cur.status = "pre_migrate"
    /\ dpc \in {"list", "info", "create", "wait", "mark", "down"} => Written(cur.status)
    /\ dpc = "migrate" => goal = "online" /\ cur.status = "migrate"
    /\ dpc = "finish" => slotInfo[here].status = "online"

\* A proxy has a fence from before it reads the slots until it leaves.
Local(p) ==
    /\ read[p] # NoRead => ppc[p] \in {"fill", "refill"} /\ read[p].slot \in todo[p]
    /\ serving[p] => ppc[p] \in {"loop", "refill", "unfence", "unregister", "close"}
    /\ ppc[p] \in {"wait_online", "watch_proxy", "watch_actions", "fill", "loop", "refill",
                   "unfence"} => p \in fence
ProxyInv ==
    \A p \in Proxies : Local(p) /\ \A s \in Slots : \A r \in View(p, s) : r.backend \in Groups
ActionInv ==
    /\ Len(actions) <= MaxActions
    /\ \A p \in Proxies : last[p] <= Len(actions) /\ (ppc[p] = "refill" => 0 < last[p])

\* Once the fences have been checked, a proxy that has not taken over what was written
\* is a receiver that has not answered; one that is about to answer has read it.
AckAbout(h) ==
    /\ dpc = "create" => \A p \in fence : Current(p, h) \/ p \in Ids(recv)
    /\ dpc = "wait" =>
          /\ 0 < seq /\ seq <= Len(actions) /\ actions[seq].about = h
          /\ \A p \in fence : Current(p, h) \/ (p \in pending /\ p \notin actions[seq].resp)
          /\ \A p \in Proxies : ppc[p] = "refill" /\ last[p] = seq =>
                /\ read[p].slot = h => RouteOf(read[p].info) = RouteOf(slotInfo[h])
                /\ h \in todo[p] \/ Current(p, h)
    /\ dpc = "write" /\ goal = "migrate" /\ cur.status = "pre_migrate" =>
          \A p \in fence : Current(p, h)
AckInv == \A h \in Slots : h = here => AckAbout(h)

RouteInv == \A p \in fence, s \in Slots : \A r \in View(p, s) : Harmless(r, slotInfo[s])

\* The keys of a slot are in its group and its source, and when the migration is
\* about to be ended no longer in its source.
KeyInv ==
    ~stray =>
        /\ \A s \in Slots : keys[s] \subseteq {slotInfo[s].group, slotInfo[s].from}
        /\ dpc = "write" /\ goal = "online" => keys[here] \subseteq {cur.group}

MigrationInv ==
    TypeOK /\ SlotsInv /\ TaskInv /\ ProxyInv /\ ActionInv /\ AckInv /\ RouteInv /\ KeyInv

-----------------------------------------------------------------------------
\* What the proofs use of sequences.
LEMMA Lengths ==
    ASSUME NEW S, NEW s \in Seq(S)
    PROVE  /\ Len(s) \in Nat /\ \A i \in 1 .. Len(s) : s[i] \in S
           /\ s # <<>> => Head(s) \in S /\ Tail(s) \in Seq(S)
OBVIOUS
LEMMA Appends ==
    ASSUME NEW S, NEW s \in Seq(S), NEW x \in S
    PROVE  /\ Append(s, x) \in Seq(S) /\ Len(Append(s, x)) = Len(s) + 1
           /\ Append(s, x)[Len(s) + 1] = x /\ \A i \in 1 .. Len(s) : Append(s, x)[i] = s[i]
           /\ Append(s, x) # <<>> /\ (s # <<>> => Head(Append(s, x)) = Head(s))
<1>1. /\ Append(s, x) \in Seq(S) /\ Len(Append(s, x)) = Len(s) + 1 /\ Len(s) \in Nat
      /\ Append(s, x)[Len(s) + 1] = x /\ \A i \in 1 .. Len(s) : Append(s, x)[i] = s[i]
  OBVIOUS
<1>2. Append(s, x) # <<>>
  BY <1>1
<1>3. ASSUME s # <<>> PROVE Head(Append(s, x)) = Head(s)
  <2>1. 1 \in 1 .. Len(s)
    BY <1>3
  <2> QED BY <1>1, <1>2, <2>1
<1> QED BY <1>1, <1>2, <1>3, Zenon
LEMMA Replaced ==
    ASSUME NEW S, NEW s \in Seq(S), NEW n \in 1 .. Len(s), NEW x \in S
    PROVE  /\ [s EXCEPT ![n] = x] \in Seq(S) /\ Len([s EXCEPT ![n] = x]) = Len(s)
           /\ [s EXCEPT ![n] = x][n] = x
           /\ \A i \in 1 .. Len(s) : i # n => [s EXCEPT ![n] = x][i] = s[i]
OBVIOUS

LEMMA Constants ==
    /\ NoGroup \notin Groups /\ NoSlot \notin Slots /\ Slots \cap Groups = {}
    /\ MaxTasks \in Nat /\ MaxActions \in Nat /\ MaxStarts \in Nat /\ MaxFaults \in Nat
BY NoValueAssumption, BoundsAssumption, Zenon

LEMMA Infos ==
    \A i \in SlotInfo :
        /\ i.group \in Groups /\ i.status \in Statuses
        /\ i.from \in Groups \cup {NoGroup} /\ i.to \in Groups \cup {NoGroup}
        /\ RouteOf(i) \in Routes /\ Harmless(RouteOf(i), i)
        /\ RouteOf(i).backend \in Groups
        /\ i.status = "pre_migrate" => RouteOf(i).locked
BY Zenon DEF SlotInfo, Routes, RouteOf, Harmless

LEMMA ReadFields ==
    /\ NoRead.slot \notin Slots
    /\ \A x \in Reads : x # NoRead => x.slot \in Slots /\ x.info \in SlotInfo
BY Constants, Zenon DEF Reads, NoRead

\* TypeOK in four parts.
ZkTypes ==
    /\ slotInfo \in [Slots -> SlotInfo] /\ node \in [Proxies -> Nodes]
    /\ fence \in SUBSET Proxies /\ actions \in Seq(Actions) /\ tasks \in Seq(Tasks)
DashTypes ==
    /\ dpc \in DashPCs /\ goal \in {"none", "pre_migrate", "migrate", "online", "rollback"}
    /\ cur \in SlotInfo /\ recv \in SUBSET Incarnations /\ pending \in SUBSET Proxies
    /\ seq \in 0 .. MaxActions /\ target \in SUBSET Proxies
ProxyTypes ==
    /\ ppc \in [Proxies -> ProxyPCs] /\ starts \in [Proxies -> Nat]
    /\ todo \in [Proxies -> SUBSET Slots] /\ read \in [Proxies -> Reads]
    /\ last \in [Proxies -> 0 .. MaxActions]
    /\ watch \in [Proxies -> {"off", "armed", "fired"}]
    /\ pwatch \in [Proxies -> {"off", "armed", "fired"}]
    /\ route \in [Proxies -> [Slots -> Routes]]
    /\ serving \in [Proxies -> BOOLEAN] /\ killed \in [Proxies -> BOOLEAN]
DataTypes ==
    /\ keys \in [Slots -> SUBSET Groups] /\ stray \in BOOLEAN
    /\ granted \in SUBSET Incarnations /\ posted \in 0 .. MaxTasks /\ faults \in 0 .. MaxFaults

LEMMA TypeParts == TypeOK <=> ZkTypes /\ DashTypes /\ ProxyTypes /\ DataTypes
BY Zenon DEF TypeOK, ZkTypes, DashTypes, ProxyTypes, DataTypes

LEMMA TaskFields ==
    ASSUME ZkTypes, tasks # <<>>
    PROVE  task \in Tasks /\ here \in Slots /\ task.to \in Groups
<1>1. Head(tasks) \in Tasks
  BY Lengths, Zenon DEF ZkTypes
<1> QED BY <1>1, Zenon DEF task, here, Tasks

\* The slot as it is written is a slot.
LEMMA UpdatedType ==
    ASSUME ZkTypes, DashTypes, TaskInv, dpc = "write"
    PROVE  Updated \in SlotInfo
<1>1. /\ goal \in {"pre_migrate", "migrate", "online", "rollback"}
      /\ task.to \in Groups /\ cur \in SlotInfo /\ fromGroup(cur) \in Groups \cup {NoGroup}
  BY TaskFields, Infos, Zenon DEF TaskInv, DashTypes, fromGroup
<1>2. ASSUME NEW x \in Statuses PROVE [cur EXCEPT !.status = x] \in SlotInfo
  BY <1>1, <1>2, Zenon DEF SlotInfo
<1>3. CASE goal = "pre_migrate"
  BY <1>2, <1>3, Zenon DEF Updated, Statuses
<1>4. CASE goal = "migrate"
  <2>1. Updated = [group |-> task.to, status |-> "migrate", from |-> fromGroup(cur), to |-> task.to]
    BY <1>4, Zenon DEF Updated
  <2> QED BY <1>1, <2>1, Zenon DEF SlotInfo, Statuses
<1>5. CASE goal = "online"
  <2>1. Updated = Online(cur.group) /\ cur.group \in Groups
    BY <1>1, <1>5, Infos, Zenon DEF Updated
  <2> QED BY <2>1, Zenon DEF Online, SlotInfo, Statuses
<1>6. CASE goal = "rollback"
  BY <1>2, <1>6, Zenon DEF Updated, Statuses
<1> QED BY <1>1, <1>3, <1>4, <1>5, <1>6, Zenon

\* The action that names the receivers is an action.
LEMMA NewActionTypes ==
    ASSUME ZkTypes, ProxyTypes, NEW about \in Slots \cup Groups, NEW receivers \in SUBSET Incarnations,
           NewAction(about, receivers)
    PROVE  /\ ZkTypes' /\ ProxyTypes' /\ Len(actions) < MaxActions
           /\ Len(actions') = Len(actions) + 1 /\ Len(actions) \in Nat
           /\ actions'[Len(actions) + 1].about = about /\ actions'[Len(actions) + 1].resp = {}
           /\ \A n \in 1 .. Len(actions) : actions'[n] = actions[n]
<1>1. [about |-> about, receivers |-> receivers, resp |-> {}] \in Actions
  BY Zenon DEF Actions
<1>2. /\ actions' \in Seq(Actions) /\ Len(actions') = Len(actions) + 1
      /\ actions'[Len(actions) + 1] = [about |-> about, receivers |-> receivers, resp |-> {}]
      /\ \A n \in 1 .. Len(actions) : actions'[n] = actions[n]
  BY <1>1, Appends DEF NewAction, ZkTypes
<1>3. watch' \in [Proxies -> {"off", "armed", "fired"}]
  BY Zenon DEF NewAction, ProxyTypes, Fire
<1> QED BY <1>2, <1>3, Lengths DEF NewAction, ZkTypes, ProxyTypes

LEMMA SetNodeTypes ==
    ASSUME ZkTypes, ProxyTypes, NEW p \in Proxies, NEW inc \in Nat,
           NEW state \in {"none", "offline", "online", "mark_offline"}, SetNode(p, state, inc)
    PROVE  ZkTypes' /\ ProxyTypes'
<1>1. node' \in [Proxies -> Nodes]
  BY Zenon DEF SetNode, ZkTypes, Nodes
<1>2. pwatch' \in [Proxies -> {"off", "armed", "fired"}]
  BY Zenon DEF SetNode, ProxyTypes, Fire
<1> QED BY <1>1, <1>2, Zenon DEF SetNode, ZkTypes, ProxyTypes

LEMMA FailTypes ==
    ASSUME ZkTypes, DashTypes, tasks # <<>>, Fail
    PROVE  DashTypes'
<1>1. slotInfo[here] \in SlotInfo
  BY TaskFields, Zenon DEF ZkTypes
<1>2. 0 \in 0 .. MaxActions
  BY Constants
<1> QED BY <1>1, <1>2, Zenon DEF Fail, DashTypes, DashPCs

LEMMA FaultType == ASSUME DataTypes, Fault PROVE faults' \in 0 .. MaxFaults
BY Constants DEF DataTypes, Fault

LEMMA GoneTypes == ASSUME ProxyTypes, NEW p \in Proxies, Gone(p) PROVE ProxyTypes'
<1>1. 0 \in 0 .. MaxActions /\ NoRead \in Reads /\ [s \in Slots |-> NoRoute] \in [Slots -> Routes]
  <2>1. 0 \in 0 .. MaxActions
    BY Constants
  <2>2. NoRead \in Reads /\ NoRoute \in Routes
    BY Zenon DEF Reads, NoRoute, Routes
  <2> QED BY <2>1, <2>2, Zenon
<1> QED BY <1>1, Zenon DEF Gone, Goto, ProxyTypes, ProxyPCs

-----------------------------------------------------------------------------
\* Steps of the dashboard that change nothing but what it keeps to itself.
DashAlone ==
    \/ NextTask \/ ListProxies \/ CheckFence \/ Poll \/ Timeout \/ ProxyDown \/ ReceiverTimeout
    \/ MigrateError \/ DashboardCrash \/ \E p \in Proxies : GetProxyInfo(p)
\* Steps of the process of a proxy, or of ZooKeeper with it.
ProxyMove(p) == ProxyStep(p) \/ Start(p) \/ Kill(p) \/ Crash(p) \/ Expire(p)

LEMMA NextCases ==
    ASSUME Next
    PROVE  \/ DashAlone \/ Update \/ CreateAction \/ MigrateDone \/ MigrateSome \/ UpdateFinish
           \/ RemoveFence
           \/ \E p \in Proxies : MarkOffline(p) \/ GrantOnline(p) \/ AdminOffline(p) \/ ProxyMove(p)
           \/ \E s \in Slots, g \in Groups : PostTask(s, g)
           \/ \E g \in Groups : GroupAction(g)
           \/ \E x \in granted : SetOnline(x)
           \/ \E p \in Proxies, s \in Slots : ClientWrite(p, s)
BY Zenon DEF Next, DashboardStep, DashAlone, ProxyMove

\* The steps that leave what the task knows and writes as it is.
LEMMA DashFrame ==
    ASSUME DashAlone
    PROVE  UNCHANGED <<zkVars, proxyVars, dataVars, granted, posted>>
<1>1. ASSUME NEW p \in Proxies, GetProxyInfo(p) PROVE UNCHANGED <<zkVars, proxyVars, dataVars, granted, posted>>
  BY <1>1, Zenon DEF GetProxyInfo
<1> QED BY <1>1, Zenon DEF DashAlone, NextTask, ListProxies, CheckFence, Poll, Timeout, ProxyDown,
                           ReceiverTimeout, MigrateError, DashboardCrash

LEMMA MoveFrame ==
    ASSUME NEW p \in Proxies, ProxyMove(p)
    PROVE  UNCHANGED <<slotInfo, tasks, dashVars, dataVars, granted, posted>>
<1>1. CASE ProxyStep(p)
  <2>1. ASSUME NEW s \in Slots, FillRead(p, s) PROVE Elsewhere
    BY <2>1, Zenon DEF FillRead
  <2>2. CASE RegisterNode(p) \/ RegisterFence(p) \/ WaitOnline(p) \/ RewatchProxy(p) \/ RewatchNodes(p)
    BY <2>2, Zenon DEF RegisterNode, RegisterFence, WaitOnline, RewatchProxy, RewatchNodes, Elsewhere
  <2>3. CASE FillSlot(p) \/ Serve(p) \/ ActionEvent(p) \/ Respond(p) \/ ProxyEvent(p) \/ KillEvent(p)
    BY <2>3, Zenon DEF FillSlot, Serve, ActionEvent, Respond, ProxyEvent, KillEvent, Elsewhere
  <2>4. CASE Unfence(p) \/ Unregister(p) \/ Close(p) \/ Panic(p)
    BY <2>4, Zenon DEF Unfence, Unregister, Close, Panic, Elsewhere
  <2> QED BY <1>1, <2>1, <2>2, <2>3, <2>4, Zenon DEF ProxyStep, Elsewhere
<1>2. CASE Start(p) \/ Kill(p) \/ Crash(p) \/ Expire(p)
  BY <1>2, Zenon DEF Start, Kill, Crash, Expire, Elsewhere
<1> QED BY <1>1, <1>2, Zenon DEF ProxyMove

\* The two outcomes of an event of the actions.
LEMMA EventCases ==
    ASSUME NEW p \in Proxies, ActionEvent(p)
    PROVE  \/ todo' = todo /\ ppc' = ppc
           \/ /\ last[p] < Len(actions) /\ Goto(p, "refill")
              /\ todo' = [todo EXCEPT ![p] =
                            {s \in Slots : actions[Len(actions)].about \in {s, route[p][s].backend}}]
BY Zenon DEF ActionEvent

LEMMA OtherFrame ==
    ASSUME \/ RemoveFence \/ (\E g \in Groups : GroupAction(g)) \/ (\E x \in granted : SetOnline(x))
           \/ \E p \in Proxies : GrantOnline(p) \/ AdminOffline(p)
    PROVE  UNCHANGED <<slotInfo, tasks, dashVars, dataVars, posted>>
<1>1. CASE RemoveFence
  BY <1>1, Zenon DEF RemoveFence
<1>2. ASSUME NEW g \in Groups, GroupAction(g) PROVE UNCHANGED <<slotInfo, tasks, dashVars, dataVars, posted>>
  BY <1>2, Zenon DEF GroupAction, NewAction
<1>3. ASSUME NEW x \in granted, SetOnline(x) PROVE UNCHANGED <<slotInfo, tasks, dashVars, dataVars, posted>>
  BY <1>3, Zenon DEF SetOnline, SetNode, zkVars
<1>4. ASSUME NEW p \in Proxies, GrantOnline(p) \/ AdminOffline(p)
      PROVE  UNCHANGED <<slotInfo, tasks, dashVars, dataVars, posted>>
  BY <1>4, Zenon DEF GrantOnline, AdminOffline, SetNode, zkVars
<1> QED BY <1>1, <1>2, <1>3, <1>4, Zenon

-----------------------------------------------------------------------------
\* Types.
LEMMA DashTypesStep ==
    ASSUME TypeOK, TaskInv, DashAlone
    PROVE  TypeOK'
<1>0. ZkTypes /\ DashTypes /\ ProxyTypes /\ DataTypes
  BY TypeParts, Zenon
<1>1. UNCHANGED <<zkVars, proxyVars, dataVars, granted, posted>>
  BY DashFrame, Zenon
<1>2. ZkTypes' /\ ProxyTypes'
  BY <1>0, <1>1, Zenon DEF zkVars, proxyVars, ZkTypes, ProxyTypes
<1>z. 0 \in 0 .. MaxActions
  BY Constants
<1>3. DashTypes'
  <2>0. /\ tasks # <<>> => slotInfo[here] \in SlotInfo
        /\ tasks # <<>> /\ Fail => DashTypes'
    BY <1>0, TaskFields, FailTypes, Zenon DEF ZkTypes
  <2>1. CASE NextTask
    BY <1>0, <2>0, <2>1, Zenon DEF NextTask, DashTypes, DashPCs
  <2>2. CASE ListProxies \/ Timeout \/ ProxyDown \/ DashboardCrash
    BY <1>0, <1>z, <2>2, Zenon DEF ListProxies, Timeout, ProxyDown, DashboardCrash, DashTypes, DashPCs
  <2>3. CASE CheckFence \/ ReceiverTimeout \/ MigrateError
    BY <1>0, <2>0, <2>3, Zenon DEF CheckFence, ReceiverTimeout, MigrateError, DashTypes, DashPCs, TaskInv
  <2>4. ASSUME NEW p \in Proxies, GetProxyInfo(p) PROVE DashTypes'
    <3>1. CASE Fail
      BY <2>0, <2>4, <3>1, Zenon DEF GetProxyInfo, TaskInv
    <3>2. CASE ~Fail
      <4>1. node[p].inc \in Nat
        BY <1>0, Zenon DEF ZkTypes, Nodes
      <4>2. recv' \in SUBSET Incarnations
        BY <1>0, <2>4, <3>2, <4>1 DEF GetProxyInfo, DashTypes, Incarnations
      <4> QED BY <1>0, <2>4, <3>2, <4>2, Zenon DEF GetProxyInfo, DashTypes
    <3> QED BY <3>1, <3>2, Zenon
  <2>5. CASE Poll
    <3>1. CASE pending \subseteq actions[seq].resp
      <4>1. Confirmed /\ goal \in {"pre_migrate", "migrate", "online", "rollback"}
        BY <1>0, <2>5, <3>1, Zenon DEF Poll, TaskInv, DashTypes
      <4>2. dpc' \in DashPCs /\ goal' \in {"none", "migrate", "online"}
        BY <4>1, Zenon DEF Confirmed, DashPCs
      <4> QED BY <1>0, <1>z, <4>1, <4>2, Zenon DEF Confirmed, DashTypes
    <3>2. CASE ~(pending \subseteq actions[seq].resp)
      BY <1>0, <2>5, <3>2, Zenon DEF Poll, DashTypes
    <3> QED BY <3>1, <3>2, Zenon
  <2> QED BY <2>1, <2>2, <2>3, <2>4, <2>5, Zenon DEF DashAlone
<1>4. DataTypes'
  <2>1. faults' = faults \/ Fault
    <3>1. ASSUME NEW p \in Proxies, GetProxyInfo(p) PROVE faults' = faults
      BY <3>1, Zenon DEF GetProxyInfo
    <3> QED BY <3>1, Zenon DEF DashAlone, NextTask, ListProxies, CheckFence, Poll, Timeout, ProxyDown,
                               ReceiverTimeout, MigrateError, DashboardCrash
  <2>2. faults' \in 0 .. MaxFaults
    BY <1>0, <2>1, FaultType, Zenon DEF DataTypes
  <2> QED BY <1>0, <1>1, <2>2, Zenon DEF DataTypes, dataVars
<1> QED BY <1>2, <1>3, <1>4, Zenon DEF TypeOK, ZkTypes, DashTypes, ProxyTypes, DataTypes

LEMMA MoveTypes ==
    ASSUME TypeOK, ActionInv, NEW p \in Proxies, ProxyMove(p)
    PROVE  TypeOK'
<1>0. ZkTypes /\ DashTypes /\ ProxyTypes /\ DataTypes
  BY TypeParts, Zenon
<1>1. UNCHANGED <<slotInfo, tasks, dashVars, dataVars, granted, posted>>
  BY MoveFrame, Zenon
<1>2. DashTypes'
  BY <1>0, <1>1, Zenon DEF dashVars, DashTypes
<1>3. fence' \in SUBSET Proxies
  <2>1. ASSUME NEW s \in Slots, FillRead(p, s) PROVE fence' = fence
    BY <2>1, Zenon DEF FillRead
  <2>2. CASE RegisterFence(p) \/ Unfence(p)
    BY <1>0, <2>2, Zenon DEF RegisterFence, Unfence, ZkTypes
  <2>3. CASE RegisterNode(p) \/ WaitOnline(p) \/ RewatchProxy(p) \/ RewatchNodes(p) \/ FillSlot(p) \/ Serve(p)
    BY <1>0, <2>3, Zenon DEF RegisterNode, WaitOnline, RewatchProxy, RewatchNodes, FillSlot, Serve, ZkTypes
  <2>4. CASE ActionEvent(p) \/ Respond(p) \/ ProxyEvent(p) \/ KillEvent(p) \/ Unregister(p) \/ Close(p) \/ Panic(p)
    BY <1>0, <2>4, Zenon DEF ActionEvent, Respond, ProxyEvent, KillEvent, Unregister, Close, Panic, ZkTypes
  <2>5. CASE Start(p) \/ Kill(p) \/ Crash(p) \/ Expire(p)
    BY <1>0, <2>5, Zenon DEF Start, Kill, Crash, Expire, ZkTypes
  <2> QED BY <1>0, <2>1, <2>2, <2>3, <2>4, <2>5, Zenon DEF ProxyMove, ProxyStep, ZkTypes
<1>4. node' \in [Proxies -> Nodes]
  <2>0. NoNode \in Nodes /\ [state |-> "offline", inc |-> starts[p]] \in Nodes
    BY <1>0, Zenon DEF NoNode, Nodes, ProxyTypes
  <2>1. ASSUME NEW s \in Slots, FillRead(p, s) PROVE node' = node
    BY <2>1, Zenon DEF FillRead
  <2>2. CASE RegisterNode(p) \/ Unregister(p) \/ Expire(p)
    BY <1>0, <2>0, <2>2, Zenon DEF RegisterNode, Unregister, Expire, ZkTypes
  <2>3. CASE RegisterFence(p) \/ WaitOnline(p) \/ RewatchProxy(p) \/ RewatchNodes(p) \/ FillSlot(p) \/ Serve(p)
    BY <1>0, <2>3, Zenon DEF RegisterFence, WaitOnline, RewatchProxy, RewatchNodes, FillSlot, Serve, ZkTypes
  <2>4. CASE ActionEvent(p) \/ Respond(p) \/ ProxyEvent(p) \/ KillEvent(p) \/ Unfence(p) \/ Close(p) \/ Panic(p)
    BY <1>0, <2>4, Zenon DEF ActionEvent, Respond, ProxyEvent, KillEvent, Unfence, Close, Panic, ZkTypes
  <2>5. CASE Start(p) \/ Kill(p) \/ Crash(p)
    BY <1>0, <2>5, Zenon DEF Start, Kill, Crash, ZkTypes
  <2> QED BY <1>0, <2>1, <2>2, <2>3, <2>4, <2>5, Zenon DEF ProxyMove, ProxyStep, ZkTypes
<1>5. CASE Respond(p)
  <2>1. last[p] \in 1 .. Len(actions) /\ Len(actions) \in Nat
    BY <1>0, <1>5, Lengths DEF Respond, ActionInv, ZkTypes, ProxyTypes
  <2>2. actions[last[p]] \in Actions
    BY <1>0, <2>1, Lengths, Zenon DEF ZkTypes
  <2>3. [actions[last[p]] EXCEPT !.resp = @ \cup {p}] \in Actions
    BY <2>2, Zenon DEF Actions
  <2>4. actions' = [actions EXCEPT ![last[p]] = [actions[last[p]] EXCEPT !.resp = @ \cup {p}]]
    BY <1>5, Zenon DEF Respond
  <2>5. actions' \in Seq(Actions)
    BY <1>0, <2>1, <2>3, <2>4, Replaced, Zenon DEF ZkTypes
  <2>6. ZkTypes'
    BY <1>0, <1>1, <1>3, <1>4, <2>5, Zenon DEF ZkTypes
  <2>7. ProxyTypes'
    BY <1>0, <1>5, Zenon DEF Respond, Goto, ProxyTypes, ProxyPCs
  <2>8. DataTypes'
    BY <1>0, <1>1, <1>5, Zenon DEF Respond, DataTypes, dataVars
  <2> QED BY <1>2, <2>6, <2>7, <2>8, Zenon DEF TypeOK, ZkTypes, DashTypes, ProxyTypes, DataTypes
<1>6. CASE ~Respond(p)
  <2>0. \A s \in Slots : FillRead(p, s) => actions' = actions /\ faults' = faults
    BY Zenon DEF FillRead
  <2>1. actions' = actions
    <3>1. CASE RegisterNode(p) \/ RegisterFence(p) \/ WaitOnline(p) \/ RewatchProxy(p) \/ RewatchNodes(p) \/ FillSlot(p)
      BY <3>1, Zenon DEF RegisterNode, RegisterFence, WaitOnline, RewatchProxy, RewatchNodes, FillSlot
    <3>2. CASE Serve(p) \/ ActionEvent(p) \/ ProxyEvent(p) \/ KillEvent(p) \/ Unfence(p) \/ Unregister(p)
      BY <3>2, Zenon DEF Serve, ActionEvent, ProxyEvent, KillEvent, Unfence, Unregister
    <3>3. CASE Close(p) \/ Panic(p) \/ Start(p) \/ Kill(p) \/ Crash(p) \/ Expire(p)
      BY <3>3, Zenon DEF Close, Panic, Start, Kill, Crash, Expire
    <3> QED BY <1>6, <2>0, <3>1, <3>2, <3>3, Zenon DEF ProxyMove, ProxyStep
  <2>2. ZkTypes'
    BY <1>0, <1>1, <1>3, <1>4, <2>1, Zenon DEF ZkTypes
  <2>3. faults' = faults \/ Fault
    <3>1. CASE RegisterNode(p) \/ RegisterFence(p) \/ WaitOnline(p) \/ RewatchProxy(p) \/ RewatchNodes(p) \/ FillSlot(p)
      BY <3>1, Zenon DEF RegisterNode, RegisterFence, WaitOnline, RewatchProxy, RewatchNodes, FillSlot
    <3>2. CASE Serve(p) \/ ActionEvent(p) \/ ProxyEvent(p) \/ KillEvent(p) \/ Unfence(p) \/ Unregister(p)
      BY <3>2, Zenon DEF Serve, ActionEvent, ProxyEvent, KillEvent, Unfence, Unregister
    <3>3. CASE Close(p) \/ Panic(p) \/ Start(p) \/ Kill(p) \/ Crash(p) \/ Expire(p)
      BY <3>3, Zenon DEF Close, Panic, Start, Kill, Crash, Expire
    <3> QED BY <1>6, <2>0, <3>1, <3>2, <3>3, Zenon DEF ProxyMove, ProxyStep
  <2>4. DataTypes'
    <3>1. faults' \in 0 .. MaxFaults
      BY <1>0, <2>3, FaultType, Zenon DEF DataTypes
    <3> QED BY <1>0, <1>1, <3>1, Zenon DEF DataTypes, dataVars
  <2>5. ProxyTypes'
    <3>1. CASE Close(p) \/ Panic(p) \/ Crash(p)
      BY <1>0, <3>1, GoneTypes, Zenon DEF Close, Panic, Crash
    <3>2. CASE RegisterNode(p)
      BY <1>0, <3>2, GoneTypes, Zenon DEF RegisterNode, Goto, ProxyTypes, ProxyPCs
    <3>3. CASE RegisterFence(p) \/ WaitOnline(p) \/ RewatchProxy(p)
      BY <1>0, <3>3, Zenon DEF RegisterFence, WaitOnline, RewatchProxy, Goto, ProxyTypes, ProxyPCs
    <3>4. CASE RewatchNodes(p) \/ Serve(p) \/ ProxyEvent(p)
      <4>1. CASE RewatchNodes(p)
        BY <1>0, <4>1, Zenon DEF RewatchNodes, Goto, ProxyTypes, ProxyPCs
      <4>2. CASE Serve(p)
        <5>1. serving' \in [Proxies -> BOOLEAN]
          BY <1>0, <4>2, Zenon DEF Serve, ProxyTypes
        <5> QED BY <1>0, <4>2, <5>1, Zenon DEF Serve, Goto, ProxyTypes, ProxyPCs
      <4>3. CASE ProxyEvent(p)
        <5>1. pwatch' \in [Proxies -> {"off", "armed", "fired"}] /\ ppc' \in [Proxies -> ProxyPCs]
          BY <1>0, <4>3, Zenon DEF ProxyEvent, Goto, ProxyTypes, ProxyPCs
        <5> QED BY <1>0, <4>3, <5>1, Zenon DEF ProxyEvent, ProxyTypes
      <4> QED BY <3>4, <4>1, <4>2, <4>3, Zenon
    <3>5. CASE KillEvent(p) \/ Unfence(p) \/ Unregister(p) \/ Kill(p)
      BY <1>0, <3>5, Zenon DEF KillEvent, Unfence, Unregister, Kill, Goto, ProxyTypes, ProxyPCs
    <3>6. CASE Expire(p)
      BY <1>0, <3>6, Zenon DEF Expire, proxyVars, ProxyTypes
    <3>7. CASE Start(p)
      <4>1. starts' \in [Proxies -> Nat]
        BY <1>0, <3>7 DEF Start, ProxyTypes
      <4> QED BY <1>0, <3>7, <4>1, Zenon DEF Start, Goto, ProxyTypes, ProxyPCs
    <3>8. ASSUME NEW s \in Slots, FillRead(p, s) PROVE ProxyTypes'
      <4>1. [slot |-> s, info |-> slotInfo[s]] \in Reads
        BY <1>0, Zenon DEF Reads, ZkTypes
      <4> QED BY <1>0, <3>8, <4>1, Zenon DEF FillRead, ProxyTypes
    <3>9. CASE FillSlot(p)
      <4>1. read[p].slot \in Slots /\ RouteOf(read[p].info) \in Routes /\ NoRead \in Reads
        BY <1>0, <3>9, ReadFields, Infos, Zenon DEF FillSlot, ProxyTypes, Reads
      <4>2. route' \in [Proxies -> [Slots -> Routes]]
        BY <1>0, <3>9, <4>1, Zenon DEF FillSlot, ProxyTypes
      <4>3. todo' \in [Proxies -> SUBSET Slots] /\ read' \in [Proxies -> Reads]
        BY <1>0, <3>9, <4>1, Zenon DEF FillSlot, ProxyTypes
      <4> QED BY <1>0, <3>9, <4>2, <4>3, Zenon DEF FillSlot, ProxyTypes
    <3>10. CASE ActionEvent(p)
      <4>1. Len(actions) \in 0 .. MaxActions
        BY <1>0, Constants, Lengths DEF ActionInv, ZkTypes
      <4>2. last' \in [Proxies -> 0 .. MaxActions]
        BY <1>0, <3>10, <4>1, Zenon DEF ActionEvent, ProxyTypes
      <4>3. todo' \in [Proxies -> SUBSET Slots] /\ ppc' \in [Proxies -> ProxyPCs]
        <5>1. CASE todo' = todo /\ ppc' = ppc
          BY <1>0, <5>1, Zenon DEF ProxyTypes
        <5>2. ASSUME NEW T \in SUBSET Slots, Goto(p, "refill"), todo' = [todo EXCEPT ![p] = T]
              PROVE  todo' \in [Proxies -> SUBSET Slots] /\ ppc' \in [Proxies -> ProxyPCs]
          BY <1>0, <5>2, Zenon DEF Goto, ProxyTypes, ProxyPCs
        <5>3. {s \in Slots : actions[Len(actions)].about \in {s, route[p][s].backend}} \in SUBSET Slots
          BY Zenon
        <5> QED BY <3>10, <5>1, <5>2, <5>3, EventCases, Zenon
      <4> QED BY <1>0, <3>10, <4>2, <4>3, Zenon DEF ActionEvent, ProxyTypes
    <3> QED BY <1>6, <3>1, <3>2, <3>3, <3>4, <3>5, <3>6, <3>7, <3>8, <3>9, <3>10, Zenon DEF ProxyMove, ProxyStep
  <2> QED BY <1>2, <2>2, <2>4, <2>5, Zenon DEF TypeOK, ZkTypes, DashTypes, ProxyTypes, DataTypes
<1> QED BY <1>5, <1>6, Zenon

LEMMA TypeStep ==
    ASSUME TypeOK, SlotsInv, TaskInv, ProxyInv, ActionInv, Next
    PROVE  TypeOK'
<1>0. ZkTypes /\ DashTypes /\ ProxyTypes /\ DataTypes
  BY TypeParts, Zenon
<1>p. SUFFICES ASSUME ~DashAlone, \A p \in Proxies : ~ProxyMove(p) PROVE ZkTypes' /\ DashTypes' /\ ProxyTypes' /\ DataTypes'
  <2>1. ZkTypes' /\ DashTypes' /\ ProxyTypes' /\ DataTypes' => TypeOK'
    BY Zenon DEF TypeOK, ZkTypes, DashTypes, ProxyTypes, DataTypes
  <2> QED BY <2>1, DashTypesStep, MoveTypes, Zenon
<1>t. tasks # <<>> => here \in Slots /\ task.to \in Groups
  BY <1>0, TaskFields, Zenon
<1>1. CASE Update
  <2>1. Updated \in SlotInfo /\ here \in Slots
    BY <1>0, <1>1, <1>t, UpdatedType, Zenon DEF Update, TaskInv
  <2>2. ZkTypes'
    BY <1>0, <1>1, <2>1, Zenon DEF Update, ZkTypes
  <2>3. DashTypes'
    BY <1>0, <1>1, <2>1, Zenon DEF Update, DashTypes, DashPCs
  <2> QED BY <1>0, <1>1, <2>2, <2>3, Zenon DEF Update, proxyVars, dataVars, ProxyTypes, DataTypes
<1>2. CASE CreateAction
  <2>1. NewAction(here, recv) /\ here \in Slots \cup Groups /\ recv \in SUBSET Incarnations
    BY <1>0, <1>2, <1>t, Zenon DEF CreateAction, TaskInv, DashTypes
  <2>2. /\ ZkTypes' /\ ProxyTypes' /\ Len(actions) < MaxActions /\ Len(actions) \in Nat
    BY <1>0, <2>1, NewActionTypes, Zenon
  <2>3. seq' \in 0 .. MaxActions
    BY <1>2, <2>2, Constants DEF CreateAction
  <2>4. pending' \in SUBSET Proxies
    BY <1>0, <1>2, Zenon DEF CreateAction, DashTypes, Ids, Incarnations
  <2>5. DashTypes'
    BY <1>0, <1>2, <2>3, <2>4, Zenon DEF CreateAction, DashTypes, DashPCs
  <2> QED BY <1>0, <1>2, <2>2, <2>5, Zenon DEF CreateAction, dataVars, DataTypes
<1>3. CASE MigrateDone \/ MigrateSome
  <2>1. here \in Slots /\ cur.to \in Groups
    <3>1. dpc = "migrate"
      BY <1>3, Zenon DEF MigrateDone, MigrateSome
    <3>2. here \in Slots /\ cur = slotInfo[here] /\ cur.status = "migrate"
      BY <3>1, <1>t, Zenon DEF TaskInv
    <3> QED BY <1>t, <3>2, <3>1, Zenon DEF SlotsInv, TaskInv
  <2>2. \A some \in BOOLEAN : Move(here, some) \in [Slots -> SUBSET Groups]
    BY <1>0, <2>1, Zenon DEF Move, DataTypes
  <2>3. keys' \in [Slots -> SUBSET Groups]
    BY <1>3, <2>2, Zenon DEF MigrateDone, MigrateSome
  <2>4. UNCHANGED <<zkVars, proxyVars, stray, granted, posted, faults, goal, cur, recv, pending, seq, target>>
        /\ dpc' \in {dpc, "write"}
    BY <1>3, Zenon DEF MigrateDone, MigrateSome, dashVars
  <2> QED BY <1>0, <2>3, <2>4, Zenon DEF zkVars, proxyVars, ZkTypes, DashTypes, ProxyTypes, DataTypes, DashPCs
<1>4. CASE UpdateFinish
  <2>1. tasks' \in Seq(Tasks)
    BY <1>0, <1>4, Lengths, Zenon DEF UpdateFinish, TaskInv, ZkTypes
  <2>2. ZkTypes' /\ DashTypes'
    BY <1>0, <1>4, <2>1, Zenon DEF UpdateFinish, ZkTypes, DashTypes, DashPCs
  <2> QED BY <1>0, <1>4, <2>2, Zenon DEF UpdateFinish, proxyVars, dataVars, ProxyTypes, DataTypes
<1>5. CASE RemoveFence
  <2>1. ZkTypes'
    BY <1>0, <1>5, Zenon DEF RemoveFence, ZkTypes
  <2> QED BY <1>0, <1>5, <2>1, Zenon DEF RemoveFence, dashVars, proxyVars, dataVars, DashTypes, ProxyTypes, DataTypes
<1>6. ASSUME NEW p \in Proxies, MarkOffline(p) PROVE ZkTypes' /\ DashTypes' /\ ProxyTypes' /\ DataTypes'
  <2>1. DataTypes'
    BY <1>0, <1>6, Zenon DEF MarkOffline, dataVars, DataTypes
  <2>2. CASE node[p].state = "none"
    <3>1. DashTypes'
      BY <1>0, <1>6, <2>2, FailTypes, Zenon DEF MarkOffline, TaskInv
    <3> QED BY <1>0, <1>6, <2>1, <2>2, <3>1, Zenon DEF MarkOffline, zkVars, proxyVars, ZkTypes, ProxyTypes
  <2>3. CASE node[p].state # "none"
    <3>1. node[p].inc \in Nat
      BY <1>0, Zenon DEF ZkTypes, Nodes
    <3>2. SetNode(p, "mark_offline", node[p].inc)
      BY <1>6, <2>3, Zenon DEF MarkOffline
    <3>3. ZkTypes' /\ ProxyTypes'
      BY <1>0, <3>1, <3>2, SetNodeTypes, Zenon
    <3> QED BY <1>0, <1>6, <2>1, <2>3, <3>3, Zenon DEF MarkOffline, DashTypes, DashPCs
  <2> QED BY <2>2, <2>3, Zenon
<1>7. ASSUME NEW p \in Proxies, GrantOnline(p) PROVE ZkTypes' /\ DashTypes' /\ ProxyTypes' /\ DataTypes'
  <2>1. node[p].inc \in Nat
    BY <1>0, Zenon DEF ZkTypes, Nodes
  <2>2. granted' \in SUBSET Incarnations
    BY <1>0, <1>7, <2>1 DEF GrantOnline, DataTypes, Incarnations
  <2> QED BY <1>0, <1>7, <2>2, Zenon DEF GrantOnline, zkVars, dashVars, proxyVars, dataVars, ZkTypes, DashTypes, ProxyTypes, DataTypes
<1>8. ASSUME NEW p \in Proxies, AdminOffline(p) PROVE ZkTypes' /\ DashTypes' /\ ProxyTypes' /\ DataTypes'
  <2>1. node[p].inc \in Nat
    BY <1>0, Zenon DEF ZkTypes, Nodes
  <2>2. ZkTypes' /\ ProxyTypes'
    BY <1>0, <1>8, <2>1, SetNodeTypes, Zenon DEF AdminOffline
  <2>3. faults' \in 0 .. MaxFaults
    BY <1>0, <1>8, FaultType, Zenon DEF AdminOffline
  <2> QED BY <1>0, <1>8, <2>2, <2>3, Zenon DEF AdminOffline, dashVars, dataVars, DashTypes, DataTypes
<1>9. ASSUME NEW s \in Slots, NEW g \in Groups, PostTask(s, g) PROVE ZkTypes' /\ DashTypes' /\ ProxyTypes' /\ DataTypes'
  <2>1. [slot |-> s, to |-> g] \in Tasks
    BY Zenon DEF Tasks
  <2>2. ZkTypes'
    BY <1>0, <1>9, <2>1, Appends, Zenon DEF PostTask, ZkTypes
  <2>3. posted' \in 0 .. MaxTasks
    BY <1>0, <1>9, Constants DEF PostTask, DataTypes
  <2> QED BY <1>0, <1>9, <2>2, <2>3, Zenon DEF PostTask, dashVars, proxyVars, dataVars, DashTypes, ProxyTypes, DataTypes
<1>10. ASSUME NEW g \in Groups, GroupAction(g) PROVE ZkTypes' /\ DashTypes' /\ ProxyTypes' /\ DataTypes'
  <2> DEFINE receivers == {<<p, node[p].inc>> : p \in {q \in Proxies : node[q].state = "online"}}
  <2>1. \A p \in Proxies : node[p].inc \in Nat
    BY <1>0, Zenon DEF ZkTypes, Nodes
  <2>2. receivers \in SUBSET Incarnations
    BY <2>1 DEF Incarnations
  <2>3. NewAction(g, receivers) /\ g \in Slots \cup Groups
    BY <1>10, Zenon DEF GroupAction
  <2> HIDE DEF receivers
  <2>4. ZkTypes' /\ ProxyTypes'
    BY <1>0, <2>2, <2>3, NewActionTypes, Zenon
  <2>5. faults' \in 0 .. MaxFaults
    BY <1>0, <1>10, FaultType, Zenon DEF GroupAction
  <2> QED BY <1>0, <1>10, <2>4, <2>5, Zenon DEF GroupAction, dashVars, dataVars, DashTypes, DataTypes
<1>11. ASSUME NEW x \in granted, SetOnline(x) PROVE ZkTypes' /\ DashTypes' /\ ProxyTypes' /\ DataTypes'
  <2>1. x[1] \in Proxies /\ x[2] \in Nat
    BY <1>0, Zenon DEF DataTypes, Incarnations
  <2>2. ZkTypes' /\ ProxyTypes'
    <3>1. CASE node[x[1]].state = "none"
      BY <1>0, <1>11, <3>1, Zenon DEF SetOnline, zkVars, proxyVars, ZkTypes, ProxyTypes
    <3>2. CASE node[x[1]].state # "none"
      BY <1>0, <1>11, <2>1, <3>2, SetNodeTypes, Zenon DEF SetOnline
    <3> QED BY <3>1, <3>2, Zenon
  <2> QED BY <1>0, <1>11, <2>2, Zenon DEF SetOnline, dashVars, dataVars, DashTypes, DataTypes
<1>12. ASSUME NEW p \in Proxies, NEW s \in Slots, ClientWrite(p, s) PROVE ZkTypes' /\ DashTypes' /\ ProxyTypes' /\ DataTypes'
  <2>1. route[p][s].backend \in Groups
    <3>1. route[p][s] \in Routes /\ Holds(p, s)
      BY <1>0, <1>12, Zenon DEF ProxyTypes, ClientWrite, Holds
    <3> QED BY <3>1, Zenon DEF ProxyInv, View
  <2>2. keys' \in [Slots -> SUBSET Groups]
    BY <1>0, <1>12, <2>1 DEF ClientWrite, DataTypes
  <2>3. stray' \in BOOLEAN
    BY <1>12, Zenon DEF ClientWrite
  <2> QED BY <1>0, <1>12, <2>2, <2>3, Zenon DEF ClientWrite, zkVars, dashVars, proxyVars, ZkTypes, DashTypes, ProxyTypes, DataTypes
<1> QED BY <1>p, <1>1, <1>2, <1>3, <1>4, <1>5, <1>6, <1>7, <1>8, <1>9, <1>10, <1>11, <1>12, NextCases, Zenon

-----------------------------------------------------------------------------
\* The slot as Slot.Update writes it, at each step of a task.
LEMMA UpdatedSlot ==
    ASSUME TypeOK, SlotsInv, TaskInv, dpc = "write"
    PROVE  /\ Updated \in SlotInfo /\ Written(Updated.status)
           /\ Updated.status # "migrate" => Updated.from = NoGroup /\ Updated.to = NoGroup
           /\ Updated.status = "pre_migrate" => Updated.group # task.to
           /\ Updated.status = "migrate" =>
                 /\ Updated.group = task.to /\ Updated.to = task.to
                 /\ Updated.from \notin {task.to, NoGroup}
           /\ goal # "migrate" => Updated.group = cur.group /\ Updated.status # "migrate"
           /\ goal \in {"pre_migrate", "rollback"} => cur.status # "migrate" /\ Updated.from = cur.from
           /\ goal = "migrate" /\ cur.status = "migrate" => Updated = cur
           /\ goal = "migrate" /\ cur.status = "pre_migrate" => Updated.from = cur.group
<1>0. /\ ZkTypes /\ DashTypes /\ tasks # <<>> /\ here \in Slots /\ task.to \in Groups
      /\ goal \in {"pre_migrate", "migrate", "online", "rollback"}
      /\ cur = slotInfo[here] /\ cur \in SlotInfo
  BY TypeParts, TaskFields, Zenon DEF TaskInv, DashTypes
<1>1. Updated \in SlotInfo
  BY <1>0, UpdatedType, Zenon
<1>2. /\ cur.group \in Groups /\ cur.status \in Statuses /\ NoGroup \notin Groups
      /\ cur.status # "migrate" => cur.from = NoGroup /\ cur.to = NoGroup
      /\ cur.status = "pre_migrate" => cur.group # task.to
      /\ cur.status = "migrate" => cur.group = task.to /\ cur.to = task.to /\ cur.from \notin {task.to, NoGroup}
  BY <1>0, Infos, Constants, Zenon DEF SlotsInv
<1>3. ASSUME NEW x
      PROVE  /\ [cur EXCEPT !.status = x].status = x /\ [cur EXCEPT !.status = x].group = cur.group
             /\ [cur EXCEPT !.status = x].from = cur.from /\ [cur EXCEPT !.status = x].to = cur.to
  BY <1>0, Zenon DEF SlotInfo
<1>4. CASE goal = "pre_migrate"
  <2>1. Updated = [cur EXCEPT !.status = "pre_migrate"] /\ cur.status # "migrate" /\ cur.group # task.to
    BY <1>4, Zenon DEF Updated, TaskInv
  <2> QED BY <1>1, <1>2, <1>3, <1>4, <2>1, Zenon DEF Written
<1>5. CASE goal = "migrate"
  <2>1. Updated = [group |-> task.to, status |-> "migrate", from |-> fromGroup(cur), to |-> task.to]
    BY <1>5, Zenon DEF Updated
  <2>2. cur.status \in {"pre_migrate", "migrate"}
    BY <1>2, <1>5, Zenon DEF TaskInv, Statuses
  <2>3. fromGroup(cur) \notin {task.to, NoGroup}
    BY <1>2, <2>2, Zenon DEF fromGroup
  <2>4. cur.status = "migrate" => Updated = cur
    BY <1>0, <1>2, <2>1, Zenon DEF SlotInfo, fromGroup
  <2>5. cur.status = "pre_migrate" => Updated.from = cur.group
    BY <2>1, Zenon DEF fromGroup
  <2> QED BY <1>1, <1>5, <2>1, <2>3, <2>4, <2>5, Zenon DEF Written
<1>6. CASE goal = "online"
  <2>1. Updated = Online(cur.group)
    BY <1>6, Zenon DEF Updated
  <2> QED BY <1>1, <1>6, <2>1, Zenon DEF Online, Written
<1>7. CASE goal = "rollback"
  <2>1. Updated = [cur EXCEPT !.status = "online"] /\ cur.status = "pre_migrate"
    BY <1>7, Zenon DEF Updated, TaskInv
  <2> QED BY <1>1, <1>2, <1>3, <1>7, <2>1, Zenon DEF Written
<1> QED BY <1>0, <1>4, <1>5, <1>6, <1>7, Zenon

\* One slot changes at a time, and the task knows how far it is.
LEMMA TaskStep ==
    ASSUME TypeOK, SlotsInv, TaskInv, Next
    PROVE  SlotsInv' /\ TaskInv'
<1>0. ZkTypes /\ DashTypes /\ (tasks # <<>> => here \in Slots)
  BY TypeParts, TaskFields, Zenon
<1>s. UNCHANGED <<slotInfo, tasks>> => SlotsInv'
  BY Zenon DEF SlotsInv, here, task
<1>u. UNCHANGED <<slotInfo, tasks, dpc, goal, cur>> => SlotsInv' /\ TaskInv'
  BY Zenon DEF SlotsInv, TaskInv, Written, here, task
<1>f. ASSUME Fail, tasks # <<>>, UNCHANGED <<slotInfo, tasks>> PROVE TaskInv'
  <2>1. CASE goal # "rollback" /\ slotInfo[here].status = "pre_migrate"
    BY <1>f, <2>1 DEF Fail, TaskInv, here, task
  <2>2. CASE ~(goal # "rollback" /\ slotInfo[here].status = "pre_migrate")
    BY <1>f, <2>2, Zenon DEF Fail, TaskInv
  <2> QED BY <2>1, <2>2, Zenon
<1>1. CASE DashAlone
  <2>1. UNCHANGED <<slotInfo, tasks>>
    BY <1>1, DashFrame, Zenon DEF zkVars
  <2>2. TaskInv'
    <3>1. CASE NextTask
      <4>1. /\ tasks # <<>> /\ cur' = slotInfo[here] /\ here \in Slots /\ cur'.status \in Statuses
        BY <1>0, <3>1, Infos, Zenon DEF NextTask, ZkTypes
      <4>2. CASE fromGroup(cur') = task.to
        <5>1. dpc' = "finish" /\ goal' = "none"
          BY <3>1, <4>2, Zenon DEF NextTask
        <5>2. slotInfo[here].status = "online"
          BY <4>1, <4>2, Zenon DEF SlotsInv, fromGroup, Statuses
        <5> QED BY <2>1, <4>1, <5>1, <5>2, Zenon DEF TaskInv, here, task
      <4>3. CASE fromGroup(cur') # task.to
        <5>1. dpc' = "write" /\ goal' = IF cur'.status = "migrate" THEN "migrate" ELSE "pre_migrate"
          BY <3>1, <4>3, Zenon DEF NextTask
        <5>2. cur'.status # "migrate" => cur'.group # task.to
          BY <4>3, Zenon DEF fromGroup
        <5> QED BY <2>1, <4>1, <5>1, <5>2, Zenon DEF TaskInv, here, task
      <4> QED BY <4>2, <4>3, Zenon
    <3>2. CASE ListProxies \/ Timeout \/ ProxyDown
      BY <2>1, <3>2 DEF ListProxies, Timeout, ProxyDown, TaskInv, Written, here, task
    <3>3. CASE DashboardCrash
      BY <3>3, Zenon DEF DashboardCrash, TaskInv
    <3>4. CASE CheckFence \/ ReceiverTimeout \/ MigrateError
      <4>1. tasks # <<>>
        BY <3>4, Zenon DEF CheckFence, ReceiverTimeout, MigrateError, TaskInv
      <4>2. CASE Fail
        BY <1>f, <2>1, <4>1, <4>2, Zenon
      <4>3. CASE ~Fail
        BY <2>1, <3>4, <4>3 DEF CheckFence, ReceiverTimeout, MigrateError, TaskInv, Written, here, task
      <4> QED BY <4>2, <4>3, Zenon
    <3>5. ASSUME NEW p \in Proxies, GetProxyInfo(p) PROVE TaskInv'
      <4>1. tasks # <<>>
        BY <3>5, Zenon DEF GetProxyInfo, TaskInv
      <4>2. CASE Fail
        BY <1>f, <2>1, <4>1, <4>2, Zenon
      <4>3. CASE ~Fail
        <5>1. UNCHANGED <<dpc, goal, cur>>
          BY <3>5, <4>3, Zenon DEF GetProxyInfo
        <5> QED BY <1>u, <2>1, <5>1, Zenon
      <4> QED BY <4>2, <4>3, Zenon
    <3>6. CASE Poll
      <4>1. /\ dpc = "wait" /\ tasks # <<>> /\ goal \in {"pre_migrate", "migrate", "online", "rollback"}
            /\ cur = slotInfo[here] /\ Written(cur.status)
        BY <1>0, <3>6, Zenon DEF Poll, TaskInv, DashTypes
      <4>2. CASE pending \subseteq actions[seq].resp
        <5>1. Confirmed /\ cur' = cur
          BY <3>6, <4>2, Zenon DEF Poll, Confirmed
        <5>2. /\ goal = "pre_migrate" => dpc' = "write" /\ goal' = "migrate"
              /\ goal = "migrate" => dpc' = "migrate" /\ goal' = "online"
              /\ goal = "online" => dpc' = "finish"
              /\ goal = "rollback" => dpc' = "idle"
          BY <5>1, Zenon DEF Confirmed
        <5>3. CASE goal = "pre_migrate"
          BY <2>1, <4>1, <5>1, <5>2, <5>3, Zenon DEF TaskInv, Written, here, task
        <5>4. CASE goal = "migrate"
          BY <2>1, <4>1, <5>1, <5>2, <5>4, Zenon DEF TaskInv, Written, here, task
        <5>5. CASE goal = "online"
          BY <2>1, <4>1, <5>1, <5>2, <5>5, Zenon DEF TaskInv, Written, here, task
        <5>6. CASE goal = "rollback"
          BY <5>2, <5>6, Zenon DEF TaskInv
        <5> QED BY <4>1, <5>3, <5>4, <5>5, <5>6, Zenon
      <4>3. CASE ~(pending \subseteq actions[seq].resp)
        <5>1. UNCHANGED <<dpc, goal, cur>>
          BY <3>6, <4>3, Zenon DEF Poll
        <5> QED BY <1>u, <2>1, <5>1, Zenon
      <4> QED BY <4>2, <4>3, Zenon
    <3> QED BY <1>1, <3>1, <3>2, <3>3, <3>4, <3>5, <3>6, Zenon DEF DashAlone
  <2> QED BY <1>s, <2>1, <2>2, Zenon
<1>2. CASE Update
  <2>1. /\ dpc = "write" /\ cur' = Updated /\ dpc' = "list" /\ UNCHANGED <<goal, tasks>>
        /\ slotInfo' = [slotInfo EXCEPT ![here] = cur'] /\ tasks # <<>> /\ here \in Slots
    BY <1>0, <1>2, Zenon DEF Update, TaskInv
  <2>2. slotInfo'[here] = Updated /\ \A s \in Slots : s # here => slotInfo'[s] = slotInfo[s]
    BY <1>0, <2>1, Zenon DEF ZkTypes
  <2>3. task' = task /\ here' = here
    BY <2>1, Zenon DEF task, here
  <2>4. SlotsInv'
    <3> SUFFICES ASSUME NEW s \in Slots
                 PROVE  /\ slotInfo'[s].status # "migrate" => slotInfo'[s].from = NoGroup /\ slotInfo'[s].to = NoGroup
                        /\ slotInfo'[s].status # "online" => tasks' # <<>> /\ here' = s
                        /\ slotInfo'[s].status = "pre_migrate" => slotInfo'[s].group # task'.to
                        /\ slotInfo'[s].status = "migrate" =>
                              /\ slotInfo'[s].group = task'.to /\ slotInfo'[s].to = task'.to
                              /\ slotInfo'[s].from \notin {task'.to, NoGroup}
      BY Zenon DEF SlotsInv
    <3>1. CASE s = here
      BY <2>1, <2>2, <2>3, <3>1, UpdatedSlot, Zenon
    <3>2. CASE s # here
      BY <2>1, <2>2, <2>3, <3>2, Zenon DEF SlotsInv
    <3> QED BY <3>1, <3>2, Zenon
  <2>5. TaskInv'
    <3>1. Written(Updated.status) /\ goal # "none"
      BY <2>1, UpdatedSlot, Zenon DEF TaskInv
    <3> QED BY <2>1, <2>2, <2>3, <3>1, Zenon DEF TaskInv, Written
  <2> QED BY <2>4, <2>5, Zenon
<1>3. CASE CreateAction
  <2>1. dpc = "create" /\ dpc' = "wait" /\ UNCHANGED <<slotInfo, tasks, goal, cur>>
    BY <1>3, Zenon DEF CreateAction, NewAction
  <2> QED BY <1>s, <2>1, Zenon DEF TaskInv, Written, here, task
<1>4. CASE MigrateDone
  <2>1. dpc = "migrate" /\ dpc' = "write" /\ UNCHANGED <<slotInfo, tasks, goal, cur>>
    BY <1>4, Zenon DEF MigrateDone, zkVars
  <2> QED BY <1>s, <2>1, Zenon DEF TaskInv, here, task
<1>5. CASE MigrateSome
  BY <1>5, <1>u, Zenon DEF MigrateSome, zkVars, dashVars
<1>6. CASE UpdateFinish
  <2>1. /\ dpc = "finish" /\ tasks' = Tail(tasks) /\ dpc' = "idle" /\ slotInfo' = slotInfo
    BY <1>6, Zenon DEF UpdateFinish
  <2>2. \A s \in Slots : slotInfo[s].status = "online"
    BY <2>1, Zenon DEF SlotsInv, TaskInv
  <2> QED BY <2>1, <2>2, Zenon DEF SlotsInv, TaskInv
<1>7. ASSUME NEW p \in Proxies, MarkOffline(p) PROVE SlotsInv' /\ TaskInv'
  <2>1. UNCHANGED <<slotInfo, tasks>> /\ tasks # <<>> /\ dpc = "mark"
    BY <1>7, Zenon DEF MarkOffline, SetNode, zkVars, TaskInv
  <2>2. CASE Fail
    BY <1>s, <1>f, <2>1, <2>2, Zenon
  <2>3. CASE ~Fail
    <3>1. dpc' = "down" /\ UNCHANGED <<goal, cur>>
      BY <1>7, <2>3, Zenon DEF MarkOffline
    <3> QED BY <1>s, <2>1, <3>1, Zenon DEF TaskInv, Written, here, task
  <2> QED BY <2>2, <2>3, Zenon
<1>8. ASSUME NEW s \in Slots, NEW g \in Groups, PostTask(s, g) PROVE SlotsInv' /\ TaskInv'
  <2>1. /\ tasks' = Append(tasks, [slot |-> s, to |-> g]) /\ UNCHANGED <<slotInfo, dpc, goal, cur>>
        /\ [slot |-> s, to |-> g] \in Tasks
    BY <1>8, Zenon DEF PostTask, dashVars, Tasks
  <2>2. tasks' # <<>> /\ (tasks # <<>> => Head(tasks') = Head(tasks))
    BY <1>0, <2>1, Appends DEF ZkTypes
  <2>3. tasks # <<>> => task' = task /\ here' = here
    BY <2>2, Zenon DEF task, here
  <2>4. SlotsInv'
    BY <2>1, <2>2, <2>3, Zenon DEF SlotsInv
  <2>5. TaskInv'
    BY <2>1, <2>2, <2>3, Zenon DEF TaskInv, Written
  <2> QED BY <2>4, <2>5, Zenon
<1>9. ASSUME NEW p \in Proxies, ProxyMove(p) PROVE SlotsInv' /\ TaskInv'
  BY <1>9, <1>u, MoveFrame, Zenon DEF dashVars
<1>10. ASSUME NEW p \in Proxies, NEW s \in Slots, ClientWrite(p, s) PROVE SlotsInv' /\ TaskInv'
  BY <1>10, <1>u, Zenon DEF ClientWrite, zkVars, dashVars
<1>11. CASE \/ RemoveFence \/ (\E g \in Groups : GroupAction(g)) \/ (\E x \in granted : SetOnline(x))
            \/ \E p \in Proxies : GrantOnline(p) \/ AdminOffline(p)
  BY <1>11, <1>u, OtherFrame, Zenon DEF dashVars
<1> QED BY <1>1, <1>2, <1>3, <1>4, <1>5, <1>6, <1>7, <1>8, <1>9, <1>10, <1>11, NextCases, Zenon

-----------------------------------------------------------------------------
\* What the proxies know, step by step.
LEMMA ViewShrinks ==
    ASSUME NEW p, NEW s, Holds(p, s)' => Holds(p, s), route'[p][s] = route[p][s],
           read'[p] = read[p] \/ read'[p].slot # s
    PROVE  View(p, s)' \subseteq View(p, s)
BY Zenon DEF View

LEMMA ViewEmpty ==
    ASSUME NEW p, NEW s, ~Holds(p, s), read[p].slot # s
    PROVE  View(p, s) = {}
BY Zenon DEF View

\* A step of one proxy is none of another.
LEMMA OthersStay ==
    ASSUME TypeOK, NEW p \in Proxies, ProxyMove(p), NEW q \in Proxies, q # p
    PROVE  /\ ppc'[q] = ppc[q] /\ todo'[q] = todo[q] /\ read'[q] = read[q] /\ last'[q] = last[q]
           /\ route'[q] = route[q] /\ serving'[q] = serving[q] /\ (q \in fence' <=> q \in fence)
<1> DEFINE Same == /\ ppc'[q] = ppc[q] /\ todo'[q] = todo[q] /\ read'[q] = read[q] /\ last'[q] = last[q]
                   /\ route'[q] = route[q] /\ serving'[q] = serving[q] /\ (q \in fence' <=> q \in fence)
<1>0. ProxyTypes
  BY TypeParts, Zenon
<1>g. ASSUME Gone(p), UNCHANGED fence PROVE Same
  BY <1>0, <1>g, Zenon DEF Gone, Goto, ProxyTypes
<1>1. CASE Close(p) \/ Panic(p) \/ Crash(p)
  BY <1>1, <1>g, Zenon DEF Close, Panic, Crash
<1>2. CASE RegisterNode(p)
  <2>1. CASE node[p].state = "none"
    BY <1>0, <1>2, <2>1, Zenon DEF RegisterNode, Goto, ProxyTypes
  <2>2. CASE node[p].state # "none"
    BY <1>2, <1>g, <2>2, Zenon DEF RegisterNode
  <2> QED BY <2>1, <2>2, Zenon
<1>3. CASE RegisterFence(p) \/ WaitOnline(p) \/ RewatchProxy(p) \/ RewatchNodes(p)
  BY <1>0, <1>3, Zenon DEF RegisterFence, WaitOnline, RewatchProxy, RewatchNodes, Goto, ProxyTypes
<1>4. ASSUME NEW s \in Slots, FillRead(p, s) PROVE Same
  BY <1>0, <1>4, Zenon DEF FillRead, ProxyTypes
<1>5. CASE FillSlot(p)
  <2>1. route'[q] = route[q]
    BY <1>0, <1>5, Zenon DEF FillSlot, ProxyTypes
  <2> QED BY <1>0, <1>5, <2>1, Zenon DEF FillSlot, ProxyTypes
<1>6. CASE ActionEvent(p)
  <2>1. ppc'[q] = ppc[q]
    BY <1>0, <1>6, Zenon DEF ActionEvent, Goto, ProxyTypes
  <2>2. todo'[q] = todo[q]
    BY <1>0, <1>6, Zenon DEF ActionEvent, ProxyTypes
  <2> QED BY <1>0, <1>6, <2>1, <2>2, Zenon DEF ActionEvent, ProxyTypes
<1>7. CASE Serve(p) \/ Respond(p) \/ ProxyEvent(p) \/ KillEvent(p)
  BY <1>0, <1>7, Zenon DEF Serve, Respond, ProxyEvent, KillEvent, Goto, ProxyTypes
<1>8. CASE Unregister(p) \/ Start(p) \/ Kill(p)
  BY <1>0, <1>8, Zenon DEF Unregister, Start, Kill, Goto, ProxyTypes
<1>9. CASE Unfence(p) \/ Expire(p)
  BY <1>0, <1>9, Zenon DEF Unfence, Expire, Goto, ProxyTypes, proxyVars
<1> QED BY <1>1, <1>2, <1>3, <1>4, <1>5, <1>6, <1>7, <1>8, <1>9, Zenon DEF ProxyMove, ProxyStep

\* A proxy that has ended, or has just started, knows nothing.
LEMMA Knows ==
    ASSUME TypeOK, ProxyInv, NEW p \in Proxies, NEW s \in Slots
    PROVE  /\ ppc[p] \notin {"fill", "refill"} => read[p] = NoRead /\ read[p].slot # s
           /\ ppc[p] \in {"down", "register", "register_fence", "wait_online", "watch_proxy", "watch_actions"} =>
                 ~serving[p] /\ ~Holds(p, s) /\ View(p, s) = {}
<1>1. read[p] = NoRead => read[p].slot # s
  BY ReadFields, Zenon
<1>2. ppc[p] \notin {"fill", "refill"} => read[p] = NoRead
  BY Zenon DEF ProxyInv, Local
<1>3. ppc[p] \in {"down", "register", "register_fence", "wait_online", "watch_proxy", "watch_actions"} =>
         ~serving[p] /\ ~Holds(p, s)
  BY Zenon DEF ProxyInv, Local, Holds
<1> QED BY <1>1, <1>2, <1>3, ViewEmpty, Zenon

\* What a step of a proxy makes of its own state.
LEMMA GoneViews ==
    ASSUME TypeOK, NEW p \in Proxies, Gone(p)
    PROVE  Local(p)' /\ \A s \in Slots : View(p, s)' = {}
<1>1. /\ ppc'[p] = "down" /\ read'[p] = NoRead /\ serving'[p] = FALSE
  BY TypeParts, Zenon DEF ProxyTypes, Gone, Goto
<1>2. \A s \in Slots : ~Holds(p, s)' /\ read'[p].slot # s
  BY <1>1, ReadFields, Zenon DEF Holds
<1>3. \A s \in Slots : View(p, s)' = {}
  BY <1>2, Zenon DEF View
<1> QED BY <1>1, <1>3, Zenon DEF Local

LEMMA OwnViews ==
    ASSUME TypeOK, ProxyInv, NEW p \in Proxies, ProxyMove(p)
    PROVE  /\ Local(p)'
           /\ \A s \in Slots : \/ View(p, s)' \subseteq View(p, s)
                               \/ FillRead(p, s) /\ View(p, s)' \subseteq View(p, s) \cup {RouteOf(slotInfo[s])}
           /\ p \in fence' => p \in fence \/ \A s \in Slots : View(p, s)' = {}
<1> DEFINE Goal == /\ Local(p)'
                   /\ \A s \in Slots :
                        \/ View(p, s)' \subseteq View(p, s)
                        \/ FillRead(p, s) /\ View(p, s)' \subseteq View(p, s) \cup {RouteOf(slotInfo[s])}
                   /\ p \in fence' => p \in fence \/ \A s \in Slots : View(p, s)' = {}
<1>0. ProxyTypes /\ ZkTypes /\ Local(p)
  BY TypeParts, Zenon DEF ProxyInv, Local
<1>g. ASSUME Gone(p), UNCHANGED fence PROVE Goal
  BY <1>g, GoneViews, Zenon
\* A step that leaves what p has in its router and has read.
<1>q. ASSUME UNCHANGED <<read, route, todo>>, Local(p)', serving'[p] => serving[p] \/ (ppc[p] = "fill" /\ todo[p] = {}),
             ppc'[p] = "fill" => ppc[p] = "fill", p \in fence' => p \in fence
      PROVE  Goal
  <2>1. ASSUME NEW s \in Slots PROVE Holds(p, s)' => Holds(p, s)
    BY <1>q, <2>1, Zenon DEF Holds
  <2>2. \A s \in Slots : View(p, s)' \subseteq View(p, s)
    BY <1>q, <2>1, ViewShrinks, Zenon
  <2> QED BY <1>q, <2>2, Zenon
<1>1. CASE Close(p) \/ Panic(p) \/ Crash(p)
  BY <1>1, <1>g, Zenon DEF Close, Panic, Crash
<1>2. CASE RegisterNode(p)
  <2>1. CASE node[p].state = "none"
    <3>1. ppc'[p] = "register_fence" /\ UNCHANGED <<read, route, todo, serving, fence>> /\ ppc[p] = "register"
      BY <1>0, <1>2, <2>1, Zenon DEF RegisterNode, Goto, ProxyTypes
    <3>2. Local(p)'
      BY <1>0, <3>1, Zenon DEF Local
    <3> QED BY <1>q, <3>1, <3>2, Zenon
  <2>2. CASE node[p].state # "none"
    BY <1>2, <1>g, <2>2, Zenon DEF RegisterNode
  <2> QED BY <2>1, <2>2, Zenon
<1>3. CASE RegisterFence(p)
  <2>1. /\ ppc[p] = "register_fence" /\ ppc'[p] = "wait_online" /\ UNCHANGED <<read, route, todo, serving>>
        /\ p \in fence'
    BY <1>0, <1>3, Zenon DEF RegisterFence, Goto, ProxyTypes
  <2>2. Local(p)'
    BY <1>0, <2>1, Zenon DEF Local
  <2>3. \A s \in Slots : View(p, s) = {} /\ ~Holds(p, s) /\ read[p].slot # s
    BY <2>1, Knows, Zenon
  <2>4. \A s \in Slots : ~Holds(p, s)' /\ read'[p].slot # s
    BY <2>1, <2>3, Zenon DEF Holds
  <2>5. \A s \in Slots : View(p, s)' = {}
    BY <2>4, Zenon DEF View
  <2> QED BY <2>2, <2>5, Zenon
<1>4. CASE WaitOnline(p)
  <2>1. ppc'[p] \in {"unfence", "watch_proxy"} /\ UNCHANGED <<read, route, todo, serving, fence>> /\ ppc[p] = "wait_online"
    BY <1>0, <1>4, Zenon DEF WaitOnline, Goto, ProxyTypes
  <2>2. Local(p)'
    BY <1>0, <2>1, Zenon DEF Local
  <2> QED BY <1>q, <2>1, <2>2, Zenon
<1>5. CASE RewatchProxy(p)
  <2>1. ppc'[p] = "watch_actions" /\ UNCHANGED <<read, route, todo, serving, fence>> /\ ppc[p] = "watch_proxy"
    BY <1>0, <1>5, Zenon DEF RewatchProxy, Goto, ProxyTypes
  <2>2. Local(p)'
    BY <1>0, <2>1, Zenon DEF Local
  <2> QED BY <1>q, <2>1, <2>2, Zenon
<1>6. CASE RewatchNodes(p)
  <2>1. /\ ppc'[p] = "fill" /\ todo'[p] = Slots /\ ppc[p] = "watch_actions"
        /\ UNCHANGED <<read, route, serving, fence>>
    BY <1>0, <1>6, Zenon DEF RewatchNodes, Goto, ProxyTypes
  <2>2. Local(p)'
    BY <1>0, <2>1, Zenon DEF Local
  <2>3. \A s \in Slots : ~serving[p] /\ read[p].slot # s
    BY <2>1, Knows, Zenon
  <2>4. \A s \in Slots : ~Holds(p, s)' /\ read'[p].slot # s
    BY <2>1, <2>3, Zenon DEF Holds
  <2>5. \A s \in Slots : View(p, s)' = {}
    BY <2>4, Zenon DEF View
  <2> QED BY <2>1, <2>2, <2>5, Zenon
<1>7. ASSUME NEW x \in Slots, FillRead(p, x) PROVE Goal
  <2>1. /\ ppc[p] \in {"fill", "refill"} /\ read[p] = NoRead /\ x \in todo[p]
        /\ read'[p] = [slot |-> x, info |-> slotInfo[x]]
        /\ UNCHANGED <<ppc, todo, route, serving, fence>>
    BY <1>0, <1>7, Zenon DEF FillRead, ProxyTypes
  <2>2. read'[p].slot = x /\ read'[p].info = slotInfo[x]
    BY <2>1
  <2>3. Local(p)'
    BY <1>0, <2>1, <2>2, Zenon DEF Local
  <2>4. ASSUME NEW s \in Slots PROVE Holds(p, s)' => Holds(p, s)
    BY <2>1, Zenon DEF Holds
  <2>5. ASSUME NEW s \in Slots, s # x PROVE View(p, s)' \subseteq View(p, s)
    BY <2>1, <2>2, <2>4, <2>5, ViewShrinks, Zenon
  <2>6. View(p, x)' \subseteq View(p, x) \cup {RouteOf(slotInfo[x])}
    BY <2>1, <2>2, <2>4, Zenon DEF View
  <2> QED BY <1>7, <2>1, <2>3, <2>5, <2>6, Zenon
<1>8. CASE FillSlot(p)
  <2> SUFFICES ASSUME NEW x, x = read[p].slot PROVE Goal
    BY Zenon
  <2>1. /\ ppc[p] \in {"fill", "refill"} /\ read[p] # NoRead /\ x \in Slots /\ RouteOf(read[p].info) \in Routes
    BY <1>0, <1>8, ReadFields, Infos, Zenon DEF FillSlot, ProxyTypes
  <2>2. /\ todo'[p] = todo[p] \ {x} /\ read'[p] = NoRead /\ UNCHANGED <<ppc, serving, fence>>
    BY <1>0, <1>8, Zenon DEF FillSlot, ProxyTypes
  <2>3. route'[p][x] = RouteOf(read[p].info) /\ \A s \in Slots : s # x => route'[p][s] = route[p][s]
    BY <1>0, <1>8, <2>1, Zenon DEF FillSlot, ProxyTypes
  <2>4. Local(p)'
    BY <1>0, <2>1, <2>2, Zenon DEF Local
  <2>5. \A s \in Slots : read'[p].slot # s
    BY <2>2, ReadFields, Zenon
  <2>6. ASSUME NEW s \in Slots, s # x PROVE View(p, s)' \subseteq View(p, s)
    <3>1. Holds(p, s)' => Holds(p, s)
      BY <2>2, <2>6, Zenon DEF Holds
    <3> QED BY <2>3, <2>5, <2>6, <3>1, ViewShrinks, Zenon
  <2>7. View(p, x)' \subseteq View(p, x)
    <3> SUFFICES ASSUME NEW r \in View(p, x)' PROVE r \in View(p, x)
      BY Zenon
    <3>1. r \in Routes /\ r = route'[p][x]
      BY <2>1, <2>5, Zenon DEF View
    <3> QED BY <2>3, <3>1, Zenon DEF View
  <2>8. \A s \in Slots : View(p, s)' \subseteq View(p, s)
    BY <2>6, <2>7, Zenon
  <2> QED BY <2>2, <2>4, <2>8, Zenon
<1>9. CASE Serve(p)
  <2>1. /\ ppc'[p] = "loop" /\ UNCHANGED <<read, route, todo, fence>> /\ ppc[p] = "fill" /\ todo[p] = {}
        /\ read[p] = NoRead
    BY <1>0, <1>9, Zenon DEF Serve, Goto, ProxyTypes
  <2>2. Local(p)'
    BY <1>0, <2>1, Zenon DEF Local
  <2> QED BY <1>q, <2>1, <2>2, Zenon
<1>10. CASE ActionEvent(p)
  <2>1. /\ ppc'[p] \in {"loop", "refill"} /\ UNCHANGED <<read, route, serving, fence>> /\ ppc[p] = "loop"
    BY <1>0, <1>10, Zenon DEF ActionEvent, Goto, ProxyTypes
  <2>2. read[p] = NoRead
    BY <1>0, <2>1, Zenon DEF Local
  <2>3. Local(p)'
    BY <1>0, <2>1, <2>2, Zenon DEF Local
  <2>4. ASSUME NEW s \in Slots PROVE Holds(p, s)' => Holds(p, s)
    BY <2>1, Zenon DEF Holds
  <2>5. \A s \in Slots : View(p, s)' \subseteq View(p, s)
    BY <2>1, <2>4, ViewShrinks, Zenon
  <2> QED BY <2>1, <2>3, <2>5, Zenon
<1>11. CASE Respond(p)
  <2>1. ppc'[p] = "loop" /\ UNCHANGED <<read, route, todo, serving, fence>> /\ ppc[p] = "refill" /\ read[p] = NoRead
    BY <1>0, <1>11, Zenon DEF Respond, Goto, ProxyTypes
  <2>2. Local(p)'
    BY <1>0, <2>1, Zenon DEF Local
  <2> QED BY <1>q, <2>1, <2>2, Zenon
<1>12. CASE ProxyEvent(p) \/ KillEvent(p)
  <2>1. ppc'[p] \in {"loop", "unfence"} /\ UNCHANGED <<read, route, todo, serving, fence>> /\ ppc[p] = "loop"
    BY <1>0, <1>12, Zenon DEF ProxyEvent, KillEvent, Goto, ProxyTypes
  <2>2. Local(p)'
    BY <1>0, <2>1, Zenon DEF Local
  <2> QED BY <1>q, <2>1, <2>2, Zenon
<1>13. CASE Unfence(p)
  <2>1. ppc'[p] = "unregister" /\ UNCHANGED <<read, route, todo, serving>> /\ ppc[p] = "unfence" /\ (p \in fence' => p \in fence)
    BY <1>0, <1>13, Zenon DEF Unfence, Goto, ProxyTypes
  <2>2. Local(p)'
    BY <1>0, <2>1, Zenon DEF Local
  <2> QED BY <1>q, <2>1, <2>2, Zenon
<1>14. CASE Unregister(p)
  <2>1. ppc'[p] = "close" /\ UNCHANGED <<read, route, todo, serving, fence>> /\ ppc[p] = "unregister"
    BY <1>0, <1>14, Zenon DEF Unregister, Goto, ProxyTypes
  <2>2. Local(p)'
    BY <1>0, <2>1, Zenon DEF Local
  <2> QED BY <1>q, <2>1, <2>2, Zenon
<1>15. CASE Start(p)
  <2>1. ppc'[p] = "register" /\ UNCHANGED <<read, route, todo, serving, fence>> /\ ppc[p] = "down"
    BY <1>0, <1>15, Zenon DEF Start, Goto, ProxyTypes
  <2>2. Local(p)'
    BY <1>0, <2>1, Zenon DEF Local
  <2> QED BY <1>q, <2>1, <2>2, Zenon
<1>16. CASE Kill(p)
  <2>1. serving'[p] = FALSE /\ UNCHANGED <<read, route, todo, ppc, fence>>
    BY <1>0, <1>16, Zenon DEF Kill, ProxyTypes
  <2>2. Local(p)'
    BY <1>0, <2>1, Zenon DEF Local
  <2> QED BY <1>q, <2>1, <2>2, Zenon
<1>17. CASE Expire(p)
  <2>1. UNCHANGED <<read, route, todo, ppc, serving, fence>>
    BY <1>17, Zenon DEF Expire, proxyVars
  <2>2. Local(p)'
    BY <1>0, <2>1, Zenon DEF Local
  <2> QED BY <1>q, <2>1, <2>2, Zenon
<1> QED BY <1>1, <1>2, <1>3, <1>4, <1>5, <1>6, <1>7, <1>8, <1>9, <1>10, <1>11, <1>12, <1>13, <1>14, <1>15, <1>16, <1>17,
           Zenon DEF ProxyMove, ProxyStep

\* A step that is none of a proxy leaves what the proxies know; the fences that the
\* administrator removes are those of proxies that have ended.
LEMMA StillViews ==
    ASSUME Next, \A p \in Proxies : ~ProxyMove(p)
    PROVE  /\ UNCHANGED <<ppc, todo, read, last, route, serving>>
           /\ fence' \subseteq fence /\ \A p \in fence : Running(p) => p \in fence'
<1> DEFINE Still == /\ UNCHANGED <<ppc, todo, read, last, route, serving>>
                    /\ fence' \subseteq fence /\ \A p \in fence : Running(p) => p \in fence'
<1> SUFFICES Still
  BY Zenon
<1>1. CASE DashAlone
  BY <1>1, DashFrame, Zenon DEF zkVars, proxyVars
<1>2. CASE Update \/ UpdateFinish
  BY <1>2, Zenon DEF Update, UpdateFinish, proxyVars
<1>3. CASE CreateAction
  BY <1>3, Zenon DEF CreateAction, NewAction
<1>4. CASE MigrateDone \/ MigrateSome
  BY <1>4, Zenon DEF MigrateDone, MigrateSome, zkVars, proxyVars
<1>5. CASE RemoveFence
  BY <1>5, Zenon DEF RemoveFence, proxyVars
<1>6. ASSUME NEW p \in Proxies, MarkOffline(p) PROVE Still
  BY <1>6, Zenon DEF MarkOffline, SetNode, zkVars, proxyVars
<1>7. ASSUME NEW p \in Proxies, GrantOnline(p) PROVE Still
  BY <1>7, Zenon DEF GrantOnline, zkVars, proxyVars
<1>8. ASSUME NEW p \in Proxies, AdminOffline(p) PROVE Still
  BY <1>8, Zenon DEF AdminOffline, SetNode
<1>9. ASSUME NEW s \in Slots, NEW g \in Groups, PostTask(s, g) PROVE Still
  BY <1>9, Zenon DEF PostTask, proxyVars
<1>10. ASSUME NEW g \in Groups, GroupAction(g) PROVE Still
  BY <1>10, Zenon DEF GroupAction, NewAction
<1>11. ASSUME NEW x \in granted, SetOnline(x) PROVE Still
  BY <1>11, Zenon DEF SetOnline, SetNode, zkVars, proxyVars
<1>12. ASSUME NEW p \in Proxies, NEW s \in Slots, ClientWrite(p, s) PROVE Still
  BY <1>12, Zenon DEF ClientWrite, zkVars, proxyVars
<1> HIDE DEF Still
<1> QED BY <1>1, <1>2, <1>3, <1>4, <1>5, <1>6, <1>7, <1>8, <1>9, <1>10, <1>11, <1>12, NextCases, Zenon

\* Whatever happens, a proxy learns nothing but what is written; and when it gets a
\* fence it knows nothing.
LEMMA ViewStep ==
    ASSUME TypeOK, ProxyInv, Next, NEW q \in Proxies, NEW s \in Slots
    PROVE  /\ View(q, s)' \subseteq View(q, s) \cup {RouteOf(slotInfo[s])}
           /\ q \in fence' => q \in fence \/ View(q, s)' = {}
<1>1. ASSUME NEW p \in Proxies, ProxyMove(p)
      PROVE  /\ View(q, s)' \subseteq View(q, s) \cup {RouteOf(slotInfo[s])}
             /\ q \in fence' => q \in fence \/ View(q, s)' = {}
  <2>1. CASE q = p
    BY <1>1, <2>1, OwnViews, Zenon
  <2>2. CASE q # p
    <3>1. /\ ppc'[q] = ppc[q] /\ todo'[q] = todo[q] /\ read'[q] = read[q]
          /\ route'[q] = route[q] /\ serving'[q] = serving[q] /\ (q \in fence' <=> q \in fence)
      BY <1>1, <2>2, OthersStay, Zenon
    <3>2. Holds(q, s)' => Holds(q, s)
      BY <3>1, Zenon DEF Holds
    <3>3. route'[q][s] = route[q][s]
      BY <3>1, Zenon
    <3>4. View(q, s)' \subseteq View(q, s)
      BY <3>1, <3>2, <3>3, ViewShrinks, Zenon
    <3> QED BY <3>1, <3>4, Zenon
  <2> QED BY <2>1, <2>2, Zenon
<1>2. CASE \A p \in Proxies : ~ProxyMove(p)
  <2>1. UNCHANGED <<ppc, todo, read, route, serving>> /\ fence' \subseteq fence
    BY <1>2, StillViews, Zenon
  <2>2. Holds(q, s)' => Holds(q, s)
    BY <2>1, Zenon DEF Holds
  <2>3. View(q, s)' \subseteq View(q, s)
    BY <2>1, <2>2, ViewShrinks, Zenon
  <2> QED BY <2>1, <2>3, Zenon
<1> QED BY <1>1, <1>2, Zenon

LEMMA ProxyInvStep ==
    ASSUME TypeOK, ProxyInv, Next
    PROVE  ProxyInv'
<1> SUFFICES ASSUME NEW q \in Proxies
             PROVE  Local(q)' /\ \A s \in Slots : \A r \in View(q, s)' : r.backend \in Groups
  BY Zenon DEF ProxyInv
<1>1. Local(q) /\ \A s \in Slots : \A r \in View(q, s) : r.backend \in Groups
  BY Zenon DEF ProxyInv
<1>2. ASSUME NEW s \in Slots, NEW r \in View(q, s)' PROVE r.backend \in Groups
  <2>1. RouteOf(slotInfo[s]).backend \in Groups
    BY TypeParts, Infos, Zenon DEF ZkTypes
  <2> QED BY <1>1, <1>2, <2>1, ViewStep, Zenon
<1>3. Local(q)'
  <2>1. ASSUME NEW p \in Proxies, ProxyMove(p) PROVE Local(q)'
    <3>1. CASE q = p
      BY <2>1, <3>1, OwnViews, Zenon
    <3>2. CASE q # p
      <4>1. /\ ppc'[q] = ppc[q] /\ todo'[q] = todo[q] /\ read'[q] = read[q]
            /\ serving'[q] = serving[q] /\ (q \in fence' <=> q \in fence)
        BY <2>1, <3>2, OthersStay, Zenon
      <4> QED BY <1>1, <4>1, Zenon DEF Local
    <3> QED BY <3>1, <3>2, Zenon
  <2>2. CASE \A p \in Proxies : ~ProxyMove(p)
    <3>1. /\ UNCHANGED <<ppc, todo, read, route, serving>>
          /\ \A p \in fence : Running(p) => p \in fence'
      BY <2>2, StillViews, Zenon
    <3> QED BY <1>1, <3>1, Zenon DEF Local, Running
  <2> QED BY <2>1, <2>2, Zenon
<1> QED BY <1>2, <1>3, Zenon

-----------------------------------------------------------------------------
\* The actions: one is added, or an answer to the one that a proxy has taken up.
LEMMA RespondActions ==
    ASSUME TypeOK, ActionInv, NEW p \in Proxies, Respond(p)
    PROVE  /\ Len(actions') = Len(actions) /\ Len(actions) \in Nat /\ last' = last
           /\ \A n \in 1 .. Len(actions) :
                 /\ actions'[n].about = actions[n].about
                 /\ n # last[p] => actions'[n] = actions[n]
                 /\ actions'[n].resp \subseteq actions[n].resp \cup {p}
<1>0. ZkTypes /\ ProxyTypes
  BY TypeParts, Zenon
<1>1. last[p] \in 1 .. Len(actions) /\ Len(actions) \in Nat
  BY <1>0, Lengths DEF Respond, ActionInv, ZkTypes, ProxyTypes
<1>2. actions[last[p]] \in Actions
  BY <1>0, <1>1, Lengths, Zenon DEF ZkTypes
<1>3. PICK a : a = [actions[last[p]] EXCEPT !.resp = @ \cup {p}]
  BY Zenon
<1>4. a \in Actions /\ a.about = actions[last[p]].about /\ a.resp = actions[last[p]].resp \cup {p}
  BY <1>2, <1>3, Zenon DEF Actions
<1>5. actions' = [actions EXCEPT ![last[p]] = a]
  BY <1>3, Zenon DEF Respond
<1>6. /\ Len(actions') = Len(actions) /\ actions'[last[p]] = a
      /\ \A i \in 1 .. Len(actions) : i # last[p] => actions'[i] = actions[i]
  BY <1>0, <1>1, <1>4, <1>5, Replaced DEF ZkTypes
<1> QED BY <1>1, <1>4, <1>6, Zenon DEF Respond

\* A step that is no answer keeps the actions there are, and adds at most one.
LEMMA OtherActions ==
    ASSUME TypeOK, TaskInv, ActionInv, Next, \A p \in Proxies : ~Respond(p)
    PROVE  /\ Len(actions) \in Nat /\ Len(actions) <= Len(actions') /\ Len(actions') <= MaxActions
           /\ \A n \in 1 .. Len(actions) : actions'[n] = actions[n]
<1> DEFINE Kept == /\ Len(actions) <= Len(actions') /\ Len(actions') <= MaxActions
                   /\ \A n \in 1 .. Len(actions) : actions'[n] = actions[n]
<1>0. ZkTypes /\ ProxyTypes /\ DashTypes /\ Len(actions) \in Nat /\ Len(actions) <= MaxActions /\ MaxActions \in Nat
  BY TypeParts, Lengths, Constants, Zenon DEF ZkTypes, ActionInv
<1> SUFFICES Kept
  BY <1>0, Zenon
<1>s. actions' = actions => Kept
  BY <1>0
<1>n. ASSUME NEW about, NEW receivers, NewAction(about, receivers), about \in Slots \cup Groups,
             receivers \in SUBSET Incarnations
      PROVE  Kept
  <2>1. /\ Len(actions) < MaxActions /\ Len(actions') = Len(actions) + 1
        /\ \A n \in 1 .. Len(actions) : actions'[n] = actions[n]
    BY <1>0, <1>n, NewActionTypes, Zenon
  <2> QED BY <1>0, <2>1
<1> HIDE DEF Kept
<1>1. CASE DashAlone
  BY <1>1, <1>s, DashFrame, Zenon DEF zkVars
<1>2. CASE Update \/ UpdateFinish \/ RemoveFence
  BY <1>2, <1>s, Zenon DEF Update, UpdateFinish, RemoveFence
<1>3. CASE CreateAction
  <2>1. dpc = "create" /\ NewAction(here, recv)
    BY <1>3, Zenon DEF CreateAction
  <2>2. recv \in SUBSET Incarnations /\ here \in Slots \cup Groups
    BY <1>0, <2>1, TaskFields, Zenon DEF DashTypes, TaskInv
  <2> QED BY <1>n, <2>1, <2>2, Zenon
<1>4. CASE MigrateDone \/ MigrateSome
  BY <1>4, <1>s, Zenon DEF MigrateDone, MigrateSome, zkVars
<1>6. ASSUME NEW p \in Proxies, MarkOffline(p) \/ GrantOnline(p) \/ AdminOffline(p) PROVE Kept
  <2>1. actions' = actions
    BY <1>6, Zenon DEF MarkOffline, GrantOnline, AdminOffline, SetNode, zkVars
  <2> QED BY <1>s, <2>1, Zenon
<1>9. ASSUME NEW s \in Slots, NEW g \in Groups, PostTask(s, g) PROVE Kept
  BY <1>9, <1>s, Zenon DEF PostTask
<1>10. ASSUME NEW g \in Groups, GroupAction(g) PROVE Kept
  <2>1. PICK rs : rs = {<<p, node[p].inc>> : p \in {q \in Proxies : node[q].state = "online"}}
    BY Zenon
  <2>2. \A p \in Proxies : node[p].inc \in Nat
    BY <1>0, Zenon DEF ZkTypes, Nodes
  <2>3. rs \in SUBSET Incarnations
    BY <2>1, <2>2 DEF Incarnations
  <2>4. NewAction(g, rs) /\ g \in Slots \cup Groups
    BY <1>10, <2>1, Zenon DEF GroupAction
  <2> QED BY <1>n, <2>3, <2>4, Zenon
<1>11. ASSUME NEW x \in granted, SetOnline(x) PROVE Kept
  BY <1>11, <1>s, Zenon DEF SetOnline, SetNode, zkVars
<1>12. ASSUME NEW p \in Proxies, NEW s \in Slots, ClientWrite(p, s) PROVE Kept
  BY <1>12, <1>s, Zenon DEF ClientWrite, zkVars
<1>13. ASSUME NEW p \in Proxies, ProxyMove(p) PROVE Kept
  <2>0. ASSUME NEW s \in Slots, FillRead(p, s) PROVE actions' = actions
    BY <2>0, Zenon DEF FillRead
  <2>1. CASE RegisterNode(p) \/ RegisterFence(p) \/ WaitOnline(p) \/ RewatchProxy(p) \/ RewatchNodes(p) \/ FillSlot(p)
    BY <2>1, <1>s, Zenon DEF RegisterNode, RegisterFence, WaitOnline, RewatchProxy, RewatchNodes, FillSlot
  <2>2. CASE Serve(p) \/ ActionEvent(p) \/ ProxyEvent(p) \/ KillEvent(p) \/ Unfence(p) \/ Unregister(p)
    BY <2>2, <1>s, Zenon DEF Serve, ActionEvent, ProxyEvent, KillEvent, Unfence, Unregister
  <2>3. CASE Close(p) \/ Panic(p) \/ Start(p) \/ Kill(p) \/ Crash(p) \/ Expire(p)
    BY <2>3, <1>s, Zenon DEF Close, Panic, Start, Kill, Crash, Expire
  <2> QED BY <1>13, <1>s, <2>0, <2>1, <2>2, <2>3, Zenon DEF ProxyMove, ProxyStep
<1> QED BY <1>1, <1>2, <1>3, <1>4, <1>6, <1>9, <1>10, <1>11, <1>12, <1>13, NextCases, Zenon

\* lastActionSeq is an action there is.
LEMMA LastStep ==
    ASSUME TypeOK, NEW p \in Proxies, ProxyMove(p)
    PROVE  \/ last'[p] = last[p] /\ (ppc'[p] = "refill" => ppc[p] = "refill")
           \/ last'[p] = 0 /\ ppc'[p] # "refill"
           \/ /\ ActionEvent(p) /\ last'[p] = Len(actions)
              /\ ppc'[p] = "refill" => last[p] < Len(actions)
<1> DEFINE Goal == \/ last'[p] = last[p] /\ (ppc'[p] = "refill" => ppc[p] = "refill")
                   \/ last'[p] = 0 /\ ppc'[p] # "refill"
                   \/ /\ ActionEvent(p) /\ last'[p] = Len(actions)
                      /\ ppc'[p] = "refill" => last[p] < Len(actions)
<1>0. ProxyTypes
  BY TypeParts, Zenon
<1>1. CASE Close(p) \/ Panic(p) \/ Crash(p)
  BY <1>0, <1>1, Zenon DEF Close, Panic, Crash, Gone, Goto, ProxyTypes
<1>2. CASE RegisterNode(p)
  <2>1. CASE node[p].state = "none"
    BY <1>0, <1>2, <2>1, Zenon DEF RegisterNode, Goto, ProxyTypes
  <2>2. CASE node[p].state # "none"
    <3>1. Gone(p)
      BY <1>2, <2>2, Zenon DEF RegisterNode
    <3> QED BY <1>0, <3>1, Zenon DEF Gone, Goto, ProxyTypes
  <2> QED BY <2>1, <2>2, Zenon
<1>3. CASE RegisterFence(p) \/ WaitOnline(p) \/ RewatchProxy(p) \/ RewatchNodes(p)
  BY <1>0, <1>3, Zenon DEF RegisterFence, WaitOnline, RewatchProxy, RewatchNodes, Goto, ProxyTypes
<1>4. ASSUME NEW s \in Slots, FillRead(p, s) PROVE Goal
  BY <1>4, Zenon DEF FillRead
<1>5. CASE FillSlot(p) \/ Kill(p) \/ Expire(p)
  BY <1>5, Zenon DEF FillSlot, Kill, Expire, proxyVars
<1>6. CASE ActionEvent(p)
  <2>1. last'[p] = Len(actions) /\ ppc[p] = "loop"
    BY <1>0, <1>6, Zenon DEF ActionEvent, ProxyTypes
  <2> QED BY <1>6, <2>1, EventCases, Zenon
<1>7. CASE Serve(p) \/ Respond(p) \/ ProxyEvent(p) \/ KillEvent(p)
  BY <1>0, <1>7, Zenon DEF Serve, Respond, ProxyEvent, KillEvent, Goto, ProxyTypes
<1>8. CASE Unregister(p) \/ Start(p) \/ Unfence(p)
  BY <1>0, <1>8, Zenon DEF Unregister, Start, Unfence, Goto, ProxyTypes
<1> QED BY <1>1, <1>2, <1>3, <1>4, <1>5, <1>6, <1>7, <1>8, Zenon DEF ProxyMove, ProxyStep

LEMMA ActionStep ==
    ASSUME TypeOK, TypeOK', TaskInv, ActionInv, Next
    PROVE  ActionInv'
<1>0. ProxyTypes /\ MaxActions \in Nat
  BY TypeParts, Constants, Zenon
<1>1. Len(actions) \in Nat /\ Len(actions') \in Nat /\ Len(actions) <= Len(actions') /\ Len(actions') <= MaxActions
  <2>1. ASSUME NEW p \in Proxies, Respond(p)
        PROVE  Len(actions) \in Nat /\ Len(actions') = Len(actions) /\ Len(actions) <= MaxActions
    BY <2>1, RespondActions, Zenon DEF ActionInv
  <2>2. CASE \A p \in Proxies : ~Respond(p)
    <3>1. Len(actions) \in Nat /\ Len(actions) <= Len(actions') /\ Len(actions') <= MaxActions
      BY <2>2, OtherActions, Zenon
    <3>2. ZkTypes'
      BY Zenon DEF TypeOK, ZkTypes
    <3>3. Len(actions') \in Nat
      BY <3>2, Lengths, Zenon DEF ZkTypes
    <3> QED BY <3>1, <3>3, Zenon
  <2> QED BY <2>1, <2>2
<1>2. ASSUME NEW q \in Proxies PROVE last'[q] <= Len(actions') /\ (ppc'[q] = "refill" => 0 < last'[q])
  <2>0. /\ last[q] \in Nat /\ last[q] <= Len(actions) /\ (ppc[q] = "refill" => 0 < last[q])
    BY <1>0, <1>2 DEF ActionInv, ProxyTypes
  <2>1. CASE ProxyMove(q)
    BY <1>1, <1>2, <2>0, <2>1, LastStep
  <2>2. CASE last'[q] = last[q] /\ ppc'[q] = ppc[q]
    BY <1>1, <2>0, <2>2
  <2>3. ~ProxyMove(q) => last'[q] = last[q] /\ ppc'[q] = ppc[q]
    <3>1. ASSUME NEW p \in Proxies, ProxyMove(p), p # q PROVE last'[q] = last[q] /\ ppc'[q] = ppc[q]
      BY <1>2, <3>1, OthersStay, Zenon
    <3>2. (\A p \in Proxies : ~ProxyMove(p)) => last'[q] = last[q] /\ ppc'[q] = ppc[q]
      BY StillViews, Zenon
    <3> QED BY <3>1, <3>2, Zenon
  <2> QED BY <2>1, <2>2, <2>3, Zenon
<1> QED BY <1>1, <1>2, Zenon DEF ActionInv

-----------------------------------------------------------------------------
\* Only Slot.Update writes a slot, and it writes that of the task.
LEMMA SlotFrame ==
    ASSUME Next, ~Update
    PROVE  slotInfo' = slotInfo
<1>1. CASE DashAlone
  BY <1>1, DashFrame, Zenon DEF zkVars
<1>2. CASE CreateAction \/ UpdateFinish
  BY <1>2, Zenon DEF CreateAction, NewAction, UpdateFinish
<1>3. CASE MigrateDone \/ MigrateSome
  BY <1>3, Zenon DEF MigrateDone, MigrateSome, zkVars
<1>4. ASSUME NEW p \in Proxies, MarkOffline(p) PROVE slotInfo' = slotInfo
  BY <1>4, Zenon DEF MarkOffline, SetNode, zkVars
<1>5. ASSUME NEW s \in Slots, NEW g \in Groups, PostTask(s, g) PROVE slotInfo' = slotInfo
  BY <1>5, Zenon DEF PostTask
<1>6. ASSUME NEW p \in Proxies, NEW s \in Slots, ClientWrite(p, s) PROVE slotInfo' = slotInfo
  BY <1>6, Zenon DEF ClientWrite, zkVars
<1>7. ASSUME NEW p \in Proxies, ProxyMove(p) PROVE slotInfo' = slotInfo
  BY <1>7, MoveFrame, Zenon
<1>8. CASE \/ RemoveFence \/ (\E g \in Groups : GroupAction(g)) \/ (\E x \in granted : SetOnline(x))
           \/ \E p \in Proxies : GrantOnline(p) \/ AdminOffline(p)
  BY <1>8, OtherFrame, Zenon
<1> QED BY <1>1, <1>2, <1>3, <1>4, <1>5, <1>6, <1>7, <1>8, NextCases, Zenon

LEMMA UpdateFacts ==
    ASSUME TypeOK, TaskInv, Update
    PROVE  /\ dpc = "write" /\ dpc' = "list" /\ here \in Slots /\ cur = slotInfo[here]
           /\ goal \in {"pre_migrate", "migrate", "online", "rollback"}
           /\ slotInfo'[here] = Updated /\ \A s \in Slots : s # here => slotInfo'[s] = slotInfo[s]
<1>1. ZkTypes /\ DashTypes /\ dpc = "write" /\ dpc' = "list" /\ slotInfo' = [slotInfo EXCEPT ![here] = Updated]
  BY TypeParts, Zenon DEF Update
<1>2. here \in Slots /\ cur = slotInfo[here] /\ goal \in {"pre_migrate", "migrate", "online", "rollback"}
  BY <1>1, TaskFields, Zenon DEF TaskInv, DashTypes
<1> QED BY <1>1, <1>2, Zenon DEF ZkTypes

\* The routes stay harmless: a slot whose routes lead to the old group is locked
\* everywhere when the new group is written.
LEMMA RouteStep ==
    ASSUME TypeOK, SlotsInv, TaskInv, ProxyInv, ActionInv, AckInv, RouteInv, Next
    PROVE  RouteInv'
<1> SUFFICES ASSUME NEW q \in fence', NEW s \in Slots, NEW r \in View(q, s)', q \in Proxies
             PROVE  Harmless(r, slotInfo'[s])
  <2>1. fence' \in SUBSET Proxies => RouteInv'
    BY Zenon DEF RouteInv, Harmless
  <2> QED BY <2>1, TypeStep, Zenon DEF TypeOK
<1>1. q \in fence /\ (r \in View(q, s) \/ r = RouteOf(slotInfo[s]))
  BY ViewStep, Zenon
<1>2. slotInfo[s] \in SlotInfo
  BY TypeParts, Zenon DEF ZkTypes
<1>3. Harmless(r, slotInfo[s])
  BY <1>1, <1>2, Infos, Zenon DEF RouteInv
<1>4. CASE ~Update
  BY <1>3, <1>4, SlotFrame, Zenon
<1>5. CASE Update
  <2>0. /\ dpc = "write" /\ here \in Slots /\ cur = slotInfo[here] /\ cur.status \in Statuses
        /\ goal \in {"pre_migrate", "migrate", "online", "rollback"}
        /\ slotInfo'[here] = Updated /\ (s # here => slotInfo'[s] = slotInfo[s])
    BY <1>2, <1>5, UpdateFacts, TypeParts, Infos, Zenon DEF ZkTypes
  <2>1. CASE s # here
    BY <1>3, <2>0, <2>1, Zenon
  <2>2. CASE s = here /\ goal # "migrate"
    <3>1. Updated.group = cur.group /\ Updated.status # "migrate"
      BY <2>0, <2>2, UpdatedSlot, Zenon
    <3> QED BY <1>3, <2>0, <2>2, <3>1, Zenon DEF Harmless
  <2>3. CASE s = here /\ goal = "migrate" /\ cur.status = "migrate"
    <3>1. Updated = cur
      BY <2>0, <2>3, UpdatedSlot, Zenon
    <3> QED BY <1>3, <2>0, <2>3, <3>1, Zenon
  <2>4. CASE s = here /\ goal = "migrate" /\ cur.status = "pre_migrate"
    <3>1. r = RouteOf(slotInfo[s])
      BY <1>1, <2>0, <2>4, Zenon DEF AckInv, AckAbout, Current
    <3>2. r.locked
      BY <1>2, <2>0, <2>4, <3>1, Infos, Zenon
    <3> QED BY <3>2, Zenon DEF Harmless
  <2>5. goal = "migrate" => cur.status \in {"migrate", "pre_migrate"}
    BY <2>0, Zenon DEF TaskInv, Statuses
  <2> QED BY <2>1, <2>2, <2>3, <2>4, <2>5, Zenon
<1> QED BY <1>4, <1>5, Zenon

\* The keys are where the slot says.
LEMMA KeyStep ==
    ASSUME TypeOK, SlotsInv, TaskInv, ProxyInv, RouteInv, KeyInv, Next
    PROVE  KeyInv'
<1>0. ZkTypes /\ DashTypes /\ ProxyTypes /\ DataTypes /\ (tasks # <<>> => here \in Slots /\ task.to \in Groups)
  BY TypeParts, TaskFields, Zenon
<1>k. ASSUME NEW s \in Slots PROVE NoGroup \notin keys[s]
  BY <1>0, Constants, Zenon DEF DataTypes
\* A step that changes neither the slots nor the keys.
<1>u. ASSUME UNCHANGED <<slotInfo, keys, stray>>,
             dpc' = "write" /\ goal' = "online" => UNCHANGED <<dpc, goal, cur>> /\ here' = here
      PROVE  KeyInv'
  BY <1>u, Zenon DEF KeyInv
<1>f. Fail => ~(dpc' = "write" /\ goal' = "online")
  BY Zenon DEF Fail
<1>1. CASE DashAlone
  <2>1. UNCHANGED <<slotInfo, keys, stray>>
    BY <1>1, DashFrame, Zenon DEF zkVars, dataVars
  <2>2. ~(dpc' = "write" /\ goal' = "online")
    <3>1. CASE NextTask
      BY <3>1, Zenon DEF NextTask
    <3>2. CASE ListProxies \/ Timeout \/ ProxyDown \/ DashboardCrash
      BY <3>2, Zenon DEF ListProxies, Timeout, ProxyDown, DashboardCrash
    <3>3. CASE CheckFence \/ ReceiverTimeout \/ MigrateError
      BY <1>f, <3>3, Zenon DEF CheckFence, ReceiverTimeout, MigrateError
    <3>4. ASSUME NEW p \in Proxies, GetProxyInfo(p) PROVE ~(dpc' = "write" /\ goal' = "online")
      BY <1>f, <3>4, Zenon DEF GetProxyInfo
    <3>5. CASE Poll
      <4>1. CASE pending \subseteq actions[seq].resp
        <5>1. Confirmed /\ goal \in {"pre_migrate", "migrate", "online", "rollback"}
          BY <1>0, <3>5, <4>1, Zenon DEF Poll, TaskInv, DashTypes
        <5> QED BY <5>1, Zenon DEF Confirmed
      <4>2. CASE ~(pending \subseteq actions[seq].resp)
        BY <3>5, <4>2, Zenon DEF Poll
      <4> QED BY <4>1, <4>2, Zenon
    <3> QED BY <1>1, <3>1, <3>2, <3>3, <3>4, <3>5, Zenon DEF DashAlone
  <2> QED BY <1>u, <2>1, <2>2, Zenon
<1>2. CASE Update
  <2>0. /\ dpc = "write" /\ dpc' = "list" /\ here \in Slots /\ cur = slotInfo[here] /\ cur.status \in Statuses
        /\ goal \in {"pre_migrate", "migrate", "online", "rollback"}
        /\ slotInfo'[here] = Updated /\ \A s \in Slots : s # here => slotInfo'[s] = slotInfo[s]
    BY <1>0, <1>2, UpdateFacts, Infos, Zenon DEF DashTypes
  <2>1. UNCHANGED <<keys, stray>>
    BY <1>2, Zenon DEF Update, dataVars
  <2> SUFFICES ASSUME ~stray PROVE keys[here] \subseteq {Updated.group, Updated.from}
    BY <2>0, <2>1, Zenon DEF KeyInv
  <2>2. keys[here] \subseteq {cur.group, cur.from}
    BY <2>0, Zenon DEF KeyInv
  <2>3. CASE goal \in {"pre_migrate", "rollback"}
    <3>1. Updated.group = cur.group /\ Updated.from = cur.from
      BY <2>0, <2>3, UpdatedSlot, Zenon
    <3> QED BY <2>2, <3>1, Zenon
  <2>4. CASE goal = "online"
    <3>1. Updated.group = cur.group
      BY <2>0, <2>4, UpdatedSlot, Zenon
    <3> QED BY <2>0, <2>4, <3>1, Zenon DEF KeyInv
  <2>5. CASE goal = "migrate" /\ cur.status = "migrate"
    <3>1. Updated = cur
      BY <2>0, <2>5, UpdatedSlot, Zenon
    <3> QED BY <2>2, <3>1, Zenon
  <2>6. CASE goal = "migrate" /\ cur.status = "pre_migrate"
    <3>1. Updated.from = cur.group /\ cur.from = NoGroup
      BY <2>0, <2>6, UpdatedSlot, Zenon DEF SlotsInv
    <3> QED BY <1>k, <2>0, <2>2, <3>1, Zenon
  <2>7. goal = "migrate" => cur.status \in {"migrate", "pre_migrate"}
    BY <2>0, Zenon DEF TaskInv, Statuses
  <2> QED BY <2>0, <2>3, <2>4, <2>5, <2>6, <2>7, Zenon
<1>3. CASE MigrateSome \/ MigrateDone
  <2>1. /\ dpc = "migrate" /\ here \in Slots /\ cur = slotInfo[here] /\ cur.to = cur.group /\ tasks # <<>>
    <3>1. dpc = "migrate" /\ tasks # <<>> /\ here \in Slots /\ cur = slotInfo[here] /\ cur.status = "migrate"
      BY <1>0, <1>3, Zenon DEF MigrateSome, MigrateDone, TaskInv
    <3> QED BY <3>1, Zenon DEF SlotsInv
  <2>2. /\ UNCHANGED <<slotInfo, stray, cur, tasks>> /\ here' = here
        /\ dpc' = "write" => keys' = Move(here, FALSE)
        /\ \E some \in BOOLEAN : keys' = Move(here, some)
    BY <1>3, <2>1, Zenon DEF MigrateSome, MigrateDone, zkVars, dashVars, here, task
  <2>3. ASSUME NEW some \in BOOLEAN
        PROVE  /\ Move(here, some)[here] \subseteq keys[here] \cup {cur.group}
               /\ \A s \in Slots : s # here => Move(here, some)[s] = keys[s]
    BY <1>0, <2>1, Zenon DEF Move, DataTypes
  <2>4. Move(here, FALSE)[here] \subseteq (keys[here] \ {cur.from}) \cup {cur.group}
    BY <1>0, <2>1, Zenon DEF Move, DataTypes
  <2>5. ASSUME ~stray, NEW s \in Slots PROVE keys'[s] \subseteq {slotInfo[s].group, slotInfo[s].from}
    <3>1. keys[s] \subseteq {slotInfo[s].group, slotInfo[s].from}
      BY <2>5, Zenon DEF KeyInv
    <3>2. CASE s = here
      BY <2>1, <2>2, <2>3, <3>1, <3>2, Zenon
    <3>3. CASE s # here
      BY <2>2, <2>3, <3>1, <3>3, Zenon
    <3> QED BY <3>2, <3>3, Zenon
  <2>6. ASSUME ~stray, dpc' = "write" PROVE keys'[here] \subseteq {cur.group}
    <3>1. keys[here] \subseteq {cur.group, cur.from}
      BY <2>1, <2>6, Zenon DEF KeyInv
    <3> QED BY <2>2, <2>4, <2>6, <3>1, Zenon
  <2> QED BY <2>2, <2>5, <2>6, Zenon DEF KeyInv
<1>4. ASSUME NEW p \in Proxies, NEW s \in Slots, ClientWrite(p, s) PROVE KeyInv'
  <2>1. UNCHANGED <<slotInfo, tasks, dpc, goal, cur>> /\ here' = here
    BY <1>4, Zenon DEF ClientWrite, zkVars, dashVars, here, task
  <2> SUFFICES ASSUME ~stray' PROVE /\ \A t \in Slots : keys'[t] \subseteq {slotInfo[t].group, slotInfo[t].from}
                                    /\ dpc = "write" /\ goal = "online" => keys'[here] \subseteq {cur.group}
    BY <2>1, Zenon DEF KeyInv
  <2>2. ~stray /\ p \in fence /\ serving[p] /\ ~route[p][s].locked
    BY <1>4, Zenon DEF ClientWrite
  <2>3. route[p][s] \in View(p, s)
    <3>1. route[p][s] \in Routes
      BY <1>0, <1>4, Zenon DEF ProxyTypes
    <3> QED BY <2>2, <3>1, Zenon DEF View, Holds
  <2>4. route[p][s].backend = slotInfo[s].group
    BY <2>2, <2>3, Zenon DEF RouteInv, Harmless
  <2>5. keys'[s] \subseteq keys[s] \cup {slotInfo[s].group} /\ \A t \in Slots : t # s => keys'[t] = keys[t]
    BY <1>0, <1>4, <2>4, Zenon DEF ClientWrite, DataTypes
  <2>6. ASSUME NEW t \in Slots PROVE keys'[t] \subseteq {slotInfo[t].group, slotInfo[t].from}
    <3>1. keys[t] \subseteq {slotInfo[t].group, slotInfo[t].from}
      BY <2>2, Zenon DEF KeyInv
    <3> QED BY <2>5, <3>1, Zenon
  <2>7. ASSUME dpc = "write", goal = "online" PROVE keys'[here] \subseteq {cur.group}
    <3>1. keys[here] \subseteq {cur.group} /\ cur = slotInfo[here] /\ here \in Slots
      BY <1>0, <2>2, <2>7, Zenon DEF KeyInv, TaskInv
    <3> QED BY <2>5, <3>1, Zenon
  <2> QED BY <2>6, <2>7, Zenon
<1>5. CASE CreateAction
  BY <1>5, <1>u, Zenon DEF CreateAction, NewAction, dataVars
<1>6. CASE UpdateFinish
  BY <1>6, <1>u, Zenon DEF UpdateFinish, dataVars
<1>7. ASSUME NEW p \in Proxies, MarkOffline(p) PROVE KeyInv'
  <2>1. UNCHANGED <<slotInfo, keys, stray>>
    BY <1>7, Zenon DEF MarkOffline, SetNode, zkVars, dataVars
  <2>2. ~(dpc' = "write" /\ goal' = "online")
    BY <1>7, <1>f, Zenon DEF MarkOffline
  <2> QED BY <1>u, <2>1, <2>2, Zenon
<1>8. ASSUME NEW s \in Slots, NEW g \in Groups, PostTask(s, g) PROVE KeyInv'
  <2>1. /\ tasks' = Append(tasks, [slot |-> s, to |-> g]) /\ UNCHANGED <<slotInfo, keys, stray, dpc, goal, cur>>
        /\ [slot |-> s, to |-> g] \in Tasks
    BY <1>8, Zenon DEF PostTask, dashVars, dataVars, Tasks
  <2>2. dpc = "write" => Head(tasks') = Head(tasks)
    BY <1>0, <2>1, Appends DEF ZkTypes, TaskInv
  <2>3. dpc = "write" => here' = here
    BY <2>2, Zenon DEF here, task
  <2> QED BY <1>u, <2>1, <2>3, Zenon
<1>9. ASSUME NEW p \in Proxies, ProxyMove(p) PROVE KeyInv'
  <2>1. UNCHANGED <<slotInfo, keys, stray, dpc, goal, cur>> /\ here' = here
    BY <1>9, MoveFrame, Zenon DEF dashVars, dataVars, here, task
  <2> QED BY <1>u, <2>1, Zenon
<1>10. CASE \/ RemoveFence \/ (\E g \in Groups : GroupAction(g)) \/ (\E x \in granted : SetOnline(x))
            \/ \E p \in Proxies : GrantOnline(p) \/ AdminOffline(p)
  <2>1. UNCHANGED <<slotInfo, keys, stray, dpc, goal, cur>> /\ here' = here
    BY <1>10, OtherFrame, Zenon DEF dashVars, dataVars, here, task
  <2> QED BY <1>u, <2>1, Zenon
<1> QED BY <1>1, <1>2, <1>3, <1>4, <1>5, <1>6, <1>7, <1>8, <1>9, <1>10, NextCases, Zenon

-----------------------------------------------------------------------------
\* A proxy that has taken over what is written keeps it until the next write.
LEMMA CurrentStays ==
    ASSUME TypeOK, ProxyInv, Next, ~Update, NEW q \in Proxies, NEW s \in Slots
    PROVE  /\ Current(q, s) => Current(q, s)'
           /\ q \in fence' => q \in fence \/ Current(q, s)'
<1>1. slotInfo' = slotInfo
  BY SlotFrame, Zenon
<1>2. View(q, s)' \subseteq View(q, s) \cup {RouteOf(slotInfo[s])}
  BY ViewStep, Zenon
<1>3. q \in fence' => q \in fence \/ View(q, s)' = {}
  BY ViewStep, Zenon
<1> QED BY <1>1, <1>2, <1>3, Zenon DEF Current

\* What a proxy does between taking an action up and answering it.
LEMMA RefillStep ==
    ASSUME TypeOK, ProxyInv, NEW p \in Proxies, ProxyMove(p), NEW h \in Slots, ppc'[p] = "refill",
           Current(p, h) => Current(p, h)'
    PROVE  \/ /\ read'[p].slot # h /\ last'[p] = Len(actions)
              /\ actions[Len(actions)].about = h => h \in todo'[p]
           \/ /\ ppc[p] = "refill" /\ last'[p] = last[p]
              /\ /\ read[p].slot = h => RouteOf(read[p].info) = RouteOf(slotInfo[h])
                 /\ h \in todo[p] \/ Current(p, h)
                 => /\ read'[p].slot = h => RouteOf(read'[p].info) = RouteOf(slotInfo[h])
                    /\ h \in todo'[p] \/ Current(p, h)'
<1> DEFINE Taken == /\ read'[p].slot # h /\ last'[p] = Len(actions)
                    /\ actions[Len(actions)].about = h => h \in todo'[p]
           Before == /\ read[p].slot = h => RouteOf(read[p].info) = RouteOf(slotInfo[h])
                     /\ h \in todo[p] \/ Current(p, h)
           After == /\ read'[p].slot = h => RouteOf(read'[p].info) = RouteOf(slotInfo[h])
                    /\ h \in todo'[p] \/ Current(p, h)'
           Refilling == ppc[p] = "refill" /\ last'[p] = last[p] /\ (Before => After)
<1> SUFFICES Taken \/ Refilling
  BY Zenon
<1>0. ProxyTypes /\ Local(p) /\ slotInfo' = slotInfo
  BY TypeParts, MoveFrame, Zenon DEF ProxyInv
<1>1. CASE ActionEvent(p)
  <2>1. last'[p] = Len(actions) /\ ppc[p] = "loop" /\ UNCHANGED read
    BY <1>0, <1>1, Zenon DEF ActionEvent, ProxyTypes
  <2>2. read'[p].slot # h
    BY <2>1, Knows, Zenon
  <2>3. todo' = [todo EXCEPT ![p] = {s \in Slots : actions[Len(actions)].about \in {s, route[p][s].backend}}]
    BY <1>1, <2>1, EventCases, Zenon
  <2>4. todo'[p] = {s \in Slots : actions[Len(actions)].about \in {s, route[p][s].backend}}
    BY <1>0, <2>3, Zenon DEF ProxyTypes
  <2> QED BY <2>1, <2>2, <2>4, Zenon
<1>2. CASE Kill(p) \/ Expire(p)
  <2>1. UNCHANGED <<ppc, last, read, todo>>
    BY <1>2, Zenon DEF Kill, Expire, proxyVars
  <2> QED BY <2>1, Zenon
<1>3. ASSUME NEW x \in Slots, FillRead(p, x) PROVE Refilling
  <2>1. UNCHANGED <<ppc, last, todo>> /\ read'[p] = [slot |-> x, info |-> slotInfo[x]]
    BY <1>0, <1>3, Zenon DEF FillRead, ProxyTypes
  <2>2. read'[p].slot = x /\ read'[p].info = slotInfo[x]
    BY <2>1
  <2> QED BY <2>1, <2>2, Zenon
<1>4. CASE FillSlot(p)
  <2>1. /\ UNCHANGED <<ppc, last>> /\ read'[p] = NoRead /\ todo'[p] = todo[p] \ {read[p].slot}
        /\ read[p] # NoRead
    BY <1>0, <1>4, Zenon DEF FillSlot, ProxyTypes
  <2>2. read'[p].slot # h
    BY <2>1, ReadFields, Zenon
  <2>3. ASSUME Before, read[p].slot = h PROVE Current(p, h)'
    <3>1. route'[p][h] = RouteOf(read[p].info)
      BY <1>0, <1>4, <2>3, Zenon DEF FillSlot, ProxyTypes
    <3>2. route'[p][h] = RouteOf(slotInfo'[h])
      BY <1>0, <2>3, <3>1, Zenon
    <3> QED BY <2>2, <3>2, Zenon DEF Current, View
  <2>4. ASSUME Before, read[p].slot # h PROVE h \in todo'[p] \/ Current(p, h)'
    BY <2>1, <2>4, Zenon
  <2> QED BY <2>1, <2>2, <2>3, <2>4, Zenon
\* The other steps do not end in refill.
<1>5. CASE RegisterNode(p)
  <2>1. CASE node[p].state = "none"
    BY <1>0, <1>5, <2>1, Zenon DEF RegisterNode, Goto, ProxyTypes
  <2>2. CASE node[p].state # "none"
    <3>1. Gone(p)
      BY <1>5, <2>2, Zenon DEF RegisterNode
    <3> QED BY <1>0, <3>1, Zenon DEF Gone, Goto, ProxyTypes
  <2> QED BY <2>1, <2>2, Zenon
<1>6. CASE RegisterFence(p) \/ WaitOnline(p) \/ RewatchProxy(p) \/ RewatchNodes(p) \/ Serve(p) \/ Respond(p)
  BY <1>0, <1>6, Zenon DEF RegisterFence, WaitOnline, RewatchProxy, RewatchNodes, Serve, Respond, Goto, ProxyTypes
<1>7. CASE ProxyEvent(p) \/ KillEvent(p) \/ Unfence(p) \/ Unregister(p) \/ Start(p)
  BY <1>0, <1>7, Zenon DEF ProxyEvent, KillEvent, Unfence, Unregister, Start, Goto, ProxyTypes
<1>8. CASE Close(p) \/ Panic(p) \/ Crash(p)
  BY <1>0, <1>8, Zenon DEF Close, Panic, Crash, Gone, Goto, ProxyTypes
<1> QED BY <1>1, <1>2, <1>3, <1>4, <1>5, <1>6, <1>7, <1>8, Zenon DEF ProxyMove, ProxyStep

\* Steps in which the dashboard goes on waiting.
LEMMA AckWhileWaiting ==
    ASSUME TypeOK, TypeOK', TaskInv, ProxyInv, ActionInv, Next, ~Update, NEW h \in Slots, AckAbout(h),
           UNCHANGED <<dpc, goal, cur, recv, pending, seq>>
    PROVE  AckAbout(h)'
<1>0. ProxyTypes /\ DashTypes /\ slotInfo' = slotInfo /\ fence' \in SUBSET Proxies
  BY TypeParts, SlotFrame, Zenon DEF TypeOK
<1>c. \A q \in fence' : q \in Proxies /\ (q \in fence \/ Current(q, h)') /\ (Current(q, h) => Current(q, h)')
  BY <1>0, CurrentStays, Zenon
<1>1. dpc' = "create" => \A q \in fence' : Current(q, h)' \/ q \in Ids(recv')
  BY <1>c, Zenon DEF AckAbout
<1>2. dpc' = "write" /\ goal' = "migrate" /\ cur'.status = "pre_migrate" => \A q \in fence' : Current(q, h)'
  BY <1>c, Zenon DEF AckAbout
<1>3. ASSUME dpc = "wait"
      PROVE  /\ 0 < seq /\ seq <= Len(actions') /\ actions'[seq].about = h
             /\ \A q \in fence' : Current(q, h)' \/ (q \in pending /\ q \notin actions'[seq].resp)
             /\ \A q \in Proxies : ppc'[q] = "refill" /\ last'[q] = seq =>
                   /\ read'[q].slot = h => RouteOf(read'[q].info) = RouteOf(slotInfo'[h])
                   /\ h \in todo'[q] \/ Current(q, h)'
  <2>0. /\ 0 < seq /\ seq <= Len(actions) /\ actions[seq].about = h
        /\ \A q \in fence : Current(q, h) \/ (q \in pending /\ q \notin actions[seq].resp)
        /\ \A q \in Proxies : ppc[q] = "refill" /\ last[q] = seq =>
              /\ read[q].slot = h => RouteOf(read[q].info) = RouteOf(slotInfo[h])
              /\ h \in todo[q] \/ Current(q, h)
    BY <1>3, Zenon DEF AckAbout
  <2>1. seq \in 1 .. Len(actions) /\ Len(actions) \in Nat
    <3>1. seq \in Nat /\ Len(actions) \in Nat
      BY <1>0, TypeParts, Lengths DEF DashTypes, ZkTypes
    <3> QED BY <2>0, <3>1
  <2>2. seq <= Len(actions') /\ actions'[seq].about = h
    <3>1. ASSUME NEW p \in Proxies, Respond(p) PROVE Len(actions') = Len(actions) /\ actions'[seq].about = h
      BY <2>0, <2>1, <3>1, RespondActions, Zenon
    <3>2. CASE \A p \in Proxies : ~Respond(p)
      <4>1. Len(actions) <= Len(actions') /\ actions'[seq] = actions[seq]
        BY <2>1, <3>2, OtherActions, Zenon
      <4>2. Len(actions') \in Nat
        <5>1. actions' \in Seq(Actions)
          BY Zenon DEF TypeOK
        <5> QED BY <5>1, Lengths, Zenon
      <4> QED BY <2>0, <2>1, <4>1, <4>2
    <3> QED BY <2>0, <3>1, <3>2, Zenon
  <2>3. ASSUME NEW q \in fence', q \in pending, q \notin actions[seq].resp, q \in actions'[seq].resp
        PROVE  Current(q, h)'
    <3>1. PICK p \in Proxies : Respond(p)
      BY <2>1, <2>3, OtherActions, Zenon
    <3>2. p = q /\ last[q] = seq
      BY <2>1, <2>3, <3>1, RespondActions, Zenon
    <3>3. ppc[q] = "refill" /\ todo[q] = {}
      BY <3>1, <3>2, Zenon DEF Respond
    <3>4. Current(q, h)
      BY <2>0, <3>1, <3>2, <3>3, Zenon
    <3> QED BY <1>c, <2>3, <3>4, Zenon
  <2>4. \A q \in fence' : Current(q, h)' \/ (q \in pending /\ q \notin actions'[seq].resp)
    BY <1>c, <2>0, <2>3, Zenon
  <2>5. ASSUME NEW q \in Proxies, ppc'[q] = "refill", last'[q] = seq
        PROVE  /\ read'[q].slot = h => RouteOf(read'[q].info) = RouteOf(slotInfo[h])
               /\ h \in todo'[q] \/ Current(q, h)'
    <3>0. Current(q, h) => Current(q, h)'
      BY CurrentStays, Zenon
    <3>1. CASE ProxyMove(q)
      <4>1. CASE /\ read'[q].slot # h /\ last'[q] = Len(actions)
                 /\ actions[Len(actions)].about = h => h \in todo'[q]
        BY <2>0, <2>5, <4>1, Zenon
      <4>2. CASE /\ ppc[q] = "refill" /\ last'[q] = last[q]
                 /\ /\ read[q].slot = h => RouteOf(read[q].info) = RouteOf(slotInfo[h])
                    /\ h \in todo[q] \/ Current(q, h)
                    => /\ read'[q].slot = h => RouteOf(read'[q].info) = RouteOf(slotInfo[h])
                       /\ h \in todo'[q] \/ Current(q, h)'
        BY <2>0, <2>5, <4>2, Zenon
      <4> QED BY <2>5, <3>0, <3>1, <4>1, <4>2, RefillStep, Zenon
    <3>2. CASE ~ProxyMove(q)
      <4>1. ppc'[q] = ppc[q] /\ todo'[q] = todo[q] /\ read'[q] = read[q] /\ last'[q] = last[q]
        <5>1. ASSUME NEW p \in Proxies, ProxyMove(p), p # q
              PROVE  ppc'[q] = ppc[q] /\ todo'[q] = todo[q] /\ read'[q] = read[q] /\ last'[q] = last[q]
          BY <2>5, <5>1, OthersStay, Zenon
        <5>2. CASE \A p \in Proxies : ~ProxyMove(p)
          BY <5>2, StillViews, Zenon
        <5> QED BY <3>2, <5>1, <5>2, Zenon
      <4> QED BY <2>0, <2>5, <3>0, <4>1, Zenon
    <3> QED BY <3>1, <3>2, Zenon
  <2> QED BY <1>0, <2>0, <2>2, <2>4, <2>5, Zenon
<1> QED BY <1>1, <1>2, <1>3, Zenon DEF AckAbout

LEMMA AckStep ==
    ASSUME TypeOK, TypeOK', TaskInv, ProxyInv, ActionInv, AckInv, Next
    PROVE  AckInv'
<1> SUFFICES ASSUME NEW h \in Slots, h = here' PROVE AckAbout(h)'
  BY Zenon DEF AckInv
\* Where AckAbout says nothing.
<1>v. ASSUME dpc' \notin {"create", "wait"},
             ~(dpc' = "write" /\ goal' = "migrate" /\ cur'.status = "pre_migrate")
      PROVE  AckAbout(h)'
  BY <1>v, Zenon DEF AckAbout
<1>f. ASSUME Fail PROVE AckAbout(h)'
  <2>1. dpc' \notin {"create", "wait"} /\ ~(dpc' = "write" /\ goal' = "migrate" /\ cur'.status = "pre_migrate")
    BY <1>f, Zenon DEF Fail
  <2> QED BY <1>v, <2>1, Zenon
<1>w. ASSUME ~Update, dpc # "idle" => here' = here, UNCHANGED <<dpc, goal, cur, recv, pending, seq>>
      PROVE  AckAbout(h)'
  <2>1. CASE dpc = "idle"
    BY <1>v, <1>w, <2>1, Zenon
  <2>2. CASE dpc # "idle"
    <3>1. AckAbout(h)
      BY <1>w, <2>2, Zenon DEF AckInv
    <3> QED BY <1>w, <3>1, AckWhileWaiting, Zenon
  <2> QED BY <2>1, <2>2, Zenon
<1>1. CASE DashAlone
  <2>0. /\ UNCHANGED <<slotInfo, fence, actions, tasks, ppc, todo, read, last, route, serving>>
        /\ here' = here
    BY <1>1, DashFrame, Zenon DEF zkVars, proxyVars, here, task
  <2>a. AckAbout(h)
    BY <2>0, Zenon DEF AckInv
  <2>c. \A q \in Proxies : Current(q, h) => Current(q, h)'
    BY <2>0, Zenon DEF Current, View, Holds
  <2>p. fence \in SUBSET Proxies
    BY Zenon DEF TypeOK
  <2>1. CASE NextTask
    <3>1. dpc' \in {"finish", "write"} /\ (goal' = "migrate" => cur'.status = "migrate")
      BY <2>1, Zenon DEF NextTask
    <3> QED BY <1>v, <3>1, Zenon
  <2>2. CASE ListProxies \/ Timeout \/ ProxyDown \/ DashboardCrash
    <3>1. dpc' \in {"info", "mark", "idle"}
      BY <2>2, Zenon DEF ListProxies, Timeout, ProxyDown, DashboardCrash
    <3> QED BY <1>v, <3>1, Zenon
  <2>3. CASE CheckFence
    <3>1. CASE fence \subseteq Ids(recv)
      <4>1. dpc' = "create" /\ UNCHANGED recv
        BY <2>3, <3>1, Zenon DEF CheckFence
      <4> QED BY <2>0, <3>1, <4>1, Zenon DEF AckAbout
    <3>2. CASE ~(fence \subseteq Ids(recv))
      BY <1>f, <2>3, <3>2, Zenon DEF CheckFence
    <3> QED BY <3>1, <3>2, Zenon
  <2>4. CASE ReceiverTimeout \/ MigrateError
    BY <1>f, <2>4, Zenon DEF ReceiverTimeout, MigrateError
  <2>5. ASSUME NEW p \in Proxies, GetProxyInfo(p) PROVE AckAbout(h)'
    <3>1. CASE node[p].state = "none"
      BY <1>f, <2>5, <3>1, Zenon DEF GetProxyInfo
    <3>2. CASE node[p].state # "none"
      <4>1. dpc' = "info"
        BY <2>5, <3>2, Zenon DEF GetProxyInfo
      <4> QED BY <1>v, <4>1, Zenon
    <3> QED BY <3>1, <3>2, Zenon
  <2>6. CASE Poll
    <3>0. dpc = "wait" /\ goal \in {"pre_migrate", "migrate", "online", "rollback"}
      BY <2>6, TypeParts, Zenon DEF Poll, TaskInv, DashTypes
    <3>1. CASE pending \subseteq actions[seq].resp
      <4>1. Confirmed
        BY <2>6, <3>1, Zenon DEF Poll
      <4>2. dpc' \in {"write", "migrate", "finish", "idle"}
        BY <3>0, <4>1, Zenon DEF Confirmed
      <4>3. \A q \in fence : Current(q, h)'
        BY <2>a, <2>c, <2>p, <3>0, <3>1, Zenon DEF AckAbout
      <4> QED BY <2>0, <4>2, <4>3, Zenon DEF AckAbout
    <3>2. CASE ~(pending \subseteq actions[seq].resp)
      <4>1. UNCHANGED <<dpc, seq>> /\ pending' = pending \ actions[seq].resp
        BY <2>6, <3>2, Zenon DEF Poll
      <4>2. \A q \in fence' : Current(q, h)' \/ (q \in pending' /\ q \notin actions'[seq'].resp)
        BY <2>0, <2>a, <2>c, <2>p, <3>0, <4>1, Zenon DEF AckAbout
      <4>3. \A q \in Proxies : ppc'[q] = "refill" /\ last'[q] = seq' =>
                /\ read'[q].slot = h => RouteOf(read'[q].info) = RouteOf(slotInfo'[h])
                /\ h \in todo'[q] \/ Current(q, h)'
        BY <2>0, <2>a, <2>c, <3>0, <4>1, Zenon DEF AckAbout
      <4>4. 0 < seq' /\ seq' <= Len(actions') /\ actions'[seq'].about = h
        BY <2>0, <2>a, <3>0, <4>1, Zenon DEF AckAbout
      <4> QED BY <3>0, <4>1, <4>2, <4>3, <4>4, Zenon DEF AckAbout
    <3> QED BY <3>1, <3>2, Zenon
  <2> QED BY <1>1, <2>1, <2>2, <2>3, <2>4, <2>5, <2>6, Zenon DEF DashAlone
<1>2. CASE Update
  <2>1. dpc' = "list"
    BY <1>2, Zenon DEF Update
  <2> QED BY <1>v, <2>1, Zenon
<1>3. CASE CreateAction
  <2>0. /\ dpc = "create" /\ dpc' = "wait" /\ pending' = Ids(recv) /\ seq' = Len(actions) + 1 /\ ~Update
        /\ NewAction(here, recv) /\ UNCHANGED <<fence, last, tasks>>
    BY <1>3, Zenon DEF CreateAction, NewAction, Update
  <2>1. here' = here /\ h = here
    BY <2>0, Zenon DEF here, task
  <2>2. ZkTypes /\ DashTypes /\ ProxyTypes /\ recv \in SUBSET Incarnations /\ h \in Slots \cup Groups
    BY TypeParts, Zenon DEF DashTypes
  <2>3. /\ Len(actions') = Len(actions) + 1 /\ Len(actions) \in Nat
        /\ actions'[seq'].about = h /\ actions'[seq'].resp = {}
    BY <2>0, <2>1, <2>2, NewActionTypes, Zenon
  <2>4. \A q \in fence' : Current(q, h)' \/ (q \in pending' /\ q \notin actions'[seq'].resp)
    <3>1. \A q \in fence : Current(q, h) \/ q \in Ids(recv)
      BY <2>0, <2>1, Zenon DEF AckInv, AckAbout
    <3>2. \A q \in fence : Current(q, h) => Current(q, h)'
      BY <2>0, CurrentStays, Zenon DEF TypeOK
    <3> QED BY <2>0, <2>3, <3>1, <3>2, Zenon
  <2>5. \A q \in Proxies : last'[q] # seq'
    <3>1. \A q \in Proxies : last[q] \in Nat /\ last[q] <= Len(actions)
      BY <2>2 DEF ActionInv, ProxyTypes
    <3> QED BY <2>0, <2>3, <3>1
  <2>6. 0 < seq' /\ seq' <= Len(actions')
    BY <2>0, <2>3
  <2> QED BY <2>0, <2>3, <2>4, <2>5, <2>6, Zenon DEF AckAbout
<1>4. CASE MigrateDone
  <2>1. dpc' = "write" /\ goal' = "online"
    BY <1>4, Zenon DEF MigrateDone, TaskInv
  <2> QED BY <1>v, <2>1, Zenon
<1>5. CASE UpdateFinish
  <2>1. dpc' = "idle"
    BY <1>5, Zenon DEF UpdateFinish
  <2> QED BY <1>v, <2>1, Zenon
<1>6. ASSUME NEW p \in Proxies, MarkOffline(p) PROVE AckAbout(h)'
  <2>1. CASE node[p].state = "none"
    BY <1>f, <1>6, <2>1, Zenon DEF MarkOffline
  <2>2. CASE node[p].state # "none"
    <3>1. dpc' = "down"
      BY <1>6, <2>2, Zenon DEF MarkOffline
    <3> QED BY <1>v, <3>1, Zenon
  <2> QED BY <2>1, <2>2, Zenon
\* The other steps leave the dashboard where it is.
<1>7. CASE MigrateSome
  <2>1. UNCHANGED <<dpc, goal, cur, recv, pending, seq>> /\ here' = here /\ dpc = "migrate"
    BY <1>7, Zenon DEF MigrateSome, zkVars, dashVars, here, task
  <2> QED BY <1>v, <2>1, Zenon
<1>8. ASSUME NEW s \in Slots, NEW g \in Groups, PostTask(s, g) PROVE AckAbout(h)'
  <2>1. /\ tasks' = Append(tasks, [slot |-> s, to |-> g]) /\ UNCHANGED <<slotInfo, dpc, goal, cur, recv, pending, seq>>
        /\ [slot |-> s, to |-> g] \in Tasks
    BY <1>8, Zenon DEF PostTask, dashVars, Tasks
  <2>2. dpc # "idle" => Head(tasks') = Head(tasks)
    BY <2>1, TypeParts, Appends DEF ZkTypes, TaskInv
  <2>3. dpc # "idle" => here' = here
    BY <2>2, Zenon DEF here, task
  <2>4. CASE Update
    BY <1>2, <2>4, Zenon
  <2>5. CASE ~Update
    BY <1>w, <2>1, <2>3, <2>5, Zenon
  <2> QED BY <2>4, <2>5, Zenon
<1>9. ASSUME UNCHANGED <<tasks, dashVars>> PROVE AckAbout(h)'
  <2>1. UNCHANGED <<dpc, goal, cur, recv, pending, seq>> /\ here' = here
    BY <1>9, Zenon DEF dashVars, here, task
  <2> QED BY <1>2, <1>w, <2>1, Zenon
<1>10. ASSUME NEW p \in Proxies, ProxyMove(p) PROVE AckAbout(h)'
  BY <1>9, <1>10, MoveFrame, Zenon
<1>11. ASSUME NEW p \in Proxies, NEW s \in Slots, ClientWrite(p, s) PROVE AckAbout(h)'
  BY <1>9, <1>11, Zenon DEF ClientWrite, zkVars
<1>12. CASE \/ RemoveFence \/ (\E g \in Groups : GroupAction(g)) \/ (\E x \in granted : SetOnline(x))
            \/ \E p \in Proxies : GrantOnline(p) \/ AdminOffline(p)
  BY <1>9, <1>12, OtherFrame, Zenon
<1> QED BY <1>1, <1>2, <1>3, <1>4, <1>5, <1>6, <1>7, <1>8, <1>10, <1>11, <1>12, NextCases, Zenon

-----------------------------------------------------------------------------
\* At the beginning all slots are online in one group and the proxies in Up serve them.
LEMMA InitHolds ==
    ASSUME Init
    PROVE  MigrationInv
<1>1. PICK g \in Groups :
        /\ slotInfo = [s \in Slots |-> Online(g)]
        /\ keys = [s \in Slots |-> {g}]
        /\ node = [p \in Proxies |-> IF p \in Up THEN [state |-> "online", inc |-> 1] ELSE NoNode]
        /\ fence = Up /\ actions = <<>> /\ tasks = <<>>
        /\ dpc = "idle" /\ goal = "none" /\ cur = Online(g) /\ recv = {} /\ pending = {}
        /\ seq = 0 /\ target = {}
        /\ ppc = [p \in Proxies |-> IF p \in Up THEN "loop" ELSE "down"]
        /\ starts = [p \in Proxies |-> IF p \in Up THEN 1 ELSE 0]
        /\ todo = [p \in Proxies |-> {}]
        /\ read = [p \in Proxies |-> NoRead]
        /\ last = [p \in Proxies |-> 0]
        /\ watch = [p \in Proxies |-> IF p \in Up THEN "armed" ELSE "off"]
        /\ pwatch = watch
        /\ route = [p \in Proxies |-> [s \in Slots |-> IF p \in Up THEN RouteOf(Online(g)) ELSE NoRoute]]
        /\ serving = [p \in Proxies |-> p \in Up]
        /\ killed = [p \in Proxies |-> FALSE]
        /\ stray = FALSE /\ granted = {} /\ posted = 0 /\ faults = 0
  BY Zenon DEF Init
<1>2. /\ Online(g) \in SlotInfo /\ RouteOf(Online(g)) \in Routes /\ NoRoute \in Routes
      /\ RouteOf(Online(g)).backend = g /\ NoRead \in Reads
      /\ Online(g).status = "online" /\ Online(g).from = NoGroup /\ Online(g).to = NoGroup /\ Online(g).group = g
  BY Zenon DEF Online, SlotInfo, Statuses, RouteOf, Routes, NoRoute, Reads
<1>3. Up \subseteq Proxies /\ 0 \in 0 .. MaxActions /\ 0 \in 0 .. MaxTasks /\ 0 \in 0 .. MaxFaults
  BY BoundsAssumption
<1>4. TypeOK
  <2>1. ZkTypes
    <3>1. \A p \in Proxies : node[p] \in Nodes
      BY <1>1, Zenon DEF Nodes, NoNode
    <3>2. node \in [Proxies -> Nodes] /\ slotInfo \in [Slots -> SlotInfo]
      BY <1>1, <1>2, <3>1, Zenon
    <3>3. actions \in Seq(Actions) /\ tasks \in Seq(Tasks)
      BY <1>1
    <3> QED BY <1>1, <1>3, <3>2, <3>3, Zenon DEF ZkTypes
  <2>2. DashTypes
    BY <1>1, <1>2, <1>3, Zenon DEF DashTypes, DashPCs
  <2>3. ProxyTypes
    <3>1. starts \in [Proxies -> Nat] /\ serving \in [Proxies -> BOOLEAN]
      BY <1>1
    <3>2. ppc \in [Proxies -> ProxyPCs] /\ watch \in [Proxies -> {"off", "armed", "fired"}]
      BY <1>1, Zenon DEF ProxyPCs
    <3>3. route \in [Proxies -> [Slots -> Routes]]
      BY <1>1, <1>2, Zenon
    <3> QED BY <1>1, <1>2, <1>3, <3>1, <3>2, <3>3, Zenon DEF ProxyTypes
  <2>4. DataTypes
    BY <1>1, <1>3, Zenon DEF DataTypes
  <2> QED BY <2>1, <2>2, <2>3, <2>4, TypeParts, Zenon
<1>5. SlotsInv
  BY <1>1, <1>2, Zenon DEF SlotsInv
<1>6. TaskInv
  BY <1>1, Zenon DEF TaskInv
<1>7. \A p \in Proxies, s \in Slots : read[p].slot # s /\ read[p] = NoRead /\ (p \in Up <=> serving[p])
                                      /\ ppc[p] \in {"loop", "down"} /\ (p \in Up <=> ppc[p] = "loop")
  BY <1>1, ReadFields, Zenon
<1>8. \A p \in Proxies, s \in Slots : View(p, s) \subseteq {RouteOf(Online(g))}
  <2> SUFFICES ASSUME NEW p \in Proxies, NEW s \in Slots, NEW r \in View(p, s) PROVE r = RouteOf(Online(g))
    BY Zenon
  <2>1. p \in Up /\ r = route[p][s]
    BY <1>7, Zenon DEF View, Holds
  <2> QED BY <1>1, <2>1, Zenon
<1>9. ProxyInv
  <2>1. \A p \in Proxies : Local(p)
    <3> SUFFICES ASSUME NEW p \in Proxies PROVE Local(p)
      BY Zenon
    <3>1. read[p] = NoRead /\ serving[p] = (p \in Up) /\ ppc[p] = IF p \in Up THEN "loop" ELSE "down"
      BY <1>1, Zenon
    <3>2. CASE p \in Up
      BY <1>1, <3>1, <3>2, Zenon DEF Local
    <3>3. CASE p \notin Up
      BY <1>1, <3>1, <3>3, Zenon DEF Local
    <3> QED BY <3>2, <3>3, Zenon
  <2> QED BY <1>2, <1>8, <2>1, Zenon DEF ProxyInv
<1>10. ActionInv
  BY <1>1, Constants DEF ActionInv
<1>11. AckInv
  BY <1>1, Zenon DEF AckInv, AckAbout
<1>12. RouteInv
  <2>1. Harmless(RouteOf(Online(g)), Online(g))
    BY <1>2, Infos, Zenon
  <2> QED BY <1>1, <1>3, <1>8, <2>1, Zenon DEF RouteInv
<1>13. KeyInv
  BY <1>1, <1>2, Zenon DEF KeyInv
<1> QED BY <1>4, <1>5, <1>6, <1>9, <1>10, <1>11, <1>12, <1>13, Zenon DEF MigrationInv

LEMMA StepHolds ==
    ASSUME MigrationInv, Next
    PROVE  MigrationInv'
<1>0. TypeOK /\ SlotsInv /\ TaskInv /\ ProxyInv /\ ActionInv /\ AckInv /\ RouteInv /\ KeyInv
  BY Zenon DEF MigrationInv
<1>1. TypeOK'
  BY <1>0, TypeStep, Zenon
<1>2. SlotsInv' /\ TaskInv'
  BY <1>0, TaskStep, Zenon
<1>3. ProxyInv'
  BY <1>0, ProxyInvStep, Zenon
<1>4. ActionInv'
  BY <1>0, <1>1, ActionStep, Zenon
<1>5. AckInv'
  BY <1>0, <1>1, AckStep, Zenon
<1>6. RouteInv'
  BY <1>0, RouteStep, Zenon
<1>7. KeyInv'
  BY <1>0, KeyStep, Zenon
<1> QED BY <1>1, <1>2, <1>3, <1>4, <1>5, <1>6, <1>7, Zenon DEF MigrationInv

LEMMA StutterHolds ==
    ASSUME MigrationInv, UNCHANGED vars
    PROVE  MigrationInv'
<1>1. UNCHANGED <<zkVars, dashVars, proxyVars, dataVars, granted, posted, faults>>
  BY Zenon DEF vars
<1>2. TypeOK'
  BY <1>1, Zenon DEF MigrationInv, TypeOK, zkVars, dashVars, proxyVars, dataVars
<1>3. SlotsInv' /\ TaskInv'
  BY <1>1, Zenon DEF MigrationInv, SlotsInv, TaskInv, Written, here, task, zkVars, dashVars
<1>4. \A p, s : View(p, s)' = View(p, s)
  BY <1>1, Zenon DEF View, Holds, proxyVars
<1>5. ProxyInv' /\ RouteInv'
  BY <1>1, <1>4, Zenon DEF MigrationInv, ProxyInv, RouteInv, Local, proxyVars, zkVars
<1>6. ActionInv'
  BY <1>1, Zenon DEF MigrationInv, ActionInv, proxyVars, zkVars
<1>7. AckInv'
  <2>1. \A p, s : Current(p, s)' <=> Current(p, s)
    BY <1>1, <1>4, Zenon DEF Current, zkVars
  <2>2. ASSUME NEW h \in Slots, AckAbout(h) PROVE AckAbout(h)'
    BY <1>1, <2>1, <2>2, Zenon DEF AckAbout, proxyVars, zkVars, dashVars
  <2>3. here' = here
    BY <1>1, Zenon DEF here, task, zkVars
  <2> QED BY <2>2, <2>3, Zenon DEF MigrationInv, AckInv
<1>8. KeyInv'
  BY <1>1, Zenon DEF MigrationInv, KeyInv, here, task, zkVars, dashVars, dataVars
<1> QED BY <1>2, <1>3, <1>5, <1>6, <1>7, <1>8, Zenon DEF MigrationInv

\* The inductive invariant holds for every number of slots, groups and proxies: the
\* dashboard's copy of the slot is what ZooKeeper has, a proxy that has not taken over
\* what was written is a receiver that has not answered, and no route that is not
\* locked leads elsewhere than to the group that is written.
THEOREM MigrationAlways == Spec => []MigrationInv
<1>1. Init => MigrationInv
  BY InitHolds, Zenon
<1>2. MigrationInv /\ [Next]_vars => MigrationInv'
  BY StepHolds, StutterHolds, Zenon
<1> QED BY <1>1, <1>2, PTL DEF Spec

\* Two proxies that serve a slot never send its writes to different groups, whatever
\* proxies and dashboards crash, restart, lose their sessions or are given up
\* (Slot.Update, NewAction with its fencing, and fillSlot).
THEOREM RouteNeverSplit == Spec => []NoSplitRoute
<1>1. MigrationInv => NoSplitRoute
  <2> SUFFICES ASSUME MigrationInv, NEW s \in Slots, NEW p \in Proxies, Active(p), ~route[p][s].locked
               PROVE  route[p][s].backend = slotInfo[s].group
    BY Zenon DEF NoSplitRoute
  <2>1. route[p][s] \in Routes
    BY TypeParts, Zenon DEF MigrationInv, ProxyTypes
  <2>2. route[p][s] \in View(p, s) /\ p \in fence
    BY <2>1, Zenon DEF View, Holds, Active
  <2> QED BY <2>2, Zenon DEF MigrationInv, RouteInv, Harmless
<1> QED BY <1>1, MigrationAlways, PTL

\* As long as no proxy without a fence has written, no key is where a serving proxy does
\* not look for it: while the slot migrates each pulls from the group it comes from.
THEOREM KeysStayReachable == Spec => []KeysReachable
<1>1. MigrationInv => KeysReachable
  <2> SUFFICES ASSUME MigrationInv, ~stray, NEW s \in Slots, NEW p \in Proxies, Active(p), ~route[p][s].locked
               PROVE  keys[s] \subseteq {route[p][s].backend, route[p][s].from}
    BY Zenon DEF KeysReachable
  <2>0. SlotsInv /\ RouteInv /\ KeyInv /\ DataTypes
    BY TypeParts, Zenon DEF MigrationInv
  <2>1. route[p][s] \in Routes
    BY TypeParts, Zenon DEF MigrationInv, ProxyTypes
  <2>2. route[p][s] \in View(p, s) /\ p \in fence
    BY <2>1, Zenon DEF View, Holds, Active
  <2>3. /\ route[p][s].backend = slotInfo[s].group
        /\ slotInfo[s].status = "migrate" => route[p][s].from = slotInfo[s].from
    BY <2>0, <2>2, Zenon DEF RouteInv, Harmless
  <2>4. keys[s] \subseteq {slotInfo[s].group, slotInfo[s].from} /\ NoGroup \notin keys[s]
    BY <2>0, Constants, Zenon DEF KeyInv, DataTypes
  <2>5. slotInfo[s].status # "migrate" => slotInfo[s].from = NoGroup
    BY <2>0, Zenon DEF SlotsInv
  <2> QED BY <2>3, <2>4, <2>5, Zenon
<1> QED BY <1>1, MigrationAlways, PTL

\* One slot at a time migrates, for the task at the head and between two groups,
\* although what preMigrateCheck finds is only logged.
THEOREM OneMigrationAtATime == Spec => []OneMigration
<1>1. MigrationInv => OneMigration
  BY Zenon DEF MigrationInv, SlotsInv, OneMigration
<1> QED BY <1>1, MigrationAlways, PTL

\* When WaitForReceiverWithTimeout returns without an error, every serving proxy that
\* the dashboard knows of routes the slot as it was written: no answer comes too early.
THEOREM ConfirmedIsApplied == Spec => ConfirmMeansApplied
<1>1. ASSUME MigrationInv, Next, dpc = "wait", dpc' \in {"write", "migrate", "finish"},
             NEW p \in Proxies, Active(p)
      PROVE  route[p][here] = RouteOf(slotInfo[here])
  <2>0. TypeOK /\ TaskInv /\ AckInv /\ ZkTypes /\ tasks # <<>> /\ here \in Slots
    BY <1>1, TypeParts, TaskFields, Zenon DEF MigrationInv, TaskInv
  <2>1. pending \subseteq actions[seq].resp
    <3>1. CASE Poll
      BY <1>1, <3>1, Zenon DEF Poll
    <3>2. CASE DashAlone /\ ~Poll
      <4>1. ASSUME NEW q \in Proxies, GetProxyInfo(q) PROVE FALSE
        BY <1>1, <4>1, Zenon DEF GetProxyInfo
      <4> QED BY <1>1, <3>2, <4>1, Zenon DEF DashAlone, NextTask, ListProxies, CheckFence, Timeout, ProxyDown,
                                             ReceiverTimeout, MigrateError, DashboardCrash
    <3>3. CASE Update \/ CreateAction \/ MigrateDone \/ MigrateSome \/ UpdateFinish
      BY <1>1, <3>3, Zenon DEF Update, CreateAction, MigrateDone, MigrateSome, UpdateFinish
    <3>4. ASSUME NEW q \in Proxies, MarkOffline(q) PROVE FALSE
      BY <1>1, <3>4, Zenon DEF MarkOffline
    <3>5. dpc' # dpc
      BY <1>1, Zenon
    <3>6. ASSUME NEW q \in Proxies, ProxyMove(q) PROVE FALSE
      BY <3>5, <3>6, MoveFrame, Zenon DEF dashVars
    <3>7. ASSUME NEW s \in Slots, NEW g \in Groups, PostTask(s, g) PROVE FALSE
      BY <3>5, <3>7, Zenon DEF PostTask, dashVars
    <3>8. ASSUME NEW q \in Proxies, NEW s \in Slots, ClientWrite(q, s) PROVE FALSE
      BY <3>5, <3>8, Zenon DEF ClientWrite, dashVars
    <3>9. CASE \/ RemoveFence \/ (\E g \in Groups : GroupAction(g)) \/ (\E x \in granted : SetOnline(x))
               \/ \E q \in Proxies : GrantOnline(q) \/ AdminOffline(q)
      BY <3>5, <3>9, OtherFrame, Zenon DEF dashVars
    <3> QED BY <1>1, <3>1, <3>2, <3>3, <3>4, <3>6, <3>7, <3>8, <3>9, NextCases, Zenon
  <2>2. p \in fence /\ serving[p]
    BY <1>1, Zenon DEF Active
  <2>3. Current(p, here)
    BY <1>1, <2>0, <2>1, <2>2, Zenon DEF AckInv, AckAbout
  <2>4. route[p][here] \in Routes
    BY <2>0, TypeParts, Zenon DEF ProxyTypes
  <2>5. route[p][here] \in View(p, here)
    BY <2>2, <2>4, Zenon DEF View, Holds
  <2> QED BY <2>3, <2>5, Zenon DEF Current
<1>2. MigrationInv /\ [Next]_vars =>
        [dpc = "wait" /\ dpc' \in {"write", "migrate", "finish"} =>
            \A p \in Proxies : Active(p) => route[p][here] = RouteOf(slotInfo[here])]_vars
  BY <1>1, Zenon
<1> QED BY <1>2, MigrationAlways, PTL DEF Spec, ConfirmMeansApplied

\* NewAction's fencing does what its comment says: when the fences have been checked, a
\* proxy that still serves and is not a receiver has deleted its fence and is leaving.
THEOREM FencedOrLeaving == Spec => OfflineMeansLeaving
<1>1. ASSUME MigrationInv, Next, dpc = "info", dpc' = "create",
             NEW p \in Proxies, serving[p], p \notin Ids(recv)
      PROVE  ppc[p] \in {"unregister", "close"}
  <2>1. fence \subseteq Ids(recv)
    <3>f. ~Fail
      BY <1>1, Zenon DEF Fail
    <3>1. CASE CheckFence
      BY <1>1, <3>f, <3>1, Zenon DEF CheckFence
    <3>2. CASE DashAlone /\ ~CheckFence
      <4>1. ASSUME NEW q \in Proxies, GetProxyInfo(q) PROVE FALSE
        BY <1>1, <3>f, <4>1, Zenon DEF GetProxyInfo
      <4> QED BY <1>1, <3>f, <3>2, <4>1, Zenon DEF DashAlone, NextTask, ListProxies, Poll, Timeout, ProxyDown,
                                             ReceiverTimeout, MigrateError, DashboardCrash
    <3>3. CASE Update \/ CreateAction \/ MigrateDone \/ MigrateSome \/ UpdateFinish
      BY <1>1, <3>3, Zenon DEF Update, CreateAction, MigrateDone, MigrateSome, UpdateFinish
    <3>4. ASSUME NEW q \in Proxies, MarkOffline(q) PROVE FALSE
      BY <1>1, <3>4, Zenon DEF MarkOffline
    <3>5. dpc' # dpc
      BY <1>1, Zenon
    <3>6. ASSUME NEW q \in Proxies, ProxyMove(q) PROVE FALSE
      BY <3>5, <3>6, MoveFrame, Zenon DEF dashVars
    <3>7. ASSUME NEW s \in Slots, NEW g \in Groups, PostTask(s, g) PROVE FALSE
      BY <3>5, <3>7, Zenon DEF PostTask, dashVars
    <3>8. ASSUME NEW q \in Proxies, NEW s \in Slots, ClientWrite(q, s) PROVE FALSE
      BY <3>5, <3>8, Zenon DEF ClientWrite, dashVars
    <3>9. CASE \/ RemoveFence \/ (\E g \in Groups : GroupAction(g)) \/ (\E x \in granted : SetOnline(x))
               \/ \E q \in Proxies : GrantOnline(q) \/ AdminOffline(q)
      BY <3>5, <3>9, OtherFrame, Zenon DEF dashVars
    <3> QED BY <1>1, <3>1, <3>2, <3>3, <3>4, <3>6, <3>7, <3>8, <3>9, NextCases, Zenon
  <2>2. Local(p)
    BY <1>1, Zenon DEF MigrationInv, ProxyInv
  <2>3. p \notin fence
    BY <1>1, <2>1, Zenon
  <2> QED BY <1>1, <2>2, <2>3, Zenon DEF Local
<1>2. MigrationInv /\ [Next]_vars =>
        [dpc = "info" /\ dpc' = "create" =>
            \A p \in Proxies : serving[p] /\ p \notin Ids(recv) => ppc[p] \in {"unregister", "close"}]_vars
  BY <1>1, Zenon
<1> QED BY <1>2, MigrationAlways, PTL DEF Spec, OfflineMeansLeaving
=============================================================================
