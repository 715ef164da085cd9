---------------------------- MODULE SlotMigration ----------------------------
(***************************************************************************)
(* How a slot changes its group while proxies keep serving it: the         *)
(* dashboard's migrate task (cmd/cconfig), the state it shares with the    *)
(* proxies in ZooKeeper (pkg/models), and the proxies' event loop          *)
(* (pkg/proxy).                                                            *)
(*                                                                         *)
(*   - The dashboard writes the slot's new state, creates an action that   *)
(*     names the online proxies as receivers, and waits until each of them *)
(*     has answered; one that does not is marked offline.  pre_migrate     *)
(*     makes the proxies lock the slot, migrate makes them send requests   *)
(*     to the new group and pull each key over first, online ends it.      *)
(*   - A proxy registers a node and a fence, waits to be set online, fills *)
(*     its slots, and then handles the latest action whenever the watch on *)
(*     the actions fires: it reads the slot again, changes its route and   *)
(*     answers.                                                            *)
(*                                                                         *)
(* Proxies and the dashboard crash and restart, sessions expire, watches   *)
(* are missed, the wait for the receivers times out.  Groups keep their    *)
(* masters; the change of a route is one step, which SlotRouter justifies. *)
(***************************************************************************)
EXTENDS Integers, Sequences, FiniteSets, Functions

CONSTANTS
    Slots, Groups, Proxies,
    Up,             \* the proxies that serve at the beginning
    NoGroup,        \* INVALID_ID, or no migration source
    NoSlot,
    MaxTasks,       \* bound: migrate tasks posted
    MaxActions,     \* bound: actions created
    MaxStarts,      \* bound: starts, those of the proxies in Up included
    MaxFaults       \* bound: crashes, kills, expired sessions, failed commands

ASSUME NoValueAssumption ==
    NoGroup \notin Groups /\ NoSlot \notin Slots /\ Slots \cap Groups = {}
ASSUME BoundsAssumption ==
    Up \subseteq Proxies /\ {MaxTasks, MaxActions, MaxStarts, MaxFaults} \subseteq Nat

VARIABLES
    \* ZooKeeper
    slotInfo,   \* slots/slot_N
    node,       \* proxy/<id>: state and incarnation; state "none" when there is no node
    fence,      \* fence/<addr>
    actions,    \* actions/<seq> with the answers of ActionResponse/<seq>
    tasks,      \* migrate_tasks, in the order of their ids
    \* dashboard: the goroutine MigrateManager.loop
    dpc,        \* where it is
    goal,       \* which Slot.Update is going on
    cur,        \* its copy of the slot
    recv,       \* ProxyList of the action being made
    pending,    \* proxies still to be read, or receivers that have not answered
    seq,        \* the action it waits for
    target,     \* the proxy it has marked offline, {} when there is none
    \* proxies
    ppc,        \* where serve or loopEvents is
    starts,     \* incarnation (Pid and StartAt)
    todo,       \* slots that serve has still to fill
    read,       \* the slot that fillSlot has read, and what it has read
    last,       \* lastActionSeq
    watch,      \* "armed", "fired" (an event is in evtbus) or "off": the actions
    pwatch,     \* the same for the proxy's own node
    route,      \* Router.slots
    serving,    \* clients are accepted and the router is open
    killed,     \* Server.close has run because of a signal
    \* redis servers and the rest
    keys,       \* groups that hold keys of the slot
    stray,      \* a proxy without a fence has written
    granted,    \* SetProxyStatus(online) calls that have read node and slots
    posted, faults

zkVars == <<slotInfo, node, fence, actions, tasks>>
dashVars == <<dpc, goal, cur, recv, pending, seq, target>>
proxyVars == <<ppc, starts, todo, read, last, watch, pwatch, route, serving, killed>>
dataVars == <<keys, stray>>
vars == <<zkVars, dashVars, proxyVars, dataVars, granted, posted, faults>>

Statuses == {"online", "pre_migrate", "migrate"}
SlotInfo == [group : Groups, status : Statuses, from : Groups \cup {NoGroup},
             to : Groups \cup {NoGroup}]
Online(g) == [group |-> g, status |-> "online", from |-> NoGroup, to |-> NoGroup]

\* What fillSlot makes of a slot: Router.FillSlot(i, addr, from, lock).
Routes == [backend : Groups \cup {NoGroup}, from : Groups \cup {NoGroup}, locked : BOOLEAN]
NoRoute == [backend |-> NoGroup, from |-> NoGroup, locked |-> FALSE]
RouteOf_NoFrom(s) ==
    [backend |-> s.group, from |-> NoGroup, locked |-> s.status = "pre_migrate"]
RouteOf(s) ==
    [backend |-> s.group,
     from |-> IF s.status = "migrate" THEN s.from ELSE NoGroup,
     locked |-> s.status = "pre_migrate"]

NoRead == [slot |-> NoSlot]
Reads == [slot : Slots, info : SlotInfo] \cup {NoRead}

Tasks == [slot : Slots, to : Groups]
Incarnations == Proxies \X Nat
Nodes == [state : {"none", "offline", "online", "mark_offline"}, inc : Nat]
NoNode == [state |-> "none", inc |-> 0]
\* about: the slot or the group that has changed.
Actions == [about : Slots \cup Groups, receivers : SUBSET Incarnations, resp : SUBSET Proxies]

Ids(incs) == {x[1] : x \in incs}
Running(p) == ppc[p] # "down"

DashPCs == {"idle", "write", "list", "info", "create", "wait", "mark", "down",
            "migrate", "finish"}
ProxyPCs == {"down", "register", "register_fence", "wait_online", "watch_proxy",
             "watch_actions", "fill", "loop", "refill", "unfence", "unregister",
             "close"}

TypeOK ==
    /\ slotInfo \in [Slots -> SlotInfo]
    /\ node \in [Proxies -> Nodes]
    /\ fence \in SUBSET Proxies
    /\ actions \in Seq(Actions)
    /\ tasks \in Seq(Tasks)
    /\ dpc \in DashPCs
    /\ goal \in {"none", "pre_migrate", "migrate", "online", "rollback"}
    /\ cur \in SlotInfo
    /\ recv \in SUBSET Incarnations
    /\ pending \in SUBSET Proxies
    /\ seq \in 0 .. MaxActions
    /\ target \in SUBSET Proxies
    /\ ppc \in [Proxies -> ProxyPCs]
    /\ starts \in [Proxies -> Nat]
    /\ todo \in [Proxies -> SUBSET Slots]
    /\ read \in [Proxies -> Reads]
    /\ last \in [Proxies -> 0 .. MaxActions]
    /\ watch \in [Proxies -> {"off", "armed", "fired"}]
    /\ pwatch \in [Proxies -> {"off", "armed", "fired"}]
    /\ route \in [Proxies -> [Slots -> Routes]]
    /\ serving \in [Proxies -> BOOLEAN]
    /\ killed \in [Proxies -> BOOLEAN]
    /\ keys \in [Slots -> SUBSET Groups]
    /\ stray \in BOOLEAN
    /\ granted \in SUBSET Incarnations
    /\ posted \in 0 .. MaxTasks
    /\ faults \in 0 .. MaxFaults

\* A cluster whose slots have been assigned to one group.  The proxies in Up have
\* been set online and serve, the others have not been started.
Init ==
    \E g \in Groups :
        /\ slotInfo = [s \in Slots |-> Online(g)]
        /\ keys = [s \in Slots |-> {g}]
        /\ node = [p \in Proxies |->
                    IF p \in Up THEN [state |-> "online", inc |-> 1] ELSE NoNode]
        /\ fence = Up /\ actions = <<>> /\ tasks = <<>>
        /\ dpc = "idle" /\ goal = "none" /\ cur = Online(g) /\ recv = {} /\ pending = {}
        /\ seq = 0 /\ target = {}
        /\ ppc = [p \in Proxies |-> IF p \in Up THEN "loop" ELSE "down"]
        /\ starts = [p \in Proxies |-> IF p \in Up THEN 1 ELSE 0]
        /\ todo = [p \in Proxies |-> {}]
        /\ read = [p \in Proxies |-> NoRead]
        /\ last = [p \in Proxies |-> 0]
        /\ watch = [p \in Proxies |-> IF p \in Up THEN "armed" ELSE "off"]
        /\ pwatch = watch
        /\ route = [p \in Proxies |-> [s \in Slots |->
                     IF p \in Up THEN RouteOf(Online(g)) ELSE NoRoute]]
        /\ serving = [p \in Proxies |-> p \in Up]
        /\ killed = [p \in Proxies |-> FALSE]
        /\ stray = FALSE /\ granted = {} /\ posted = 0 /\ faults = 0

\* Changing a node fires the watch that is armed on it.
Fire(w) == IF w = "armed" THEN "fired" ELSE w
Fault == faults < MaxFaults /\ faults' = faults + 1

-----------------------------------------------------------------------------
(***************************************************************************)
(* The dashboard: MigrateManager.loop runs the task with the smallest id.  *)
(***************************************************************************)
task == Head(tasks)
here == task.slot
\* migrateSingleSlot's from: the group that holds the slot's keys.
fromGroup(s) == IF s.status = "migrate" THEN s.from ELSE s.group

\* POST /api/migrate: a sequence node under migrate_tasks.
PostTask(s, g) ==
    /\ posted < MaxTasks
    /\ posted' = posted + 1
    /\ tasks' = Append(tasks, [slot |-> s, to |-> g])
    /\ UNCHANGED <<slotInfo, node, fence, actions, dashVars, proxyVars, dataVars, granted, faults>>

\* loop up to the first Update.  What preMigrateCheck finds is only logged.
NextTask_NoSelfCheck ==
    /\ dpc = "idle" /\ tasks # <<>>
    /\ cur' = slotInfo[here]
    /\ dpc' = "write"
    /\ goal' = IF cur'.status = "migrate" THEN "migrate" ELSE "pre_migrate"
    /\ UNCHANGED <<zkVars, recv, pending, seq, target, proxyVars, dataVars, granted, posted, faults>>
NextTask_NoPreMigrate ==
    /\ dpc = "idle" /\ tasks # <<>>
    /\ cur' = slotInfo[here]
    /\ IF fromGroup(cur') = task.to
       THEN dpc' = "finish" /\ goal' = "none"
       ELSE dpc' = "write" /\ goal' = "migrate"
    /\ UNCHANGED <<zkVars, recv, pending, seq, target, proxyVars, dataVars, granted, posted, faults>>
NextTask ==
    /\ dpc = "idle" /\ tasks # <<>>
    /\ cur' = slotInfo[here]
    /\ IF fromGroup(cur') = task.to
       THEN dpc' = "finish" /\ goal' = "none"
       ELSE /\ dpc' = "write"
            /\ goal' = IF cur'.status = "migrate" THEN "migrate" ELSE "pre_migrate"
    /\ UNCHANGED <<zkVars, recv, pending, seq, target, proxyVars, dataVars, granted, posted, faults>>

\* The slot as the Update that is going on writes it.
Updated ==
    CASE goal = "pre_migrate" -> [cur EXCEPT !.status = "pre_migrate"]
      [] goal = "migrate" -> [group |-> task.to, status |-> "migrate",
                              from |-> fromGroup(cur), to |-> task.to]
      [] goal = "online" -> Online(cur.group)
      [] goal = "rollback" -> [cur EXCEPT !.status = "online"]

\* Slot.Update: ZooKeeper first, then NewAction.
Update ==
    /\ dpc = "write"
    /\ cur' = Updated
    /\ slotInfo' = [slotInfo EXCEPT ![here] = cur']
    /\ dpc' = "list"
    /\ UNCHANGED <<node, fence, actions, tasks, goal, recv, pending, seq, target, proxyVars,
                   dataVars, granted, posted, faults>>

\* An error of migrateSingleSlot: the task stays at the head, and a slot that is
\* still in pre_migrate is set back to online; an error of that Update is logged.
Fail ==
    /\ IF goal # "rollback" /\ slotInfo[here].status = "pre_migrate"
       THEN dpc' = "write" /\ goal' = "rollback" /\ cur' = slotInfo[here]
       ELSE dpc' = "idle" /\ goal' = "none" /\ UNCHANGED cur
    /\ recv' = {} /\ pending' = {} /\ seq' = 0 /\ target' = {}

\* NewAction: the children of proxy/, then the node of each.
ListProxies ==
    /\ dpc = "list"
    /\ pending' = {p \in Proxies : node[p].state # "none"}
    /\ recv' = {}
    /\ dpc' = "info"
    /\ UNCHANGED <<zkVars, goal, cur, seq, target, proxyVars, dataVars, granted, posted, faults>>

GetProxyInfo(p) ==
    /\ dpc = "info" /\ p \in pending
    /\ IF node[p].state = "none"
       THEN Fail
       ELSE /\ pending' = pending \ {p}
            /\ recv' = IF node[p].state = "online" THEN recv \cup {<<p, node[p].inc>>} ELSE recv
            /\ UNCHANGED <<dpc, goal, cur, seq, target>>
    /\ UNCHANGED <<zkVars, proxyVars, dataVars, granted, posted, faults>>

\* Every proxy with a fence must be one of the receivers.
CheckFence_NoFencing ==
    /\ dpc = "info" /\ pending = {}
    /\ dpc' = "create"
    /\ UNCHANGED <<zkVars, goal, cur, recv, pending, seq, target, proxyVars, dataVars, granted,
                   posted, faults>>
CheckFence ==
    /\ dpc = "info" /\ pending = {}
    /\ IF fence \subseteq Ids(recv)
       THEN dpc' = "create" /\ UNCHANGED <<goal, cur, recv, pending, seq, target>>
       ELSE Fail
    /\ UNCHANGED <<zkVars, proxyVars, dataVars, granted, posted, faults>>

\* Creating a node under actions/ fires the watches on it.
NewAction(about, receivers) ==
    /\ Len(actions) < MaxActions
    /\ actions' = Append(actions, [about |-> about, receivers |-> receivers, resp |-> {}])
    /\ watch' = [p \in Proxies |-> Fire(watch[p])]
    /\ UNCHANGED <<slotInfo, node, fence, tasks>>
    /\ UNCHANGED <<ppc, starts, todo, read, last, pwatch, route, serving, killed>>

CreateAction ==
    /\ dpc = "create"
    /\ NewAction(here, recv)
    /\ seq' = Len(actions) + 1
    /\ pending' = Ids(recv)
    /\ dpc' = "wait"
    /\ UNCHANGED <<goal, cur, recv, target, dataVars, granted, posted, faults>>

\* The Update that was going on has returned without an error.
Confirmed ==
    /\ dpc' = CASE goal = "pre_migrate" -> "write"
                [] goal = "migrate" -> "migrate"
                [] goal = "online" -> "finish"
                [] goal = "rollback" -> "idle"
    /\ goal' = CASE goal = "pre_migrate" -> "migrate"
                 [] goal = "migrate" -> "online"
                 [] OTHER -> "none"
    /\ recv' = {} /\ pending' = {} /\ seq' = 0
    /\ UNCHANGED <<cur, target>>

\* WaitForReceiverWithTimeout: one look at the answers.
Poll ==
    /\ dpc = "wait"
    /\ IF pending \subseteq actions[seq].resp
       THEN Confirmed
       ELSE pending' = pending \ actions[seq].resp /\ UNCHANGED <<dpc, goal, cur, recv, seq, target>>
    /\ UNCHANGED <<zkVars, proxyVars, dataVars, granted, posted, faults>>

\* ... and giving up: whoever had not answered at the last look is marked offline.
Timeout ==
    /\ dpc = "wait" /\ pending # {}
    /\ dpc' = "mark"
    /\ UNCHANGED <<zkVars, goal, cur, recv, pending, seq, target, proxyVars, dataVars, granted,
                   posted, faults>>

\* SetProxyStatus writes the node of p; the watch of p on it fires.
SetNode(p, state, inc) ==
    /\ node' = [node EXCEPT ![p] = [state |-> state, inc |-> inc]]
    /\ pwatch' = [pwatch EXCEPT ![p] = Fire(@)]
    /\ UNCHANGED <<slotInfo, fence, actions, tasks>>
    /\ UNCHANGED <<ppc, starts, todo, read, last, watch, route, serving, killed>>

MarkOffline(p) ==
    /\ dpc = "mark" /\ p \in pending
    /\ IF node[p].state = "none"
       THEN Fail /\ UNCHANGED <<zkVars, proxyVars>>
       ELSE /\ SetNode(p, "mark_offline", node[p].inc)
            /\ pending' = pending \ {p} /\ target' = {p} /\ dpc' = "down"
            /\ UNCHANGED <<goal, cur, recv, seq>>
    /\ UNCHANGED <<dataVars, granted, posted, faults>>

\* SetProxyStatus waits, without a timeout, until the proxy has gone.
ProxyDown ==
    /\ dpc = "down" /\ \A p \in target : node[p].state \in {"none", "offline"}
    /\ target' = {} /\ dpc' = "mark"
    /\ UNCHANGED <<zkVars, goal, cur, recv, pending, seq, proxyVars, dataVars, granted, posted, faults>>

\* ErrReceiverTimeout
ReceiverTimeout ==
    /\ dpc = "mark" /\ pending = {}
    /\ Fail
    /\ UNCHANGED <<zkVars, proxyVars, dataVars, granted, posted, faults>>

\* MigrateTask.Migrate: SLOTSMGRTTAGSLOT moves some keys from the old group to the
\* new one, until none remains.
Move(s, some) == [keys EXCEPT ![s] = (IF some THEN @ ELSE @ \ {cur.from}) \cup
                                     (IF cur.from \in @ THEN {cur.to} ELSE {})]

MigrateSome ==
    /\ dpc = "migrate" /\ cur.from \in keys[here]
    /\ keys' = Move(here, TRUE)
    /\ UNCHANGED <<zkVars, dashVars, proxyVars, stray, granted, posted, faults>>

MigrateDone ==
    /\ dpc = "migrate"
    /\ keys' = Move(here, FALSE)
    /\ dpc' = "write"
    /\ UNCHANGED <<zkVars, goal, cur, recv, pending, seq, target, proxyVars, stray, granted, posted, faults>>

MigrateError ==
    /\ dpc = "migrate" /\ Fault
    /\ Fail
    /\ UNCHANGED <<zkVars, proxyVars, dataVars, granted, posted>>

\* UpdateFinish removes the task.
UpdateFinish ==
    /\ dpc = "finish"
    /\ tasks' = Tail(tasks)
    /\ dpc' = "idle"
    /\ UNCHANGED <<slotInfo, node, fence, actions, goal, cur, recv, pending, seq, target,
                   proxyVars, dataVars, granted, posted, faults>>

\* The dashboard dies; a new one starts over with the task at the head.
DashboardCrash ==
    /\ dpc # "idle" /\ Fault
    /\ dpc' = "idle" /\ goal' = "none" /\ recv' = {} /\ pending' = {} /\ seq' = 0 /\ target' = {}
    /\ UNCHANGED <<zkVars, cur, proxyVars, dataVars, granted, posted>>

-----------------------------------------------------------------------------
(***************************************************************************)
(* The other requests the dashboard serves.                                *)
(***************************************************************************)
\* SetProxyStatus(online), asked for by a proxy that has started: the node and
\* the slots are read first, and the node is written later, as it was read.
GrantOnline(p) ==
    /\ node[p].state = "offline" /\ <<p, node[p].inc>> \notin granted
    /\ \A s \in Slots : slotInfo[s].status \in {"online", "migrate"}
    /\ granted' = granted \cup {<<p, node[p].inc>>}
    /\ UNCHANGED <<zkVars, dashVars, proxyVars, dataVars, posted, faults>>

SetOnline(x) ==
    /\ x \in granted
    /\ granted' = granted \ {x}
    /\ IF node[x[1]].state = "none"
       THEN UNCHANGED <<zkVars, proxyVars>>
       ELSE SetNode(x[1], "online", x[2])
    /\ UNCHANGED <<dashVars, dataVars, posted, faults>>

\* SetProxyStatus(mark_offline), asked for by the administrator.
AdminOffline(p) ==
    /\ node[p].state \in {"offline", "online"} /\ Fault
    /\ SetNode(p, "mark_offline", node[p].inc)
    /\ UNCHANGED <<dashVars, dataVars, granted, posted>>

\* ServerGroup.Create and RemoveServer: an action nobody waits for.
GroupAction(g) ==
    /\ Fault
    /\ NewAction(g, {<<p, node[p].inc>> : p \in {q \in Proxies : node[q].state = "online"}})
    /\ UNCHANGED <<dashVars, dataVars, granted, posted>>

\* ForceRemoveDeadFence, which the administrator calls when the proxies that are
\* not online have ended: nothing in the code checks that.
RemoveFence ==
    LET dead == {p \in fence : node[p].state # "online"} IN
    /\ dead # {} /\ \A p \in dead : ~Running(p)
    /\ fence' = fence \ dead
    /\ UNCHANGED <<slotInfo, node, actions, tasks, dashVars, proxyVars, dataVars, granted, posted, faults>>

-----------------------------------------------------------------------------
(***************************************************************************)
(* A proxy: New, serve and loopEvents, one step per access to ZooKeeper.   *)
(***************************************************************************)
Goto(p, pc) == ppc' = [ppc EXCEPT ![p] = pc]

\* A step of p that changes none of these ...
Elsewhere == UNCHANGED <<slotInfo, tasks, dashVars, dataVars, granted, posted>>

Start(p) ==
    /\ ppc[p] = "down" /\ SumFunction(starts) < MaxStarts
    /\ starts' = [starts EXCEPT ![p] = @ + 1]
    /\ Goto(p, "register")
    /\ UNCHANGED <<node, fence, actions, todo, read, last, watch, pwatch, route, serving, killed, faults>>
    /\ Elsewhere

\* The process has ended, and with it all it had in memory.
Gone(p) ==
    /\ Goto(p, "down")
    /\ todo' = [todo EXCEPT ![p] = {}]
    /\ read' = [read EXCEPT ![p] = NoRead]
    /\ last' = [last EXCEPT ![p] = 0]
    /\ watch' = [watch EXCEPT ![p] = "off"]
    /\ pwatch' = [pwatch EXCEPT ![p] = "off"]
    /\ route' = [route EXCEPT ![p] = [s \in Slots |-> NoRoute]]
    /\ serving' = [serving EXCEPT ![p] = FALSE]
    /\ killed' = [killed EXCEPT ![p] = FALSE]
    /\ UNCHANGED starts

\* register: the node of an earlier process that has not expired yet is an error.
RegisterNode(p) ==
    /\ ppc[p] = "register"
    /\ IF node[p].state = "none"
       THEN /\ node' = [node EXCEPT ![p] = [state |-> "offline", inc |-> starts[p]]]
            /\ Goto(p, "register_fence")
            /\ UNCHANGED <<starts, todo, read, last, watch, pwatch, route, serving, killed>>
       ELSE Gone(p) /\ UNCHANGED node
    /\ UNCHANGED <<fence, actions, faults>>
    /\ Elsewhere

RegisterFence(p) ==
    /\ ppc[p] = "register_fence"
    /\ fence' = fence \cup {p}
    /\ Goto(p, "wait_online")
    /\ UNCHANGED <<node, actions, starts, todo, read, last, watch, pwatch, route, serving, killed, faults>>
    /\ Elsewhere

\* waitOnline: one look at its own node (Panic covers a node that has gone) ...
WaitOnline(p) ==
    /\ ppc[p] = "wait_online"
    /\ \/ node[p].state = "mark_offline" /\ Goto(p, "unfence")
       \/ node[p].state = "online" /\ Goto(p, "watch_proxy")
       \/ node[p].state = "offline" /\ killed[p] /\ Goto(p, "unfence")
    /\ UNCHANGED <<node, fence, actions, starts, todo, read, last, watch, pwatch, route, serving, killed, faults>>
    /\ Elsewhere

\* ... and the watch on it, whose content is not looked at.
RewatchProxy(p) ==
    /\ ppc[p] = "watch_proxy" /\ node[p].state # "none"
    /\ pwatch' = [pwatch EXCEPT ![p] = "armed"]
    /\ Goto(p, "watch_actions")
    /\ UNCHANGED <<node, fence, actions, starts, todo, read, last, watch, route, serving, killed, faults>>
    /\ Elsewhere

RewatchNodes(p) ==
    /\ ppc[p] = "watch_actions"
    /\ watch' = [watch EXCEPT ![p] = "armed"]
    /\ todo' = [todo EXCEPT ![p] = Slots]
    /\ Goto(p, "fill")
    /\ UNCHANGED <<node, fence, actions, starts, read, last, pwatch, route, serving, killed, faults>>
    /\ Elsewhere

\* fillSlot: the slot is read, then the router's slot is changed.
FillRead(p, s) ==
    /\ ppc[p] \in {"fill", "refill"} /\ read[p] = NoRead /\ s \in todo[p]
    /\ read' = [read EXCEPT ![p] = [slot |-> s, info |-> slotInfo[s]]]
    /\ UNCHANGED <<node, fence, actions, ppc, starts, todo, last, watch, pwatch, route, serving, killed, faults>>
    /\ Elsewhere

FillSlot(p) ==
    /\ ppc[p] \in {"fill", "refill"} /\ read[p] # NoRead
    /\ route' = [route EXCEPT ![p][read[p].slot] = RouteOf(read[p].info)]
    /\ todo' = [todo EXCEPT ![p] = @ \ {read[p].slot}]
    /\ read' = [read EXCEPT ![p] = NoRead]
    /\ UNCHANGED <<node, fence, actions, ppc, starts, last, watch, pwatch, serving, killed, faults>>
    /\ Elsewhere

\* handleConns accepts clients, unless the listener has been closed meanwhile.
Serve(p) ==
    /\ ppc[p] = "fill" /\ todo[p] = {} /\ read[p] = NoRead
    /\ serving' = [serving EXCEPT ![p] = ~killed[p]]
    /\ Goto(p, "loop")
    /\ UNCHANGED <<node, fence, actions, starts, todo, read, last, watch, pwatch, route, killed, faults>>
    /\ Elsewhere

\* processAction, an event of actions/: watch it again and take up the latest
\* action, if it is a new one (lastActionSeq is assigned here: it is not read
\* before the next event).  checkAndDoTopoChange: only a receiver, in the
\* incarnation that was listed, which has not answered yet, acts on it: on the
\* slot, or on the slots of the group.
ActionEvent(p) ==
    LET latest == Len(actions)
        mine == /\ last[p] < latest
                /\ p \notin actions[latest].resp
                /\ <<p, starts[p]>> \in actions[latest].receivers
    IN
    /\ ppc[p] = "loop" /\ watch[p] = "fired"
    /\ watch' = [watch EXCEPT ![p] = "armed"]
    /\ last' = [last EXCEPT ![p] = latest]
    /\ IF mine
       THEN /\ todo' = [todo EXCEPT ![p] = {s \in Slots :
                         actions[latest].about \in {s, route[p][s].backend}}]
            /\ Goto(p, "refill")
       ELSE UNCHANGED <<todo, ppc>>
    /\ UNCHANGED <<node, fence, actions, starts, read, pwatch, route, serving, killed, faults>>
    /\ Elsewhere

\* responseAction
Respond(p) ==
    /\ ppc[p] = "refill" /\ todo[p] = {} /\ read[p] = NoRead
    /\ actions' = [actions EXCEPT ![last[p]].resp = @ \cup {p}]
    /\ Goto(p, "loop")
    /\ UNCHANGED <<node, fence, starts, todo, read, last, watch, pwatch, route, serving, killed, faults>>
    /\ Elsewhere

\* processAction, an event of its own node.
ProxyEvent_Stay(p) ==
    /\ ppc[p] = "loop" /\ pwatch[p] = "fired"
    /\ node[p].state \in {"mark_offline", "online"}
    /\ pwatch' = [pwatch EXCEPT ![p] = "armed"]
    /\ UNCHANGED <<node, fence, actions, ppc, starts, todo, read, last, watch, route, serving,
                   killed, faults>>
    /\ Elsewhere
ProxyEvent(p) ==
    /\ ppc[p] = "loop" /\ pwatch[p] = "fired"
    /\ \/ /\ node[p].state = "mark_offline"
          /\ pwatch' = [pwatch EXCEPT ![p] = "off"]
          /\ Goto(p, "unfence")
       \/ /\ node[p].state = "online"
          /\ pwatch' = [pwatch EXCEPT ![p] = "armed"]
          /\ UNCHANGED ppc
    /\ UNCHANGED <<node, fence, actions, starts, todo, read, last, watch, route, serving, killed, faults>>
    /\ Elsewhere

\* Server.Close on a signal: the router is closed first; waitOnline and loopEvents
\* see the signal when they come round.
Kill(p) ==
    /\ ppc[p] \notin {"down", "register", "register_fence"} /\ ~killed[p] /\ Fault
    /\ killed' = [killed EXCEPT ![p] = TRUE]
    /\ serving' = [serving EXCEPT ![p] = FALSE]
    /\ UNCHANGED <<node, fence, actions, ppc, starts, todo, read, last, watch, pwatch, route>>
    /\ Elsewhere

KillEvent(p) ==
    /\ ppc[p] = "loop" /\ killed[p]
    /\ Goto(p, "unfence")
    /\ UNCHANGED <<node, fence, actions, starts, todo, read, last, watch, pwatch, route, serving, killed, faults>>
    /\ Elsewhere

\* markOffline (Topology.Close): the fence goes if the node is still there ...
Unfence(p) ==
    /\ ppc[p] = "unfence"
    /\ fence' = IF node[p].state = "none" THEN fence ELSE fence \ {p}
    /\ Goto(p, "unregister")
    /\ UNCHANGED <<node, actions, starts, todo, read, last, watch, pwatch, route, serving, killed, faults>>
    /\ Elsewhere

\* ... then the node ...
Unregister(p) ==
    /\ ppc[p] = "unregister"
    /\ node' = [node EXCEPT ![p] = NoNode]
    /\ Goto(p, "close")
    /\ UNCHANGED <<fence, actions, starts, todo, read, last, watch, pwatch, route, serving, killed, faults>>
    /\ Elsewhere

\* ... and serve returns: close, and the process ends.
Close(p) ==
    /\ ppc[p] = "close"
    /\ Gone(p)
    /\ UNCHANGED <<node, fence, actions, faults>>
    /\ Elsewhere

-----------------------------------------------------------------------------
\* The process of p dies: its node stays until the session expires, its fence
\* until somebody removes it.
Crash(p) ==
    /\ Running(p) /\ Fault
    /\ Gone(p)
    /\ UNCHANGED <<node, fence, actions>>
    /\ Elsewhere

\* ZooKeeper ends the session of a process that has died, or, a fault, of one
\* that it has lost touch with.
Expire(p) ==
    /\ node[p].state # "none"
    /\ IF Running(p) THEN ppc[p] # "register" /\ Fault ELSE UNCHANGED faults
    /\ node' = [node EXCEPT ![p] = NoNode]
    /\ UNCHANGED <<fence, actions, proxyVars>>
    /\ Elsewhere

\* A process that learns of it panics: doWatch, waitOnline or rewatchProxy.
Panic(p) ==
    /\ ppc[p] \notin {"down", "register", "register_fence", "close"} /\ node[p].state = "none"
    /\ Gone(p)
    /\ UNCHANGED <<node, fence, actions, faults>>
    /\ Elsewhere

\* A client writes a key of s through p.  While the slot migrates, the proxy first
\* moves the key from the old group, which may leave none there.
ClientWrite(p, s) ==
    LET r == route[p][s] IN
    /\ serving[p] /\ ~r.locked
    /\ \E left \in SUBSET {r.from} :
           keys' = [keys EXCEPT ![s] = (IF left = {} THEN @ \ {r.from} ELSE @) \cup {r.backend}]
    /\ stray' = (stray \/ p \notin fence)
    /\ UNCHANGED <<zkVars, dashVars, proxyVars, granted, posted, faults>>

-----------------------------------------------------------------------------
DashboardStep ==
    \/ NextTask \/ Update \/ ListProxies \/ CheckFence \/ CreateAction
    \/ Poll \/ ProxyDown \/ ReceiverTimeout \/ MigrateDone \/ UpdateFinish
    \/ \E p \in Proxies : GetProxyInfo(p) \/ MarkOffline(p)

ProxyStep(p) ==
    \/ RegisterNode(p) \/ RegisterFence(p) \/ WaitOnline(p) \/ RewatchProxy(p)
    \/ RewatchNodes(p) \/ (\E s \in Slots : FillRead(p, s)) \/ FillSlot(p) \/ Serve(p)
    \/ ActionEvent(p) \/ Respond(p) \/ ProxyEvent(p) \/ KillEvent(p)
    \/ Unfence(p) \/ Unregister(p) \/ Close(p) \/ Panic(p)

Next ==
    \/ DashboardStep \/ Timeout \/ MigrateSome \/ MigrateError \/ DashboardCrash
    \/ \E s \in Slots, g \in Groups : PostTask(s, g)
    \/ \E g \in Groups : GroupAction(g)
    \/ \E x \in granted : SetOnline(x)
    \/ RemoveFence
    \/ \E p \in Proxies :
          \/ ProxyStep(p) \/ GrantOnline(p) \/ AdminOffline(p)
          \/ Start(p) \/ Kill(p) \/ Crash(p) \/ Expire(p)
          \/ \E s \in Slots : ClientWrite(p, s)

Spec == Init /\ [][Next]_vars

\* The goroutines of the dashboard and the proxies are scheduled, the wait for the
\* receivers is timed, and ZooKeeper ends the session of a dead process.  Nothing
\* makes a client, the administrator or a fault act.
Fairness ==
    /\ WF_vars(DashboardStep) /\ WF_vars(Timeout)
    /\ \A p \in Proxies : WF_vars(ProxyStep(p)) /\ WF_vars(~Running(p) /\ Expire(p))

FairSpec == Spec /\ Fairness

-----------------------------------------------------------------------------
\* A proxy that clients may use and that the dashboard knows of by its fence.
Active(p) == serving[p] /\ p \in fence

\* Two proxies that serve a slot send its writes to the same group: neither a
\* late answer, nor a restart, nor a failed step of the migration splits it.
NoSplitRoute ==
    \A s \in Slots : \A p, q \in {r \in Proxies : Active(r) /\ ~route[r][s].locked} :
        route[p][s].backend = route[q][s].backend

\* No key is lost: while no proxy without a fence has written, every group that
\* holds keys of a slot is one that each serving proxy looks at.
KeysReachable ==
    ~stray => \A s \in Slots, p \in Proxies :
        Active(p) /\ ~route[p][s].locked =>
            keys[s] \subseteq {route[p][s].backend, route[p][s].from}

\* When Slot.Update returns without an error, every serving proxy routes the slot
\* as the dashboard has written it.
ConfirmMeansApplied ==
    [][dpc = "wait" /\ dpc' \in {"write", "migrate", "finish"} =>
        \A p \in Proxies : Active(p) => route[p][here] = RouteOf(slotInfo[here])]_vars

\* The task at the head stays there until it is done, so one slot at a time
\* migrates and no migration changes its target half way, although the check for
\* it is only logged; a migration never has the same source and target (on which
\* fillSlot would panic).
OneMigration ==
    /\ \A s, t \in Slots : slotInfo[s].status # "online" /\ slotInfo[t].status # "online" => s = t
    /\ \A s \in Slots : slotInfo[s].status # "online" =>
          /\ tasks # <<>> /\ here = s
          /\ slotInfo[s].status = "migrate" =>
                slotInfo[s].group = task.to /\ slotInfo[s].from \notin {task.to, NoGroup}

\* Every task is finished in the end, whatever faults happen, unless from some time on
\* the fence of a proxy that has died waits for the administrator: a task that failed
\* is retried, and a proxy that does not answer is marked offline and leaves.  This is
\* so of proxies that serve when the task is posted: one that has started has a fence,
\* and until the administrator has set it online CheckFence fails.
MigrationCompletes ==
    []<>(tasks = <<>>) \/ <>[](\E p \in fence : ~Running(p))

\* "do fencing here, make sure 'offline' proxies are really offline": once the fences
\* have been checked, a proxy that serves without being a receiver is one that is
\* leaving, which has deleted its fence and not closed its router yet.
OfflineMeansLeaving ==
    [][dpc = "info" /\ dpc' = "create" =>
        \A p \in Proxies : serving[p] /\ p \notin Ids(recv) =>
            ppc[p] \in {"unregister", "close"}]_vars
=============================================================================
