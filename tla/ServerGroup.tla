----------------------------- MODULE ServerGroup -----------------------------
(***************************************************************************)
(* The groups of redis servers (pkg/models/server_group.go), the requests  *)
(* of the dashboard that change them or assign slots to them               *)
(* (cmd/cconfig/dashboard_apis.go), and what a proxy reads of them.        *)
(*                                                                         *)
(*   - Each request holds the lock of the product while it runs, a         *)
(*     migrate task does not.                                              *)
(*   - A change of a master is announced by an action that the proxy       *)
(*     confirms; the proxy then fills the slots of the group again, and    *)
(*     reads the nodes of the group's servers one after the other.         *)
(*                                                                         *)
(* One step is one access to ZooKeeper or to a redis server, with the      *)
(* reads before it that only a holder of the lock could make untrue.       *)
(* There is one proxy, online at the beginning; how proxies come and go,   *)
(* and the wait for several of them, is in SlotMigration.                  *)
(***************************************************************************)
EXTENDS Integers, Sequences, FiniteSetsExt

CONSTANTS
    Groups, Addrs, NoGroup, NoAddr,
    SlotNum,
    Callers,        \* goroutines that serve requests
    Migrator,       \* the goroutine MigrateManager.loop
    Servers,        \* the servers of each group at the beginning
    Owners,         \* the groups that the slots may have at the beginning
    MaxCalls,       \* bound: requests
    MaxTasks,       \* bound: migrate tasks
    MaxActions,     \* bound: actions created
    MaxFaults       \* bound: failures of a redis command, crashes of the dashboard

Slots == 1 .. SlotNum
Procs == Callers \cup {Migrator}
Types == {"master", "slave", "offline"}

AtMostOne(S) == \A x, y \in S : x = y
One(S) == S # {} /\ AtMostOne(S)

Master(servers) == {a \in Addrs : servers[a] = "master"}

ASSUME GroupsAssumption ==
    /\ NoGroup \notin Groups /\ NoAddr \notin Addrs /\ Migrator \notin Callers
    /\ {MaxCalls, MaxTasks, MaxActions, MaxFaults} \subseteq Nat /\ SlotNum \in Nat \ {0}
    /\ Servers \in [Groups -> [Addrs -> Types \cup {"none"}]]
    /\ Owners \subseteq [Slots -> Groups \cup {NoGroup}]

\* At the beginning a group that has servers has one master, and a slot is assigned
\* to such a group.
ASSUME MastersAssumption ==
    /\ \A g \in Groups : (\E a \in Addrs : Servers[g][a] # "none") =>
                            \E m \in Addrs : Master(Servers[g]) = {m}
    /\ \A owner \in Owners : \A s \in Slots :
          owner[s] # NoGroup => Master(Servers[owner[s]]) # {}

VARIABLES
    \* ZooKeeper
    group,      \* servers/group_N exists
    server,     \* servers/group_N/<addr>: the type of the server, or "none"
    slotInfo,   \* slots/slot_N
    lock,       \* who holds LOCK
    actions,    \* actions/
    resp,       \* sequence numbers of the actions that the proxy has answered
    fence,      \* the proxy has a fence
    \* redis
    role,       \* the master that a server replicates, if any
    \* dashboard
    pc, call, masters, todo, seq,   \* of each goroutine
    task, cur, goal,                \* of the migrate task
    calls, posted, faults,
    \* proxy
    up, last,
    fill,       \* slots still to be filled for the action
    read,       \* the slot that fillSlot has read
    want,       \* groups whose servers it has still to read
    children, seen,     \* servers of the first of them: not yet read; read, and master
    found,      \* masters of the groups it has read
    route, groups,
    panicked    \* why the proxy has panicked

zkVars == <<group, server, slotInfo, lock, actions, resp, fence>>
callVars == <<pc, call, masters, todo, seq, calls>>
taskVars == <<task, cur, goal, posted>>
proxyVars == <<up, last, fill, read, want, children, seen, found, route, groups, panicked>>
vars == <<zkVars, role, callVars, taskVars, faults, proxyVars>>

Status == {"offline", "online", "pre_migrate", "migrate"}
SlotInfo == [group : Groups \cup {NoGroup}, status : Status, from : Groups \cup {NoGroup}]
Calls == [op : {"add_group", "add_server", "promote", "remove_server", "remove_group", "range"},
          group : Groups, addr : Addrs, type : Types, slots : SUBSET Slots]
NoCall == [op |-> "none"]
Action == [group : Groups \cup {NoGroup}, slots : SUBSET Slots]
Task == [slot : Slots, to : Groups]
NoRead == [slot |-> 0]
PCs == {"idle", "create", "announce", "read", "write", "notify", "wait", "slaveof",
        "demote", "promote", "remove_server", "check", "delete", "range", "range_set",
        "from", "to", "update", "migrate", "finish"}

TypeOK ==
    /\ group \in SUBSET Groups
    /\ server \in [Groups -> [Addrs -> Types \cup {"none"}]]
    /\ slotInfo \in [Slots -> SlotInfo]
    /\ lock \in SUBSET Callers /\ AtMostOne(lock)
    /\ actions \in Seq(Action) /\ resp \in SUBSET (1 .. MaxActions)
    /\ role \in [Addrs -> Addrs \cup {NoAddr}]
    /\ pc \in [Procs -> PCs] /\ call \in [Callers -> Calls \cup {NoCall}]
    /\ masters \in [Callers -> SUBSET Addrs] /\ todo \in [Callers -> SUBSET Slots]
    /\ seq \in [Procs -> 0 .. MaxActions]
    /\ task \in SUBSET Task /\ cur \in SlotInfo
    /\ goal \in {"none", "pre_migrate", "migrate", "online", "rollback"}
    /\ calls \in 0 .. MaxCalls /\ posted \in 0 .. MaxTasks /\ faults \in 0 .. MaxFaults
    /\ {up, fence} \subseteq BOOLEAN /\ last \in 0 .. MaxActions
    /\ fill \in SUBSET Slots /\ read \in [slot : Slots, info : SlotInfo] \cup {NoRead}
    /\ want \in Seq(Groups \cup {NoGroup})
    /\ children \in SUBSET Addrs /\ seen \in SUBSET Addrs
    /\ found \in Seq(Addrs)
    /\ route \in [Slots -> [addr : Addrs \cup {NoAddr}, from : Addrs \cup {NoAddr}]]
    /\ groups \in [Slots -> Groups \cup {NoGroup}]
    /\ panicked \in {"no", "group", "master", "same"}

NoRoute == [addr |-> NoAddr, from |-> NoAddr]

\* The proxy has filled the slots that have been assigned.
Init ==
    /\ group = {g \in Groups : \E a \in Addrs : Servers[g][a] # "none"}
    /\ server = Servers
    /\ \E owner \in Owners :
          /\ slotInfo = [s \in Slots |->
                [group |-> owner[s], status |-> IF owner[s] = NoGroup THEN "offline" ELSE "online",
                 from |-> NoGroup]]
          /\ route = [s \in Slots |->
                IF owner[s] = NoGroup THEN NoRoute
                ELSE [addr |-> CHOOSE a \in Master(Servers[owner[s]]) : TRUE, from |-> NoAddr]]
          /\ groups = owner
    /\ lock = {} /\ actions = <<>> /\ resp = {} /\ fence = TRUE
    /\ role = [a \in Addrs |->
            LET G == {g \in Groups : Servers[g][a] = "slave"} IN
            IF G = {} THEN NoAddr ELSE CHOOSE m \in Master(Servers[CHOOSE g \in G : TRUE]) : TRUE]
    /\ pc = [c \in Procs |-> "idle"]
    /\ call = [c \in Callers |-> NoCall]
    /\ masters = [c \in Callers |-> {}] /\ todo = [c \in Callers |-> {}]
    /\ seq = [c \in Procs |-> 0]
    /\ task = {} /\ cur = slotInfo[1] /\ goal = "none"
    /\ calls = 0 /\ posted = 0 /\ faults = 0
    /\ up = TRUE /\ last = 0 /\ fill = {} /\ read = NoRead /\ want = <<>>
    /\ children = {} /\ seen = {} /\ found = <<>>
    /\ panicked = "no"

Fault == faults < MaxFaults /\ faults' = faults + 1
Goto(c, l) == pc' = [pc EXCEPT ![c] = l]

-----------------------------------------------------------------------------
(***************************************************************************)
(* Requests.  A request begins when it has got the lock (zkhelper's, not   *)
(* in this repository); the deferred Unlock is part of every return.       *)
(***************************************************************************)
FirstStep(op) ==
    CASE op \in {"add_group", "add_server"} -> "create"
      [] op = "remove_group" -> "check"
      [] OTHER -> op

Request(c, k) ==
    /\ pc[c] = "idle" /\ lock = {} /\ calls < MaxCalls
    /\ lock' = lock \cup {c}
    /\ calls' = calls + 1
    /\ call' = [call EXCEPT ![c] = k]
    /\ todo' = [todo EXCEPT ![c] = IF k.op = "range" THEN k.slots ELSE Slots]
    /\ Goto(c, FirstStep(k.op))
    /\ UNCHANGED <<group, server, slotInfo, actions, resp, fence, role, masters, seq, taskVars,
                   faults, proxyVars>>

Return(c) ==
    /\ Goto(c, "idle")
    /\ lock' = lock \ {c}
    /\ call' = [call EXCEPT ![c] = NoCall]
    /\ masters' = [masters EXCEPT ![c] = {}]
    /\ todo' = [todo EXCEPT ![c] = {}]
    /\ seq' = [seq EXCEPT ![c] = 0]
    /\ UNCHANGED calls

\* A step of a request that goes on.
Continue(c, l) == Goto(c, l) /\ UNCHANGED <<lock, call, masters, todo, seq, calls>>
Elsewhere == UNCHANGED <<taskVars, proxyVars>>

NewAction(about) ==
    /\ Len(actions) < MaxActions
    /\ actions' = Append(actions, about)
    /\ UNCHANGED <<group, server, slotInfo, resp, fence>>

\* apiAddServerGroup, and apiAddServerToGroup for a group that does not exist:
\* ServerGroup.Create.
Create(c) ==
    /\ pc[c] = "create"
    /\ IF call[c].group \notin group
       THEN group' = group \cup {call[c].group} /\ Continue(c, "announce")
       ELSE /\ UNCHANGED group
            /\ IF call[c].op = "add_group" THEN Return(c) ELSE Continue(c, "read")
    /\ UNCHANGED <<server, slotInfo, actions, resp, fence, role, faults>>
    /\ Elsewhere

\* An action that is not confirmed.  A proxy does nothing about the removal of a
\* group, but takes it for the latest action.
Announce(c) ==
    /\ pc[c] = "announce"
    /\ NewAction([group |-> IF call[c].op = "remove_group" THEN NoGroup ELSE call[c].group,
                  slots |-> {}])
    /\ IF call[c].op = "add_server" THEN Continue(c, "read") ELSE Return(c)
    /\ UNCHANGED <<role, faults>>
    /\ Elsewhere

\* AddServer: the first server of a group is its master, and there is no second.
ReadServers_NoCheck(c) ==
    LET servers == server[call[c].group] IN
    /\ pc[c] = "read"
    /\ call' = [call EXCEPT ![c].type =
               IF \A a \in Addrs : servers[a] = "none" THEN "master" ELSE @]
    /\ masters' = [masters EXCEPT ![c] = Master(servers)]
    /\ Goto(c, "write")
    /\ UNCHANGED <<lock, todo, seq, calls>>
    /\ UNCHANGED <<group, server, slotInfo, actions, resp, fence, role, faults>>
    /\ Elsewhere
ReadServers(c) ==
    LET servers == server[call[c].group] IN
    /\ pc[c] = "read"
    /\ IF call[c].type = "master" /\ Master(servers) # {}
       THEN Return(c)
       ELSE /\ call' = [call EXCEPT ![c].type =
                       IF \A a \in Addrs : servers[a] = "none" THEN "master" ELSE @]
            /\ masters' = [masters EXCEPT ![c] = Master(servers)]
            /\ Goto(c, "write")
            /\ UNCHANGED <<lock, todo, seq, calls>>
    /\ UNCHANGED <<group, server, slotInfo, actions, resp, fence, role, faults>>
    /\ Elsewhere

\* ... the node of the server is written; what follows depends on its type.
WriteServer(c) ==
    LET k == call[c] IN
    /\ pc[c] = "write"
    /\ server' = [server EXCEPT ![k.group][k.addr] = k.type]
    /\ CASE k.type = "master" -> Continue(c, "notify")
         [] k.type = "slave" /\ masters[c] # {} -> Continue(c, "slaveof")
         [] OTHER -> Return(c)
    /\ UNCHANGED <<group, slotInfo, actions, resp, fence, role, faults>>
    /\ Elsewhere

SlaveOf(c) ==
    /\ pc[c] = "slaveof"
    /\ \/ \E m \in masters[c] : role' = [role EXCEPT ![call[c].addr] = m] /\ UNCHANGED faults
       \/ Fault /\ UNCHANGED role
    /\ Return(c)
    /\ UNCHANGED <<group, server, slotInfo, actions, resp, fence>>
    /\ Elsewhere

\* Promote: the server must be one of the group; SLAVEOF NO ONE is sent to it ...
Promote(c) ==
    LET k == call[c] IN
    /\ pc[c] = "promote"
    /\ \/ /\ k.group \in group /\ server[k.group][k.addr] # "none"
          /\ role' = [role EXCEPT ![k.addr] = NoAddr]
          /\ Continue(c, "demote") /\ UNCHANGED faults
       \/ /\ k.group \in group /\ server[k.group][k.addr] # "none"
          /\ Return(c) /\ Fault /\ UNCHANGED role
       \/ /\ ~(k.group \in group /\ server[k.group][k.addr] # "none")
          /\ Return(c) /\ UNCHANGED <<role, faults>>
    /\ UNCHANGED <<group, server, slotInfo, actions, resp, fence>>
    /\ Elsewhere

\* ... the old master, if there is one, is set offline, and the server is added
\* again as the master.
Demote(c) ==
    LET g == call[c].group IN
    /\ pc[c] = "demote"
    /\ server' = [server EXCEPT ![g] =
                 [a \in Addrs |-> IF @[a] = "master" THEN "offline" ELSE @[a]]]
    /\ call' = [call EXCEPT ![c].type = "master"]
    /\ Goto(c, "read")
    /\ UNCHANGED <<lock, masters, todo, seq, calls>>
    /\ UNCHANGED <<group, slotInfo, actions, resp, fence, role, faults>>
    /\ Elsewhere

\* ServerGroup.RemoveServer: not the master.
RemoveServer(c) ==
    LET k == call[c] IN
    /\ pc[c] = "remove_server"
    /\ IF server[k.group][k.addr] \in {"none", "master"}
       THEN Return(c) /\ UNCHANGED server
       ELSE server' = [server EXCEPT ![k.group][k.addr] = "none"] /\ Continue(c, "announce")
    /\ UNCHANGED <<group, slotInfo, actions, resp, fence, role, faults>>
    /\ Elsewhere

\* ServerGroup.Remove: no slot may use the group; the slots are read one by one ...
Uses_Residual(s, g) ==
    slotInfo[s].status \in {"migrate", "pre_migrate"} /\ slotInfo[s].from = g
Uses(s, g) == slotInfo[s].group = g \/
              (slotInfo[s].status \in {"migrate", "pre_migrate"} /\ slotInfo[s].from = g)

CheckSlot(c) ==
    LET s == Min(todo[c]) IN
    /\ pc[c] = "check"
    /\ IF Uses(s, call[c].group)
       THEN Return(c)
       ELSE /\ todo' = [todo EXCEPT ![c] = @ \ {s}]
            /\ Goto(c, IF todo'[c] = {} THEN "delete" ELSE "check")
            /\ UNCHANGED <<lock, call, masters, seq, calls>>
    /\ UNCHANGED <<group, server, slotInfo, actions, resp, fence, role, faults>>
    /\ Elsewhere

\* ... then its nodes are deleted, the servers first.
DeleteRecursive(c) ==
    LET g == call[c].group
        left == {a \in Addrs : server[g][a] # "none"}
    IN
    /\ pc[c] = "delete"
    /\ \/ \E a \in left : /\ server' = [server EXCEPT ![g][a] = "none"]
                          /\ Continue(c, "delete") /\ UNCHANGED group
       \/ left = {} /\ group' = group \ {g} /\ Continue(c, "announce") /\ UNCHANGED server
    /\ UNCHANGED <<slotInfo, actions, resp, fence, role, faults>>
    /\ Elsewhere

\* SetSlotRange, with the status online: the group must exist, each slot must be
\* offline; the slots before one that is not stay assigned.
SetSlotRange(c) ==
    /\ pc[c] = "range"
    /\ IF call[c].group \in group THEN Continue(c, "range_set") ELSE Return(c)
    /\ UNCHANGED <<group, server, slotInfo, actions, resp, fence, role, faults>>
    /\ Elsewhere

SetSlot(c) ==
    LET s == Min(todo[c]) IN
    /\ pc[c] = "range_set"
    /\ IF slotInfo[s].status # "offline"
       THEN Return(c) /\ UNCHANGED slotInfo
       ELSE /\ slotInfo' = [slotInfo EXCEPT ![s].group = call[c].group, ![s].status = "online"]
            /\ todo' = [todo EXCEPT ![c] = @ \ {s}]
            /\ Goto(c, IF todo'[c] = {} THEN "notify" ELSE "range_set")
            /\ UNCHANGED <<lock, call, masters, seq, calls>>
    /\ UNCHANGED <<group, server, actions, resp, fence, role, faults>>
    /\ Elsewhere

-----------------------------------------------------------------------------
(***************************************************************************)
(* NewAction with a confirmation, for requests and for the migrate task.   *)
(* A fence without an online proxy is an error; without a proxy there is   *)
(* nobody to wait for.                                                     *)
(***************************************************************************)
\* migrateSingleSlot has failed: a slot in pre_migrate is set back.
Fail ==
    /\ \E t \in task :
          IF goal # "rollback" /\ slotInfo[t.slot].status = "pre_migrate"
          THEN Goto(Migrator, "update") /\ goal' = "rollback" /\ cur' = slotInfo[t.slot]
          ELSE Goto(Migrator, "idle") /\ goal' = "none" /\ UNCHANGED cur
    /\ seq' = [seq EXCEPT ![Migrator] = 0]
    /\ UNCHANGED <<lock, call, masters, todo, calls, task, posted>>

\* Slot.Update has returned.
Updated ==
    /\ Goto(Migrator, CASE goal = "pre_migrate" -> "update" [] goal = "migrate" -> "migrate"
                        [] goal = "online" -> "finish" [] goal = "rollback" -> "idle")
    /\ goal' = CASE goal = "pre_migrate" -> "migrate" [] goal = "migrate" -> "online"
                 [] OTHER -> "none"
    /\ seq' = [seq EXCEPT ![Migrator] = 0]
    /\ UNCHANGED <<lock, call, masters, todo, calls, task, cur, posted>>

Failed(c) == IF c = Migrator THEN Fail ELSE Return(c) /\ UNCHANGED taskVars
Succeeded(c) == IF c = Migrator THEN Updated ELSE Return(c) /\ UNCHANGED taskVars

About(c) ==
    IF c = Migrator THEN [group |-> NoGroup, slots |-> {t.slot : t \in task}]
    ELSE IF call[c].op = "range" THEN [group |-> NoGroup, slots |-> call[c].slots]
    ELSE [group |-> call[c].group, slots |-> {}]

Notify(c) ==
    /\ pc[c] = "notify"
    /\ IF fence /\ ~up
       THEN Failed(c) /\ UNCHANGED <<group, server, slotInfo, actions, resp, fence>>
       ELSE /\ NewAction(About(c))
            /\ seq' = [seq EXCEPT ![c] = IF up THEN Len(actions) + 1 ELSE 0]
            /\ Goto(c, "wait")
            /\ UNCHANGED <<lock, call, masters, todo, calls, taskVars>>
    /\ UNCHANGED <<role, faults, proxyVars>>

Confirmed(c) == seq[c] \in resp \cup {0}

Wait(c) ==
    /\ pc[c] = "wait" /\ Confirmed(c)
    /\ Succeeded(c)
    /\ UNCHANGED <<group, server, slotInfo, actions, resp, fence, role, faults, proxyVars>>

\* The proxy is told to go offline and does, with its fence.
Stop ==
    /\ up' = FALSE /\ fill' = {} /\ read' = NoRead /\ want' = <<>>
    /\ children' = {} /\ seen' = {} /\ found' = <<>>
    /\ UNCHANGED <<last, route, groups>>

WaitTimeout(c) ==
    /\ pc[c] = "wait" /\ ~Confirmed(c)
    /\ Failed(c)
    /\ IF up THEN Stop /\ fence' = FALSE /\ UNCHANGED panicked
       ELSE UNCHANGED <<fence, proxyVars>>
    /\ UNCHANGED <<group, server, slotInfo, actions, resp, role, faults>>

-----------------------------------------------------------------------------
(***************************************************************************)
(* The migrate task: migrateSingleSlot takes no lock.                      *)
(***************************************************************************)
TaskStep(t, l) ==
    /\ pc[Migrator] = l /\ t \in task
    /\ UNCHANGED <<group, server, actions, resp, fence, role, proxyVars>>
TaskGoto(l) == Goto(Migrator, l) /\ UNCHANGED <<lock, call, masters, todo, seq, calls>>

PostTask(t) ==
    /\ task = {} /\ posted < MaxTasks
    /\ task' = {t} /\ posted' = posted + 1
    /\ UNCHANGED <<zkVars, role, callVars, cur, goal, faults, proxyVars>>

NextTask(t) ==
    /\ TaskStep(t, "idle")
    /\ cur' = slotInfo[t.slot]
    /\ TaskGoto(IF cur'.status = "offline" THEN "finish" ELSE "from")
    /\ UNCHANGED <<slotInfo, task, goal, posted, faults>>

fromGroup == IF cur.status = "migrate" THEN cur.from ELSE cur.group

FromExists(t) ==
    /\ TaskStep(t, "from")
    /\ IF fromGroup \in group THEN TaskGoto("to") /\ UNCHANGED taskVars ELSE Fail
    /\ UNCHANGED <<slotInfo, faults>>

ToExists(t) ==
    /\ TaskStep(t, "to")
    /\ IF t.to \notin group THEN Fail
       ELSE /\ IF fromGroup = t.to
               THEN TaskGoto("finish") /\ UNCHANGED goal
               ELSE /\ TaskGoto("update")
                    /\ goal' = IF cur.status = "migrate" THEN "migrate" ELSE "pre_migrate"
            /\ UNCHANGED <<task, cur, posted>>
    /\ UNCHANGED <<slotInfo, faults>>

\* SetMigrateStatus, the end of migrateSingleSlot and rollbackPremigrate.
Update(t) ==
    /\ TaskStep(t, "update")
    /\ cur' = CASE goal = "pre_migrate" -> [cur EXCEPT !.status = "pre_migrate"]
                [] goal = "migrate" -> [group |-> t.to, status |-> "migrate", from |-> fromGroup]
                [] goal = "online" -> [cur EXCEPT !.status = "online", !.from = NoGroup]
                [] goal = "rollback" -> [cur EXCEPT !.status = "online"]
    /\ slotInfo' = [slotInfo EXCEPT ![t.slot] = cur']
    /\ TaskGoto("notify")
    /\ UNCHANGED <<lock, task, goal, posted, faults>>

\* MigrateTask.Migrate: both groups must have a master.
Migrate(t) ==
    LET ready == \A g \in {cur.from, t.to} : g \in group /\ Master(server[g]) # {} IN
    /\ TaskStep(t, "migrate")
    /\ \/ ready /\ TaskGoto("update") /\ UNCHANGED <<taskVars, faults>>
       \/ ~ready /\ Fail /\ UNCHANGED faults
       \/ ready /\ Fail /\ Fault
    /\ UNCHANGED slotInfo

FinishTask(t) ==
    /\ TaskStep(t, "finish")
    /\ task' = {}
    /\ TaskGoto("idle")
    /\ UNCHANGED <<slotInfo, cur, goal, posted, faults>>

\* The dashboard dies and another one starts; the lock goes with its session.
DashboardCrash ==
    /\ \E c \in Procs : pc[c] # "idle"
    /\ Fault
    /\ pc' = [c \in Procs |-> "idle"] /\ lock' = {}
    /\ call' = [c \in Callers |-> NoCall]
    /\ masters' = [c \in Callers |-> {}] /\ todo' = [c \in Callers |-> {}]
    /\ seq' = [c \in Procs |-> 0] /\ goal' = "none"
    /\ UNCHANGED <<group, server, slotInfo, actions, resp, fence, role, calls, task, cur, posted,
                   proxyVars>>

-----------------------------------------------------------------------------
(***************************************************************************)
(* The proxy: the latest action, and fillSlot for the slots it is about.   *)
(***************************************************************************)
ProxyStep == up /\ UNCHANGED <<group, server, slotInfo, lock, actions, fence, role, callVars,
                              taskVars, faults>>
Panic(why) == Stop /\ panicked' = why

ActionEvent_SlotsOnly ==
    /\ ProxyStep
    /\ last < Len(actions) /\ last \in resp \cup {0}
    /\ last' = Len(actions)
    /\ fill' = actions[last'].slots
    /\ UNCHANGED <<resp, up, read, want, children, seen, found, route, groups, panicked>>
ActionEvent ==
    /\ ProxyStep
    /\ last < Len(actions) /\ last \in resp \cup {0}
    /\ last' = Len(actions)
    /\ fill' = actions[last'].slots \cup
               {s \in Slots : groups[s] # NoGroup /\ groups[s] = actions[last'].group}
    /\ UNCHANGED <<resp, up, read, want, children, seen, found, route, groups, panicked>>

\* GetSlotByIndex
ReadSlot(s) ==
    /\ ProxyStep
    /\ s \in fill /\ read = NoRead
    /\ read' = [slot |-> s, info |-> slotInfo[s]]
    /\ want' = <<slotInfo[s].group>> \o
               (IF slotInfo[s].status = "migrate" THEN <<slotInfo[s].from>> ELSE <<>>)
    /\ UNCHANGED <<resp, up, last, fill, children, seen, found, route, groups, panicked>>

\* GetGroup: the group exists, and these are its servers; then each of them.
ListServers ==
    /\ ProxyStep
    /\ want # <<>> /\ children = {} /\ seen = {}
    /\ LET g == Head(want) IN
       IF g \notin group THEN Panic("group")
       ELSE IF \A a \in Addrs : server[g][a] = "none" THEN Panic("master")
       ELSE /\ children' = {a \in Addrs : server[g][a] # "none"}
            /\ UNCHANGED <<up, last, fill, read, want, seen, found, route, groups, panicked>>
    /\ UNCHANGED resp

\* The last of them is read: groupMaster.
GetServer_Last(a) ==
    LET g == Head(want)
        now == IF server[g][a] = "master" THEN {a} ELSE {}
    IN
    /\ ProxyStep
    /\ a \in children
    /\ CASE server[g][a] = "none" -> Panic("group")
         [] children = {a} /\ ~One(now) -> Panic("master")
         [] children = {a} /\ One(now) ->
               /\ found' = found \o <<CHOOSE m \in now : TRUE>>
               /\ want' = Tail(want) /\ children' = {} /\ seen' = {}
               /\ UNCHANGED <<up, last, fill, read, route, groups, panicked>>
         [] OTHER ->
               /\ children' = children \ {a} /\ seen' = now
               /\ UNCHANGED <<up, last, fill, read, want, found, route, groups, panicked>>
    /\ UNCHANGED resp
GetServer(a) ==
    LET g == Head(want)
        now == seen \cup (IF server[g][a] = "master" THEN {a} ELSE {})
    IN
    /\ ProxyStep
    /\ a \in children
    /\ CASE server[g][a] = "none" -> Panic("group")
         [] children = {a} /\ ~One(now) -> Panic("master")
         [] children = {a} /\ One(now) ->
               /\ found' = found \o <<CHOOSE m \in now : TRUE>>
               /\ want' = Tail(want) /\ children' = {} /\ seen' = {}
               /\ UNCHANGED <<up, last, fill, read, route, groups, panicked>>
         [] OTHER ->
               /\ children' = children \ {a} /\ seen' = now
               /\ UNCHANGED <<up, last, fill, read, want, found, route, groups, panicked>>
    /\ UNCHANGED resp

\* A slot that migrates from the server it migrates to is a panic.
FillSlot ==
    LET from == IF Len(found) = 2 THEN found[2] ELSE NoAddr IN
    /\ ProxyStep
    /\ read # NoRead /\ want = <<>>
    /\ IF from = found[1] THEN Panic("same")
       ELSE /\ groups' = [groups EXCEPT ![read.slot] = read.info.group]
            /\ route' = [route EXCEPT ![read.slot] = [addr |-> found[1], from |-> from]]
            /\ fill' = fill \ {read.slot}
            /\ read' = NoRead /\ found' = <<>>
            /\ UNCHANGED <<up, last, want, children, seen, panicked>>
    /\ UNCHANGED resp

Respond ==
    /\ ProxyStep
    /\ last > 0 /\ last \notin resp /\ fill = {}
    /\ resp' = resp \cup {last}
    /\ UNCHANGED proxyVars

-----------------------------------------------------------------------------
\* The fields that an operation does not have are the same in all its calls.
AnyGroup == CHOOSE g \in Groups : TRUE
AnyAddr == CHOOSE a \in Addrs : TRUE
Requests ==
    {k \in Calls :
        /\ k.op \notin {"add_server", "promote", "remove_server"} => k.addr = AnyAddr
        /\ k.op # "add_server" => k.type = "slave"
        /\ k.type # "offline"
        /\ IF k.op = "range" THEN \E i, j \in Slots : k.slots = i .. j /\ k.slots # {}
           ELSE k.slots = {}}

RequestStep(c) ==
    \/ Create(c) \/ Announce(c) \/ ReadServers(c) \/ WriteServer(c) \/ SlaveOf(c)
    \/ Promote(c) \/ Demote(c) \/ RemoveServer(c) \/ CheckSlot(c) \/ DeleteRecursive(c)
    \/ SetSlotRange(c) \/ SetSlot(c)
    \/ \E k \in Requests : Request(c, k)

MigrateStep(t) ==
    \/ NextTask(t) \/ FromExists(t) \/ ToExists(t) \/ Update(t) \/ Migrate(t) \/ FinishTask(t)

Next ==
    \/ \E c \in Callers : RequestStep(c)
    \/ \E c \in Procs : Notify(c) \/ Wait(c) \/ WaitTimeout(c)
    \/ \E t \in Task : PostTask(t) \/ MigrateStep(t)
    \/ DashboardCrash
    \/ ActionEvent \/ ListServers \/ FillSlot \/ Respond
    \/ \E s \in Slots : ReadSlot(s)
    \/ \E a \in Addrs : GetServer(a)

Spec == Init /\ [][Next]_vars

-----------------------------------------------------------------------------
\* A group has at most one master in ZooKeeper, in every state of a promotion and
\* whatever requests come at the same time or are cut off.
OneMaster == \A g \in Groups : AtMostOne(Master(server[g]))

\* When a promotion reports success, the server is the master of its group, it
\* replicates nobody, and the proxy, if it still serves, sends it the requests
\* for all the slots of the group.
PromoteDone ==
    [][\A c \in Callers :
         pc[c] = "wait" /\ pc'[c] = "idle" /\ call[c].op = "promote" /\ Confirmed(c)
            /\ faults' = faults =>
            /\ Master(server[call[c].group]) = {call[c].addr}
            /\ role[call[c].addr] = NoAddr
            /\ up => \A s \in Slots :
                        groups[s] = call[c].group => route[s].addr = call[c].addr]_vars

\* "we know that there's no slots affected": as long as there is no migrate task,
\* which takes no lock, the group of a slot exists, whatever groups are removed and
\* slots assigned at the same time, and wherever such a request is cut off.
UsedGroupExists ==
    posted = 0 =>
        \A s \in Slots : {slotInfo[s].group, slotInfo[s].from} \subseteq group \cup {NoGroup}

\* groupMaster's assertion is that a group has exactly one master.  A proxy that reads
\* the servers one by one and panics on it although a master is recorded has read them
\* while a promotion of the group, or the request that adds a server to it, was going
\* on, or after one that a fault has cut off.
MasterMissed ==
    [][panicked = "no" /\ panicked' = "master" /\ faults = 0 =>
         LET g == Head(want) IN
         Master(server[g]) # {} =>
            \E c \in Callers : call[c] # NoCall /\ call[c].group = g
                                 /\ call[c].op \in {"promote", "add_server"}]_vars
=============================================================================
