------------------------------ MODULE SlotRouter ------------------------------
(***************************************************************************)
(* The routing table of a codis proxy (pkg/proxy/router): the slots, the   *)
(* pool of shared backend connections, and the two kinds of threads that   *)
(* meet in them.                                                           *)
(*                                                                         *)
(*   - Client requests run Router.Dispatch -> Slot.forward: take the read  *)
(*     lock of the slot, pull the key over from the migration source if    *)
(*     there is one, join the slot's WaitGroup, leave the lock, and only   *)
(*     then push the request to the backend connection.                    *)
(*   - Topology changes run Router.FillSlot, ResetSlot and Close, one at a *)
(*     time under Router.mu: take the write lock of the slot (and keep it  *)
(*     across calls when the slot is in pre_migrate), wait for the         *)
(*     WaitGroup, give the old connections back to the pool and take new   *)
(*     ones.                                                               *)
(*                                                                         *)
(* A backend connection is what BackendConn promises: a request pushed to  *)
(* its channel is answered once, with a reply or with an error.            *)
(***************************************************************************)
EXTENDS Integers, FiniteSets

CONSTANTS
    MaxSlotNum,   \* number of slots (1024 in the code)
    Requests,     \* request slots of the clients; each is reused after its answer
    Addrs,        \* addresses of group masters
    Conns,        \* SharedBackendConn objects; one is reused when nothing refers to it
    NoAddr,       \* the empty address string
    NoConn        \* the nil connection

ASSUME SlotNumAssumption == MaxSlotNum \in Nat \ {0}
ASSUME RequestsAssumption == IsFiniteSet(Requests)
ASSUME NoAddrAssumption == NoAddr \notin Addrs
ASSUME NoConnAssumption == NoConn \notin Conns

Slots == 0 .. MaxSlotNum - 1

VARIABLES
    \* Router: who holds mu and what it is doing
    job,        \* the call that holds Router.mu, or NoJob
    stage,      \* where in that call it is
    closed,     \* Router.closed
    pool,       \* Router.pool: the connection of each address
    \* Slot
    backend,    \* Slot.backend.bc
    migrate,    \* Slot.migrate.bc
    hold,       \* Slot.lock.hold
    rw,         \* the writer side of Slot.lock.RWMutex
    wait,       \* the counter of Slot.wait
    \* SharedBackendConn
    open,       \* connections made whose channel BackendConn.input is not closed
    addr,       \* BackendConn.addr
    refcnt,     \* SharedBackendConn.refcnt
    ping,       \* connections with a heartbeat request in flight
    \* Request
    pc,         \* where in forward the request is
    slot,       \* the slot its key hashes to
    keyed,      \* whether its hash key is nonempty
    bc,         \* the connection prepare (or slotsmgrt) handed out
    moved       \* SLOTSMGRTTAGONE for its key was acknowledged

routerVars == <<job, stage, closed, pool>>
slotVars == <<backend, migrate, hold, rw, wait>>
connVars == <<open, addr, refcnt, ping>>
reqVars == <<pc, slot, keyed, bc, moved>>
vars == <<routerVars, slotVars, connVars, reqVars>>

NoJob == [op |-> "none", slot |-> 0, addr |-> NoAddr, from |-> NoAddr,
          lock |-> FALSE]

Jobs == [op : {"none", "fill", "reset", "close"}, slot : Slots,
         addr : Addrs \cup {NoAddr}, from : Addrs \cup {NoAddr}, lock : BOOLEAN]

Stages == {"idle", "block", "lock", "wait", "put_backend", "put_migrate",
           "get_backend", "get_migrate", "unblock"}

\* Program counters of a request: inside the read lock, with slotsmgrt's
\* request outstanding, counted in the slot's WaitGroup.
Reading == {"prepare", "mgrt", "mgrt_ok", "mgrt_err", "runlock"}
Migrating == {"mgrt", "mgrt_ok", "mgrt_err"}
Counted == {"runlock", "push", "queued"}
PCs == {"idle", "rlock", "blocked"} \cup Reading \cup Counted

Readers(i) == {r \in Requests : slot[r] = i /\ pc[r] \in Reading}
Refs(f, c) == {i \in Slots : f[i] = c}
InFlight(i) == {r \in Requests : slot[r] = i /\ pc[r] \in Counted}

TypeOK ==
    /\ job \in Jobs
    /\ stage \in Stages
    /\ closed \in BOOLEAN
    /\ pool \in [Addrs -> Conns \cup {NoConn}]
    /\ backend \in [Slots -> Conns \cup {NoConn}]
    /\ migrate \in [Slots -> Conns \cup {NoConn}]
    /\ hold \in [Slots -> BOOLEAN]
    /\ rw \in [Slots -> {"free", "pending", "locked"}]
    /\ wait \in [Slots -> Int]
    /\ open \in SUBSET Conns
    /\ addr \in [Conns -> Addrs \cup {NoAddr}]
    /\ refcnt \in [Conns -> Int]
    /\ ping \in SUBSET Conns
    /\ pc \in [Requests -> PCs]
    /\ slot \in [Requests -> Slots]
    /\ keyed \in [Requests -> BOOLEAN]
    /\ bc \in [Requests -> Conns \cup {NoConn}]
    /\ moved \in [Requests -> BOOLEAN]

\* NewWithAuth: empty pool, every slot without backend.
Init ==
    /\ job = NoJob /\ stage = "idle" /\ closed = FALSE
    /\ pool = [a \in Addrs |-> NoConn]
    /\ backend = [i \in Slots |-> NoConn]
    /\ migrate = [i \in Slots |-> NoConn]
    /\ hold = [i \in Slots |-> FALSE]
    /\ rw = [i \in Slots |-> "free"]
    /\ wait = [i \in Slots |-> 0]
    /\ open = {}
    /\ addr = [c \in Conns |-> NoAddr]
    /\ refcnt = [c \in Conns |-> 0]
    /\ ping = {}
    /\ pc = [r \in Requests |-> "idle"]
    /\ slot = [r \in Requests |-> 0]
    /\ keyed = [r \in Requests |-> FALSE]
    /\ bc = [r \in Requests |-> NoConn]
    /\ moved = [r \in Requests |-> FALSE]

-----------------------------------------------------------------------------
(***************************************************************************)
(* Topology changes.  Router.mu is held from the first step of a call to   *)
(* its last one, so there is one job at a time.                            *)
(***************************************************************************)

\* A closed router refuses the calls.
StartJob(j) ==
    /\ stage = "idle"
    /\ ~closed
    /\ job' = j
    /\ stage' = "block"
    /\ UNCHANGED <<closed, pool, slotVars, connVars, reqVars>>

\* FillSlot as Server.fillSlot calls it: lock for a slot in pre_migrate, from
\* (another master) for a slot in migrate, neither otherwise.
FillSlot(i, a, from, lock) ==
    /\ from # a
    /\ lock => from = NoAddr
    /\ StartJob([op |-> "fill", slot |-> i, addr |-> a, from |-> from, lock |-> lock])

ResetSlot(i) ==
    StartJob([op |-> "reset", slot |-> i, addr |-> NoAddr, from |-> NoAddr,
              lock |-> FALSE])

Close ==
    StartJob([op |-> "close", slot |-> 0, addr |-> NoAddr, from |-> NoAddr,
              lock |-> FALSE])

\* Mutant: Lock() is called although the slot is already held.
BlockTwice ==
    /\ stage = "block"
    /\ stage' = "lock"
    /\ hold' = [hold EXCEPT ![job.slot] = TRUE]
    /\ rw' = [rw EXCEPT ![job.slot] = IF @ = "free" THEN "pending" ELSE @]
    /\ UNCHANGED <<job, closed, pool, backend, migrate, wait, connVars, reqVars>>

\* blockAndWait, first half: the write lock is asked for once per hold.  From
\* here on RWMutex lets no new reader in.
Block ==
    /\ stage = "block"
    /\ IF hold[job.slot]
       THEN /\ stage' = "wait"
            /\ UNCHANGED <<hold, rw>>
       ELSE /\ stage' = "lock"
            /\ hold' = [hold EXCEPT ![job.slot] = TRUE]
            /\ rw' = [rw EXCEPT ![job.slot] = "pending"]
    /\ UNCHANGED <<job, closed, pool, backend, migrate, wait, connVars, reqVars>>

\* RWMutex.Lock returns when the readers that were in have left.
LockGranted ==
    /\ stage = "lock"
    /\ rw[job.slot] = "pending"
    /\ Readers(job.slot) = {}
    /\ stage' = "wait"
    /\ rw' = [rw EXCEPT ![job.slot] = "locked"]
    /\ UNCHANGED <<job, closed, pool, backend, migrate, hold, wait, connVars, reqVars>>

\* Mutant: blockAndWait without Slot.wait.Wait().
WaitNot ==
    /\ stage = "wait"
    /\ stage' = "put_backend"
    /\ UNCHANGED <<job, closed, pool, slotVars, connVars, reqVars>>

\* blockAndWait, second half: Slot.wait.Wait().
WaitDone ==
    /\ stage = "wait"
    /\ wait[job.slot] = 0
    /\ stage' = "put_backend"
    /\ UNCHANGED <<job, closed, pool, slotVars, connVars, reqVars>>

\* putBackendConn with SharedBackendConn.Close: the last reference closes the
\* channel, takes the connection out of the pool and drops the object.
PutConn(c) ==
    IF c = NoConn
    THEN UNCHANGED <<pool, open, addr, refcnt>>
    ELSE /\ refcnt' = [refcnt EXCEPT ![c] = @ - 1]
         /\ IF refcnt[c] = 1
            THEN /\ open' = open \ {c}
                 /\ pool' = [pool EXCEPT ![addr[c]] = NoConn]
                 /\ addr' = [addr EXCEPT ![c] = NoAddr]
            ELSE UNCHANGED <<pool, open, addr>>

\* Slot.reset clears the two references after both have been put back; the
\* slot is write-locked, so clearing each with its own put is the same.
PutBackend ==
    /\ stage = "put_backend"
    /\ PutConn(backend[job.slot])
    /\ backend' = [backend EXCEPT ![job.slot] = NoConn]
    /\ stage' = "put_migrate"
    /\ UNCHANGED <<job, closed, migrate, hold, rw, wait, ping, reqVars>>

\* Mutant: the connection to the migration source is not given back.
PutMigrateNot ==
    /\ stage = "put_migrate"
    /\ migrate' = [migrate EXCEPT ![job.slot] = NoConn]
    /\ stage' = IF job.op = "fill" THEN "get_backend" ELSE "unblock"
    /\ UNCHANGED <<job, closed, pool, backend, hold, rw, wait, connVars, reqVars>>

PutMigrate ==
    /\ stage = "put_migrate"
    /\ PutConn(migrate[job.slot])
    /\ migrate' = [migrate EXCEPT ![job.slot] = NoConn]
    /\ stage' = IF job.op = "fill" THEN "get_backend" ELSE "unblock"
    /\ UNCHANGED <<job, closed, backend, hold, rw, wait, ping, reqVars>>

\* Nothing refers to the object c.
Unused(c) == c \notin open /\ c \notin ping /\ \A r \in Requests : bc[r] # c

\* getBackendConn(a) returns c: the pooled connection with one more
\* reference, or a new one.
GetConn(a, c) ==
    \/ /\ pool[a] # NoConn
       /\ c = pool[a]
       /\ refcnt' = [refcnt EXCEPT ![c] = @ + 1]
       /\ UNCHANGED <<pool, open, addr>>
    \/ /\ pool[a] = NoConn
       /\ Unused(c)
       /\ refcnt' = [refcnt EXCEPT ![c] = 1]
       /\ open' = open \cup {c}
       /\ addr' = [addr EXCEPT ![c] = a]
       /\ pool' = [pool EXCEPT ![a] = c]

GetBackend ==
    /\ stage = "get_backend"
    /\ \E c \in Conns :
          /\ GetConn(job.addr, c)
          /\ backend' = [backend EXCEPT ![job.slot] = c]
    /\ stage' = "get_migrate"
    /\ UNCHANGED <<job, closed, migrate, hold, rw, wait, ping, reqVars>>

GetMigrate ==
    /\ stage = "get_migrate"
    /\ IF job.from = NoAddr
       THEN UNCHANGED <<pool, open, addr, refcnt, migrate>>
       ELSE \E c \in Conns :
               /\ GetConn(job.from, c)
               /\ migrate' = [migrate EXCEPT ![job.slot] = c]
    /\ stage' = "unblock"
    /\ UNCHANGED <<job, closed, backend, hold, rw, wait, ping, reqVars>>

\* RWMutex.Unlock lets in the readers that queued up behind the writer.
Unlocked(i) ==
    /\ hold' = [hold EXCEPT ![i] = FALSE]
    /\ rw' = [rw EXCEPT ![i] = "free"]
    /\ pc' = [r \in Requests |-> IF pc[r] = "blocked" /\ slot[r] = i
                                 THEN "prepare" ELSE pc[r]]

\* Mutant: only fillSlot unblocks.
UnblockFillOnly ==
    /\ stage = "unblock"
    /\ IF job.lock \/ job.op # "fill"
       THEN UNCHANGED <<hold, rw, pc>>
       ELSE Unlocked(job.slot)
    /\ IF job.op = "close" /\ job.slot < MaxSlotNum - 1
       THEN /\ job' = [job EXCEPT !.slot = @ + 1]
            /\ stage' = "block"
            /\ UNCHANGED closed
       ELSE /\ job' = NoJob
            /\ stage' = "idle"
            /\ closed' = (closed \/ job.op = "close")
    /\ UNCHANGED <<pool, backend, migrate, wait, connVars, slot, keyed, bc, moved>>

\* The end of a slot: unblock unless the slot stays locked; then the call
\* returns, or Close goes on with the next slot and finally sets closed.
Unblock ==
    /\ stage = "unblock"
    /\ IF job.lock THEN UNCHANGED <<hold, rw, pc>> ELSE Unlocked(job.slot)
    /\ IF job.op = "close" /\ job.slot < MaxSlotNum - 1
       THEN /\ job' = [job EXCEPT !.slot = @ + 1]
            /\ stage' = "block"
            /\ UNCHANGED closed
       ELSE /\ job' = NoJob
            /\ stage' = "idle"
            /\ closed' = (closed \/ job.op = "close")
    /\ UNCHANGED <<pool, backend, migrate, wait, connVars, slot, keyed, bc, moved>>

\* KeepAlive sends a PING to every connection of the pool; nobody waits for
\* the reply.
KeepAlive ==
    /\ stage = "idle"
    /\ ~closed
    /\ ping' = ping \cup {pool[a] : a \in {b \in Addrs : pool[b] # NoConn}}
    /\ UNCHANGED <<routerVars, slotVars, open, addr, refcnt, reqVars>>

PingAnswered(c) ==
    /\ c \in ping
    /\ ping' = ping \ {c}
    /\ UNCHANGED <<routerVars, slotVars, open, addr, refcnt, reqVars>>

-----------------------------------------------------------------------------
(***************************************************************************)
(* Requests.                                                               *)
(***************************************************************************)

\* Dispatch: the slot of the hash key.
Dispatch(r, i, k) ==
    /\ pc[r] = "idle"
    /\ pc' = [pc EXCEPT ![r] = "rlock"]
    /\ slot' = [slot EXCEPT ![r] = i]
    /\ keyed' = [keyed EXCEPT ![r] = k]
    /\ UNCHANGED <<routerVars, slotVars, connVars, bc, moved>>

\* RWMutex.RLock blocks behind a writer that holds the lock or waits for it.
RLock(r) ==
    /\ pc[r] = "rlock"
    /\ pc' = [pc EXCEPT ![r] = IF rw[slot[r]] = "free" THEN "prepare" ELSE "blocked"]
    /\ UNCHANGED <<routerVars, slotVars, connVars, slot, keyed, bc, moved>>

\* The request object is dropped.
Finish(r) ==
    /\ pc' = [pc EXCEPT ![r] = "idle"]
    /\ bc' = [bc EXCEPT ![r] = NoConn]
    /\ moved' = [moved EXCEPT ![r] = FALSE]
    /\ slot' = [slot EXCEPT ![r] = 0]
    /\ keyed' = [keyed EXCEPT ![r] = FALSE]

\* prepare without a backend: ErrSlotIsNotReady, the lock is left.
PrepareNotReady(r) ==
    /\ pc[r] = "prepare"
    /\ backend[slot[r]] = NoConn
    /\ Finish(r)
    /\ UNCHANGED <<routerVars, slotVars, connVars>>

\* slotsmgrt sends SLOTSMGRTTAGONE to the migration source and waits.
PrepareMigrate(r) ==
    /\ pc[r] = "prepare"
    /\ backend[slot[r]] # NoConn
    /\ keyed[r] /\ migrate[slot[r]] # NoConn
    /\ pc' = [pc EXCEPT ![r] = "mgrt"]
    /\ bc' = [bc EXCEPT ![r] = migrate[slot[r]]]
    /\ UNCHANGED <<routerVars, slotVars, connVars, slot, keyed, moved>>

\* The rest of prepare: join the WaitGroup and take the backend connection.
Join(r) ==
    /\ wait' = [wait EXCEPT ![slot[r]] = @ + 1]
    /\ bc' = [bc EXCEPT ![r] = backend[slot[r]]]
    /\ pc' = [pc EXCEPT ![r] = "runlock"]

\* Mutant: the migration source is not asked.
PrepareAlwaysDirect(r) ==
    /\ pc[r] = "prepare"
    /\ backend[slot[r]] # NoConn
    /\ Join(r)
    /\ UNCHANGED <<routerVars, backend, migrate, hold, rw, connVars, slot, keyed, moved>>

PrepareDirect(r) ==
    /\ pc[r] = "prepare"
    /\ backend[slot[r]] # NoConn
    /\ ~(keyed[r] /\ migrate[slot[r]] # NoConn)
    /\ Join(r)
    /\ UNCHANGED <<routerVars, backend, migrate, hold, rw, connVars, slot, keyed, moved>>

\* The migration source answers slotsmgrt's request: an integer, or an error.
MigrateAnswered(r, ok) ==
    /\ pc[r] = "mgrt"
    /\ pc' = [pc EXCEPT ![r] = IF ok THEN "mgrt_ok" ELSE "mgrt_err"]
    /\ moved' = [moved EXCEPT ![r] = ok]
    /\ UNCHANGED <<routerVars, slotVars, connVars, slot, keyed, bc>>

MigrateDone(r) ==
    /\ pc[r] = "mgrt_ok"
    /\ Join(r)
    /\ UNCHANGED <<routerVars, backend, migrate, hold, rw, connVars, slot, keyed, moved>>

MigrateFailed(r) ==
    /\ pc[r] = "mgrt_err"
    /\ Finish(r)
    /\ UNCHANGED <<routerVars, slotVars, connVars>>

\* forward leaves the read lock before it pushes the request.
RUnlock(r) ==
    /\ pc[r] = "runlock"
    /\ pc' = [pc EXCEPT ![r] = "push"]
    /\ UNCHANGED <<routerVars, slotVars, connVars, slot, keyed, bc, moved>>

\* PushBack onto the input channel.
PushBack(r) ==
    /\ pc[r] = "push"
    /\ pc' = [pc EXCEPT ![r] = "queued"]
    /\ UNCHANGED <<routerVars, slotVars, connVars, slot, keyed, bc, moved>>

\* setResponse: the request leaves the slot's WaitGroup.
SetResponse(r) ==
    /\ pc[r] = "queued"
    /\ wait' = [wait EXCEPT ![slot[r]] = @ - 1]
    /\ Finish(r)
    /\ UNCHANGED <<routerVars, backend, migrate, hold, rw, connVars>>

-----------------------------------------------------------------------------
JobStep ==
    \/ Block \/ LockGranted \/ WaitDone \/ PutBackend \/ PutMigrate
    \/ GetBackend \/ GetMigrate \/ Unblock

RequestStep(r) ==
    \/ RLock(r) \/ PrepareNotReady(r) \/ PrepareMigrate(r) \/ PrepareDirect(r)
    \/ MigrateDone(r) \/ MigrateFailed(r) \/ RUnlock(r) \/ PushBack(r)

BackendStep(r) == SetResponse(r) \/ \E ok \in BOOLEAN : MigrateAnswered(r, ok)

Next ==
    \/ \E i \in Slots, a \in Addrs, from \in Addrs \cup {NoAddr}, lock \in BOOLEAN :
          FillSlot(i, a, from, lock)
    \/ \E i \in Slots : ResetSlot(i)
    \/ Close
    \/ JobStep
    \/ KeepAlive
    \/ \E c \in Conns : PingAnswered(c)
    \/ \E r \in Requests, i \in Slots, k \in BOOLEAN : Dispatch(r, i, k)
    \/ \E r \in Requests : RequestStep(r) \/ BackendStep(r)

Spec == Init /\ [][Next]_vars

\* Every goroutine that can run does run, and a backend connection answers
\* every request (BackendConn answers with an error when the server does not).
FairSpec ==
    /\ Spec
    /\ WF_vars(JobStep)
    /\ \A c \in Conns : WF_vars(PingAnswered(c))
    /\ \A r \in Requests : WF_vars(RequestStep(r)) /\ WF_vars(BackendStep(r))

(***************************************************************************)
(* Properties.                                                             *)
(***************************************************************************)

\* The reference count of a connection is the number of slot fields that
\* point to it, so SharedBackendConn.Close never panics with "close too many
\* times" and never leaks a connection.
RefcntExact ==
    \A c \in Conns :
        refcnt[c] = Cardinality(Refs(backend, c)) + Cardinality(Refs(migrate, c))

\* The pool holds exactly the open connections, one per address: IncrRefcnt
\* never meets a closed connection, KeepAlive never sends on a closed channel
\* and two slots with the same master share one ordered connection.
PoolExact ==
    /\ \A c \in open : addr[c] \in Addrs /\ pool[addr[c]] = c
    /\ \A a \in Addrs : pool[a] # NoConn => pool[a] \in open /\ addr[pool[a]] = a
    /\ open = {c \in Conns : refcnt[c] > 0}

\* forward pushes after it has left the read lock, yet never onto a closed
\* channel (a panic in Go), nor does slotsmgrt.
SendOnOpenChannel ==
    \A r \in Requests : pc[r] \in {"mgrt", "runlock", "push", "queued"} =>
        bc[r] \in open

\* An unanswered request sits at the connection its slot routes to now, and if
\* the slot is being migrated its key has been pulled over before: no request
\* is executed by a server the slot has left.
RoutedToOwner ==
    \A r \in Requests : pc[r] \in Counted =>
        /\ bc[r] = backend[slot[r]]
        /\ keyed[r] /\ migrate[slot[r]] # NoConn => moved[r]

\* A slot that FillSlot left locked (pre_migrate) has no request inside
\* forward's lock and none on its way to a backend: the dashboard may start to
\* move its keys.  The same holds while a call is changing the slot.
LockedSlotQuiet ==
    \A i \in Slots :
        hold[i] /\ ~(job.slot = i /\ stage \in {"lock", "wait"}) =>
            Readers(i) = {} /\ InFlight(i) = {}

\* The WaitGroup of a slot counts its unanswered requests: it never goes
\* negative (a panic in Go) and Wait() returns when they are answered.
WaitCountsInFlight == \A i \in Slots : wait[i] = Cardinality(InFlight(i))

\* A topology change always finishes, although it holds Router.mu while it
\* waits for readers and replies.
JobCompletes == stage # "idle" ~> stage = "idle"

\* A request is always answered, except while a FillSlot has left its slot
\* locked (pre_migrate); a reset slot or a closed router blocks nobody.
RequestCompletes ==
    \A r \in Requests : pc[r] # "idle" ~>
        \/ pc[r] = "idle"
        \/ /\ pc[r] = "blocked" /\ rw[slot[r]] = "locked"
           /\ stage = "idle" /\ ~closed /\ backend[slot[r]] # NoConn

-----------------------------------------------------------------------------
(***************************************************************************)
(* The inductive invariant: the properties above and what they rest on.    *)
(***************************************************************************)

\* What the call that holds Router.mu has established so far.
JobInv ==
    /\ stage # "idle" => job.op # "none"
    /\ stage \in {"get_backend", "get_migrate"} => job.op = "fill"
    /\ job.op = "fill" => job.addr \in Addrs
    /\ stage \notin {"idle", "block"} => hold[job.slot]
    /\ stage \in {"put_migrate", "get_backend"} => backend[job.slot] = NoConn
    /\ stage \in {"get_backend", "get_migrate"} => migrate[job.slot] = NoConn

\* The write lock of a slot follows hold, and is granted once it is asked for.
LockInv ==
    \A i \in Slots :
        /\ hold[i] <=> rw[i] # "free"
        /\ rw[i] = "pending" <=> stage = "lock" /\ job.slot = i

\* A locked slot has no readers, and no unanswered request either once the
\* writer has seen the WaitGroup empty.
QuietInv ==
    \A i \in Slots : rw[i] = "locked" =>
        /\ Readers(i) = {}
        /\ ~(stage = "wait" /\ job.slot = i) => InFlight(i) = {}

\* What a request knows about its slot while it is inside the read lock or
\* counted: the connections it was handed are the slot's.
RequestInv ==
    \A r \in Requests :
        /\ pc[r] \in Counted => bc[r] = backend[slot[r]] /\ bc[r] # NoConn
        /\ pc[r] \in Counted /\ keyed[r] /\ migrate[slot[r]] # NoConn => moved[r]
        /\ pc[r] \in Migrating => /\ bc[r] = migrate[slot[r]] /\ bc[r] # NoConn
                                  /\ backend[slot[r]] # NoConn
        /\ pc[r] = "mgrt_ok" => moved[r]

IInv ==
    /\ TypeOK /\ JobInv /\ LockInv /\ QuietInv /\ RequestInv
    /\ RefcntExact /\ PoolExact /\ WaitCountsInFlight

=============================================================================
