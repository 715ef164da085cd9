--------------------------- MODULE SlotRouterProofs ---------------------------
(***************************************************************************)
(* The safety properties of SlotRouter hold for every number of slots,     *)
(* requests, addresses and connections.                                    *)
(***************************************************************************)
EXTENDS SlotRouter, FiniteSetTheorems, TLAPS

\* The references of all slots to a connection are finitely many, and
\* updating one slot's reference changes their number by at most one.
LEMMA RefsFinite ==
    ASSUME NEW f, NEW c
    PROVE  IsFiniteSet(Refs(f, c)) /\ Cardinality(Refs(f, c)) \in Nat
  <1>1. IsFiniteSet(Slots)
    BY SlotNumAssumption, FS_Interval DEF Slots
  <1>2. Refs(f, c) \subseteq Slots
    BY Zenon DEF Refs
  <1>3. QED
    BY <1>1, <1>2, FS_Subset, FS_CardinalityType, Zenon

\* A connection a slot refers to has a reference.
LEMMA RefsNonempty ==
    ASSUME NEW f, NEW c, NEW i \in Slots, f[i] = c
    PROVE  Cardinality(Refs(f, c)) > 0
  <1>1. Refs(f, c) # {}
    BY Zenon DEF Refs
  <1>2. Cardinality(Refs(f, c)) # 0
    BY <1>1, RefsFinite, FS_EmptySet, Zenon
  <1>3. QED
    BY <1>2, RefsFinite

\* A connection without references is referred to by no slot.
LEMMA RefsEmpty ==
    ASSUME NEW f, NEW c, Cardinality(Refs(f, c)) = 0
    PROVE  \A i \in Slots : f[i] # c
  BY RefsNonempty, RefsFinite

\* The requests of a slot are finitely many.
LEMMA InFlightFinite ==
    ASSUME NEW i
    PROVE  IsFiniteSet(InFlight(i)) /\ Cardinality(InFlight(i)) \in Nat
  <1>1. InFlight(i) \subseteq Requests
    BY Zenon DEF InFlight
  <1>2. QED
    BY <1>1, RequestsAssumption, FS_Subset, FS_CardinalityType, Zenon

-----------------------------------------------------------------------------
\* The initial routing table (NewWithAuth) satisfies the invariant.
LEMMA InitIInv == Init => IInv
  <1> SUFFICES ASSUME Init PROVE IInv
    BY Zenon
  <1>0. 0 \in Slots
    BY SlotNumAssumption DEF Slots
  <1>1. TypeOK
    <2>1. job \in Jobs
      BY <1>0, Zenon DEF Init, Jobs, NoJob
    <2>2. stage \in Stages /\ closed \in BOOLEAN
      BY Zenon DEF Init, Stages
    <2>3. /\ hold \in [Slots -> BOOLEAN]
          /\ keyed \in [Requests -> BOOLEAN] /\ moved \in [Requests -> BOOLEAN]
      BY Zenon DEF Init
    <2>4. slot \in [Requests -> Slots]
      BY <1>0, Zenon DEF Init
    <2>5. QED
      BY <2>1, <2>2, <2>3, <2>4 DEF Init, TypeOK, PCs
  <1>2. JobInv /\ LockInv /\ QuietInv /\ RequestInv
    BY NoAddrAssumption, Zenon DEF Init, JobInv, LockInv, QuietInv, RequestInv, NoJob, Counted, Migrating
  <1>3. RefcntExact
    <2> SUFFICES ASSUME NEW c \in Conns
                 PROVE  refcnt[c] = Cardinality(Refs(backend, c)) + Cardinality(Refs(migrate, c))
      BY Zenon DEF RefcntExact
    <2>1. Refs(backend, c) = {} /\ Refs(migrate, c) = {}
      BY NoConnAssumption, Zenon DEF Init, Refs
    <2>2. QED
      BY <2>1, FS_EmptySet DEF Init
  <1>4. PoolExact
    BY DEF Init, PoolExact
  <1>5. WaitCountsInFlight
    <2> SUFFICES ASSUME NEW i \in Slots PROVE wait[i] = Cardinality(InFlight(i))
      BY Zenon DEF WaitCountsInFlight
    <2>1. InFlight(i) = {}
      BY Zenon DEF Init, InFlight, Counted
    <2>2. QED
      BY <2>1, FS_EmptySet, Zenon DEF Init
  <1>6. QED
    BY <1>1, <1>2, <1>3, <1>4, <1>5, Zenon DEF IInv

-----------------------------------------------------------------------------
\* Close starts with slot 0, and NoJob names it.
LEMMA ZeroSlot == 0 \in Slots
  BY SlotNumAssumption DEF Slots

\* Giving a connection back keeps the types of the pool and of the connections.
LEMMA PutConnType ==
    ASSUME TypeOK, NEW c \in Conns \cup {NoConn}, PutConn(c)
    PROVE  /\ pool' \in [Addrs -> Conns \cup {NoConn}]
           /\ open' \in SUBSET Conns
           /\ addr' \in [Conns -> Addrs \cup {NoAddr}]
           /\ refcnt' \in [Conns -> Int]
  <1>1. CASE c = NoConn
    BY <1>1, Zenon DEF PutConn, TypeOK
  <1>2. CASE c # NoConn /\ refcnt[c] = 1
    BY <1>2 DEF PutConn, TypeOK
  <1>3. CASE c # NoConn /\ refcnt[c] # 1
    BY <1>3 DEF PutConn, TypeOK
  <1>4. QED
    BY <1>1, <1>2, <1>3, Zenon

\* Dropping a request keeps the types of its fields.
LEMMA FinishType ==
    ASSUME TypeOK, NEW r \in Requests, Finish(r)
    PROVE  /\ pc' \in [Requests -> PCs] /\ slot' \in [Requests -> Slots]
           /\ keyed' \in [Requests -> BOOLEAN] /\ moved' \in [Requests -> BOOLEAN]
           /\ bc' \in [Requests -> Conns \cup {NoConn}]
  <1>1. pc' \in [Requests -> PCs] /\ bc' \in [Requests -> Conns \cup {NoConn}]
    BY Zenon DEF Finish, TypeOK, PCs
  <1>2. slot' \in [Requests -> Slots]
    BY ZeroSlot, Zenon DEF Finish, TypeOK
  <1>3. keyed' \in [Requests -> BOOLEAN] /\ moved' \in [Requests -> BOOLEAN]
    BY Zenon DEF Finish, TypeOK
  <1>4. QED
    BY <1>1, <1>2, <1>3, Zenon

\* Every step keeps the variables within their types.
LEMMA TypeStep == TypeOK /\ Next => TypeOK'
  <1> SUFFICES ASSUME TypeOK, Next PROVE TypeOK'
    BY Zenon
  <1> USE DEF routerVars, slotVars, connVars, reqVars
  <1>1. ASSUME NEW j \in Jobs, StartJob(j) PROVE TypeOK'
    BY <1>1, Zenon DEF StartJob, Stages, TypeOK
  <1>2. ASSUME NEW i \in Slots, NEW a \in Addrs, NEW from \in Addrs \cup {NoAddr},
               NEW lock \in BOOLEAN, FillSlot(i, a, from, lock)
        PROVE  TypeOK'
    <2>1. [op |-> "fill", slot |-> i, addr |-> a, from |-> from, lock |-> lock] \in Jobs
      BY Zenon DEF Jobs
    <2>2. QED
      BY <1>1, <1>2, <2>1, Zenon DEF FillSlot
  <1>3. ASSUME NEW i \in Slots, ResetSlot(i) PROVE TypeOK'
    <2>1. [op |-> "reset", slot |-> i, addr |-> NoAddr, from |-> NoAddr, lock |-> FALSE] \in Jobs
      BY Zenon DEF Jobs
    <2>2. QED
      BY <1>1, <1>3, <2>1, Zenon DEF ResetSlot
  <1>4. CASE Close
    <2>1. [op |-> "close", slot |-> 0, addr |-> NoAddr, from |-> NoAddr, lock |-> FALSE] \in Jobs
      BY SlotNumAssumption DEF Jobs, Slots
    <2>2. QED
      BY <1>1, <1>4, <2>1, Zenon DEF Close
  <1>5. CASE Block
    BY <1>5, Zenon DEF Block, Stages, TypeOK
  <1>6. CASE LockGranted
    BY <1>6, Zenon DEF LockGranted, Stages, TypeOK
  <1>7. CASE WaitDone
    BY <1>7, Zenon DEF WaitDone, Stages, TypeOK
  <1>8. CASE PutBackend
    <2>1. backend[job.slot] \in Conns \cup {NoConn} /\ PutConn(backend[job.slot])
      BY <1>8, Zenon DEF PutBackend, TypeOK, Jobs
    <2>2. QED
      BY <1>8, <2>1, PutConnType, Zenon DEF PutBackend, Stages, TypeOK
  <1>9. CASE PutMigrate
    <2>1. migrate[job.slot] \in Conns \cup {NoConn} /\ PutConn(migrate[job.slot])
      BY <1>9, Zenon DEF PutMigrate, TypeOK, Jobs
    <2>2. QED
      BY <1>9, <2>1, PutConnType, Zenon DEF PutMigrate, Stages, TypeOK
  <1>10. CASE GetBackend
    BY <1>10 DEF GetBackend, GetConn, Stages, Jobs, TypeOK
  <1>11. CASE GetMigrate
    BY <1>11 DEF GetMigrate, GetConn, Stages, Jobs, TypeOK
  <1>12. CASE Unblock
    <2>1. pc' \in [Requests -> PCs]
      BY <1>12, Zenon DEF Unblock, Unlocked, TypeOK, PCs, Reading
    <2>2. hold' \in [Slots -> BOOLEAN] /\ rw' \in [Slots -> {"free", "pending", "locked"}]
      BY <1>12, Zenon DEF Unblock, Unlocked, TypeOK
    <2>3. job' \in Jobs /\ stage' \in Stages
      <3>1. CASE job.op = "close" /\ job.slot < MaxSlotNum - 1
        <4>1. job.slot + 1 \in Slots /\ job \in Jobs
          BY <3>1, SlotNumAssumption DEF TypeOK, Jobs, Slots
        <4>2. job' = [job EXCEPT !.slot = job.slot + 1] /\ stage' = "block"
          BY <1>12, <3>1, Zenon DEF Unblock
        <4>3. QED
          BY <4>1, <4>2, Zenon DEF Jobs, Stages
      <3>2. CASE ~(job.op = "close" /\ job.slot < MaxSlotNum - 1)
        <4>1. job' = NoJob /\ stage' = "idle"
          BY <1>12, <3>2, Zenon DEF Unblock
        <4>2. QED
          BY <4>1, ZeroSlot, Zenon DEF NoJob, Jobs, Stages
      <3>3. QED
        BY <3>1, <3>2, Zenon
    <2>4. closed' \in BOOLEAN
      BY <1>12, Zenon DEF Unblock, TypeOK
    <2>5. QED
      BY <1>12, <2>1, <2>2, <2>3, <2>4, Zenon DEF Unblock, TypeOK
  <1>13. CASE KeepAlive
    BY <1>13, Zenon DEF KeepAlive, TypeOK
  <1>14. ASSUME NEW c \in Conns, PingAnswered(c) PROVE TypeOK'
    BY <1>14, Zenon DEF PingAnswered, TypeOK
  <1>15. ASSUME NEW r \in Requests, NEW i \in Slots, NEW k \in BOOLEAN, Dispatch(r, i, k)
         PROVE  TypeOK'
    BY <1>15, Zenon DEF Dispatch, PCs, TypeOK
  <1>16. ASSUME NEW r \in Requests, RequestStep(r) \/ BackendStep(r) PROVE TypeOK'
    <2>1. CASE RLock(r) \/ RUnlock(r) \/ PushBack(r)
      BY <2>1, Zenon DEF RLock, RUnlock, PushBack, TypeOK, PCs, Reading, Counted
    <2>2. CASE PrepareNotReady(r) \/ MigrateFailed(r)
      BY <2>2, FinishType, Zenon DEF PrepareNotReady, MigrateFailed, TypeOK
    <2>3. CASE PrepareMigrate(r)
      BY <2>3, Zenon DEF PrepareMigrate, TypeOK, PCs, Reading
    <2>4. ASSUME NEW ok \in BOOLEAN, MigrateAnswered(r, ok) PROVE TypeOK'
      <3>1. pc' = [pc EXCEPT ![r] = "mgrt_ok"] \/ pc' = [pc EXCEPT ![r] = "mgrt_err"]
        BY <2>4, Zenon DEF MigrateAnswered
      <3>2. pc' \in [Requests -> PCs]
        BY <3>1, Zenon DEF TypeOK, PCs, Reading
      <3>3. moved' \in [Requests -> BOOLEAN]
        BY <2>4, Zenon DEF MigrateAnswered, TypeOK
      <3>4. QED
        BY <2>4, <3>2, <3>3, Zenon DEF MigrateAnswered, TypeOK
    <2>5. CASE PrepareDirect(r) \/ MigrateDone(r)
      BY <2>5 DEF PrepareDirect, MigrateDone, Join, TypeOK, PCs, Reading
    <2>6. CASE SetResponse(r)
      BY <2>6, FinishType DEF SetResponse, TypeOK
    <2>7. QED
      BY <1>16, <2>1, <2>2, <2>3, <2>4, <2>5, <2>6, Zenon DEF RequestStep, BackendStep
  <1>17. QED
    BY <1>2, <1>3, <1>4, <1>5, <1>6, <1>7, <1>8, <1>9, <1>10, <1>11, <1>12, <1>13, <1>14,
       <1>15, <1>16, Zenon DEF Next, JobStep

-----------------------------------------------------------------------------
\* Steps of requests and heartbeats leave Router.mu and the write locks alone.
LEMMA RequestStepFrame ==
    ASSUME NEW r \in Requests, RequestStep(r) \/ BackendStep(r)
    PROVE  UNCHANGED <<routerVars, backend, migrate, hold, rw, connVars>>
  BY Zenon DEF RequestStep, BackendStep, RLock, PrepareNotReady, PrepareMigrate, PrepareDirect,
         MigrateAnswered, MigrateDone, MigrateFailed, RUnlock, PushBack, SetResponse, Join,
         routerVars, slotVars, connVars

\* Every step keeps the call in progress and the write locks consistent.
LEMMA LockStep == TypeOK /\ JobInv /\ LockInv /\ Next => JobInv' /\ LockInv'
  <1> SUFFICES ASSUME TypeOK, JobInv, LockInv, Next PROVE JobInv' /\ LockInv'
    BY Zenon
  <1> USE DEF TypeOK, routerVars, slotVars, connVars, reqVars
  <1>1. ASSUME NEW i \in Slots, NEW a \in Addrs, NEW from \in Addrs \cup {NoAddr},
               NEW lock \in BOOLEAN, FillSlot(i, a, from, lock)
        PROVE  JobInv' /\ LockInv'
    BY <1>1, Zenon DEF FillSlot, StartJob, JobInv, LockInv
  <1>2. ASSUME NEW i \in Slots, ResetSlot(i) PROVE JobInv' /\ LockInv'
    BY <1>2, Zenon DEF ResetSlot, StartJob, JobInv, LockInv
  <1>3. CASE Close
    BY <1>3, Zenon DEF Close, StartJob, JobInv, LockInv
  <1>4. CASE Block
    BY <1>4 DEF Block, JobInv, LockInv, Jobs
  <1>5. CASE LockGranted
    BY <1>5, Zenon DEF LockGranted, JobInv, LockInv, Jobs
  <1>6. CASE WaitDone
    BY <1>6, Zenon DEF WaitDone, JobInv, LockInv
  <1>7. CASE PutBackend \/ PutMigrate
    <2>1. JobInv'
      BY <1>7, Zenon DEF PutBackend, PutMigrate, JobInv, Jobs
    <2>2. LockInv'
      BY <1>7 DEF PutBackend, PutMigrate, LockInv
    <2>3. QED
      BY <2>1, <2>2, Zenon
  <1>8. CASE GetBackend \/ GetMigrate
    <2>1. JobInv'
      BY <1>8, Zenon DEF GetBackend, GetMigrate, JobInv, Jobs
    <2>2. LockInv'
      BY <1>8 DEF GetBackend, GetMigrate, LockInv
    <2>3. QED
      BY <2>1, <2>2, Zenon
  <1>9. CASE Unblock
    BY <1>9 DEF Unblock, Unlocked, JobInv, LockInv, Jobs, NoJob
  <1>10. CASE KeepAlive \/ \E c \in Conns : PingAnswered(c)
    BY <1>10 DEF KeepAlive, PingAnswered, JobInv, LockInv
  <1>11. ASSUME NEW r \in Requests, NEW i \in Slots, NEW k \in BOOLEAN, Dispatch(r, i, k)
         PROVE  JobInv' /\ LockInv'
    BY <1>11, Zenon DEF Dispatch, JobInv, LockInv
  <1>12. ASSUME NEW r \in Requests, RequestStep(r) \/ BackendStep(r)
         PROVE  JobInv' /\ LockInv'
    BY <1>12, RequestStepFrame DEF JobInv, LockInv
  <1> HIDE DEF TypeOK
  <1>13. QED
    BY <1>1, <1>2, <1>3, <1>4, <1>5, <1>6, <1>7, <1>8, <1>9, <1>10, <1>11, <1>12, Zenon
       DEF Next, JobStep

-----------------------------------------------------------------------------
\* A slot whose connections are being exchanged has no request that uses them.
LEMMA ExchangeQuiet ==
    ASSUME TypeOK, JobInv, LockInv, QuietInv,
           stage \in {"put_backend", "put_migrate", "get_backend", "get_migrate", "unblock"}
    PROVE  /\ job.slot \in Slots
           /\ rw[job.slot] = "locked"
           /\ \A r \in Requests : slot[r] = job.slot => pc[r] \notin Reading \cup Counted
  <1>1. job.slot \in Slots
    BY Zenon DEF TypeOK, Jobs
  <1>2. rw[job.slot] = "locked"
    BY <1>1, Zenon DEF TypeOK, JobInv, LockInv
  <1>3. Readers(job.slot) = {} /\ InFlight(job.slot) = {}
    BY <1>1, <1>2, Zenon DEF QuietInv
  <1>4. QED
    BY <1>1, <1>2, <1>3, Zenon DEF Readers, InFlight

\* Topology changes keep what requests rely on.
LEMMA RequestInvJob ==
    ASSUME TypeOK, JobInv, LockInv, QuietInv, RequestInv, WaitCountsInFlight, JobStep
    PROVE  QuietInv' /\ RequestInv' /\ WaitCountsInFlight'
  <1> USE DEF routerVars, slotVars, connVars, reqVars
  <1>1. CASE Block
    BY <1>1 DEF Block, TypeOK, Jobs, QuietInv, RequestInv, WaitCountsInFlight, Readers, InFlight
  <1>2. CASE LockGranted
    <2>1. UNCHANGED <<backend, migrate, wait, pc, slot, keyed, bc, moved>>
      BY <1>2, Zenon DEF LockGranted
    <2>2. RequestInv' /\ WaitCountsInFlight'
      BY <2>1, Zenon DEF RequestInv, WaitCountsInFlight, InFlight
    <2>3. QuietInv'
      BY <1>2, <2>1, Zenon DEF LockGranted, TypeOK, Jobs, QuietInv, Readers, InFlight
    <2>4. QED
      BY <2>2, <2>3, Zenon
  <1>3. CASE WaitDone
    <2>1. job.slot \in Slots /\ wait[job.slot] = 0
      BY <1>3, Zenon DEF WaitDone, TypeOK, Jobs
    <2>2. InFlight(job.slot) = {}
      BY <2>1, InFlightFinite, FS_EmptySet, Zenon DEF WaitCountsInFlight
    <2>3. UNCHANGED <<rw, backend, migrate, wait, pc, slot, keyed, bc, moved, job>>
      BY <1>3, Zenon DEF WaitDone
    <2>4. RequestInv' /\ WaitCountsInFlight'
      BY <2>3, Zenon DEF RequestInv, WaitCountsInFlight, InFlight
    <2>5. QuietInv'
      BY <2>1, <2>2, <2>3, Zenon DEF QuietInv, Readers, InFlight
    <2>6. QED
      BY <2>4, <2>5, Zenon
  <1>4. CASE PutBackend \/ PutMigrate \/ GetBackend \/ GetMigrate
    <2>1. /\ UNCHANGED <<job, rw, wait, pc, slot, keyed, bc, moved>>
          /\ stage \in {"put_backend", "put_migrate", "get_backend", "get_migrate"}
          /\ stage' # "wait"
      BY <1>4, Zenon DEF PutBackend, PutMigrate, GetBackend, GetMigrate
    <2>2. \A i \in Slots \ {job.slot} : backend'[i] = backend[i] /\ migrate'[i] = migrate[i]
      BY <1>4, Zenon DEF PutBackend, PutMigrate, GetBackend, GetMigrate, TypeOK
    <2>3. \A r \in Requests : slot[r] = job.slot => pc[r] \notin Reading \cup Counted
      BY <2>1, ExchangeQuiet, Zenon
    <2>4. WaitCountsInFlight'
      BY <2>1, Zenon DEF WaitCountsInFlight, InFlight
    <2>5. QuietInv'
      BY <2>1, Zenon DEF QuietInv, Readers, InFlight
    <2>6. RequestInv'
      BY <2>1, <2>2, <2>3 DEF RequestInv, TypeOK, Reading, Migrating
    <2>7. QED
      BY <2>4, <2>5, <2>6, Zenon
  <1>5. CASE Unblock
    <2>1. UNCHANGED <<backend, migrate, wait, slot, keyed, bc, moved>> /\ stage' # "wait"
      BY <1>5, Zenon DEF Unblock
    <2>2. \A r \in Requests : \/ pc'[r] = pc[r]
                             \/ /\ pc[r] = "blocked" /\ pc'[r] = "prepare"
                                /\ rw'[slot[r]] = "free"
      BY <1>5, Zenon DEF Unblock, Unlocked, TypeOK
    <2>3. \A i \in Slots : rw'[i] = "locked" => rw[i] = "locked"
      BY <1>5, Zenon DEF Unblock, Unlocked, TypeOK
    <2>4. \A i \in Slots : InFlight(i)' = InFlight(i)
      BY <2>1, <2>2, Zenon DEF InFlight, Counted
    <2>5. WaitCountsInFlight'
      BY <2>1, <2>4, Zenon DEF WaitCountsInFlight
    <2>6. \A i \in Slots : rw'[i] = "locked" => Readers(i)' = Readers(i)
      BY <2>1, <2>2, Zenon DEF Readers
    <2>7. QuietInv'
      BY <1>5, <2>3, <2>4, <2>6, Zenon DEF QuietInv, Unblock
    <2>8. RequestInv'
      BY <2>1, <2>2, Zenon DEF RequestInv, Counted, Migrating
    <2>9. QED
      BY <2>5, <2>7, <2>8, Zenon
  <1>6. QED
    BY <1>1, <1>2, <1>3, <1>4, <1>5, Zenon DEF JobStep

-----------------------------------------------------------------------------
\* A request that only moves its program counter, outside the counted part,
\* and enters the read lock only while no writer holds it.
LEMMA RequestInvMove ==
    ASSUME TypeOK, QuietInv, RequestInv, WaitCountsInFlight, NEW r \in Requests, NEW p,
           pc' = [pc EXCEPT ![r] = p], UNCHANGED <<job, stage, rw, wait, backend, migrate, slot>>,
           p \in Counted <=> pc[r] \in Counted,
           p \in Reading => pc[r] \in Reading \/ rw[slot[r]] # "locked"
    PROVE  QuietInv' /\ WaitCountsInFlight'
  <1>1. \A i \in Slots : InFlight(i)' = InFlight(i)
    BY Zenon DEF InFlight, TypeOK
  <1>2. \A i \in Slots : rw[i] = "locked" => Readers(i)' \subseteq Readers(i)
    BY Zenon DEF Readers, TypeOK
  <1>3. QED
    BY <1>1, <1>2, Zenon DEF QuietInv, WaitCountsInFlight

\* A request that joins the WaitGroup is counted.
LEMMA RequestInvJoin ==
    ASSUME TypeOK, QuietInv, WaitCountsInFlight, NEW r \in Requests, Join(r),
           pc[r] \in {"prepare", "mgrt_ok"},
           UNCHANGED <<job, stage, rw, slot>>
    PROVE  QuietInv' /\ WaitCountsInFlight'
  <1>1. slot[r] \in Slots /\ r \in Readers(slot[r])
    BY Zenon DEF TypeOK, Readers, Reading
  <1>2. rw[slot[r]] # "locked"
    BY <1>1, Zenon DEF QuietInv
  <1>3. /\ InFlight(slot[r])' = InFlight(slot[r]) \cup {r}
        /\ r \notin InFlight(slot[r])
        /\ \A i \in Slots \ {slot[r]} : InFlight(i)' = InFlight(i)
    BY Zenon DEF InFlight, Join, Counted, TypeOK
  <1>4. \A i \in Slots \ {slot[r]} : Readers(i)' = Readers(i)
    BY Zenon DEF Readers, Join, TypeOK
  <1>5. QuietInv'
    BY <1>2, <1>3, <1>4, Zenon DEF QuietInv
  <1>6. Cardinality(InFlight(slot[r])') = Cardinality(InFlight(slot[r])) + 1
    <2>1. IsFiniteSet(InFlight(slot[r]))
      BY InFlightFinite, Zenon
    <2>2. Cardinality(InFlight(slot[r]) \cup {r}) = Cardinality(InFlight(slot[r])) + 1
      BY <1>3, <2>1, FS_AddElement, Zenon
    <2>3. QED
      BY <1>3, <2>2, Zenon
  <1>7. WaitCountsInFlight'
    BY <1>1, <1>3, <1>6, Zenon DEF WaitCountsInFlight, Join, TypeOK
  <1>8. QED
    BY <1>5, <1>7, Zenon

\* A finished request is counted no more.
LEMMA RequestInvFinish ==
    ASSUME TypeOK, QuietInv, RequestInv, WaitCountsInFlight, NEW r \in Requests, Finish(r),
           UNCHANGED <<job, stage, rw, backend, migrate>>,
           \/ pc[r] \notin Counted /\ UNCHANGED wait
           \/ pc[r] = "queued" /\ wait' = [wait EXCEPT ![slot[r]] = @ - 1]
    PROVE  QuietInv' /\ RequestInv' /\ WaitCountsInFlight'
  <1>1. \A i \in Slots : Readers(i)' \subseteq Readers(i)
    BY Zenon DEF Readers, Finish, Reading, TypeOK
  <1>2. \A i \in Slots : InFlight(i)' = InFlight(i) \ {r}
    BY Zenon DEF InFlight, Finish, Counted, TypeOK
  <1>3. QuietInv'
    BY <1>1, <1>2, Zenon DEF QuietInv
  <1>4. RequestInv'
    BY Zenon DEF RequestInv, Finish, TypeOK, Counted, Migrating
  <1>5. CASE pc[r] \notin Counted /\ UNCHANGED wait
    <2>1. \A i \in Slots : InFlight(i)' = InFlight(i)
      BY <1>2, <1>5, Zenon DEF InFlight
    <2>2. QED
      BY <1>3, <1>4, <1>5, <2>1, Zenon DEF WaitCountsInFlight
  <1>6. CASE pc[r] = "queued" /\ wait' = [wait EXCEPT ![slot[r]] = @ - 1]
    <2>1. PICK j \in Slots : j = slot[r] /\ r \in InFlight(j)
      BY <1>6, Zenon DEF InFlight, Counted, TypeOK
    <2>2. Cardinality(InFlight(j)') = Cardinality(InFlight(j)) - 1
      BY <1>2, <2>1, InFlightFinite, FS_RemoveElement, Zenon
    <2>3. \A i \in Slots \ {j} : InFlight(i)' = InFlight(i)
      BY <1>2, <2>1, Zenon DEF InFlight
    <2>4. WaitCountsInFlight'
      BY <1>6, <2>1, <2>2, <2>3, Zenon DEF WaitCountsInFlight, TypeOK
    <2>5. QED
      BY <1>3, <1>4, <2>4, Zenon
  <1>7. QED
    BY <1>5, <1>6, Zenon

\* Requests keep what requests rely on.
LEMMA RequestInvRequest ==
    ASSUME TypeOK, QuietInv, RequestInv, WaitCountsInFlight,
           NEW r \in Requests, RequestStep(r) \/ BackendStep(r)
    PROVE  QuietInv' /\ RequestInv' /\ WaitCountsInFlight'
  <1> USE DEF routerVars, slotVars, connVars, reqVars
  <1>1. CASE RLock(r)
    <2>1. QuietInv' /\ WaitCountsInFlight'
      BY <1>1, RequestInvMove, Zenon DEF RLock, Counted, Reading
    <2>2. RequestInv'
      BY <1>1, Zenon DEF RLock, RequestInv, TypeOK, Counted, Migrating
    <2>3. QED
      BY <2>1, <2>2, Zenon
  <1>2. CASE PrepareNotReady(r) \/ MigrateFailed(r) \/ SetResponse(r)
    BY <1>2, RequestInvFinish, Zenon DEF PrepareNotReady, MigrateFailed, SetResponse, Counted
  <1>3. CASE PrepareMigrate(r)
    <2>1. QuietInv' /\ WaitCountsInFlight'
      BY <1>3, RequestInvMove, Zenon DEF PrepareMigrate, Counted, Reading
    <2>2. RequestInv'
      BY <1>3, Zenon DEF PrepareMigrate, RequestInv, TypeOK, Counted, Migrating
    <2>3. QED
      BY <2>1, <2>2, Zenon
  <1>4. CASE PrepareDirect(r) \/ MigrateDone(r)
    <2>1. QuietInv' /\ WaitCountsInFlight'
      BY <1>4, RequestInvJoin, Zenon DEF PrepareDirect, MigrateDone
    <2>2. RequestInv'
      BY <1>4 DEF PrepareDirect, MigrateDone, Join, RequestInv, TypeOK, Counted, Migrating
    <2>3. QED
      BY <2>1, <2>2, Zenon
  <1>5. CASE RUnlock(r) \/ PushBack(r)
    <2>1. QuietInv' /\ WaitCountsInFlight'
      BY <1>5, RequestInvMove, Zenon DEF RUnlock, PushBack, Counted, Reading
    <2>2. RequestInv'
      BY <1>5 DEF RUnlock, PushBack, RequestInv, TypeOK, Counted, Migrating
    <2>3. QED
      BY <2>1, <2>2, Zenon
  <1>6. ASSUME NEW ok \in BOOLEAN, MigrateAnswered(r, ok)
        PROVE  QuietInv' /\ RequestInv' /\ WaitCountsInFlight'
    <2>1. QuietInv' /\ WaitCountsInFlight'
      BY <1>6, RequestInvMove, Zenon DEF MigrateAnswered, Counted, Reading
    <2>2. RequestInv'
      BY <1>6, Zenon DEF MigrateAnswered, RequestInv, TypeOK, Counted, Migrating
    <2>3. QED
      BY <2>1, <2>2, Zenon
  <1>7. QED
    BY <1>1, <1>2, <1>3, <1>4, <1>5, <1>6, Zenon DEF RequestStep, BackendStep

-----------------------------------------------------------------------------
\* A connection some slot refers to is open.
LEMMA ReferredOpen ==
    ASSUME TypeOK, RefcntExact, PoolExact, NEW i \in Slots, NEW c \in Conns,
           backend[i] = c \/ migrate[i] = c
    PROVE  refcnt[c] >= 1 /\ c \in open
  <1>1. /\ Cardinality(Refs(backend, c)) \in Nat /\ Cardinality(Refs(migrate, c)) \in Nat
        /\ refcnt[c] = Cardinality(Refs(backend, c)) + Cardinality(Refs(migrate, c))
    BY RefsFinite, Zenon DEF RefcntExact
  <1>2. Cardinality(Refs(backend, c)) > 0 \/ Cardinality(Refs(migrate, c)) > 0
    BY RefsNonempty, Zenon
  <1>3. refcnt[c] >= 1
    BY <1>1, <1>2
  <1>4. QED
    BY <1>3 DEF PoolExact, TypeOK

\* putBackendConn of a referenced connection keeps the pool exact.
LEMMA PutConnPool ==
    ASSUME TypeOK, PoolExact, NEW c \in Conns, refcnt[c] >= 1, PutConn(c)
    PROVE  PoolExact' /\ refcnt' = [refcnt EXCEPT ![c] = @ - 1]
  <1>0. c # NoConn /\ refcnt[c] \in Int /\ c \in open
    BY NoConnAssumption DEF TypeOK, PoolExact
  <1>1. CASE refcnt[c] = 1
    <2>1. /\ refcnt' = [refcnt EXCEPT ![c] = @ - 1]
          /\ open' = open \ {c}
          /\ pool' = [pool EXCEPT ![addr[c]] = NoConn]
          /\ addr' = [addr EXCEPT ![c] = NoAddr]
      BY <1>0, <1>1, Zenon DEF PutConn
    <2>2. addr[c] \in Addrs /\ pool[addr[c]] = c
      BY <1>0, Zenon DEF PoolExact
    <2>3. open' = {d \in Conns : refcnt'[d] > 0}
      BY <1>1, <2>1 DEF PoolExact, TypeOK
    <2>4. \A d \in open' : addr'[d] \in Addrs /\ pool'[addr'[d]] = d
      BY <2>1, <2>2, Zenon DEF PoolExact, TypeOK
    <2>5. \A a \in Addrs : pool'[a] # NoConn => pool'[a] \in open' /\ addr'[pool'[a]] = a
      BY <2>1, <2>2, Zenon DEF PoolExact, TypeOK
    <2>6. QED
      BY <2>1, <2>3, <2>4, <2>5, Zenon DEF PoolExact
  <1>2. CASE refcnt[c] # 1
    <2>1. refcnt' = [refcnt EXCEPT ![c] = @ - 1] /\ UNCHANGED <<pool, open, addr>>
      BY <1>0, <1>2, Zenon DEF PutConn
    <2>2. open' = {d \in Conns : refcnt'[d] > 0}
      BY <1>0, <1>2, <2>1 DEF PoolExact, TypeOK
    <2>3. QED
      BY <2>1, <2>2, Zenon DEF PoolExact
  <1>3. QED
    BY <1>1, <1>2, Zenon

\* getBackendConn keeps the pool exact and adds one reference.
LEMMA GetConnPool ==
    ASSUME TypeOK, RefcntExact, PoolExact, NEW a \in Addrs, NEW c \in Conns, GetConn(a, c)
    PROVE  PoolExact' /\ refcnt' = [refcnt EXCEPT ![c] = @ + 1]
  <1>1. CASE pool[a] # NoConn
    <2>1. c = pool[a] /\ refcnt' = [refcnt EXCEPT ![c] = @ + 1] /\ UNCHANGED <<pool, open, addr>>
      BY <1>1, Zenon DEF GetConn
    <2>2. c \in open
      BY <1>1, <2>1, Zenon DEF PoolExact
    <2>3. open' = {d \in Conns : refcnt'[d] > 0}
      BY <2>1, <2>2 DEF PoolExact, TypeOK
    <2>4. QED
      BY <2>1, <2>3, Zenon DEF PoolExact
  <1>2. CASE pool[a] = NoConn
    <2>1. /\ Unused(c)
          /\ refcnt' = [refcnt EXCEPT ![c] = 1]
          /\ open' = open \cup {c}
          /\ addr' = [addr EXCEPT ![c] = a]
          /\ pool' = [pool EXCEPT ![a] = c]
      BY <1>2, Zenon DEF GetConn
    <2>2. refcnt[c] = 0
      <3>1. /\ Cardinality(Refs(backend, c)) \in Nat /\ Cardinality(Refs(migrate, c)) \in Nat
            /\ refcnt[c] = Cardinality(Refs(backend, c)) + Cardinality(Refs(migrate, c))
        BY RefsFinite, Zenon DEF RefcntExact
      <3>2. ~(refcnt[c] > 0)
        BY <2>1, Zenon DEF Unused, PoolExact
      <3>3. QED
        BY <3>1, <3>2
    <2>3. open' = {d \in Conns : refcnt'[d] > 0}
      BY <2>1 DEF PoolExact, TypeOK
    <2>4. \A d \in open' : addr'[d] \in Addrs /\ pool'[addr'[d]] = d
      <3> SUFFICES ASSUME NEW d \in open' PROVE addr'[d] \in Addrs /\ pool'[addr'[d]] = d
        BY Zenon
      <3>1. CASE d = c
        BY <2>1, <3>1, Zenon DEF TypeOK
      <3>2. CASE d # c
        <4>1. d \in open /\ addr'[d] = addr[d] /\ addr[d] \in Addrs /\ pool[addr[d]] = d
          BY <2>1, <3>2, Zenon DEF PoolExact, TypeOK
        <4>2. d # NoConn
          BY <4>1, NoConnAssumption, Zenon DEF TypeOK
        <4>3. QED
          BY <1>2, <2>1, <4>1, <4>2, Zenon DEF TypeOK
      <3>3. QED
        BY <3>1, <3>2, Zenon
    <2>5. \A b \in Addrs : pool'[b] # NoConn => pool'[b] \in open' /\ addr'[pool'[b]] = b
      BY <2>1, Zenon DEF PoolExact, TypeOK, Unused
    <2>6. QED
      BY <2>1, <2>2, <2>3, <2>4, <2>5 DEF PoolExact, TypeOK
  <1>3. QED
    BY <1>1, <1>2, Zenon

\* putBackendConn of a backend connection takes one count for one reference.
LEMMA BackendCleared ==
    ASSUME TypeOK, RefcntExact, NEW i \in Slots, backend[i] # NoConn,
           backend' = [backend EXCEPT ![i] = NoConn], UNCHANGED migrate,
           refcnt' = [refcnt EXCEPT ![backend[i]] = @ - 1]
    PROVE  RefcntExact'
  <1> SUFFICES ASSUME NEW c \in Conns
               PROVE  refcnt'[c] = Cardinality(Refs(backend', c)) + Cardinality(Refs(migrate', c))
    BY Zenon DEF RefcntExact
  <1>1. /\ refcnt[c] = Cardinality(Refs(backend, c)) + Cardinality(Refs(migrate, c))
        /\ Cardinality(Refs(backend, c)) \in Nat /\ Cardinality(Refs(migrate, c)) \in Nat
    BY RefsFinite, Zenon DEF RefcntExact
  <1>2. CASE backend[i] = c
    <2>1. Refs(backend', c) = Refs(backend, c) \ {i} /\ i \in Refs(backend, c)
      BY <1>2, NoConnAssumption, Zenon DEF Refs, TypeOK
    <2>2. Cardinality(Refs(backend', c)) = Cardinality(Refs(backend, c)) - 1
      BY <2>1, RefsFinite, FS_RemoveElement, Zenon
    <2>3. QED
      BY <1>1, <1>2, <2>2 DEF TypeOK
  <1>3. CASE backend[i] # c
    <2>1. Refs(backend', c) = Refs(backend, c)
      BY <1>3, NoConnAssumption, Zenon DEF Refs, TypeOK
    <2>2. QED
      BY <1>1, <1>3, <2>1, Zenon DEF TypeOK
  <1>4. QED
    BY <1>2, <1>3, Zenon

\* The same for the connection to the migration source.
LEMMA MigrateCleared ==
    ASSUME TypeOK, RefcntExact, NEW i \in Slots, migrate[i] # NoConn,
           migrate' = [migrate EXCEPT ![i] = NoConn], UNCHANGED backend,
           refcnt' = [refcnt EXCEPT ![migrate[i]] = @ - 1]
    PROVE  RefcntExact'
  <1> SUFFICES ASSUME NEW c \in Conns
               PROVE  refcnt'[c] = Cardinality(Refs(backend', c)) + Cardinality(Refs(migrate', c))
    BY Zenon DEF RefcntExact
  <1>1. /\ refcnt[c] = Cardinality(Refs(backend, c)) + Cardinality(Refs(migrate, c))
        /\ Cardinality(Refs(backend, c)) \in Nat /\ Cardinality(Refs(migrate, c)) \in Nat
    BY RefsFinite, Zenon DEF RefcntExact
  <1>2. CASE migrate[i] = c
    <2>1. Refs(migrate', c) = Refs(migrate, c) \ {i} /\ i \in Refs(migrate, c)
      BY <1>2, NoConnAssumption, Zenon DEF Refs, TypeOK
    <2>2. Cardinality(Refs(migrate', c)) = Cardinality(Refs(migrate, c)) - 1
      BY <2>1, RefsFinite, FS_RemoveElement, Zenon
    <2>3. QED
      BY <1>1, <1>2, <2>2 DEF TypeOK
  <1>3. CASE migrate[i] # c
    <2>1. Refs(migrate', c) = Refs(migrate, c)
      BY <1>3, NoConnAssumption, Zenon DEF Refs, TypeOK
    <2>2. QED
      BY <1>1, <1>3, <2>1, Zenon DEF TypeOK
  <1>4. QED
    BY <1>2, <1>3, Zenon

\* getBackendConn for a slot without backend adds one count for one reference.
LEMMA BackendSet ==
    ASSUME TypeOK, RefcntExact, NEW i \in Slots, backend[i] = NoConn, NEW d \in Conns,
           backend' = [backend EXCEPT ![i] = d], UNCHANGED migrate,
           refcnt' = [refcnt EXCEPT ![d] = @ + 1]
    PROVE  RefcntExact'
  <1> SUFFICES ASSUME NEW c \in Conns
               PROVE  refcnt'[c] = Cardinality(Refs(backend', c)) + Cardinality(Refs(migrate', c))
    BY Zenon DEF RefcntExact
  <1>1. /\ refcnt[c] = Cardinality(Refs(backend, c)) + Cardinality(Refs(migrate, c))
        /\ Cardinality(Refs(backend, c)) \in Nat /\ Cardinality(Refs(migrate, c)) \in Nat
    BY RefsFinite, Zenon DEF RefcntExact
  <1>2. CASE c = d
    <2>1. Refs(backend', c) = Refs(backend, c) \cup {i} /\ i \notin Refs(backend, c)
      BY <1>2, NoConnAssumption DEF Refs, TypeOK
    <2>2. Cardinality(Refs(backend', c)) = Cardinality(Refs(backend, c)) + 1
      BY <2>1, RefsFinite, FS_AddElement, Zenon
    <2>3. QED
      BY <1>1, <1>2, <2>2 DEF TypeOK
  <1>3. CASE c # d
    <2>1. Refs(backend', c) = Refs(backend, c)
      BY <1>3, NoConnAssumption, Zenon DEF Refs, TypeOK
    <2>2. QED
      BY <1>1, <1>3, <2>1, Zenon DEF TypeOK
  <1>4. QED
    BY <1>2, <1>3, Zenon

\* The same for the connection to the migration source.
LEMMA MigrateSet ==
    ASSUME TypeOK, RefcntExact, NEW i \in Slots, migrate[i] = NoConn, NEW d \in Conns,
           migrate' = [migrate EXCEPT ![i] = d], UNCHANGED backend,
           refcnt' = [refcnt EXCEPT ![d] = @ + 1]
    PROVE  RefcntExact'
  <1> SUFFICES ASSUME NEW c \in Conns
               PROVE  refcnt'[c] = Cardinality(Refs(backend', c)) + Cardinality(Refs(migrate', c))
    BY Zenon DEF RefcntExact
  <1>1. /\ refcnt[c] = Cardinality(Refs(backend, c)) + Cardinality(Refs(migrate, c))
        /\ Cardinality(Refs(backend, c)) \in Nat /\ Cardinality(Refs(migrate, c)) \in Nat
    BY RefsFinite, Zenon DEF RefcntExact
  <1>2. CASE c = d
    <2>1. Refs(migrate', c) = Refs(migrate, c) \cup {i} /\ i \notin Refs(migrate, c)
      BY <1>2, NoConnAssumption, Zenon DEF Refs, TypeOK
    <2>2. Cardinality(Refs(migrate', c)) = Cardinality(Refs(migrate, c)) + 1
      BY <2>1, RefsFinite, FS_AddElement, Zenon
    <2>3. QED
      BY <1>1, <1>2, <2>2 DEF TypeOK
  <1>3. CASE c # d
    <2>1. Refs(migrate', c) = Refs(migrate, c)
      BY <1>3, NoConnAssumption, Zenon DEF Refs, TypeOK
    <2>2. QED
      BY <1>1, <1>3, <2>1, Zenon DEF TypeOK
  <1>4. QED
    BY <1>2, <1>3, Zenon

\* Every step keeps reference counts and pool exact.
LEMMA ConnStep ==
    TypeOK /\ JobInv /\ RefcntExact /\ PoolExact /\ Next => RefcntExact' /\ PoolExact'
  <1> SUFFICES ASSUME TypeOK, JobInv, RefcntExact, PoolExact, Next
               PROVE  RefcntExact' /\ PoolExact'
    BY Zenon
  <1> USE DEF routerVars, slotVars, connVars, reqVars
  <1>0. job.slot \in Slots
    BY Zenon DEF TypeOK, Jobs
  <1>1. CASE UNCHANGED <<backend, migrate, refcnt, pool, open, addr>>
    BY <1>1, Zenon DEF RefcntExact, PoolExact
  <1>2. CASE PutBackend
    <2>1. CASE backend[job.slot] = NoConn
      <3>1. UNCHANGED <<backend, migrate, refcnt, pool, open, addr>>
        BY <1>2, <2>1, Zenon DEF PutBackend, PutConn, TypeOK
      <3>2. QED
        BY <1>1, <3>1, Zenon
    <2>2. CASE backend[job.slot] # NoConn
      <3>1. backend[job.slot] \in Conns /\ refcnt[backend[job.slot]] >= 1
        BY <1>0, <2>2, ReferredOpen, Zenon DEF TypeOK
      <3>2. PoolExact' /\ refcnt' = [refcnt EXCEPT ![backend[job.slot]] = @ - 1]
        BY <1>2, <3>1, PutConnPool, Zenon DEF PutBackend
      <3>3. RefcntExact'
        BY <1>0, <1>2, <2>2, <3>2, BackendCleared, Zenon DEF PutBackend
      <3>4. QED
        BY <3>2, <3>3, Zenon
    <2>3. QED
      BY <2>1, <2>2, Zenon
  <1>3. CASE PutMigrate
    <2>1. CASE migrate[job.slot] = NoConn
      <3>1. UNCHANGED <<backend, migrate, refcnt, pool, open, addr>>
        BY <1>3, <2>1, Zenon DEF PutMigrate, PutConn, TypeOK
      <3>2. QED
        BY <1>1, <3>1, Zenon
    <2>2. CASE migrate[job.slot] # NoConn
      <3>1. migrate[job.slot] \in Conns /\ refcnt[migrate[job.slot]] >= 1
        BY <1>0, <2>2, ReferredOpen, Zenon DEF TypeOK
      <3>2. PoolExact' /\ refcnt' = [refcnt EXCEPT ![migrate[job.slot]] = @ - 1]
        BY <1>3, <3>1, PutConnPool, Zenon DEF PutMigrate
      <3>3. RefcntExact'
        BY <1>0, <1>3, <2>2, <3>2, MigrateCleared, Zenon DEF PutMigrate
      <3>4. QED
        BY <3>2, <3>3, Zenon
    <2>3. QED
      BY <2>1, <2>2, Zenon
  <1>4. CASE GetBackend
    <2>1. PICK c \in Conns : GetConn(job.addr, c) /\ backend' = [backend EXCEPT ![job.slot] = c]
      BY <1>4, Zenon DEF GetBackend
    <2>2. job.addr \in Addrs /\ backend[job.slot] = NoConn
      BY <1>4, Zenon DEF GetBackend, JobInv
    <2>3. PoolExact' /\ refcnt' = [refcnt EXCEPT ![c] = @ + 1]
      BY <2>1, <2>2, GetConnPool, Zenon
    <2>4. RefcntExact'
      BY <1>0, <1>4, <2>1, <2>2, <2>3, BackendSet, Zenon DEF GetBackend
    <2>5. QED
      BY <2>3, <2>4, Zenon
  <1>5. CASE GetMigrate
    <2>1. CASE job.from = NoAddr
      BY <1>1, <1>5, <2>1, Zenon DEF GetMigrate
    <2>2. CASE job.from # NoAddr
      <3>1. PICK c \in Conns : GetConn(job.from, c) /\ migrate' = [migrate EXCEPT ![job.slot] = c]
        BY <1>5, <2>2, Zenon DEF GetMigrate
      <3>2. job.from \in Addrs /\ migrate[job.slot] = NoConn
        BY <1>5, <2>2, Zenon DEF GetMigrate, JobInv, TypeOK, Jobs
      <3>3. PoolExact' /\ refcnt' = [refcnt EXCEPT ![c] = @ + 1]
        BY <3>1, <3>2, GetConnPool, Zenon
      <3>4. RefcntExact'
        BY <1>0, <1>5, <3>1, <3>2, <3>3, MigrateSet, Zenon DEF GetMigrate
      <3>5. QED
        BY <3>3, <3>4, Zenon
    <2>3. QED
      BY <2>1, <2>2, Zenon
  <1>6. CASE Block \/ LockGranted \/ WaitDone \/ Unblock
    BY <1>1, <1>6, Zenon DEF Block, LockGranted, WaitDone, Unblock
  <1>7. CASE Close \/ KeepAlive \/ \E c \in Conns : PingAnswered(c)
    BY <1>1, <1>7, Zenon DEF Close, StartJob, KeepAlive, PingAnswered
  <1>8. ASSUME NEW i \in Slots, NEW a \in Addrs, NEW from \in Addrs \cup {NoAddr},
               NEW lock \in BOOLEAN, FillSlot(i, a, from, lock)
        PROVE  RefcntExact' /\ PoolExact'
    BY <1>1, <1>8, Zenon DEF FillSlot, StartJob
  <1>9. ASSUME NEW r \in Requests, NEW i \in Slots, NEW k \in BOOLEAN, Dispatch(r, i, k)
        PROVE  RefcntExact' /\ PoolExact'
    BY <1>1, <1>9, Zenon DEF Dispatch
  <1>10. ASSUME NEW r \in Requests, RequestStep(r) \/ BackendStep(r)
         PROVE  RefcntExact' /\ PoolExact'
    BY <1>1, <1>10, RequestStepFrame, Zenon
  <1>11. ASSUME NEW i \in Slots, ResetSlot(i)
         PROVE  RefcntExact' /\ PoolExact'
    BY <1>1, <1>11, Zenon DEF ResetSlot, StartJob
  <1>12. QED
    BY <1>2, <1>3, <1>4, <1>5, <1>6, <1>7, <1>8, <1>9, <1>10, <1>11, Zenon DEF Next, JobStep

-----------------------------------------------------------------------------
\* A new call, a heartbeat and a new request keep what requests rely on.
LEMMA RequestInvStart ==
    ASSUME TypeOK, QuietInv, RequestInv, WaitCountsInFlight,
           \/ \E j \in Jobs : StartJob(j)
           \/ KeepAlive
           \/ \E c \in Conns : PingAnswered(c)
           \/ \E r \in Requests, i \in Slots, k \in BOOLEAN : Dispatch(r, i, k)
    PROVE  QuietInv' /\ RequestInv' /\ WaitCountsInFlight'
  <1> USE DEF routerVars, slotVars, connVars, reqVars
  <1>0. ASSUME UNCHANGED <<backend, migrate, hold, rw, wait, pc, slot, keyed, bc, moved>>
        PROVE  /\ RequestInv' /\ WaitCountsInFlight'
               /\ \A n \in Slots : Readers(n)' = Readers(n) /\ InFlight(n)' = InFlight(n)
    <2>1. \A n \in Slots : Readers(n)' = Readers(n) /\ InFlight(n)' = InFlight(n)
      BY <1>0, Zenon DEF Readers, InFlight
    <2>2. RequestInv'
      BY <1>0, Zenon DEF RequestInv
    <2>3. WaitCountsInFlight'
      BY <1>0, <2>1, Zenon DEF WaitCountsInFlight
    <2>4. QED
      BY <2>1, <2>2, <2>3, Zenon
  <1>1. ASSUME NEW j \in Jobs, StartJob(j)
        PROVE  QuietInv' /\ RequestInv' /\ WaitCountsInFlight'
    <2>1. /\ UNCHANGED <<backend, migrate, hold, rw, wait, pc, slot, keyed, bc, moved>>
          /\ stage = "idle" /\ stage' = "block"
      BY <1>1, Zenon DEF StartJob
    <2>2. QuietInv'
      BY <1>0, <2>1, Zenon DEF QuietInv
    <2>3. QED
      BY <1>0, <2>1, <2>2, Zenon
  <1>2. CASE KeepAlive \/ \E c \in Conns : PingAnswered(c)
    <2>1. UNCHANGED <<backend, migrate, hold, rw, wait, pc, slot, keyed, bc, moved, stage, job>>
      BY <1>2, Zenon DEF KeepAlive, PingAnswered
    <2>2. QuietInv'
      BY <1>0, <2>1, Zenon DEF QuietInv
    <2>3. QED
      BY <1>0, <2>1, <2>2, Zenon
  <1>3. ASSUME NEW r \in Requests, NEW i \in Slots, NEW k \in BOOLEAN, Dispatch(r, i, k)
        PROVE  QuietInv' /\ RequestInv' /\ WaitCountsInFlight'
    <2>1. \A n \in Slots : Readers(n)' = Readers(n) /\ InFlight(n)' = InFlight(n)
      BY <1>3, Zenon DEF Dispatch, Readers, InFlight, Reading, Counted, TypeOK
    <2>2. UNCHANGED <<rw, wait, stage, job>>
      BY <1>3, Zenon DEF Dispatch
    <2>3. QuietInv'
      BY <2>1, <2>2, Zenon DEF QuietInv
    <2>4. WaitCountsInFlight'
      BY <2>1, <2>2, Zenon DEF WaitCountsInFlight
    <2>5. RequestInv'
      BY <1>3, Zenon DEF Dispatch, RequestInv, Counted, Migrating, TypeOK
    <2>6. QED
      BY <2>3, <2>4, <2>5, Zenon
  <1>4. QED
    BY <1>1, <1>2, <1>3, Zenon

\* Every step of the proxy preserves the inductive invariant.
LEMMA StepIInv == IInv /\ [Next]_vars => IInv'
  <1> SUFFICES ASSUME IInv, [Next]_vars PROVE IInv'
    BY Zenon
  <1> USE DEF IInv
  <1>1. CASE Next
    <2>1. TypeOK' /\ JobInv' /\ LockInv' /\ RefcntExact' /\ PoolExact'
      BY <1>1, TypeStep, LockStep, ConnStep, Zenon
    <2>2. QuietInv' /\ RequestInv' /\ WaitCountsInFlight'
      <3>1. ASSUME NEW i \in Slots, NEW a \in Addrs, NEW from \in Addrs \cup {NoAddr},
                   NEW lock \in BOOLEAN, FillSlot(i, a, from, lock)
            PROVE  \E j \in Jobs : StartJob(j)
        BY <3>1, Zenon DEF FillSlot, Jobs
      <3>2. ASSUME NEW i \in Slots, ResetSlot(i)
            PROVE  \E j \in Jobs : StartJob(j)
        BY <3>2, Zenon DEF ResetSlot, Jobs
      <3>3. Close => \E j \in Jobs : StartJob(j)
        BY ZeroSlot, Zenon DEF Close, Jobs
      <3>4. CASE JobStep
        BY <3>4, RequestInvJob, Zenon
      <3>5. CASE \E r \in Requests : RequestStep(r) \/ BackendStep(r)
        BY <3>5, RequestInvRequest, ZenonT(30)
      <3>6. QED
        BY <1>1, <3>1, <3>2, <3>3, <3>4, <3>5, RequestInvStart, Zenon DEF Next
    <2>3. QED
      BY <2>1, <2>2, Zenon
  <1>2. CASE UNCHANGED vars
    <2>1. UNCHANGED <<routerVars, slotVars, connVars, reqVars>>
      BY <1>2, Zenon DEF vars
    <2>2. TypeOK'
      BY <2>1, ZenonT(30) DEF routerVars, slotVars, connVars, reqVars, TypeOK
    <2>3. JobInv' /\ LockInv'
      BY <2>1, ZenonT(30) DEF routerVars, slotVars, JobInv, LockInv
    <2>4. QuietInv'
      BY <2>1, ZenonT(30) DEF routerVars, slotVars, reqVars, QuietInv, Readers, InFlight
    <2>5. RequestInv'
      BY <2>1, Zenon DEF slotVars, reqVars, RequestInv
    <2>6. RefcntExact'
      BY <2>1, Zenon DEF slotVars, connVars, RefcntExact, Refs
    <2>7. PoolExact'
      BY <2>1, Zenon DEF routerVars, connVars, PoolExact
    <2>8. WaitCountsInFlight'
      BY <2>1, Zenon DEF slotVars, reqVars, WaitCountsInFlight, InFlight
    <2>9. QED
      BY <2>2, <2>3, <2>4, <2>5, <2>6, <2>7, <2>8, Zenon
  <1>3. QED
    BY <1>1, <1>2, Zenon

\* The inductive invariant holds in every reachable state of the proxy.
THEOREM Invariance == Spec => []IInv
  BY InitIInv, StepIInv, PTL DEF Spec

\* Every variable of the routing table keeps its type.
THEOREM TypeCorrect == Spec => []TypeOK
  <1>1. IInv => TypeOK
    BY Zenon DEF IInv
  <1>2. QED
    BY <1>1, Invariance, PTL

\* SharedBackendConn.refcnt is the number of slot fields that refer to the
\* connection: no "close too many times" panic and no leaked connection.
THEOREM RefcntCorrect == Spec => []RefcntExact
  <1>1. IInv => RefcntExact
    BY Zenon DEF IInv
  <1>2. QED
    BY <1>1, Invariance, PTL

\* Router.pool holds exactly the open connections, one per address.
THEOREM PoolCorrect == Spec => []PoolExact
  <1>1. IInv => PoolExact
    BY Zenon DEF IInv
  <1>2. QED
    BY <1>1, Invariance, PTL

\* The WaitGroup of a slot counts its unanswered requests.
THEOREM WaitCorrect == Spec => []WaitCountsInFlight
  <1>1. IInv => WaitCountsInFlight
    BY Zenon DEF IInv
  <1>2. QED
    BY <1>1, Invariance, PTL

\* forward and slotsmgrt never push onto a closed channel, although forward
\* pushes after it has left the read lock.
THEOREM SendSafe == Spec => []SendOnOpenChannel
  <1>1. IInv => SendOnOpenChannel
    <2> SUFFICES ASSUME IInv, NEW r \in Requests, pc[r] \in {"mgrt", "runlock", "push", "queued"}
                 PROVE  bc[r] \in open
      BY Zenon DEF SendOnOpenChannel
    <2>1. slot[r] \in Slots /\ bc[r] \in Conns \cup {NoConn}
      BY Zenon DEF IInv, TypeOK
    <2>2. bc[r] # NoConn /\ (backend[slot[r]] = bc[r] \/ migrate[slot[r]] = bc[r])
      BY Zenon DEF IInv, RequestInv, Counted, Migrating
    <2>3. QED
      BY <2>1, <2>2, ReferredOpen, ZenonT(30) DEF IInv
  <1>2. QED
    BY <1>1, Invariance, PTL

\* An unanswered request sits at the connection its slot routes to now, its
\* key pulled over from the migration source before.
THEOREM RoutingCorrect == Spec => []RoutedToOwner
  <1>1. IInv => RoutedToOwner
    BY Zenon DEF IInv, RequestInv, RoutedToOwner
  <1>2. QED
    BY <1>1, Invariance, PTL

\* A slot that is left locked, or that a call is changing, has no reader and
\* no unanswered request: keys may be moved and connections closed.
THEOREM LockCorrect == Spec => []LockedSlotQuiet
  <1>1. IInv => LockedSlotQuiet
    <2> SUFFICES ASSUME IInv, NEW i \in Slots, hold[i], ~(job.slot = i /\ stage \in {"lock", "wait"})
                 PROVE  Readers(i) = {} /\ InFlight(i) = {}
      BY Zenon DEF LockedSlotQuiet
    <2>1. rw[i] = "locked"
      BY Zenon DEF IInv, LockInv, TypeOK
    <2>2. QED
      BY <2>1, Zenon DEF IInv, QuietInv
  <1>2. QED
    BY <1>1, Invariance, PTL

=============================================================================
