-------------------------- MODULE AssocTableProofs --------------------------
(***************************************************************************)
(* The locking of AssocTable, for any number of workers, keys and stripes: *)
(* a bucket is moved while no worker is inside a section of an item lock   *)
(* (MoveAlone), and two workers meet in the sections of one stripe only    *)
(* while the lock type is being switched (OverlapOnlyInSwitch).            *)
(*                                                                         *)
(* Neither is inductive.  Both rest on what the maintenance thread may     *)
(* conclude from init_count: that the workers still to report are exactly  *)
(* those with a byte in their pipe, so that after the wait all workers are *)
(* of one type (Agreed), and then on who holds which lock (Owners).        *)
(***************************************************************************)
EXTENDS AssocTable, FiniteSetTheorems, TLAPS

Types == {"GRANULAR", "GLOBAL"}
Sections == {"idle", "lock", "find", "unlink", "link", "unlock", "relock"}
Phases == {"wait", "pause", "global", "wait_global", "expand", "publish", "lock", "move",
           "granular", "wait_granular"}

\* The types of the variables the locking depends on.
LockTypes ==
    /\ item_locks \in [Stripes -> Workers \cup {Nobody}]
    /\ item_global_lock \in Workers \cup {"maintenance", Nobody}
    /\ mpc \in Phases
    /\ init_count \in Nat
    /\ pipe \in [Workers -> Seq(Types)]
    /\ item_lock_type \in [Workers -> Types]
    /\ wpc \in [Workers -> Sections]
    /\ key \in [Workers -> Keys]

Reported == {w \in Workers : pipe[w] = <<>>}

\* Worker w has the type t, or has the byte that says t still before it.
Switching(w, t) ==
    \/ pipe[w] = <<>> /\ item_lock_type[w] = t
    \/ pipe[w] = <<t>> /\ item_lock_type[w] # t

\* What the workers' types are in each phase of the maintenance thread.
Agreed ==
    /\ mpc \in {"wait", "pause", "global"} =>
           \A w \in Workers : pipe[w] = <<>> /\ item_lock_type[w] = "GRANULAR"
    /\ mpc \in {"expand", "publish", "lock", "move", "granular"} =>
           \A w \in Workers : pipe[w] = <<>> /\ item_lock_type[w] = "GLOBAL"
    /\ mpc = "wait_global" => \A w \in Workers : Switching(w, "GLOBAL")
    /\ mpc = "wait_granular" => \A w \in Workers : Switching(w, "GRANULAR")
    /\ mpc \in {"wait_global", "wait_granular"} => init_count = Cardinality(Reported)

\* A worker inside a section holds the lock of the type it has; so does the maintenance thread.
Owners ==
    /\ \A w \in Workers : InSection(w) /\ item_lock_type[w] = "GRANULAR" =>
           item_locks[StripeOf(key[w])] = w
    /\ \A w \in Workers : InSection(w) /\ item_lock_type[w] = "GLOBAL" => item_global_lock = w
    /\ mpc = "move" => item_global_lock = "maintenance"

LockInv == LockTypes /\ Agreed /\ Owners

\* hash & hashmask(item_lock_hashpower) is one of the stripes.
LEMMA StripeInRange == \A k \in Keys : StripeOf(k) \in Stripes
<1> SUFFICES ASSUME NEW k \in Keys PROVE StripeOf(k) \in Stripes
  BY Zenon
<1> DEFINE m == hashsize(item_lock_hashpower)
<1>1. hash[k] \in Nat /\ m \in Nat \ {0}
  BY AssocAssumption, Zenon DEF hashsize
<1> HIDE DEF m
<1>2. hash[k] % m \in 0 .. m - 1
  BY <1>1
<1> QED BY <1>2, Zenon DEF StripeOf, Stripes, m

\* A pipe with one byte in it.
LEMMA OneByte ==
    \A t \in Types : /\ <<t>> # <<>> /\ Append(<<>>, t) = <<t>>
                     /\ Head(<<t>>) = t /\ Tail(<<t>>) = <<>>
  BY DEF Types

\* The initial state: all workers on the fine-grained locks, nobody in a section.
LEMMA InitLocks == Init => LockInv
<1> SUFFICES ASSUME Init PROVE LockInv
  BY Zenon
<1>1. AnyKey \in Keys
  BY AssocAssumption, Zenon DEF AnyKey
<1>2. LockTypes
  BY <1>1 DEF Init, LockTypes, Types, Sections, Phases
<1>3. Agreed
  BY Zenon DEF Init, Agreed
<1>4. Owners
  BY Zenon DEF Init, Owners, InSection
<1> QED BY <1>2, <1>3, <1>4, Zenon DEF LockInv

\* The count of the reports can reach the number of workers only when all have reported.
LEMMA AllReported ==
    LockInv /\ mpc \in {"wait_global", "wait_granular"} /\ init_count >= Cardinality(Workers)
        => \A w \in Workers : pipe[w] = <<>>
<1> SUFFICES ASSUME LockInv, mpc \in {"wait_global", "wait_granular"},
                    init_count >= Cardinality(Workers)
             PROVE  Reported = Workers
  BY Zenon DEF Reported
<1>1. Reported \in SUBSET Workers /\ IsFiniteSet(Workers)
  BY AssocAssumption, Zenon DEF Reported
<1>2. Cardinality(Reported) <= Cardinality(Workers)
      /\ (Cardinality(Workers) = Cardinality(Reported) => Workers = Reported)
  BY <1>1, FS_Subset, Zenon
<1>3. Cardinality(Workers) \in Nat /\ Cardinality(Reported) \in Nat
  BY <1>1, FS_Subset, FS_CardinalityType, Zenon
<1>4. init_count = Cardinality(Reported)
  BY Zenon DEF LockInv, Agreed
<1> QED BY <1>2, <1>3, <1>4

\* The steps of a worker that do not touch the locks keep the invariant.
LEMMA InsideSteps ==
    ASSUME LockInv, NEW w \in Workers,
           Request(w) \/ do_item_get(w) \/ do_item_unlink(w) \/ do_item_link(w)
    PROVE  LockInv'
<1> USE DEF LockInv
<1>1. UNCHANGED <<item_locks, item_global_lock, mpc, init_count, pipe, item_lock_type>>
  BY Zenon DEF Request, do_item_get, do_item_unlink, do_item_link, maint, locks
<1>2. Agreed'
  BY <1>1, Zenon DEF Agreed, Switching, Reported
<1>3. CASE Request(w)
  <2>1. LockTypes'
    BY <1>1, <1>3, AssocAssumption, Zenon DEF LockTypes, Request, Sections
  <2>2. \A v \in Workers : InSection(v)' => InSection(v) /\ key'[v] = key[v]
    BY <1>3, Zenon DEF LockTypes, Request, InSection
  <2>3. Owners'
    BY <1>1, <2>2, Zenon DEF Owners, StripeOf
  <2> QED BY <1>2, <2>1, <2>3, Zenon
<1>4. CASE do_item_get(w) \/ do_item_unlink(w) \/ do_item_link(w)
  <2>1. UNCHANGED key
    BY <1>4, Zenon DEF do_item_get, do_item_unlink, do_item_link, request
  <2>2. /\ InSection(w)
        /\ wpc' \in [Workers -> Sections]
        /\ \A v \in Workers : v # w => wpc'[v] = wpc[v]
    BY <1>4, Zenon DEF do_item_get, do_item_unlink, do_item_link, LockTypes, Sections, InSection
  <2>3. \A v \in Workers : InSection(v)' => InSection(v)
    BY <2>2, Zenon DEF InSection
  <2>4. LockTypes'
    BY <1>1, <2>1, <2>2, Zenon DEF LockTypes
  <2>5. Owners'
    BY <1>1, <2>1, <2>3, Zenon DEF Owners, StripeOf
  <2> QED BY <1>2, <2>4, <2>5, Zenon
<1> QED BY <1>3, <1>4, Zenon

\* A worker reads the byte of the switch: it is outside its sections, and counts itself once.
LEMMA ProcessStep ==
    ASSUME LockInv, NEW w \in Workers, thread_libevent_process(w)
    PROVE  LockInv'
<1> USE DEF LockInv
<1>1. PICK t \in Types :
          /\ mpc \in {"wait_global", "wait_granular"}
          /\ t = (IF mpc = "wait_global" THEN "GLOBAL" ELSE "GRANULAR")
          /\ pipe[w] = <<t>>
  BY Zenon DEF thread_libevent_process, Agreed, Switching, LockTypes, Phases, Types
<1>0. Head(<<t>>) = t /\ Tail(<<t>>) = <<>> /\ <<t>> # <<>>
  BY OneByte, Zenon
<1>2. /\ item_lock_type' = [item_lock_type EXCEPT ![w] = t]
      /\ pipe' = [pipe EXCEPT ![w] = <<>>]
      /\ init_count' = init_count + 1
      /\ UNCHANGED <<item_locks, item_global_lock, mpc, wpc, key>>
  BY <1>0, <1>1, Zenon DEF thread_libevent_process, locks, request
<1>3. LockTypes'
  BY <1>1, <1>2 DEF LockTypes, Types
<1>4. Reported' = Reported \cup {w} /\ w \notin Reported
  BY <1>0, <1>1, <1>2, Zenon DEF Reported, LockTypes
<1>5. init_count' = Cardinality(Reported')
  <2>1. IsFiniteSet(Reported)
    BY AssocAssumption, FS_Subset, Zenon DEF Reported
  <2>2. Cardinality(Reported \cup {w}) = Cardinality(Reported) + 1
    BY <2>1, <1>4, FS_AddElement, Zenon
  <2> QED BY <1>1, <1>2, <1>4, <2>2, Zenon DEF Agreed
<1>6. Agreed'
  <2>1. \A v \in Workers : v # w => pipe'[v] = pipe[v] /\ item_lock_type'[v] = item_lock_type[v]
    BY <1>2, Zenon DEF LockTypes
  <2>2. pipe'[w] = <<>> /\ item_lock_type'[w] = t
    BY <1>2, Zenon DEF LockTypes
  <2>3. \A v \in Workers : Switching(v, t)'
    BY <1>1, <2>1, <2>2, Zenon DEF Agreed, Switching
  <2> QED BY <1>1, <1>2, <1>5, <2>3, Zenon DEF Agreed
<1>7. Owners'
  <2>1. \A v \in Workers : InSection(v)' => InSection(v) /\ item_lock_type'[v] = item_lock_type[v]
    BY <1>2, Zenon DEF InSection, thread_libevent_process, LockTypes
  <2> QED BY <1>2, <2>1, Zenon DEF Owners, StripeOf
<1> QED BY <1>3, <1>6, <1>7, Zenon

\* Taking an item lock: nobody has it, so no other worker of this type is in a section of it.
LEMMA LockStep ==
    ASSUME LockInv, NEW w \in Workers, item_lock(w)
    PROVE  LockInv'
<1> USE DEF LockInv
<1>1. UNCHANGED <<mpc, init_count, pipe, item_lock_type, key>>
  BY Zenon DEF item_lock, maint, request
<1>2. Agreed'
  BY <1>1, Zenon DEF Agreed, Switching, Reported
<1>3. StripeOf(key[w]) \in Stripes /\ key[w] \in Keys
  BY StripeInRange, Zenon DEF LockTypes
<1>4. /\ wpc' \in [Workers -> Sections]
      /\ \A v \in Workers : v # w => (InSection(v)' <=> InSection(v))
  BY Zenon DEF item_lock, LockTypes, Sections, InSection
<1>5. CASE item_lock_type[w] = "GRANULAR"
  <2>1. /\ item_locks[StripeOf(key[w])] = Nobody
        /\ item_locks' = [item_locks EXCEPT ![StripeOf(key[w])] = w]
        /\ UNCHANGED item_global_lock
    BY <1>5, Zenon DEF item_lock
  <2>2. LockTypes'
    BY <1>1, <1>3, <1>4, <2>1, Zenon DEF LockTypes
  <2>3. \A v \in Workers : InSection(v)' /\ item_lock_type[v] = "GRANULAR" =>
            item_locks'[StripeOf(key[v])] = v
    <3> SUFFICES ASSUME NEW v \in Workers, InSection(v)', item_lock_type[v] = "GRANULAR"
                 PROVE  item_locks'[StripeOf(key[v])] = v
      BY Zenon
    <3>1. CASE v = w
      BY <3>1, <2>1, <1>3, Zenon DEF LockTypes
    <3>2. CASE v # w
      <4>1. item_locks[StripeOf(key[v])] = v
        BY <3>2, <1>4, Zenon DEF Owners
      <4>2. StripeOf(key[v]) # StripeOf(key[w])
        BY <4>1, <2>1, AssocAssumption, Zenon
      <4>3. StripeOf(key[v]) \in Stripes
        BY StripeInRange, Zenon DEF LockTypes
      <4> QED BY <4>1, <4>2, <4>3, <2>1, Zenon DEF LockTypes
    <3> QED BY <3>1, <3>2, Zenon
  <2>4. Owners'
    BY <1>1, <1>4, <1>5, <2>1, <2>3, Zenon DEF Owners, StripeOf
  <2> QED BY <1>2, <2>2, <2>4, Zenon
<1>6. CASE item_lock_type[w] = "GLOBAL"
  <2>1. item_global_lock = Nobody /\ item_global_lock' = w /\ UNCHANGED item_locks
    BY <1>6, Zenon DEF item_lock
  <2>2. LockTypes'
    BY <1>1, <1>4, <2>1, Zenon DEF LockTypes
  <2>3. \A v \in Workers : v # w => ~(InSection(v) /\ item_lock_type[v] = "GLOBAL")
    BY <2>1, AssocAssumption, Zenon DEF Owners
  <2>4. mpc # "move"
    BY <2>1, AssocAssumption, Zenon DEF Owners
  <2>5. Owners'
    BY <1>1, <1>4, <1>6, <2>1, <2>3, <2>4, Zenon DEF Owners, StripeOf
  <2> QED BY <1>2, <2>2, <2>5, Zenon
<1>7. item_lock_type[w] \in {"GRANULAR", "GLOBAL"}
  BY Zenon DEF LockTypes, Types
<1> QED BY <1>5, <1>6, <1>7, Zenon

\* Releasing it: the worker leaves its section, and the lock was its own.
LEMMA UnlockStep ==
    ASSUME LockInv, NEW w \in Workers, item_unlock(w)
    PROVE  LockInv'
<1> USE DEF LockInv
<1>1. UNCHANGED <<mpc, init_count, pipe, item_lock_type>> /\ InSection(w)
  BY Zenon DEF item_unlock, maint, InSection
<1>2. Agreed'
  BY <1>1, Zenon DEF Agreed, Switching, Reported
<1>3. AnyKey \in Keys
  BY AssocAssumption, Zenon DEF AnyKey
<1>4. /\ wpc' \in [Workers -> Sections] /\ key' \in [Workers -> Keys]
      /\ ~InSection(w)'
      /\ \A v \in Workers : v # w => (InSection(v)' <=> InSection(v)) /\ key'[v] = key[v]
  BY <1>3, Zenon DEF item_unlock, LockTypes, Sections, InSection
<1>5. CASE item_lock_type[w] = "GRANULAR"
  <2>1. /\ item_locks' = [item_locks EXCEPT ![StripeOf(key[w])] = Nobody]
        /\ UNCHANGED item_global_lock
    BY <1>5, Zenon DEF item_unlock
  <2>2. LockTypes'
    BY <1>1, <1>4, <2>1, Zenon DEF LockTypes
  <2>3. item_locks[StripeOf(key[w])] = w
    BY <1>1, <1>5, Zenon DEF Owners
  <2>4. \A v \in Workers : InSection(v)' /\ item_lock_type[v] = "GRANULAR" =>
            item_locks'[StripeOf(key[v])] = v
    BY <1>4, <2>1, <2>3, StripeInRange DEF Owners, LockTypes
  <2>5. Owners'
    BY <1>1, <1>4, <2>1, <2>4, Zenon DEF Owners, StripeOf
  <2> QED BY <1>2, <2>2, <2>5, Zenon
<1>6. CASE item_lock_type[w] = "GLOBAL"
  <2>1. item_global_lock' = Nobody /\ UNCHANGED item_locks
    BY <1>6, Zenon DEF item_unlock
  <2>2. LockTypes'
    BY <1>1, <1>4, <2>1, Zenon DEF LockTypes
  <2>3. item_global_lock = w
    BY <1>1, <1>6, Zenon DEF Owners
  <2>4. mpc # "move" /\ \A v \in Workers : v # w => ~(InSection(v) /\ item_lock_type[v] = "GLOBAL")
    BY <2>3, AssocAssumption, Zenon DEF Owners
  <2>5. Owners'
    BY <1>1, <1>4, <2>1, <2>4, Zenon DEF Owners, StripeOf
  <2> QED BY <1>2, <2>2, <2>5, Zenon
<1>7. item_lock_type[w] \in {"GRANULAR", "GLOBAL"}
  BY Zenon DEF LockTypes, Types
<1> QED BY <1>5, <1>6, <1>7, Zenon

\* The maintenance thread: after the wait all workers agree, and it takes the global lock only
\* when nobody has it.
LEMMA MaintenanceStep ==
    ASSUME LockInv, assoc_maintenance_thread
    PROVE  LockInv'
<1> USE DEF LockInv
<1> DEFINE quiet == <<item_locks, pipe, item_lock_type, wpc, key>>
<1>1. CASE Wake \/ slabs_rebalancer_pause \/ assoc_expand \/ assoc_expand_publish
  <2>1. UNCHANGED <<quiet, item_global_lock, init_count>>
    BY <1>1, Zenon DEF Wake, slabs_rebalancer_pause, assoc_expand, assoc_expand_publish, locks, request
  <2>2. \/ mpc \in {"wait", "pause"} /\ mpc' \in {"pause", "global"}
        \/ mpc \in {"expand", "publish"} /\ mpc' \in {"publish", "lock"}
    BY <1>1, Zenon DEF Wake, slabs_rebalancer_pause, assoc_expand, assoc_expand_publish
  <2>3. LockTypes'
    BY <2>1, <2>2, Zenon DEF LockTypes, Phases
  <2>4. Agreed'
    BY <2>1, <2>2, Zenon DEF Agreed
  <2>5. Owners'
    BY <2>1, <2>2, Zenon DEF Owners, InSection, StripeOf
  <2> QED BY <2>3, <2>4, <2>5, Zenon
<1>2. ASSUME NEW type \in Types, NEW at, NEW next,
             switch_item_lock_type(type, at, next),
             \/ type = "GLOBAL" /\ at = "global" /\ next = "wait_global"
             \/ type = "GRANULAR" /\ at = "granular" /\ next = "wait_granular"
      PROVE  LockInv'
  <2>1. UNCHANGED <<item_locks, item_lock_type, wpc, key, item_global_lock>>
    BY <1>2, Zenon DEF switch_item_lock_type, locks, request
  <2>2. \A w \in Workers : pipe[w] = <<>> /\ item_lock_type[w] # type
    BY <1>2, Zenon DEF switch_item_lock_type, Agreed, Types
  <2>3. pipe' = [w \in Workers |-> <<type>>] /\ init_count' = 0 /\ mpc' = next
    BY <1>2, <2>2, OneByte, Zenon DEF switch_item_lock_type
  <2>4. LockTypes'
    BY <1>2, <2>1, <2>3 DEF LockTypes, Phases
  <2>5. Reported' = {}
    BY <2>3, OneByte, Zenon DEF Reported
  <2>6. Cardinality(Reported') = 0
    BY <2>5, FS_EmptySet, Zenon
  <2>7. \A w \in Workers : Switching(w, type)'
    BY <2>1, <2>2, <2>3, Zenon DEF Switching
  <2>8. Agreed'
    BY <1>2, <2>3, <2>6, <2>7, Zenon DEF Agreed
  <2>9. Owners'
    BY <1>2, <2>1, <2>3, Zenon DEF Owners, InSection, StripeOf
  <2> QED BY <2>4, <2>8, <2>9, Zenon
<1>3. CASE wait_for_thread_registration
  <2>1. UNCHANGED <<quiet, item_global_lock, init_count>>
    BY <1>3, Zenon DEF wait_for_thread_registration, locks, request
  <2>2. \A w \in Workers : pipe[w] = <<>>
    BY <1>3, AllReported, Zenon DEF wait_for_thread_registration
  <2>3. \/ mpc = "wait_global" /\ mpc' = "expand"
        \/ mpc = "wait_granular" /\ mpc' = "wait"
    BY <1>3, Zenon DEF wait_for_thread_registration
  <2>4. LockTypes'
    BY <2>1, <2>3, Zenon DEF LockTypes, Phases
  <2>5. Agreed'
    BY <2>1, <2>2, <2>3, OneByte, Zenon DEF Agreed, Switching, Types
  <2>6. Owners'
    BY <2>1, <2>3, Zenon DEF Owners, InSection, StripeOf
  <2> QED BY <2>4, <2>5, <2>6, Zenon
<1>4. CASE item_lock_global
  <2>1. /\ UNCHANGED <<quiet, init_count>> /\ mpc = "lock" /\ mpc' = "move"
        /\ item_global_lock = Nobody /\ item_global_lock' = "maintenance"
    BY <1>4, Zenon DEF item_lock_global, request
  <2>2. LockTypes'
    BY <2>1, Zenon DEF LockTypes, Phases
  <2>3. Agreed'
    BY <2>1, Zenon DEF Agreed
  <2>4. Owners'
    BY <2>1, AssocAssumption, Zenon DEF Owners, InSection, StripeOf
  <2> QED BY <2>2, <2>3, <2>4, Zenon
<1>5. CASE move_bucket
  <2>1. /\ UNCHANGED <<quiet, init_count>> /\ mpc = "move" /\ mpc' \in {"lock", "granular"}
        /\ item_global_lock' = Nobody
    BY <1>5, Zenon DEF move_bucket, request
  <2>2. LockTypes'
    BY <2>1, Zenon DEF LockTypes, Phases
  <2>3. Agreed'
    BY <2>1, Zenon DEF Agreed
  <2>4. Owners'
    BY <2>1, AssocAssumption, Zenon DEF Owners, InSection, StripeOf
  <2> QED BY <2>2, <2>3, <2>4, Zenon
<1> QED BY <1>1, <1>2, <1>3, <1>4, <1>5, Zenon DEF assoc_maintenance_thread, Types

\* The three facts of the inductive invariant.
THEOREM LockInvariant == Spec => []LockInv
<1>1. LockInv /\ [Next]_vars => LockInv'
  <2> SUFFICES ASSUME LockInv, [Next]_vars PROVE LockInv'
    BY Zenon
  <2>1. CASE slab_rebalance \/ UNCHANGED vars
    <3>1. UNCHANGED <<item_locks, item_global_lock, mpc, init_count, pipe, item_lock_type, wpc, key>>
      BY <2>1, Zenon DEF slab_rebalance, vars, maint, locks, request
    <3> QED BY <3>1, Zenon DEF LockInv, LockTypes, Agreed, Switching, Reported, Owners, InSection, StripeOf
  <2>2. CASE assoc_maintenance_thread
    BY <2>2, MaintenanceStep, Zenon
  <2>3. ASSUME NEW w \in Workers, Request(w) \/ thread_libevent_process(w) \/ Step(w)
        PROVE  LockInv'
    BY <2>3, InsideSteps, ProcessStep, LockStep, UnlockStep, Zenon DEF Step
  <2> QED BY <2>1, <2>2, <2>3, Zenon DEF Next
<1> QED BY InitLocks, <1>1, PTL DEF Spec

\* assoc_maintenance_thread: when it moves a bucket, no worker is between item_lock and
\* item_unlock, whichever lock the worker uses.
THEOREM MovesAlone == Spec => []MoveAlone
<1>1. LockInv => MoveAlone
  BY AssocAssumption, Zenon DEF LockInv, LockTypes, Agreed, Owners, MoveAlone
<1> QED BY <1>1, LockInvariant, PTL

\* item_lock: two workers are in sections of the same stripe only while the lock type is being
\* switched, and then they use different locks.
THEOREM OverlapsOnlyInSwitch == Spec => []OverlapOnlyInSwitch
<1>1. LockInv => OverlapOnlyInSwitch
  <2> SUFFICES ASSUME LockInv, NEW v \in Workers, NEW w \in Workers,
                      v # w, InSection(v), InSection(w), StripeOf(key[v]) = StripeOf(key[w])
               PROVE  /\ item_lock_type[v] # item_lock_type[w]
                      /\ mpc \in {"wait_global", "wait_granular"}
    BY Zenon DEF OverlapOnlyInSwitch
  <2>1. item_lock_type[v] \in Types /\ item_lock_type[w] \in Types
    BY Zenon DEF LockInv, LockTypes
  <2>2. item_lock_type[v] # item_lock_type[w]
    BY <2>1, Zenon DEF LockInv, Owners, Types
  <2> QED BY <2>2, Zenon DEF LockInv, LockTypes, Phases, Agreed
<1> QED BY <1>1, LockInvariant, PTL

=============================================================================
