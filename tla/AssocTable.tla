----------------------------- MODULE AssocTable -----------------------------
(***************************************************************************)
(* The hash table of memcached (assoc.c) while it grows, with the locks    *)
(* that guard it (thread.c).                                               *)
(*                                                                         *)
(*   - Workers look keys up under an item lock.  Each worker has its own   *)
(*     idea of which lock that is: one of the striped item_locks           *)
(*     (GRANULAR) or item_global_lock (GLOBAL).                            *)
(*   - An insert that finds the table too full wakes the maintenance       *)
(*     thread.  It stops the slab mover, tells every worker through its    *)
(*     pipe to use the global lock, waits until all have reported, makes   *)
(*     the larger table and moves one bucket at a time under the global    *)
(*     lock and cache_lock.  Then it tells the workers to go back.         *)
(*                                                                         *)
(* A worker that has reported goes on with its requests: the others may    *)
(* still use their old lock.  Chains are sets: their order tells only      *)
(* items of one key apart, and find or delete may then take any of them.   *)
(***************************************************************************)
EXTENDS Integers, Sequences, FiniteSets

CONSTANTS
    Workers, Keys,
    hash,               \* the hash value of a key
    HASHPOWER_DEFAULT,
    item_lock_hashpower,
    Stored,             \* the keys in the table at the beginning
    Asked,              \* the keys of the requests
    NoItem, Nobody,
    MaxPower,           \* bound: the largest hashpower
    MaxOps              \* bound: requests of all workers

ASSUME AssocAssumption ==
    /\ hash \in [Keys -> Nat]
    /\ HASHPOWER_DEFAULT \in Nat /\ MaxPower \in Nat /\ item_lock_hashpower \in Nat
    /\ HASHPOWER_DEFAULT <= MaxPower
    /\ item_lock_hashpower <= HASHPOWER_DEFAULT   \* a bucket has one stripe (thread_init)
    /\ Keys # {} /\ Stored \subseteq Keys /\ Asked \subseteq Keys
    /\ MaxOps \in Nat
    /\ 2 ^ item_lock_hashpower \in Nat \ {0}
    /\ IsFiniteSet(Workers)
    /\ Nobody \notin Workers \cup {"maintenance"} /\ "maintenance" \notin Workers

\* An item that holds a value of its key; the second one is the replacement.
Items == Keys \X {1, 2}
KeyOf(it) == it[1]
AnyKey == CHOOSE k \in Keys : TRUE        \* what an idle worker has last worked on

hashsize(n) == 2 ^ n
Buckets == 0 .. hashsize(MaxPower) - 1
Stripes == 0 .. hashsize(item_lock_hashpower) - 1
StripeOf(k) == hash[k] % hashsize(item_lock_hashpower)

VARIABLES
    primary_hashtable, old_hashtable,
    hashpower, expanding, expand_bucket, started_expanding, hash_items,
    linked,         \* items with ITEM_LINKED
    item_locks, item_global_lock,       \* the thread that holds a lock, or Nobody
    cache_lock,     \* the maintenance thread holds cache_lock
    slabs_rebalance_lock,
    mpc, signalled, \* the maintenance thread, and a signal it has not seen
    init_count, pipe,
    item_lock_type, \* GRANULAR or GLOBAL, of each worker
    wpc, op, key, it, found, ops

tables == <<primary_hashtable, old_hashtable, hashpower, expanding, expand_bucket>>
content == <<started_expanding, hash_items, linked, signalled>>
maint == <<cache_lock, slabs_rebalance_lock, mpc, init_count>>
locks == <<item_locks, item_global_lock>>
request == <<op, key, it, ops>>
vars == <<tables, content, maint, locks, pipe, item_lock_type, wpc, request, found>>

Ops == {"get", "set", "add", "delete"}

Init ==
    /\ linked = Stored \X {1}
    /\ hashpower = HASHPOWER_DEFAULT
    /\ primary_hashtable = [b \in Buckets |->
           {i \in linked : hash[KeyOf(i)] % hashsize(hashpower) = b}]
    /\ old_hashtable = [b \in Buckets |-> {}]
    /\ expanding = FALSE /\ expand_bucket = 0 /\ started_expanding = FALSE
    /\ hash_items = Cardinality(linked)
    /\ item_locks = [l \in Stripes |-> Nobody] /\ item_global_lock = Nobody
    /\ cache_lock = FALSE
    /\ slabs_rebalance_lock = "free"
    /\ mpc = "wait" /\ signalled = FALSE
    /\ init_count = 0
    /\ pipe = [w \in Workers |-> <<>>]
    /\ item_lock_type = [w \in Workers |-> "GRANULAR"]
    /\ wpc = [w \in Workers |-> "idle"]
    /\ op = [w \in Workers |-> "get"]
    /\ key = [w \in Workers |-> AnyKey]
    /\ it = [w \in Workers |-> NoItem]
    /\ found = [w \in Workers |-> NoItem]
    /\ ops = 0

-----------------------------------------------------------------------------
(***************************************************************************)
(* The table.                                                              *)
(***************************************************************************)

\* Whether find, insert and delete look in the old table for key k.
UsesOld(k) == expanding /\ hash[k] % hashsize(hashpower - 1) >= expand_bucket

Chain(k) ==
    IF UsesOld(k) THEN old_hashtable[hash[k] % hashsize(hashpower - 1)]
                  ELSE primary_hashtable[hash[k] % hashsize(hashpower)]

SetChain(k, c) ==
    IF UsesOld(k)
    THEN /\ old_hashtable' = [old_hashtable EXCEPT ![hash[k] % hashsize(hashpower - 1)] = c]
         /\ UNCHANGED primary_hashtable
    ELSE /\ primary_hashtable' = [primary_hashtable EXCEPT ![hash[k] % hashsize(hashpower)] = c]
         /\ UNCHANGED old_hashtable

InTables == UNION {primary_hashtable[b] \cup old_hashtable[b] : b \in Buckets}

assoc_find(k, r) ==
    LET same == {i \in Chain(k) : KeyOf(i) = k}
    IN  IF same = {} THEN r = NoItem ELSE r \in same

\* With assoc_start_expand: signals once, and is heard only in cond_wait.
assoc_insert(i) ==
    /\ SetChain(KeyOf(i), Chain(KeyOf(i)) \cup {i})
    /\ hash_items' = hash_items + 1
    /\ LET start == ~expanding /\ hash_items' > (hashsize(hashpower) * 3) \div 2
                    /\ ~started_expanding
       IN  /\ started_expanding' = (started_expanding \/ start)
           /\ signalled' = (signalled \/ (start /\ mpc = "wait"))

\* By key: the item that goes is one with the key of i, if there is one.
assoc_delete(i) ==
    LET same == {j \in Chain(KeyOf(i)) : KeyOf(j) = KeyOf(i)}
    IN  IF same = {} THEN UNCHANGED <<primary_hashtable, old_hashtable, hash_items>>
        ELSE /\ \E j \in same : SetChain(KeyOf(i), Chain(KeyOf(i)) \ {j})
             /\ hash_items' = hash_items - 1

-----------------------------------------------------------------------------
(***************************************************************************)
(* Workers.                                                                *)
(***************************************************************************)

\* An item nobody uses, for a value that is stored.
Fresh(k) == {i \in Items : /\ KeyOf(i) = k /\ i \notin linked \cup InTables
                           /\ \A w \in Workers : wpc[w] # "idle" => i \notin {it[w], found[w]}}

\* A request arrives; a value to be stored has been read into an item.
Request(w) ==
    /\ wpc[w] = "idle" /\ ops < MaxOps
    /\ ops' = ops + 1
    /\ \E o \in Ops, k \in Asked :
        /\ op' = [op EXCEPT ![w] = o]
        /\ key' = [key EXCEPT ![w] = k]
        /\ IF o \in {"set", "add"}
           THEN \E i \in Fresh(k) : it' = [it EXCEPT ![w] = i]
           ELSE it' = [it EXCEPT ![w] = NoItem]
    /\ wpc' = [wpc EXCEPT ![w] = "lock"]
    /\ UNCHANGED <<tables, content, maint, locks, pipe, item_lock_type, found>>

\* The byte in the pipe is read between two requests.
thread_libevent_process(w) ==
    /\ wpc[w] = "idle" /\ pipe[w] # <<>>
    /\ item_lock_type' = [item_lock_type EXCEPT ![w] = Head(pipe[w])]
    /\ pipe' = [pipe EXCEPT ![w] = Tail(@)]
    /\ init_count' = init_count + 1                    \* register_thread_initialized
    /\ UNCHANGED <<tables, content, cache_lock, slabs_rebalance_lock, mpc, locks, wpc,
                   request, found>>

item_lock(w) ==
    /\ wpc[w] \in {"lock", "relock"}
    /\ IF item_lock_type[w] = "GRANULAR"
       THEN /\ item_locks[StripeOf(key[w])] = Nobody
            /\ item_locks' = [item_locks EXCEPT ![StripeOf(key[w])] = w]
            /\ UNCHANGED item_global_lock
       ELSE /\ item_global_lock = Nobody
            /\ item_global_lock' = w
            /\ UNCHANGED item_locks
    /\ wpc' = [wpc EXCEPT ![w] = IF wpc[w] = "lock" THEN "find" ELSE "unlink"]
    /\ UNCHANGED <<tables, content, maint, pipe, item_lock_type, request, found>>

\* do_item_get reads the table without cache_lock.
do_item_get(w) ==
    /\ wpc[w] = "find"
    /\ \E r \in Items \cup {NoItem} :
        /\ assoc_find(key[w], r)
        /\ found' = [found EXCEPT ![w] = r]
        /\ wpc' = [wpc EXCEPT ![w] =
               CASE op[w] \in {"get", "delete"} -> "unlock"
                 [] op[w] = "add" /\ r # NoItem -> "unlock"
                 [] op[w] = "set" /\ r # NoItem -> "unlink"
                 [] OTHER -> "link"]
    /\ UNCHANGED <<tables, content, maint, locks, pipe, item_lock_type, request>>

\* Also the first half of item_replace.
do_item_unlink(w) ==
    /\ wpc[w] = "unlink" /\ ~cache_lock
    /\ IF found[w] \in linked
       THEN linked' = linked \ {found[w]} /\ assoc_delete(found[w])
       ELSE UNCHANGED <<linked, primary_hashtable, old_hashtable, hash_items>>
    /\ wpc' = [wpc EXCEPT ![w] = IF op[w] = "set" THEN "link" ELSE "unlock"]
    /\ found' = [found EXCEPT ![w] = IF op[w] = "set" THEN @ ELSE NoItem]
    /\ UNCHANGED <<hashpower, expanding, expand_bucket, started_expanding, signalled,
                   maint, locks, pipe, item_lock_type, request>>

do_item_link(w) ==
    /\ wpc[w] = "link" /\ ~cache_lock
    /\ linked' = linked \cup {it[w]}
    /\ assoc_insert(it[w])
    /\ wpc' = [wpc EXCEPT ![w] = "unlock"]
    /\ UNCHANGED <<hashpower, expanding, expand_bucket, maint, locks, pipe, item_lock_type,
                   request, found>>

\* A delete that has found its item locks a second time, in item_unlink.
item_unlock(w) ==
    /\ wpc[w] = "unlock"
    /\ IF item_lock_type[w] = "GRANULAR"
       THEN /\ item_locks' = [item_locks EXCEPT ![StripeOf(key[w])] = Nobody]
            /\ UNCHANGED item_global_lock
       ELSE item_global_lock' = Nobody /\ UNCHANGED item_locks
    /\ IF op[w] = "delete" /\ found[w] # NoItem
       THEN wpc' = [wpc EXCEPT ![w] = "relock"] /\ UNCHANGED <<op, key, it, found>>
       ELSE /\ wpc' = [wpc EXCEPT ![w] = "idle"]
            /\ op' = [op EXCEPT ![w] = "get"] /\ key' = [key EXCEPT ![w] = AnyKey]
            /\ it' = [it EXCEPT ![w] = NoItem] /\ found' = [found EXCEPT ![w] = NoItem]
    /\ UNCHANGED <<tables, content, maint, pipe, item_lock_type, ops>>

-----------------------------------------------------------------------------
(***************************************************************************)
(* The maintenance thread.                                                 *)
(***************************************************************************)

\* pthread_cond_wait returns: there was a signal, or it returns without one.
Wake ==
    /\ mpc = "wait" /\ hashpower < MaxPower
    /\ mpc' = "pause" /\ signalled' = FALSE
    /\ UNCHANGED <<tables, started_expanding, hash_items, linked, cache_lock,
                   slabs_rebalance_lock, init_count, locks, pipe, item_lock_type, wpc, request, found>>

slabs_rebalancer_pause ==
    /\ mpc = "pause" /\ slabs_rebalance_lock = "free"
    /\ slabs_rebalance_lock' = "maintenance"
    /\ mpc' = "global"
    /\ UNCHANGED <<tables, content, cache_lock, init_count, locks, pipe, item_lock_type, wpc,
                   request, found>>

switch_item_lock_type(type, at, next) ==
    /\ mpc = at
    /\ init_count' = 0
    /\ pipe' = [w \in Workers |-> Append(pipe[w], type)]
    /\ mpc' = next
    /\ UNCHANGED <<tables, content, cache_lock, slabs_rebalance_lock, locks, item_lock_type, wpc,
                   request, found>>

\* After the switch to GLOBAL assoc_expand follows, under cache_lock; after the
\* one to GRANULAR the slab mover is let go and the thread sleeps again.
wait_for_thread_registration_early ==
    /\ mpc \in {"wait_global", "wait_granular"}
    /\ init_count >= Cardinality(Workers) - 1
    /\ IF mpc = "wait_global"
       THEN mpc' = "expand" /\ UNCHANGED <<slabs_rebalance_lock, started_expanding>>
       ELSE /\ mpc' = "wait"
            /\ slabs_rebalance_lock' = "free"
            /\ started_expanding' = FALSE
    /\ UNCHANGED <<tables, hash_items, linked, signalled, cache_lock, init_count, locks,
                   pipe, item_lock_type, wpc, request, found>>
wait_for_thread_registration_noresume ==
    /\ mpc \in {"wait_global", "wait_granular"}
    /\ init_count >= Cardinality(Workers)
    /\ IF mpc = "wait_global"
       THEN mpc' = "expand" /\ UNCHANGED <<slabs_rebalance_lock, started_expanding>>
       ELSE /\ mpc' = "wait"
            /\ started_expanding' = FALSE /\ UNCHANGED slabs_rebalance_lock
    /\ UNCHANGED <<tables, hash_items, linked, signalled, cache_lock, init_count, locks,
                   pipe, item_lock_type, wpc, request, found>>
wait_for_thread_registration ==
    /\ mpc \in {"wait_global", "wait_granular"}
    /\ init_count >= Cardinality(Workers)
    /\ IF mpc = "wait_global"
       THEN mpc' = "expand" /\ UNCHANGED <<slabs_rebalance_lock, started_expanding>>
       ELSE /\ mpc' = "wait"
            /\ slabs_rebalance_lock' = "free"
            /\ started_expanding' = FALSE
    /\ UNCHANGED <<tables, hash_items, linked, signalled, cache_lock, init_count, locks,
                   pipe, item_lock_type, wpc, request, found>>

\* The new table is in place before expanding says so.
assoc_expand ==
    /\ mpc = "expand" /\ ~cache_lock
    /\ \/ /\ old_hashtable' = primary_hashtable
          /\ primary_hashtable' = [b \in Buckets |-> {}]
          /\ mpc' = "publish" /\ cache_lock' = TRUE
       \/ /\ mpc' = "lock"                             \* calloc fails
          /\ UNCHANGED <<primary_hashtable, old_hashtable, cache_lock>>
    /\ UNCHANGED <<hashpower, expanding, expand_bucket, content, slabs_rebalance_lock, init_count,
                   locks, pipe, item_lock_type, wpc, request, found>>

assoc_expand_publish ==
    /\ mpc = "publish"
    /\ hashpower' = hashpower + 1
    /\ expanding' = TRUE /\ expand_bucket' = 0
    /\ cache_lock' = FALSE
    /\ mpc' = "lock"
    /\ UNCHANGED <<primary_hashtable, old_hashtable, content, slabs_rebalance_lock, init_count,
                   locks, pipe, item_lock_type, wpc, request, found>>

item_lock_global_tryless ==
    /\ mpc = "lock"
    /\ item_global_lock' = "maintenance"
    /\ cache_lock' = TRUE
    /\ mpc' = "move"
    /\ UNCHANGED <<tables, content, slabs_rebalance_lock, init_count, item_locks, pipe, item_lock_type, wpc,
                   request, found>>
item_lock_global ==
    /\ mpc = "lock"
    /\ item_global_lock = Nobody /\ item_global_lock' = "maintenance"
    /\ cache_lock' = TRUE
    /\ mpc' = "move"
    /\ UNCHANGED <<tables, content, slabs_rebalance_lock, init_count, item_locks, pipe, item_lock_type, wpc,
                   request, found>>

\* One bucket (hash_bulk_move); nothing when the table could not be had.
move_bucket_oldmask ==
    /\ mpc = "move"
    /\ IF expanding
       THEN /\ primary_hashtable' = [b \in Buckets |-> primary_hashtable[b] \cup
                   {i \in old_hashtable[expand_bucket] : hash[KeyOf(i)] % hashsize(hashpower - 1) = b}]
            /\ old_hashtable' = [old_hashtable EXCEPT ![expand_bucket] = {}]
            /\ expand_bucket' = expand_bucket + 1
            /\ expanding' = (expand_bucket' # hashsize(hashpower - 1))
       ELSE UNCHANGED <<primary_hashtable, old_hashtable, expand_bucket, expanding>>
    /\ item_global_lock' = Nobody
    /\ cache_lock' = FALSE
    /\ mpc' = IF expanding' THEN "lock" ELSE "granular"
    /\ UNCHANGED <<hashpower, content, slabs_rebalance_lock, init_count, item_locks, pipe, item_lock_type, wpc,
                   request, found>>
move_bucket ==
    /\ mpc = "move"
    /\ IF expanding
       THEN /\ primary_hashtable' = [b \in Buckets |-> primary_hashtable[b] \cup
                   {i \in old_hashtable[expand_bucket] : hash[KeyOf(i)] % hashsize(hashpower) = b}]
            /\ old_hashtable' = [old_hashtable EXCEPT ![expand_bucket] = {}]
            /\ expand_bucket' = expand_bucket + 1
            /\ expanding' = (expand_bucket' # hashsize(hashpower - 1))
       ELSE UNCHANGED <<primary_hashtable, old_hashtable, expand_bucket, expanding>>
    /\ item_global_lock' = Nobody
    /\ cache_lock' = FALSE
    /\ mpc' = IF expanding' THEN "lock" ELSE "granular"
    /\ UNCHANGED <<hashpower, content, slabs_rebalance_lock, init_count, item_locks, pipe, item_lock_type, wpc,
                   request, found>>

\* The slab mover holds its lock from one end of a move to the other.
slab_rebalance ==
    /\ \/ slabs_rebalance_lock = "free" /\ slabs_rebalance_lock' = "mover"
       \/ slabs_rebalance_lock = "mover" /\ slabs_rebalance_lock' = "free"
    /\ UNCHANGED <<tables, content, cache_lock, mpc, init_count, locks, pipe, item_lock_type, wpc,
                   request, found>>

assoc_maintenance_thread ==
    \/ Wake
    \/ slabs_rebalancer_pause
    \/ switch_item_lock_type("GLOBAL", "global", "wait_global")
    \/ switch_item_lock_type("GRANULAR", "granular", "wait_granular")
    \/ wait_for_thread_registration
    \/ assoc_expand
    \/ assoc_expand_publish
    \/ item_lock_global
    \/ move_bucket

Step(w) ==
    \/ item_lock(w)
    \/ do_item_get(w)
    \/ do_item_unlink(w)
    \/ do_item_link(w)
    \/ item_unlock(w)

Next ==
    \/ \E w \in Workers : Request(w) \/ thread_libevent_process(w) \/ Step(w)
    \/ assoc_maintenance_thread
    \/ slab_rebalance

Spec == Init /\ [][Next]_vars

(***************************************************************************)
(* Threads run on; the slab mover ends a move; a signalled thread wakes.   *)
(***************************************************************************)
Fairness ==
    /\ \A w \in Workers : WF_vars(Step(w)) /\ WF_vars(thread_libevent_process(w))
    /\ WF_vars(mpc # "wait" /\ assoc_maintenance_thread)
    /\ WF_vars(signalled /\ Wake) /\ SF_vars(slabs_rebalancer_pause)
    /\ WF_vars(slabs_rebalance_lock = "mover" /\ slab_rebalance)

FairSpec == Spec /\ Fairness

-----------------------------------------------------------------------------
(***************************************************************************)
(* Properties.                                                             *)
(***************************************************************************)

TypeOK ==
    /\ primary_hashtable \in [Buckets -> SUBSET Items]
    /\ old_hashtable \in [Buckets -> SUBSET Items]
    /\ hashpower \in HASHPOWER_DEFAULT .. MaxPower
    /\ expanding \in BOOLEAN /\ started_expanding \in BOOLEAN
    /\ expand_bucket \in 0 .. hashsize(MaxPower)
    /\ hash_items \in Nat /\ linked \subseteq Items
    /\ item_locks \in [Stripes -> Workers \cup {Nobody}]
    /\ item_global_lock \in Workers \cup {"maintenance", Nobody}
    /\ cache_lock \in BOOLEAN
    /\ slabs_rebalance_lock \in {"free", "maintenance", "mover"}
    /\ mpc \in {"wait", "pause", "global", "wait_global", "expand", "publish", "lock", "move",
               "granular", "wait_granular"}
    /\ signalled \in BOOLEAN
    /\ init_count \in 0 .. Cardinality(Workers)
    /\ pipe \in [Workers -> Seq({"GRANULAR", "GLOBAL"})]
    /\ item_lock_type \in [Workers -> {"GRANULAR", "GLOBAL"}]
    /\ wpc \in [Workers -> {"idle", "lock", "find", "unlink", "link", "unlock", "relock"}]
    /\ op \in [Workers -> Ops] /\ key \in [Workers -> Keys]
    /\ it \in [Workers -> Items \cup {NoItem}]
    /\ found \in [Workers -> Items \cup {NoItem}]
    /\ ops \in 0 .. MaxOps

InSection(w) == wpc[w] \in {"find", "unlink", "link", "unlock"}

\* The maintenance thread moves a bucket only when no worker is between item_lock and
\* item_unlock, whichever lock that worker believes in.
MoveAlone == mpc = "move" => \A w \in Workers : ~InSection(w)

\* Two workers are inside the sections of one stripe only while the lock type is being
\* switched, when one has reported the new type and the other has not.
OverlapOnlyInSwitch ==
    \A v, w \in Workers :
        /\ v # w /\ InSection(v) /\ InSection(w)
        /\ StripeOf(key[v]) = StripeOf(key[w])
        => item_lock_type[v] # item_lock_type[w] /\ mpc \in {"wait_global", "wait_granular"}

\* do_item_get reports a key missing only if the table does not have it, except in the moment
\* between the two halves of assoc_expand, which the readers are not kept out of.
TrueMiss ==
    [][\A w \in Workers :
          wpc[w] = "find" /\ wpc'[w] # "find" /\ found'[w] = NoItem =>
              mpc = "publish" \/ \A i \in InTables : KeyOf(i) # key[w]]_vars

\* A full table is always expanded to the end: the maintenance thread goes back to sleep, with
\* the slab mover free and all workers on the fine-grained locks.
ExpansionEnds ==
    signalled \/ mpc # "wait" ~>
        /\ mpc = "wait" /\ ~expanding /\ slabs_rebalance_lock # "maintenance"
        /\ \A w \in Workers : item_lock_type[w] = "GRANULAR" /\ pipe[w] = <<>>

=============================================================================
