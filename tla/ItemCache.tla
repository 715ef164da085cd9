------------------------------ MODULE ItemCache ------------------------------
(***************************************************************************)
(* The life of an item of memcached (items.c, slabs.c): allocated from the *)
(* free list of its class or taken from the tail of the LRU list, linked   *)
(* into the hash table and the LRU list, read by workers that count        *)
(* themselves in its refcount, unlinked, and freed by whoever drops the    *)
(* last reference.  Three more actors take items away: the slab mover, the *)
(* LRU crawler, and flush_all.                                             *)
(*                                                                         *)
(* A worker looks a key up under the item lock of the key.  The lists are  *)
(* guarded by cache_lock, and those who hold it only try the item lock.    *)
(* Two paths do not keep to this, and one list operation is done twice:    *)
(*   - do_item_get unlinks an item of the page that is being moved without *)
(*     holding cache_lock;                                                 *)
(*   - flush_all unlinks items without their locks, also one that a worker *)
(*     has found and not yet counted;                                      *)
(*   - a second crawl command links a crawler that is already in the list. *)
(* What happens afterwards is not defined: broken names the cause, and the *)
(* behaviour ends there.                                                   *)
(*                                                                         *)
(* One slab class, at its memory limit, all workers on the item locks      *)
(* (GRANULAR; AssocTable has the switch), settings as by default.          *)
(***************************************************************************)
EXTENDS Integers, Sequences, FiniteSets, SequencesExt

CONSTANTS
    Workers, Keys, Items,
    Page,           \* the items of the slab that may be moved, in order of address
    Lru,            \* the items linked at the beginning, head first
    Key0,           \* their keys
    Expiring,       \* the keys stored with an exptime
    NoItem, Nobody,
    Crawler,        \* crawlers[id]
    Tries,          \* how far do_item_alloc walks up from the tail (5)
    MaxOps,         \* bound: requests of all workers
    MaxCrawls,      \* bound: crawl commands
    MaxFlushes      \* bound: flush_all commands

ASSUME ItemAssumption ==
    /\ Page \in Seq(Items) /\ Lru \in Seq(Items)
    /\ Key0 \in [Items -> Keys] /\ Expiring \subseteq Keys
    /\ Tries \in Nat \ {0} /\ MaxOps \in Nat /\ MaxCrawls \in Nat /\ MaxFlushes \in Nat
    /\ Crawler \notin Items /\ NoItem \notin Items /\ Nobody \notin Workers

VARIABLES
    refcount, linked, slabbed, slabs_clsid, ikey,   \* of each item; ITEM_LINKED, ITEM_SLABBED
    dead,           \* items past exptime or not newer than oldest_live
    lru,            \* the LRU list, head first, with the crawler
    table,          \* the items in the hash table
    slots,          \* the free list
    item_locks, cache_lock,
    slab_rebalance_signal, slab_pos, busy_items, moved,
    crawler_running, crawls, flushes,
    broken,
    pc, op, key, it, old, new, search, tries, ops

itemv == <<refcount, linked, slabbed, slabs_clsid, ikey, dead>>
lists == <<lru, table, slots>>
slabv == <<slab_rebalance_signal, slab_pos, busy_items, moved>>
crawlv == <<crawler_running, crawls>>
regs == <<op, key, it, old, new, search, tries, ops>>
vars == <<itemv, lists, item_locks, cache_lock, slabv, crawlv, flushes, broken, pc, regs>>

Class == 1          \* the class of the items
Moved == 255        \* what slab_rebalance_move marks an item with
Elsewhere == 2      \* the class the page goes to
NoKey == CHOOSE k \in Keys : TRUE

Init ==
    LET first == ToSet(Lru) IN
    /\ refcount = [i \in Items |-> IF i \in first THEN 1 ELSE 0]
    /\ linked = first /\ slabbed = Items \ first
    /\ slabs_clsid = [i \in Items |-> IF i \in first THEN Class ELSE 0]
    /\ ikey = Key0
    /\ dead = {}
    /\ lru = Lru /\ table = first /\ slots = Items \ first
    /\ item_locks = [k \in Keys |-> Nobody] /\ cache_lock = Nobody
    /\ slab_rebalance_signal = 0 /\ slab_pos = 1 /\ busy_items = FALSE /\ moved = FALSE
    /\ crawler_running = FALSE /\ crawls = 0 /\ flushes = 0
    /\ broken = "no"
    /\ pc = [w \in Workers |-> "idle"]
    /\ op = [w \in Workers |-> "get"] /\ key = [w \in Workers |-> NoKey]
    /\ it = [w \in Workers |-> NoItem] /\ old = [w \in Workers |-> NoItem]
    /\ new = [w \in Workers |-> NoItem] /\ search = [w \in Workers |-> NoItem]
    /\ tries = [w \in Workers |-> 0]
    /\ ops = 0

-----------------------------------------------------------------------------
(***************************************************************************)
(* Items, lists and references.                                            *)
(***************************************************************************)

InPage(i) == i \in ToSet(Page)
Prev(s) == LET n == CHOOSE n \in 1 .. Len(lru) : lru[n] = s
           IN  IF n = 1 THEN NoItem ELSE lru[n - 1]
Without(i) == SelectSeq(lru, LAMBDA x : x # i)
\* do_item_update, for an item that is still linked.
ToHead(i) == IF i \in linked THEN <<i>> \o Without(i) ELSE lru

\* The list is changed by someone who holds cache_lock: is a worker in the middle of
\* the unlink that does not?
ListRace == \E w \in Workers : pc[w] = "unlocked"
Touch == broken' = IF ListRace THEN "unlocked unlink" ELSE broken

\* References given back by do_item_remove; those that were the last free their item.
do_item_remove(gone) ==
    LET freed == {i \in gone : refcount[i] = 1} IN
    /\ refcount' = [i \in Items |-> IF i \in gone THEN refcount[i] - 1 ELSE refcount[i]]
    /\ slabs_clsid' = [i \in Items |-> IF i \in freed THEN 0 ELSE slabs_clsid[i]]
    /\ slabbed' = slabbed \cup freed
    /\ slots' = slots \cup freed

\* do_item_unlink and its _nolock form, on the items of S that are linked.
do_item_unlink(S) ==
    /\ linked' = linked \ S
    /\ table' = table \ S
    /\ lru' = SelectSeq(lru, LAMBDA x : x \notin S \cap linked)
    /\ dead' = dead \ S
    /\ do_item_remove(S \cap linked)

\* The same when the caller also gives up its own reference to i.
UnlinkAndRemove(i) ==
    LET gone == IF i \in linked THEN 2 ELSE 1
        last == refcount[i] = gone
    IN  /\ linked' = linked \ {i} /\ table' = table \ {i}
        /\ lru' = Without(i) /\ dead' = dead \ {i}
        /\ refcount' = [refcount EXCEPT ![i] = @ - gone]
        /\ slabs_clsid' = [slabs_clsid EXCEPT ![i] = IF last THEN 0 ELSE @]
        /\ slabbed' = IF last THEN slabbed \cup {i} ELSE slabbed
        /\ slots' = IF last THEN slots \cup {i} ELSE slots

\* Linked and in nobody's hands: refcount_incr gives 2.
Unused_linked(i) == i \in linked
Unused(i) == refcount[i] = 1

Goto(w, l) == pc' = [pc EXCEPT ![w] = l]

\* The request is over; the registers take their first values.
Rest(w) == /\ Goto(w, "idle")
           /\ op' = [op EXCEPT ![w] = "get"] /\ key' = [key EXCEPT ![w] = NoKey]

-----------------------------------------------------------------------------
(***************************************************************************)
(* Workers: get, set, append and delete.                                   *)
(***************************************************************************)

Request(w) ==
    /\ pc[w] = "idle" /\ ops < MaxOps
    /\ ops' = ops + 1
    /\ \E o \in {"get", "set", "append", "delete"}, k \in Keys :
        /\ op' = [op EXCEPT ![w] = o] /\ key' = [key EXCEPT ![w] = k]
        /\ Goto(w, IF o \in {"set", "append"} THEN "alloc" ELSE "lock")
    /\ UNCHANGED <<itemv, lists, item_locks, cache_lock, slabv, crawlv, flushes, broken,
                   it, old, new, search, tries>>

\* do_item_alloc takes cache_lock; "alloc2" is the one of an append, inside the item lock.
do_item_alloc(w) ==
    /\ pc[w] \in {"alloc", "alloc2"} /\ cache_lock = Nobody
    /\ cache_lock' = w
    /\ search' = [search EXCEPT ![w] = IF lru = <<>> THEN NoItem ELSE lru[Len(lru)]]
    /\ tries' = [tries EXCEPT ![w] = Tries]
    /\ Goto(w, IF pc[w] = "alloc" THEN "scan" ELSE "scan2")
    /\ Touch
    /\ UNCHANGED <<itemv, lists, item_locks, slabv, crawlv, flushes, op, key, it, old, new, ops>>

\* The walk is over: the caller has the reference of i, or nothing.  A set that gets nothing
\* deletes the old value, which must not stay.
Leave(w) == /\ cache_lock' = Nobody
            /\ search' = [search EXCEPT ![w] = NoItem] /\ tries' = [tries EXCEPT ![w] = 0]

Allocated(w, i) ==
    /\ Leave(w)
    /\ \/ /\ pc[w] = "scan"
          /\ it' = [it EXCEPT ![w] = i] /\ Goto(w, "init") /\ UNCHANGED new
       \/ /\ pc[w] = "scan2"
          /\ new' = [new EXCEPT ![w] = i] /\ Goto(w, "init2") /\ UNCHANGED it
    /\ UNCHANGED <<op, key>>

OutOfMemory(w) ==
    /\ Leave(w)
    /\ \/ /\ pc[w] = "scan" /\ op[w] = "set"
          /\ op' = [op EXCEPT ![w] = "delete"] /\ Goto(w, "lock") /\ UNCHANGED key
       \/ /\ pc[w] = "scan" /\ op[w] = "append"
          /\ Rest(w)
       \/ /\ pc[w] = "scan2"
          /\ Goto(w, "drop") /\ UNCHANGED <<op, key>>
    /\ UNCHANGED <<it, new>>

slabs_alloc(w) ==
    IF slots = {}
    THEN OutOfMemory(w) /\ UNCHANGED <<slots, refcount>>
    ELSE \E i \in slots : /\ Allocated(w, i)
                          /\ slots' = slots \ {i}
                          /\ refcount' = [refcount EXCEPT ![i] = 1]

\* One item of the walk up from the tail.
scan(w) ==
    /\ pc[w] \in {"scan", "scan2"}
    /\ LET s == search[w]
           Skip(n) == /\ search' = [search EXCEPT ![w] = Prev(s)]
                      /\ tries' = [tries EXCEPT ![w] = @ - n]
                      /\ UNCHANGED <<cache_lock, it, new, op, key, pc>>
       IN
       \/ /\ s = NoItem \/ tries[w] = 0
          /\ slabs_alloc(w)
          /\ UNCHANGED <<linked, slabbed, slabs_clsid, ikey, dead, lru, table>>
       \/ /\ s = Crawler /\ tries[w] > 0
          /\ Skip(0)
          /\ UNCHANGED <<itemv, lists>>
       \/ /\ s \in Items /\ tries[w] > 0
          /\ item_locks[ikey[s]] # Nobody                  \* also our own key
          /\ Skip(1)
          /\ UNCHANGED <<itemv, lists>>
       \/ /\ s \in Items /\ tries[w] > 0
          /\ item_locks[ikey[s]] = Nobody
          /\ ~Unused(s)
          /\ Skip(0)
          /\ lru' \in {lru, ToHead(s)}
          /\ UNCHANGED <<itemv, table, slots>>
       \/ /\ s \in Items /\ tries[w] > 0
          /\ item_locks[ikey[s]] = Nobody
          /\ Unused(s)
          /\ IF s \in dead \/ slots = {}
             THEN /\ linked' = linked \ {s} /\ table' = table \ {s}
                  /\ lru' = Without(s) /\ dead' = dead \ {s}
                  /\ slabs_clsid' = [slabs_clsid EXCEPT ![s] = 0]
                  /\ refcount' = [refcount EXCEPT ![s] = 1]
                  /\ Allocated(w, s)
                  /\ UNCHANGED <<slots, slabbed, ikey>>
             ELSE slabs_alloc(w) /\ UNCHANGED <<linked, slabbed, slabs_clsid, ikey, dead, lru,
                                               table>>
    /\ UNCHANGED <<item_locks, slabv, crawlv, flushes, broken, old, ops>>

\* The rest of do_item_alloc, outside the lock.
init_item(w) ==
    /\ pc[w] \in {"init", "init2"}
    /\ LET i == IF pc[w] = "init" THEN it[w] ELSE new[w] IN
       /\ slabs_clsid' = [slabs_clsid EXCEPT ![i] = Class]
       /\ slabbed' = slabbed \ {i}
       /\ ikey' = [ikey EXCEPT ![i] = key[w]]
    /\ Goto(w, IF pc[w] = "init" THEN "upload" ELSE "replace")
    /\ UNCHANGED <<refcount, linked, dead, lists, item_locks, cache_lock, slabv, crawlv, flushes,
                   broken, regs>>

\* The value has been read from the client, or the client is gone.
upload_closed(w) ==
    /\ pc[w] = "upload"
    /\ (Goto(w, "lock") /\ UNCHANGED <<it, op, key>>) \/ (Rest(w) /\ it' = [it EXCEPT ![w] = NoItem])
    /\ UNCHANGED <<itemv, lists, item_locks, cache_lock, slabv, crawlv, flushes, broken, old, new,
                   search, tries, ops>>
upload(w) ==
    /\ pc[w] = "upload"
    /\ Goto(w, "lock") \/ Goto(w, "release")
    /\ UNCHANGED <<itemv, lists, item_locks, cache_lock, slabv, crawlv, flushes, broken, regs>>

item_lock(w) ==
    /\ pc[w] = "lock" /\ item_locks[key[w]] = Nobody
    /\ item_locks' = [item_locks EXCEPT ![key[w]] = w]
    /\ Goto(w, "find")
    /\ UNCHANGED <<itemv, lists, cache_lock, slabv, crawlv, flushes, broken, regs>>

\* What follows do_item_get with the item i.
After(w, i) ==
    CASE op[w] \in {"get", "delete"} -> "unlock"
      [] op[w] = "set" -> IF i = NoItem THEN "link" ELSE "replace"
      [] op[w] = "append" -> IF i = NoItem THEN "unlock" ELSE "alloc2"

assoc_find(w) ==
    /\ pc[w] = "find"
    /\ LET same == {i \in table : ikey[i] = key[w]} IN
       \/ /\ same = {} /\ Goto(w, After(w, NoItem)) /\ UNCHANGED old
       \/ \E i \in same : old' = [old EXCEPT ![w] = i] /\ Goto(w, "count")
    /\ UNCHANGED <<itemv, lists, item_locks, cache_lock, slabv, crawlv, flushes, broken,
                   op, key, it, new, search, tries, ops>>

\* refcount_incr, and where do_item_get goes with the item.
do_item_get(w) ==
    /\ pc[w] = "count"
    /\ LET i == old[w] IN
       /\ refcount' = [refcount EXCEPT ![i] = @ + 1]
       /\ IF slab_rebalance_signal = 2 /\ InPage(i)
          THEN /\ Goto(w, "unlocked")
               /\ broken' = IF ListRace \/ cache_lock # Nobody THEN "unlocked unlink" ELSE broken
          ELSE /\ Goto(w, IF i \in dead THEN "expired" ELSE After(w, i))
               /\ UNCHANGED broken
    /\ UNCHANGED <<linked, slabbed, slabs_clsid, ikey, dead, lists, item_locks, cache_lock, slabv,
                   crawlv, flushes, regs>>

\* do_item_unlink_nolock and do_item_remove in do_item_get, without cache_lock; and
\* do_item_unlink with it, for an item that has expired.
do_item_get_unlink(w) ==
    /\ pc[w] \in {"unlocked", "expired"}
    /\ pc[w] = "expired" => cache_lock = Nobody
    /\ broken' = IF pc[w] = "expired" /\ ListRace THEN "unlocked unlink" ELSE broken
    /\ UnlinkAndRemove(old[w])
    /\ old' = [old EXCEPT ![w] = NoItem]
    /\ Goto(w, After(w, NoItem))
    /\ UNCHANGED <<ikey, item_locks, cache_lock, slabv, crawlv, flushes,
                   op, key, it, new, search, tries, ops>>

\* item_replace unlinks the old item, then links the new one.
replace_keeps(w) ==
    /\ pc[w] = "replace" /\ cache_lock = Nobody
    /\ Goto(w, "link")
    /\ Touch
    /\ UNCHANGED <<itemv, lists, item_locks, cache_lock, slabv, crawlv, flushes, regs>>
replace(w) ==
    /\ pc[w] = "replace" /\ cache_lock = Nobody
    /\ do_item_unlink({old[w]})
    /\ Goto(w, "link")
    /\ Touch
    /\ UNCHANGED <<ikey, item_locks, cache_lock, slabv, crawlv, flushes, regs>>

do_item_link(w) ==
    /\ pc[w] = "link" /\ cache_lock = Nobody
    /\ LET i == IF new[w] # NoItem THEN new[w] ELSE it[w] IN
       /\ linked' = linked \cup {i} /\ table' = table \cup {i}
       /\ lru' = <<i>> \o lru
       /\ refcount' = [refcount EXCEPT ![i] = @ + 1]
    /\ Goto(w, IF old[w] = NoItem THEN "unlock" ELSE "drop")
    /\ Touch
    /\ UNCHANGED <<slabbed, slabs_clsid, ikey, dead, slots, item_locks, cache_lock, slabv, crawlv,
                   flushes, regs>>

\* The end of do_store_item: the references to the old and the new item.
drop_old(w) ==
    /\ pc[w] = "drop"
    /\ do_item_remove({old[w]})
    /\ old' = [old EXCEPT ![w] = NoItem] /\ new' = [new EXCEPT ![w] = NoItem]
    /\ Goto(w, "unlock")
    /\ UNCHANGED <<linked, ikey, dead, lru, table, item_locks, cache_lock, slabv, crawlv, flushes,
                   broken, op, key, it, search, tries, ops>>
drop(w) ==
    /\ pc[w] = "drop"
    /\ do_item_remove({old[w], new[w]} \ {NoItem})
    /\ old' = [old EXCEPT ![w] = NoItem] /\ new' = [new EXCEPT ![w] = NoItem]
    /\ Goto(w, "unlock")
    /\ UNCHANGED <<linked, ikey, dead, lru, table, item_locks, cache_lock, slabv, crawlv, flushes,
                   broken, op, key, it, search, tries, ops>>

item_unlock(w) ==
    /\ pc[w] = "unlock"
    /\ item_locks' = [item_locks EXCEPT ![key[w]] = Nobody]
    /\ IF it[w] = NoItem /\ old[w] = NoItem
       THEN Rest(w)
       ELSE /\ Goto(w, CASE it[w] # NoItem -> "release"
                         [] it[w] = NoItem /\ op[w] = "get" -> "reply"
                         [] it[w] = NoItem /\ op[w] = "delete" -> "unlink")
            /\ UNCHANGED <<op, key>>
    /\ UNCHANGED <<itemv, lists, cache_lock, slabv, crawlv, flushes, broken, it, old, new, search,
                   tries, ops>>

\* item_update: an item that was read goes to the head of the list if it is old enough.
item_update(w) ==
    /\ pc[w] = "reply" /\ item_locks[key[w]] = Nobody /\ cache_lock = Nobody
    /\ lru' \in {lru, ToHead(old[w])}
    /\ Goto(w, "release")
    /\ broken' = IF ListRace /\ lru' # lru THEN "unlocked unlink" ELSE broken
    /\ UNCHANGED <<itemv, table, slots, item_locks, cache_lock, slabv, crawlv, flushes, regs>>

item_unlink(w) ==
    /\ pc[w] = "unlink" /\ item_locks[key[w]] = Nobody /\ cache_lock = Nobody
    /\ do_item_unlink({old[w]})
    /\ Goto(w, "release")
    /\ Touch
    /\ UNCHANGED <<ikey, item_locks, cache_lock, slabv, crawlv, flushes, regs>>

\* The reply has been sent, or the item stored: item_remove.
item_remove(w) ==
    /\ pc[w] = "release" /\ item_locks[key[w]] = Nobody
    /\ do_item_remove({it[w], old[w]} \ {NoItem})
    /\ it' = [it EXCEPT ![w] = NoItem] /\ old' = [old EXCEPT ![w] = NoItem]
    /\ Rest(w)
    /\ UNCHANGED <<linked, ikey, dead, lru, table, item_locks, cache_lock, slabv, crawlv, flushes,
                   broken, new, search, tries, ops>>

Worker(w) ==
    \/ do_item_alloc(w) \/ scan(w) \/ init_item(w) \/ upload(w)
    \/ item_lock(w) \/ assoc_find(w) \/ do_item_get(w) \/ do_item_get_unlink(w)
    \/ replace(w) \/ do_item_link(w) \/ drop(w) \/ item_unlock(w)
    \/ item_update(w) \/ item_unlink(w) \/ item_remove(w)

-----------------------------------------------------------------------------
(***************************************************************************)
(* The slab mover.                                                         *)
(***************************************************************************)

slabs_reassign ==
    /\ slab_rebalance_signal = 0 /\ ~moved
    /\ slab_rebalance_signal' = 1
    /\ UNCHANGED <<itemv, lists, item_locks, cache_lock, slab_pos, busy_items, moved, crawlv,
                   flushes, broken, pc, regs>>

slab_rebalance_start ==
    /\ slab_rebalance_signal = 1 /\ cache_lock = Nobody
    /\ slab_rebalance_signal' = 2 /\ slab_pos' = 1
    /\ UNCHANGED <<itemv, lists, item_locks, cache_lock, busy_items, moved, crawlv, flushes,
                   broken, pc, regs>>

\* After the last item: done, or once more from the top if some were busy.
slab_next_sticky(busy) ==
    /\ slab_pos' = IF slab_pos = Len(Page) /\ busy THEN 1 ELSE slab_pos + 1
    /\ busy_items' = busy
slab_next_last(busy) ==
    /\ slab_pos' = IF slab_pos = Len(Page) /\ busy /\ ~busy_items THEN 1 ELSE slab_pos + 1
    /\ busy_items' = (busy /\ slab_pos < Len(Page))
slab_next(busy) ==
    /\ slab_pos' = IF slab_pos = Len(Page) /\ busy THEN 1 ELSE slab_pos + 1
    /\ busy_items' = (busy /\ slab_pos < Len(Page))

\* One item (slab_bulk_check), under cache_lock and slabs_lock.
slab_rebalance_move ==
    /\ slab_rebalance_signal = 2 /\ slab_pos <= Len(Page) /\ cache_lock = Nobody
    /\ LET i == Page[slab_pos]
           unlocked == item_locks[ikey[i]] = Nobody
           free == refcount[i] = 0 /\ i \in slabbed
           idle == refcount[i] = 1 /\ i \in linked
           pass == slabs_clsid[i] = Moved
           done == ~pass /\ unlocked /\ (free \/ idle)
           busy == busy_items \/ ~(pass \/ done)
       IN
       /\ IF done
          THEN /\ refcount' = [refcount EXCEPT ![i] = 0]
               /\ slabs_clsid' = [slabs_clsid EXCEPT ![i] = Moved]
               /\ linked' = linked \ {i} /\ slabbed' = slabbed \ {i}
               /\ slots' = slots \ {i} /\ table' = table \ {i}
               /\ lru' = Without(i) /\ dead' = dead \ {i}
               /\ broken' = IF ListRace /\ idle THEN "unlocked unlink" ELSE broken
               /\ UNCHANGED ikey
          ELSE UNCHANGED <<itemv, lists, broken>>
       /\ slab_next(busy)
    /\ UNCHANGED <<item_locks, cache_lock, slab_rebalance_signal, moved, crawlv, flushes, pc, regs>>

\* slab_rebal.done: the page becomes free items of the other class.
slab_rebalance_finish ==
    /\ slab_rebalance_signal = 2 /\ slab_pos > Len(Page) /\ cache_lock = Nobody
    /\ slabs_clsid' = [i \in Items |-> IF InPage(i) THEN Elsewhere ELSE slabs_clsid[i]]
    /\ slab_rebalance_signal' = 0 /\ slab_pos' = 1 /\ moved' = TRUE
    /\ UNCHANGED <<refcount, linked, slabbed, ikey, dead, lists, item_locks, cache_lock, busy_items,
                   crawlv, flushes, broken, pc, regs>>

-----------------------------------------------------------------------------
(***************************************************************************)
(* The LRU crawler, time, and flush_all.                                   *)
(***************************************************************************)

\* The crawler becomes the tail.  The thread wakes later: until then lru_crawler_lock is
\* free, and the next command links the crawler again.
lru_crawler_crawl ==
    /\ crawls < MaxCrawls /\ ~crawler_running /\ cache_lock = Nobody /\ lru # <<>>
    /\ crawls' = crawls + 1
    /\ IF Crawler \in ToSet(lru)
       THEN broken' = "crawler linked twice" /\ UNCHANGED lru
       ELSE Touch /\ lru' = Append(lru, Crawler)
    /\ UNCHANGED <<itemv, table, slots, item_locks, cache_lock, slabv, crawler_running, flushes, pc,
                   regs>>

crawler_wakes ==
    /\ Crawler \in ToSet(lru) /\ ~crawler_running
    /\ crawler_running' = TRUE
    /\ UNCHANGED <<itemv, lists, item_locks, cache_lock, slabv, crawls, flushes, broken, pc, regs>>

\* The crawler, n-th in the list, changes places with the item before it.
crawler_crawl_q_waits(n) ==
    IF Unused(lru[n - 1]) THEN [lru EXCEPT ![n] = lru[n - 1], ![n - 1] = Crawler] ELSE lru
crawler_crawl_q(n) == [lru EXCEPT ![n] = lru[n - 1], ![n - 1] = Crawler]

\* One step of the crawler: the item it has passed goes if it is dead and nobody uses it.
item_crawler_thread ==
    /\ crawler_running /\ cache_lock = Nobody
    /\ LET s == Prev(Crawler)
           n == CHOOSE n \in 1 .. Len(lru) : lru[n] = Crawler
           evaluate == s \in dead /\ Unused(s) /\ item_locks[ikey[s]] = Nobody
       IN
       \/ /\ s = NoItem
          /\ lru' = Without(Crawler) /\ crawler_running' = FALSE
          /\ UNCHANGED <<itemv, table, slots>>
       \/ /\ s # NoItem /\ ~evaluate
          /\ lru' = crawler_crawl_q(n)
          /\ UNCHANGED <<itemv, table, slots, crawler_running>>
       \/ /\ s # NoItem /\ evaluate
          /\ linked' = linked \ {s} /\ table' = table \ {s} /\ dead' = dead \ {s}
          /\ lru' = Without(s)
          /\ do_item_remove({s})
          /\ UNCHANGED <<ikey, crawler_running>>
    /\ Touch
    /\ UNCHANGED <<item_locks, cache_lock, slabv, crawls, flushes, pc, regs>>

\* exptime passes.
Expire(i) ==
    /\ i \in linked \ dead /\ ikey[i] \in Expiring
    /\ dead' = dead \cup {i}
    /\ UNCHANGED <<refcount, linked, slabbed, slabs_clsid, ikey, lists, item_locks, cache_lock,
                   slabv, crawlv, flushes, broken, pc, regs>>

\* What do_item_flush_expired comes to when the first m of the list are young.
flush_walk_busy(m) ==
    {lru[n] : n \in {n \in 1 .. m : \A j \in 1 .. n : lru[j] # Crawler /\ Unused(lru[j])}}
flush_walk(m) == {lru[n] : n \in {n \in 1 .. m : \A j \in 1 .. n : lru[j] # Crawler}}

\* flush_all: the list is sorted by time.  The items linked in this second come first and
\* are unlinked, up to the crawler; the older ones are dead by oldest_live.
item_flush_expired ==
    /\ flushes < MaxFlushes /\ cache_lock = Nobody
    /\ flushes' = flushes + 1
    /\ \E m \in 0 .. Len(lru) :
        LET young == {lru[n] : n \in 1 .. m} \cap Items
            reached == flush_walk(m)
        IN  /\ linked' = linked \ reached /\ table' = table \ reached
            /\ lru' = SelectSeq(lru, LAMBDA x : x \notin reached)
            /\ dead' = (dead \cup (linked \ young)) \ reached
            /\ do_item_remove(reached)
            /\ broken' = IF \E w \in Workers : pc[w] = "count" /\ old[w] \in reached
                                               /\ refcount[old[w]] = 1
                         THEN "freed before counted"
                         ELSE IF ListRace /\ reached # {} THEN "unlocked unlink" ELSE broken
    /\ UNCHANGED <<ikey, item_locks, cache_lock, slabv, crawlv, pc, regs>>

slab_rebalance_thread == slab_rebalance_start \/ slab_rebalance_move \/ slab_rebalance_finish

Next ==
    /\ broken = "no"
    /\ \/ \E w \in Workers : Request(w) \/ Worker(w)
       \/ slabs_reassign \/ slab_rebalance_thread
       \/ lru_crawler_crawl \/ crawler_wakes \/ item_crawler_thread
       \/ \E i \in Items : Expire(i)
       \/ item_flush_expired

Spec == Init /\ [][Next]_vars

\* What a connection waits for: the rest of the value, or the client reading the reply.
ClientHolds(w) == pc[w] = "upload" \/ (pc[w] = "release" /\ op[w] = "get")

\* The threads run and get their mutexes; nothing is assumed of the clients.
Fairness ==
    /\ \A w \in Workers : WF_vars(broken = "no" /\ ~ClientHolds(w) /\ Worker(w))
    /\ WF_vars(broken = "no" /\ slab_rebalance_thread)
    /\ WF_vars(broken = "no" /\ (crawler_wakes \/ item_crawler_thread))

FairSpec == Spec /\ Fairness

-----------------------------------------------------------------------------
(***************************************************************************)
(* Properties.                                                             *)
(***************************************************************************)

\* The references worker w counts as its own.
Holds(w) == ({it[w], new[w]} \cup (IF pc[w] = "count" THEN {} ELSE {old[w]})) \ {NoItem}

Sound == broken = "no"

\* Types.  An item has at most the references of the workers, and the one of being linked.
TypeOK ==
    /\ refcount \in [Items -> 0 .. 2 * Cardinality(Workers) + 1]
    /\ linked \subseteq Items /\ slabbed \subseteq Items /\ dead \subseteq linked
    /\ slabs_clsid \in [Items -> {0, Class, Moved, Elsewhere}] /\ ikey \in [Items -> Keys]
    /\ lru \in Seq(Items \cup {Crawler}) /\ table \subseteq Items /\ slots \subseteq Items
    /\ item_locks \in [Keys -> Workers \cup {Nobody}] /\ cache_lock \in Workers \cup {Nobody}
    /\ slab_rebalance_signal \in 0 .. 2 /\ slab_pos \in 1 .. Len(Page) + 1
    /\ {busy_items, moved, crawler_running} \subseteq BOOLEAN
    /\ crawls \in 0 .. MaxCrawls /\ flushes \in 0 .. MaxFlushes /\ ops \in 0 .. MaxOps
    /\ {it[w] : w \in Workers} \cup {old[w] : w \in Workers} \cup {new[w] : w \in Workers}
          \subseteq Items \cup {NoItem}
    /\ tries \in [Workers -> 0 .. Tries]

\* The count of an item is exactly its link plus the workers that hold it: no path through
\* get, store, delete, eviction, crawler, flush or slab move loses or doubles one.
RefcountExact ==
    Sound => \A i \in Items :
        refcount[i] = (IF i \in linked THEN 1 ELSE 0) + Cardinality({w \in Workers : i \in Holds(w)})

\* An item a worker uses is still the item of its key: it is not on the free list, was not
\* moved with its page, and was not evicted and written over for another key.
HeldStays ==
    Sound => \A w \in Workers : \A i \in Holds(w) :
        /\ i \notin slots
        /\ slabs_clsid[i] \notin {Moved, Elsewhere}
        /\ pc[w] \notin {"init", "init2"} => ikey[i] = key[w] /\ slabs_clsid[i] = Class

\* The hash table and the LRU list have the same items, each once, no two of one key, and
\* none of them is free.
ListsAgree ==
    Sound =>
        /\ IsInjective(lru)
        /\ ToSet(lru) \ {Crawler} = linked /\ table = linked
        /\ \A i, j \in table : ikey[i] = ikey[j] => i = j
        /\ linked \cap slots = {}

\* No memory is lost: an item is linked, in use, on the free list, or gone with its page.
NoLeak ==
    Sound => \A i \in Items :
        i \in linked \cup slots \cup UNION {Holds(w) : w \in Workers} \/ slabs_clsid[i] \in {Moved, Elsewhere}

\* slab_rebalance_finish: "At this point the stolen slab is completely clear".  Nobody has an
\* item of the page, none is linked or free, also after items were busy in earlier passes.
StolenSlabClear ==
    Sound /\ slab_rebalance_signal = 2 /\ slab_pos > Len(Page) =>
        \A n \in 1 .. Len(Page) :
            /\ slabs_clsid[Page[n]] = Moved
            /\ Page[n] \notin linked \cup slots \cup UNION {Holds(w) : w \in Workers}

\* The items that flush_all leaves alive are the young ones the crawler hides: the walk from
\* the head stops at it.
FlushStopsAtCrawler ==
    [][flushes' # flushes /\ linked' # dead' =>
         \E n \in 1 .. Len(lru') : lru'[n] = Crawler /\
             \A i \in linked' \ dead' : \E j \in n .. Len(lru') : lru'[j] = i]_vars

\* doc/protocol.txt on flush_all: it will "invalidate all existing items".
FlushInvalidatesAll == [][flushes' # flushes => linked' = dead']_vars

\* A slab move ends, unless from some time on a client that stalls keeps an item busy.
MoveEnds ==
    \/ []<>(slab_rebalance_signal = 0 \/ ~Sound)
    \/ <>[](\E w \in Workers : ClientHolds(w) /\ \E i \in Holds(w) : InPage(i))

\* The crawler comes to the head of the list and leaves it, though the items it has yet to
\* pass are moved, unlinked and linked under it.
CrawlEnds == []<>(Crawler \notin ToSet(lru) \/ ~Sound)

=============================================================================
