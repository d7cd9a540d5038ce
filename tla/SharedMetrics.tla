---------------------------- MODULE SharedMetrics ----------------------------
(***************************************************************************)
(* Memory the stressors share for their metrics.  First main, alone, adds up  *)
(* the size of all arrays (stressor_stats_size), makes a heap of that size   *)
(* (stress_shared_heap_init) and carves the arrays out of it one by one      *)
(* (stress_stats_buffers_setup).  Then the stressor processes, all at once,  *)
(* enter their metrics under the metrics lock (stress_metrics_set) and       *)
(* create and destroy locks of their own; a process may be killed at any     *)
(* step, whatever lock it holds.                                             *)
(***************************************************************************)
EXTENDS Lock

CONSTANTS
    Items,      \* number of stressors in the list
    Instances,  \* Instances[k]: instances of the k-th
    MaxItems,   \* MaxItems[k]: its max_metrics_items, 8 if not given
    InfoSize,   \* sizeof(stress_metrics_info_t)
    DescSize,   \* sizeof(stress_metrics_desc_t)
    PageSize,   \* a power of two, at least 8
    Creators,   \* the instances that create a lock of their own
    Desc,       \* metric descriptions, each with its mean type
    MaxCalls,   \* bound: calls of stress_metrics_set by one instance
    MaxKills    \* bound: processes killed

Item == 1..Items
Proc == UNION {{<<k, j>> : j \in 1..Instances[k]} : k \in Item}
None == <<"none">>     \* description[0] = '\0'

ASSUME ItemsAssumption ==
    /\ Items \in Nat
    /\ Instances \in [Item -> Nat] /\ MaxItems \in [Item -> Nat \ {0}]
ASSUME SizesAssumption ==
    /\ InfoSize \in Nat /\ InfoSize % 8 = 0
    /\ DescSize \in Nat
    /\ PageSize \in Nat \ {0} /\ PageSize % 8 = 0
ASSUME BoundsAssumption ==
    /\ None \notin Desc /\ Creators \subseteq Proc
    /\ MaxCalls \in Nat /\ MaxKills \in Nat /\ MaxLocks > 2

VARIABLES
    mpc,            \* where main is
    item, inst,     \* its loop indices
    total,          \* sum of stressor_stats_size so far
    need,           \* need[k]: that sum when item k was reached
    heap_size, offset, out_of_memory,   \* g_shared->shared_heap
    chunks,         \* what stress_shared_heap_malloc has returned
    num,            \* num_metrics_items of each item
    descs,          \* metrics_desc of each item
    overflow,       \* items with overflow_metrics_items
    values,         \* metrics_values: the description each was set for
    pc,             \* where each stressor process is
    own,            \* the lock it has created
    arg, idx,       \* description and index of its call of stress_metrics_set
    calls, kills, stopped

heapVars == <<mpc, item, inst, total, need, heap_size, offset, out_of_memory, chunks>>
tableVars == <<num, descs, overflow, values>>
procVars == <<own, arg, idx, calls, kills, stopped>>
vars == <<heapVars, tableVars, procVars, pc, lockVars>>

HeapLock == 1
MetricsLock == 2

ProcPc == {"off", "create", "scan", "mark", "unlock", "init", "ready", "acquire", "search",
           "fill", "count", "release", "set", "too many", "overflow", "destroy", "put",
           "putdone", "done", "dead"}

HeapType ==
    /\ mpc \in {"size", "info", "desc", "values", "run", "failed"}
    /\ item \in 1..(Items + 1) /\ inst \in Nat
    /\ total \in Nat /\ need \in [1..(Items + 1) -> Nat]
    /\ heap_size \in Nat /\ offset \in Nat /\ out_of_memory \in BOOLEAN
    /\ chunks \subseteq [at : Nat, len : Nat]

Index(k) == 1..MaxItems[k]

TableType ==
    /\ num \in [Item -> Nat] /\ DOMAIN descs = Item /\ DOMAIN values = Proc
    /\ \A k \in Item : descs[k] \in [Index(k) -> Desc \cup {None}]
    /\ overflow \subseteq Item
    /\ \A p \in Proc : values[p] \in [Index(p[1]) -> Desc \cup {None}]
    /\ pc \in [Proc -> ProcPc]
    /\ own \in [Proc -> Slot \cup {NULL}] /\ idx \in [Proc -> Nat]
    /\ arg \in [Proc -> Desc \cup {None}]
    /\ calls \in [Proc -> 0..MaxCalls] /\ kills \in 0..MaxKills /\ stopped \in BOOLEAN

TypeOK == LockType /\ HeapType /\ TableType

Init ==
    /\ LockInit
    /\ mpc = "size" /\ item = 1 /\ inst = 0
    /\ total = 0 /\ need = [k \in 1..(Items + 1) |-> 0]
    /\ heap_size = 0 /\ offset = 0 /\ out_of_memory = FALSE /\ chunks = {}
    /\ num = [k \in Item |-> 0]
    /\ descs = [k \in Item |-> [i \in Index(k) |-> None]]
    /\ overflow = {}
    /\ values = [p \in Proc |-> [i \in Index(p[1]) |-> None]]
    /\ pc = [p \in Proc |-> "off"]
    /\ own = [p \in Proc |-> NULL] /\ idx = [p \in Proc |-> 0]
    /\ arg = [p \in Proc |-> None] /\ calls = [p \in Proc |-> 0]
    /\ kills = 0 /\ stopped = FALSE
-----------------------------------------------------------------------------
(* Main: sizing the heap, and filling it. *)

\* (x + a - 1) & ~(a - 1) for a power of two a.
RoundUp(x, a) == ((x + a - 1) \div a) * a

\* Wrong variant: nothing added for the alignment of each allocation.
ItemSizeExact(k) ==
    (8 * (Instances[k] * MaxItems[k])) + (DescSize * MaxItems[k]) + InfoSize

\* What stressor_stats_size adds for one stressor.
ItemSize(k) ==
    (8 + (8 * (Instances[k] * MaxItems[k]))) + (8 + (DescSize * MaxItems[k])) + (8 + InfoSize)

SizeItem ==
    /\ mpc = "size" /\ item <= Items
    /\ total' = total + ItemSize(item)
    /\ need' = [need EXCEPT ![item + 1] = total + ItemSize(item)]
    /\ item' = item + 1
    /\ UNCHANGED <<mpc, inst, heap_size, offset, out_of_memory, chunks, tableVars,
                   procVars, pc, lockVars>>

\* stress_shared_heap_init, and stress_global_lock_create for the metrics lock.
stress_shared_heap_init ==
    /\ mpc = "size" /\ item = Items + 1
    /\ heap_size' = RoundUp(IF total > 0 THEN total ELSE 1, PageSize)
    /\ out_of_memory' = FALSE
    /\ magic' = magic \cup {HeapLock, MetricsLock}
    /\ item' = 1
    /\ mpc' = "info"
    /\ UNCHANGED <<inst, total, need, offset, chunks, tableVars, procVars, pc, flag>>

\* mmap or the creation of the lock fails.
HeapInitFails ==
    /\ mpc = "size" /\ item = Items + 1
    /\ mpc' = "failed"
    /\ UNCHANGED <<item, inst, total, need, heap_size, offset, out_of_memory, chunks,
                   tableVars, procVars, pc, lockVars>>

\* Wrong variant: sizes rounded down instead of up.
MallocRoundsDown(size) ==
    IF heap_size - offset < size
    THEN out_of_memory' = TRUE /\ UNCHANGED <<offset, chunks>>
    ELSE /\ chunks' = chunks \cup {[at |-> offset, len |-> size]}
         /\ offset' = offset + (size \div 8) * 8
         /\ UNCHANGED out_of_memory

\* The heap lock is taken and given back inside; nobody else wants it.
stress_shared_heap_malloc(size) ==
    IF heap_size - offset < size
    THEN out_of_memory' = TRUE /\ UNCHANGED <<offset, chunks>>
    ELSE /\ chunks' = chunks \cup {[at |-> offset, len |-> size]}
         /\ offset' = offset + RoundUp(size, 8)
         /\ UNCHANGED out_of_memory

\* A malloc of stress_stats_buffers_setup, which gives up if it fails.
Carve(size, next, k, j) ==
    /\ stress_shared_heap_malloc(size)
    /\ mpc' = IF heap_size - offset < size THEN "failed" ELSE next
    /\ item' = k /\ inst' = j
    /\ UNCHANGED <<total, need, heap_size, tableVars, procVars, pc, lockVars>>

CarveInfo ==
    /\ mpc = "info" /\ item <= Items
    /\ Carve(InfoSize, "desc", item, inst)

CarveDesc ==
    /\ mpc = "desc"
    /\ Carve(MaxItems[item] * DescSize, "values", item, 0)

CarveValues ==
    /\ mpc = "values" /\ inst < Instances[item]
    /\ Carve(MaxItems[item] * 8, "values", item, inst + 1)

NextItem ==
    /\ mpc = "values" /\ inst = Instances[item]
    /\ mpc' = "info" /\ item' = item + 1 /\ inst' = 0
    /\ UNCHANGED <<total, need, heap_size, offset, out_of_memory, chunks, tableVars,
                   procVars, pc, lockVars>>

\* The stressors are started; some create a lock first.
StartAll ==
    /\ mpc = "info" /\ item = Items + 1
    /\ mpc' = "run"
    /\ pc' = [p \in Proc |-> IF p \in Creators THEN "create" ELSE "ready"]
    /\ UNCHANGED <<item, inst, total, need, heap_size, offset, out_of_memory, chunks,
                   tableVars, procVars, lockVars>>
-----------------------------------------------------------------------------
(* Stressor processes. *)

Goto(p, from, to) == pc[p] = from /\ pc' = [pc EXCEPT ![p] = to]

\* stress_lock_create: stress_lock_get under the big lock, then init.
CreateAcquire(p) ==
    /\ \/ Goto(p, "create", "scan") /\ AcquireLock(Big)
       \/ Goto(p, "create", "done") /\ AcquireFails(Big, stopped)
    /\ UNCHANGED <<heapVars, tableVars, procVars>>

CreateScan(p) ==
    /\ Goto(p, "scan", "mark")
    /\ \E l \in Slot \cup {NULL} : FirstFree(l) /\ own' = [own EXCEPT ![p] = l]
    /\ UNCHANGED <<heapVars, tableVars, arg, idx, calls, kills, stopped, lockVars>>

CreateMark(p) ==
    /\ Goto(p, "mark", "unlock")
    /\ MarkUsed(own[p])
    /\ UNCHANGED <<heapVars, tableVars, procVars>>

\* Without a lock the stressor gives up.
CreateUnlock(p) ==
    /\ Goto(p, "unlock", IF own[p] = NULL THEN "done" ELSE "init")
    /\ ReleaseLock(Big)
    /\ UNCHANGED <<heapVars, tableVars, procVars>>

CreateInit(p) ==
    /\ Goto(p, "init", "ready")
    /\ InitLock(own[p])
    /\ UNCHANGED <<heapVars, tableVars, procVars>>

\* stress_lock_destroy: stress_lock_put under the big lock (deinit does nothing).
DestroyAcquire(p) ==
    /\ \/ Goto(p, "destroy", "put") /\ AcquireLock(Big) /\ UNCHANGED own
       \/ Goto(p, "destroy", "done") /\ AcquireFails(Big, stopped)
          /\ own' = [own EXCEPT ![p] = NULL]
    /\ UNCHANGED <<heapVars, tableVars, arg, idx, calls, kills, stopped>>

DestroyPut(p) ==
    /\ Goto(p, "put", "putdone")
    /\ ClearLock(own[p])
    /\ own' = [own EXCEPT ![p] = NULL]
    /\ UNCHANGED <<heapVars, tableVars, arg, idx, calls, kills, stopped>>

DestroyDone(p) ==
    /\ Goto(p, "putdone", "done")
    /\ ReleaseLock(Big)
    /\ UNCHANGED <<heapVars, tableVars, procVars>>

\* stress_metrics_set(args, description, ...): stress_metrics_find is called.
SetBegin(p) ==
    /\ Goto(p, "ready", "acquire") /\ calls[p] < MaxCalls
    /\ calls' = [calls EXCEPT ![p] = @ + 1]
    /\ \E d \in Desc : arg' = [arg EXCEPT ![p] = d]
    /\ UNCHANGED <<heapVars, tableVars, own, idx, kills, stopped, lockVars>>

\* A metric that cannot be entered is dropped.
FindAcquire(p) ==
    /\ \/ Goto(p, "acquire", "search") /\ AcquireLock(MetricsLock)
       \/ Goto(p, "acquire", "ready") /\ AcquireFails(MetricsLock, stopped)
    /\ UNCHANGED <<heapVars, tableVars, procVars>>

Matches(p) == {i \in Index(p[1]) : i <= num[p[1]] /\ descs[p[1]][i] = arg[p]}

\* Wrong variant: the lock is released at once when there is a match, and once
\* more on the way out.
SearchReleases(p) ==
    /\ pc[p] = "search"
    /\ \/ /\ Matches(p) # {} /\ pc' = [pc EXCEPT ![p] = "release"]
          /\ \E i \in Matches(p) : idx' = [idx EXCEPT ![p] = i]
          /\ ReleaseLock(MetricsLock)
       \/ /\ Matches(p) = {} /\ idx' = [idx EXCEPT ![p] = num[p[1]] + 1]
          /\ pc' = [pc EXCEPT ![p] =
                       IF num[p[1]] >= MaxItems[p[1]] THEN "too many" ELSE "fill"]
          /\ UNCHANGED lockVars
    /\ UNCHANGED <<heapVars, tableVars, own, arg, calls, kills, stopped>>

\* The loop over the entries, and the test for overflow.
FindSearch(p) ==
    /\ pc[p] = "search"
    /\ \/ /\ pc' = [pc EXCEPT ![p] = "release"]
          /\ \E i \in Matches(p) :
                (\A j \in Matches(p) : i <= j) /\ idx' = [idx EXCEPT ![p] = i]
       \/ /\ Matches(p) = {} /\ idx' = [idx EXCEPT ![p] = num[p[1]] + 1]
          /\ pc' = [pc EXCEPT ![p] =
                       IF num[p[1]] >= MaxItems[p[1]] THEN "too many" ELSE "fill"]
    /\ UNCHANGED <<heapVars, tableVars, own, arg, calls, kills, stopped, lockVars>>

\* Wrong variant: num_metrics_items is incremented first.
FillCountsFirst(p) ==
    /\ Goto(p, "fill", "count")
    /\ num' = [num EXCEPT ![p[1]] = @ + 1]
    /\ UNCHANGED <<heapVars, descs, overflow, values, procVars, lockVars>>

FindFill(p) ==
    /\ Goto(p, "fill", "count")
    /\ descs' = [descs EXCEPT ![p[1]][idx[p]] = arg[p]]
    /\ UNCHANGED <<heapVars, num, overflow, values, procVars, lockVars>>

FindCount(p) ==
    /\ Goto(p, "count", "release")
    /\ num' = [num EXCEPT ![p[1]] = @ + 1]
    /\ UNCHANGED <<heapVars, descs, overflow, values, procVars, lockVars>>

FindRelease(p) ==
    /\ Goto(p, "release", "set") \/ Goto(p, "too many", "overflow")
    /\ ReleaseLock(MetricsLock)
    /\ UNCHANGED <<heapVars, tableVars, procVars>>

FindOverflow(p) ==
    /\ Goto(p, "overflow", "ready")
    /\ overflow' = overflow \cup {p[1]}
    /\ UNCHANGED <<heapVars, num, descs, values, procVars, lockVars>>

\* Wrong variant: the value goes to the last entry of the table.
SetValueLast(p) ==
    /\ Goto(p, "set", "ready")
    /\ values' = [values EXCEPT ![p][num[p[1]]] = arg[p]]
    /\ UNCHANGED <<heapVars, num, descs, overflow, procVars, lockVars>>

\* stats->metrics_values[idx] = value, after the lock was released.
SetValue(p) ==
    /\ Goto(p, "set", "ready")
    /\ values' = [values EXCEPT ![p][idx[p]] = arg[p]]
    /\ UNCHANGED <<heapVars, num, descs, overflow, procVars, lockVars>>

\* The stressor ends, and destroys its lock if it has one.
Leave(p) ==
    /\ Goto(p, "ready", IF own[p] = NULL THEN "done" ELSE "destroy")
    /\ UNCHANGED <<heapVars, tableVars, procVars, lockVars>>

Step(p) ==
    \/ CreateAcquire(p) \/ CreateScan(p) \/ CreateMark(p) \/ CreateUnlock(p) \/ CreateInit(p)
    \/ DestroyAcquire(p) \/ DestroyPut(p) \/ DestroyDone(p)
    \/ FindAcquire(p) \/ FindSearch(p) \/ FindFill(p) \/ FindCount(p) \/ FindRelease(p)
    \/ FindOverflow(p) \/ SetValue(p) \/ Leave(p)

\* A round of a spin that finds the flag set.
Spin(p) ==
    /\ \/ pc[p] \in {"create", "destroy"} /\ Big \in flag
       \/ pc[p] = "acquire" /\ MetricsLock \in flag
    /\ UNCHANGED vars

\* SIGKILL, or a crash.
Killed(p) ==
    /\ kills < MaxKills /\ pc[p] \notin {"off", "done", "dead"}
    /\ pc' = [pc EXCEPT ![p] = "dead"]
    /\ kills' = kills + 1
    /\ UNCHANGED <<heapVars, tableVars, own, arg, idx, calls, stopped, lockVars>>

\* The continue flag is cleared: SIGALRM or SIGINT.
Stop ==
    /\ mpc = "run" /\ ~stopped
    /\ stopped' = TRUE
    /\ UNCHANGED <<heapVars, tableVars, own, arg, idx, calls, kills, pc, lockVars>>

MainStep ==
    \/ SizeItem \/ stress_shared_heap_init \/ CarveInfo \/ CarveDesc \/ CarveValues
    \/ NextItem \/ StartAll

Ended ==
    /\ mpc = "failed" \/ (mpc = "run" /\ \A p \in Proc : pc[p] \in {"done", "dead"})
    /\ UNCHANGED vars

Next ==
    \/ MainStep \/ HeapInitFails \/ Stop \/ Ended
    \/ \E p \in Proc : Step(p) \/ SetBegin(p) \/ Spin(p) \/ Killed(p)

Spec == Init /\ [][Next]_vars

\* Every process that can take a step takes one; metrics are set, and
\* processes killed, only now and then.
Fairness == WF_vars(MainStep) /\ \A p \in Proc : WF_vars(Step(p))

FairSpec == Spec /\ Fairness
-----------------------------------------------------------------------------
(***************************************************************************)
(* Properties.                                                             *)
(***************************************************************************)
\* The arrays main has carved out of the heap do not overlap and lie inside it,
\* although each one is rounded up after the check that it fits.
ChunksDisjoint ==
    /\ \A c \in chunks : c.at + c.len <= heap_size
    /\ \A c, d \in chunks :
          c # d => c.at + c.len <= d.at \/ d.at + d.len <= c.at

\* stressor_stats_size and stress_stats_buffers_setup, two loops that know
\* nothing of each other, agree: the heap is never too small for the arrays,
\* and so "failed to create shared statistics arrays" is never printed.
HeapSuffices == ~out_of_memory

\* Every value an instance has entered is found under the description it was
\* entered for, inside the table, although the index is used after the lock has
\* been released.
ValuesUnderOwnName ==
    \A p \in Proc :
        /\ \A i \in Index(p[1]) : values[p][i] # None =>
              i <= num[p[1]] /\ descs[p[1]][i] = values[p][i]
        /\ pc[p] = "set" => idx[p] \in Index(p[1])

\* What main reports in the end: the entries counted are complete and all
\* different, also when a process was killed half-way through an entry.
EntriesDistinct ==
    \A k \in Item :
        /\ num[k] <= MaxItems[k]
        /\ \A i \in 1..num[k] : descs[k][i] # None
        /\ \A i, j \in 1..num[k] : descs[k][i] = descs[k][j] => i = j

\* Handles in use: no two processes have the same lock of the pool, and nobody
\* has one of the locks main has created.
HasLock(p) == pc[p] \notin {"scan", "mark"} /\ own[p] # NULL
PoolExclusive ==
    \A p \in Proc : HasLock(p) =>
        /\ own[p] \notin {Big, HeapLock, MetricsLock}
        /\ \A q \in Proc \ {p} : HasLock(q) => own[p] # own[q]

\* A process killed while it holds the metrics lock or the big lock stops
\* nobody for ever: once the continue flag is cleared everybody ends.
StopEnds == stopped ~> \A p \in Proc : pc[p] \in {"done", "dead"}

\* The holder of the metrics lock.
InMetrics(p) == pc[p] \in {"search", "fill", "count", "release", "too many"}
FreeLock == <<0, 0>>
GoneOwner == <<0, 1>>
MetricsOwner ==
    IF MetricsLock \notin flag THEN FreeLock
    ELSE IF \E p \in Proc : InMetrics(p) THEN CHOOSE p \in Proc : InMetrics(p)
    ELSE GoneOwner

ML == INSTANCE AbstractLock WITH Free <- FreeLock, Gone <- GoneOwner, owner <- MetricsOwner

\* The spin lock, as stress_metrics_find uses it, is a lock: nobody gets it
\* while another has it, and only its holder gives it back.
ImplementsLock == ML!Spec
=============================================================================
