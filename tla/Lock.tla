------------------------------- MODULE Lock -------------------------------
(***************************************************************************)
(* core-lock.c, built with atomic spin locks: a pool of STRESS_LOCK_MAX      *)
(* locks in shared memory, the first of which (the big lock) protects the   *)
(* pool.  The actions are steps of whatever process calls the library; the  *)
(* modules that use it conjoin them with steps of their own.                *)
(***************************************************************************)
EXTENDS Integers, FiniteSets

CONSTANT MaxLocks   \* STRESS_LOCK_MAX

ASSUME MaxLocksAssumption == MaxLocks \in Nat \ {0}

VARIABLES magic,    \* slots whose magic is STRESS_LOCK_MAGIC
          flag      \* slots whose u.flag is set

lockVars == <<magic, flag>>

Slot == 0..(MaxLocks - 1)
Big == 0
NULL == -1

LockType == magic \subseteq Slot /\ flag \subseteq Slot

\* stress_lock_mem_map
LockInit == magic = {Big} /\ flag = {}

\* Wrong variant: the flag is read and set without test_and_set.
AcquireNoTest(l) ==
    /\ l \in magic
    /\ flag' = flag \cup {l}
    /\ UNCHANGED magic

\* The spin ends: test_and_set found the flag clear.
AcquireLock(l) ==
    /\ l \in magic /\ l \notin flag
    /\ flag' = flag \cup {l}
    /\ UNCHANGED magic

\* Wrong variant: the spin on a taken lock never gives up.
AcquireNeverFails(l, stopped) == l \notin magic /\ UNCHANGED lockVars

\* EINVAL, or EAGAIN after more than 5 seconds with the continue flag cleared.
AcquireFails(l, stopped) ==
    /\ l \notin magic \/ (l \in flag /\ stopped)
    /\ UNCHANGED lockVars

ReleaseLock(l) ==
    /\ flag' = IF l \in magic THEN flag \ {l} ELSE flag
    /\ UNCHANGED magic

\* The slot the loop of stress_lock_get stops at, NULL if all are taken.
FirstFree(l) ==
    \/ /\ l \in Slot \ magic
       /\ \A k \in Slot \ magic : l <= k
    \/ l = NULL /\ Slot \subseteq magic

\* Wrong variant: no test whether a free slot was found.
MarkUnchecked(l) ==
    /\ magic' = magic \cup {l}
    /\ UNCHANGED flag

\* lock->magic = STRESS_LOCK_MAGIC
MarkUsed(l) ==
    /\ magic' = magic \cup ({l} \ {NULL})
    /\ UNCHANGED flag

\* stress_lock_funcs.init(lock)
InitLock(l) ==
    /\ flag' = flag \ {l}
    /\ UNCHANGED magic

\* stress_lock_put: memset of the whole lock.
ClearLock(l) ==
    /\ magic' = magic \ {l}
    /\ flag' = flag \ {l}
=============================================================================
