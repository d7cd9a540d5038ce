# Formal models of stress-ng's supervisor

TLA+ models, model-checking runs and machine-checked proofs for the core of this
stress-ng tree: the process that starts several hundred workloads, waits for
them, stops them and turns what became of them into an exit status. Everything
below is derived from the C source; line numbers refer to `src/`.

## 1. Inventory

### The system

`stress-ng.c` is a supervisor. For every *instance* of every selected *stressor*
(one `stress-*.c` file) it forks a process, which runs the workload until a
timeout, a bogo-op limit or a signal stops it. Supervisor and stressors share
memory (`g_shared`, the `stress_stats_t` of each instance) and signals, and very
few locks: most of what they agree on is plain loads and stores.

| Component | State | Operations | Properties that make it correct |
|---|---|---|---|
| Supervisor (`stress_run`, `stress_stressors_wait`, `stress_wait_status`, `stress_stressors_kill`, handlers) | continue flag (private per process), `s_pid.pid`, `reaped`, `signalled`, `max_ops` (shared), reap count, kill count | start, record, poll, reap, stop, abort | no process left behind, exact reap count, a stop reaches everybody and is never lost, only own processes signalled, termination |
| Run modes (`stress_sequential_run`, `stress_parallel_run`, `stress_permute_run`) | the list of stressors and their ignore flags | repeated `stress_run` | state of one run does not leak into the next |
| Stats pid hash (469-541) | bucket array (private, copied by fork), `hash_next` (shared) | add, find | every exit status reaches its instance, look-ups end |
| Exit accounting (1122-1239, 5060-5067) | `item->status[]`, three verdict flags | count one wait status, exit status | each instance counted once, status agrees with summary |
| `--sync-start` (`core-sync.c`) | one state byte per instance, `oomable_child` | store, SIGSTOP, poll, SIGCONT | nobody runs early, nobody stays stopped |
| Oomable child (`core-out-of-memory.c`) | pid of the child, signal index | fork, wait, escalate, restart | the wait ends, restarts lose no count, only real out-of-memory kills are called so |
| Metrics check (1780-1800, 2142-2240) | counters, checksums, `completed` | reset, count, publish, compare | every corruption reported, every report explained |
| Metrics (1478-1556, 3384-3490) | tables of descriptions, values per instance | size, carve, find or add, set | values under their own names, entries distinct |
| Shared heap (`core-shared-heap.c`) | offset, size | init, malloc | disjoint chunks in bounds, large enough |
| Locks (`core-lock.c`) | magic and flag of each slot of a pool | create, destroy, acquire, release | mutual exclusion, no slot given twice, nobody waits for ever after a stop |
| Network ports (`core-net.c`) | bitmap of reserved ports, lock | reserve, release | no port given to two stressors |
| Dekker and Peterson (`stress-dekker.c`, `stress-peterson.c`) | want flags, turn, a check counter | entry, count, exit, verdict | mutual exclusion and no starvation on the memory model, no false accusation, verdict kept |
| Child killing (`core-killpid.c`) | try counts | signal until reaped | bounded, never hits a foreign pid |
| Log (`core-log.c`) | failure count | pr_fail | five failures stop all and make the stressor fail |
| Helper daemons (klog, vmstat, smart, thrash, ftrace, ignite-cpu) | own processes | start, stop | not mistaken for stressors |
| Options, settings, jobs; affinity, resctrl; random numbers, hashing, sorting; portability layers; the stressors; `scripts/sdc-*.sh` | | | sequential, I/O, or independent workloads |

What is hard here: signals that arrive at any instruction of any process;
`fork()` copying private state that then diverges; pids that are stored by two
processes and reused by the kernel; counts taken once from memory that goes on
changing; SIGSTOP and SIGCONT that may overtake the states they answer;
processes that die, by design, at any moment. `PROJECT.json` lists each hazard
at its line with the properties that cover it.

### Plan

Done: `StatsHash`, `Supervisor` (with the stop after five logged failures),
`SyncStart`, `AbstractLock`, `Lock`, `SharedMetrics`, `NetPorts`,
`MutexStressors`, `BogoMetrics`; proof modules for all of them that have a passing
run, so that a theorem stands behind every invariant a passing run checks. Left,
in this order:

1. An abstract "run" specification (start a set, every member ends exactly once,
   then report), with `Supervisor` shown to implement it.
2. `core-killpid.c`: `stress_kill_and_wait_many` with its escalation and giving up.
3. The other lock variants of `core-lock.c` against `AbstractLock`.
4. `core-sort.c` and `core-prime.c` as operators against reference definitions.

Theorem to come: the refinement of item 1.

## 2. Modules

`MC*.tla` hold the constants of the TLC instances; definitions named as
"wrong variant" are deliberately broken versions of the definition that follows,
with which each property is shown to be able to fail.

### StatsHash

One supervisor and its stressors around the pid hash table. `table` is the bucket
array, `next` the shared links, `pid` the shared pids, `owner` and `dead` the
kernel's view of pids. `Start` is the fork with `stress_stats_hash_table_add`;
`WaitReturns`, `FindNext`, `FindHit` and `FindNull` are `stress_child_wait` with
the loop of `stress_stats_pid_find` taken one link at a time, since stressors
walk the same links in `stress_sigchld_helper_handler` (`Sigchld`, `SigchldStep`)
on their own copy of the bucket array. Pids are reused as soon as they are waited
for. Data left out: everything in `stress_stats_t` but the link and the pid.

### Supervisor

`stress_run` with its error paths (`ForkAgain`, `ForkFails`, `StartedStopped`),
the wait loops (`stress_wait_reap_count`, `WaitReturns`, `stress_wait_status`),
signals to the supervisor (`MainSigint`, `MainSigalrm`, and
`MainSigalrmDefault` before the handler is installed) and `stress_child_run` in
each stressor process step by step (`ChildBorn` to `ChildExit`). A stressor is
what it may do to the supervisor: work on, return a status, call `exit()`, crash
or be killed. Pids are abstracted to "-1, a process, 0", as reuse is `StatsHash`'s
subject. `stress_stressors_kill` in a handler of a stressor goes through the
instances one by one: `HandlerLooks` loads and tests the pid, `HandlerKills` uses it,
and anything may happen in between, main's `waitpid` included. SIGINT is masked in
the handler it started; a SIGALRM may come in the middle of it. In main, which is
the only caller of `waitpid`, the handler with its `stress_stressors_kill` is one
step; that `stress_wait_status` or main's handler is interrupted half-way by another
signal is not modelled. Signals are sets of pending signals, so two equal ones merge,
as they do in the kernel. `setting` holds what an execution has been given: whether
there is a timeout, how stressors may end, and whether main may be killed; it is
chosen in `Init` from `Settings`, so that one run covers several. `seen` is a history
variable: how often `waitpid` has returned the two statuses for which the summary
and the exit status are kept apart. Left out: dry runs, counters and measurements
around the stressor, messages.

### SyncStart

The barrier of `core-sync.c`, used by all stressors. The three *kinds* differ in
where `stress_sync_start_wait` is called: in the stressor process (`plain`), in
the stressor process before it forks an oomable child (`before`, e.g.
`stress-vm.c`), or inside that child (`inside`, e.g. `stress-malloc.c`). Every
load, store and kill of the protocol is a step of its own. What a pid in
`oomable_child` names (nobody, the present child, one that is gone) replaces the
number. `UserStop`, `Dies` and `ChildOomed` disturb it at any point. A process
killed, or a stop, can make the program hang here (section 5), so the runs do
not check for deadlock.

### AbstractLock and Lock

`AbstractLock` is what one lock promises: taken when free, given back by its
holder only, and kept for ever by a holder that is killed. `Lock` is the library
in `core-lock.c` as it is built with atomic spin locks: a pool whose first slot,
the big lock, protects the others. Its actions are steps of whichever process
calls the library, so modules that use it `EXTENDS` it and conjoin its actions
with their own. `AcquireFails` is the five-second limit of
`stress_atomic_lock_acquire`, which counts only once the continue flag is
cleared, or a handle whose magic is gone.

### SharedMetrics

Composes `Lock` with the shared heap and the metrics tables. First main alone:
`SizeItem` (`stressor_stats_size`), `stress_shared_heap_init`, and `CarveInfo`,
`CarveDesc`, `CarveValues` (the allocations of `stress_stats_buffers_setup`, in
bytes, with the rounding of `stress_shared_heap_malloc`). Then the stressor
processes, concurrently: creating and destroying locks of their own under the
big lock (`Create*`, `Destroy*`), and `stress_metrics_set`, where the search, the
store of the description, the increment of the count, the release and the store
of the value are separate steps. `Killed` takes a process away at any of them.
`need` is a history variable for the proof: the sum of sizes when an item was
reached. The heap lock is never contended, as main allocates before it starts
anybody, so it is taken and released inside one step.

### NetPorts

`stress_net_reserve_ports` for single ports and for ranges, and
`stress_net_release_ports`, over `Lock`. The bitmap is written by plain loads and
stores of a byte, so load and store are separate steps. `FirstRelease` is the
release before the `break`, `Return` the one after the loop.

### MutexStressors

The two processes of `stress-dekker.c` or `stress-peterson.c` on processors with
store buffers (`buf`): a store enters the buffer, `Flush` moves the oldest to
memory, a fence waits for the buffer to be empty. `check++` is a load and a store.
`Fault` corrupts the counter, which is what the stressors look for; the
system may kill the child. At the end the parent kills and waits for the child
(`stress_kill_pid`, `shim_waitpid`) and forms its result. The counter is kept
modulo a small number: the code only ever compares it with itself plus or minus
one.

### BogoMetrics

The bogo-op counter of each instance over all runs of `--permute`: its reset in
`stress_run`, counting in the stressor process or in a worker of
`stress_oomable_child` (`stress_bogo_inc` store by store), publication of the
second copy and the hash in `stress_child_run`, and `stress_metrics_check`. The
worker may crash, be killed for lack of memory, get stuck or be interrupted in an
increment; the wrapper restarts it, signals it with escalating signals, or gives
it up. Hashes are pairs of what they are computed from. History variables record
whether the present run has published, whether the counter was corrupted after
that, whether a worker outlived its stressor and whether one was killed for lack
of memory. `Fault` flips something once for what a run has published: the hash is
an exact pair here, and a second flip could put back what the first has changed.
`torn`, a history variable too, holds the instances with an increment that was
interrupted and after which none has been finished. Main stands at `forked` between
the fork and its second look at the continue flag: a stop seen there
(`ForkedStopped`) goes straight to the waiting, so that the later instances are not
reset, where one seen before the fork (`StopSeen`) leaves the loop over the instances
of one stressor only and resets the others.

## 3. Runs

| Run | Shows | Bounds |
|---|---|---|
| `StatsHashPermute` | no status is lost or charged to the wrong instance, look-ups of stressor pids end, no process is left | one stressor with one instance and one with two, all 3 permutations; 2 buckets so that instances collide; 4 pids so that they are reused in other buckets; a helper; a stressor that takes SIGCHLD |
| `SupervisorStop` | a SIGINT at any step, to main or to the group, with fork errors and stressors that never stop by themselves: reaches all, is not lost, ends the program, leaves nothing, and no handler signals a process of another run | 2 instances of one stressor, one SIGINT, no timeout |
| `SupervisorOutcomes` | `--abort` and `--aggressive`: the reap count is exact, every process is accounted for, the exit status follows from the counts, one failure ends all, no stressor that has asked for the parent-death signal outlives main, five logged failures are counted | 2 instances; three settings: a timeout and every way to end but five logged failures; no timeout, stressors that fail or die of a signal, and main killed at any step; no timeout and five logged failures |
| `SupervisorAbortStart` | *violation*: a failing stressor kills the supervisor | 2 instances |
| `SupervisorExit` | *violation*: the exit status and the failed instances of the summary disagree, in both directions | 2 instances that may exit with `EXIT_BY_SYS_EXIT` or `EXIT_NOT_SUCCESS` |
| `SyncStart` | nobody released early, nobody left stopped, an undisturbed start gets through | 2 instances, all 9 mixtures of kinds, 2 runs, a stop, a death |
| `SyncStartHang` | *violation*: the parent of an oomable child is stopped for ever | 2 instances, nothing else going wrong |
| `SharedMetrics` | arrays fit in the heap and do not overlap; values stay under their names, entries are distinct; locks of the pool are given once; the metrics lock implements `AbstractLock`; a stop ends everybody | 3 processes (2 of one stressor, 1 of another), 2 of which create a lock, 4 locks of which main has 3, so that the pool runs out; 2 descriptions and a table of 1 entry, so that it overflows; 2 calls each, 1 kill; sizes chosen so that each rounding loses bytes |
| `NetPorts` | *violation*: two stressors get the same port | 3 stressors that ask for one port |
| `MutexStressors` | both entry protocols implement `AbstractLock` on store buffers; working memory is never accused; nobody starves; a stop ends the stressor | both stressors, counter modulo 3, one fault, one kill of the child |
| `MutexStressorsFail` | *violation*: a failure the parent reported is lost | the same without kills |
| `BogoMetrics` | corruption reported, reports explained, untrustworthy counters told from others exactly, out-of-memory claims honest, all runs end | 2 stressors, one wrapped, the 3 permutations, one mishap of any kind at any step, 2 signals for the 6 of `signals[]` |

Two instances suffice for the supervisor because instances interact only through
it: the cases are the one being handled and another one in any state. The hash
needs three, for a collision between two and a third in between; the metrics
need two in one table and a third that competes for the lock only. One mishap is
enough for `BogoMetrics`, where a second one would only add a second reason for
the same report. The proofs cover any number.

**Fairness.** `Supervisor`: weak fairness of main's steps, of main's signals, and
of the steps and the signals of each stressor process by itself: whoever can take a
step eventually does (the scheduler), pending signals are delivered, armed alarms
fire, in whatever order. A stressor is
assumed to return only after it was told to stop, never by itself, which is what
all of them promise by testing `stress_continue`. `StatsHash`: the supervisor
goes on, processes that are to end do. `SyncStart`: the same, and stressors end in
time, since the default timeout is assumed. `SharedMetrics`: processes go on;
nothing makes them set a metric, and `Stop` is not fair either. A spin that finds
the flag set ends five seconds after a stop at the latest, so giving up belongs to
the steps that are taken. `MutexStressors`: both processes go on and store buffers
drain, as they do on every processor. `BogoMetrics`: main goes on, and each stressor
process does, by its own steps, those of its wrapper, or its alarm. The alarm fires
because there is a default timeout, and comes again until the process ends
(`stress_signal_stop_stressing_realarm`); `GiveUp` is a timed wait; of a worker
nothing is assumed, not even that it ever counts. No fairness is assumed of anything
that merely may happen: fork errors, deaths, early returns.

## 4. Proofs

TLAPS checks these for every value of the constants (any number of instances,
any table size, any plan of runs, any bound on signals and deaths), from the
assumptions the modules name: instances are positive numbers and finitely many,
the plan is a sequence of sets of instances, the bounds are natural numbers.

**StatsHashProofs.** `TypeCorrect`, `NeverMisses` (`LiveLookupNeverMisses`),
`ChargedToOwner` (`StatusGoesToOwner`), `RunsLeaveNothing` (`NoneLeftBehind`).
The property itself is far from inductive: chains contain stale links that may
even form cycles. The invariant records, with two history variables, in which
bucket each instance was added *in this run* and which ones were there before
it: from the head of a bucket the links lead through exactly those before
anything stale is met. The cursor of a look-up for a live pid is always on that
part.

**SupervisorProofs.** `RunsLeaveNothing` (`NoneLeftBehind`), `ReapsExactly`
(`ReapCountExact`), `KillsOwnOnly` (`KillHitsOwn`). The invariant `IndInv` says
that the shared bookkeeping and the kernel's processes agree while main runs,
except for the instance between `fork()` and the parent's stores, and the one
between `waitpid` and its accounting. Without the exceptions it is not inductive;
without the part on `todo` a second fork could overwrite a living process.
`KillHitsOwn` needs `AimInv` on top of it: between the test and the kill of a
stressor's handler its target may be reaped, so what is aimed at is a process of the
run or one that has been waited for. It cannot be a new process in the same place,
because the run waits for the process whose handler it is before the next one begins.

**SyncStartProofs.** `TypeCorrect`, `AllWoken` (`NoneLeftStopped`),
`StartedTogether` (`ReleasedTogether`). The count of the second loop is the crux:
`up` equals the number of instances visited in the pass only if every one of them
had left the barrier when it was loaded, and leaving it is stable. So a pass that
counts all of them ends the loop only when nobody can be stopped there any more.

**SharedMetricsProofs.** `ArraysDisjoint` (`ChunksDisjoint`), `HeapLargeEnough`
(`HeapSuffices`), `LocksGivenOnce` (`PoolExclusive`), `MetricsLockIsLock`
(`ImplementsLock`), `MetricsDistinct` (`EntriesDistinct`), `MetricsUnderOwnName`
(`ValuesUnderOwnName`) and `TypeCorrect`, from the assumptions that sizes and
counts are natural numbers, that `sizeof(stress_metrics_info_t)` and the page size
are multiples of eight, and that the pool has more than two locks. Three
inductive invariants. `HeapInv`: while main carves for item *k* the offset is at
most `need[k]` plus what *k*'s own allocations so far were given by the sizing
loop, and each rounding is paid for by the eight bytes that loop adds per array.
Only the values of one item share eight bytes between several allocations, and
those are multiples of eight. `LockInv`: a process between acquire and release has
the lock alone, and a slot that was chosen but not marked can be chosen again
only by a process with the big lock; if its chooser was killed in between, the big
lock is taken for ever, so nobody will. `TableInv`: counted entries never change
and are all different, so an index stays good after the lock has been released; an
entry that is being filled is not counted yet and its process alone has the lock.
The refinement follows from `LockInv`: the abstract owner is the one process
between acquire and release if there is one.

**SupervisorStopProofs** builds on `SupervisorProofs`. `TypeCorrect`, `StopsReachAll`
(`StopReachesAll`) and `StopsAreKept` (`NoLostStop`) from the invariant `StopInv`:
besides `IndInv`, a signalled process that lives has the stop pending in one of four
forms (`StopKept`), and after a stop every living process is signalled except the
one between `fork()` and the parent's stores (`StopCovers`), which
`StartedStopped` then signals. `NoLostStop` alone is not inductive, as it says
nothing of a process still in its set-up or already on its way out.
`SummaryComplete` (`SummaryCountsAll`) and `ExitIsSummary` (`ExitAgreesWithSummary`)
hold for every way a stressor may end. They rest on a ledger, `LedgerInv`: processes
started are the sum of the headings, those that ended with `EXIT_NOT_SUCCESS`, the
processes there are, and the one that has been waited for and not counted; and on
`VerdictInv`: `*success` is set exactly while the failed instances are those that
called `exit()` and none ended with `EXIT_NOT_SUCCESS`. The exceptions are named in
the theorems because the code makes them (section 5, run `SupervisorExit`).

**BogoMetricsProofs.** `TypeCorrect`, `CorruptionIsReported` (`CorruptionReported`),
`AlarmsAreExplained` (`AlarmsExplained`), `TornIsJudged`
(`TornIsUntrustworthy`) and `OomIsHonest` (`OomHonest`), for any list and plan, any
`max_ops`, any number of mishaps, and any list of signals that ends in its only
SIGKILL. `IndInv` says, for each instance by itself, which of the two copies are
equal at which stage of publishing (`CopyInv`, `HashInv`), who may be counting
(`WorkerInv`), and that what an instance has published is in slot *i* (`StageInv`):
a slot may be assigned out of step with the list only once the continue flag is
down, when nobody is forked any more (`MainInv`). The case that needs care is a
worker that outlives its stressor and goes on counting after a fault: the count
only grows, so `sum.counter < bogo.counter`, or a wrong hash, stays true and the
fault stays visible. `TornIsUntrustworthy` has a second layer, `TornInv`: while a
process of the instance lives, its counter is not ready exactly when an increment is
under way or was the last one to be interrupted (`ReadyInv`), and once the stressor
has looked at it nobody changes it any more, unless a worker has outlived it
(`JudgedInv`). `OomHonest` needs that the wrapper's index stands at SIGKILL
from the moment it has sent one.

**MutexStressorsProofs.** `NoFalseAlarm` (`NoFalseFailure`) and `EntryIsLock`
(`ImplementsLock`), for any modulus above two and any number of kills and faults.
`BufInv` lists what a process may have in its store buffer at each place; that the
list is short is due to the fences, and taking one away breaks it. `Holding`
extends the critical section to the stores that have not drained after it. Who
holds or waits has its flag in memory (`FlagInv`), so a process that reads the
other's flag as clear enters alone, which is all dekker needs; peterson also
enters on the turn, and there who waits for a holder has given it the turn
(`TurnInv`). `CountInv` then says that `check` does not change under a holder
unless a fault changes it.

Only model-checked: the liveness properties (`LiveLookupTerminates`,
`StopTerminates`, `TimeoutTerminates`, `AbortTerminates`, `FailuresCounted`,
`OrphansStop`, `SyncTerminates`, `StopEnds`, `NoStarvation`, `RunsEnd`), which rest
on fairness and are out of the prover's reach. The five violation runs show
counterexamples and have nothing to prove.

## 5. Where the code and its documentation part

The five violation runs, quoted in `PROJECT.json` under `findings`. Also seen
while modelling, without a run:

* `stress_stats_hash_table_add` adds the same stats again in every run of
  `--permute` and nothing removes them, so the links may form a cycle; the look-up
  of a helper's pid in such a bucket never ends (536; `LookupTerminates` does not
  hold). The comment at 516-517 says "NULL if can't find".
* A stressor's copy of the bucket array is older than its own entry, so
  `stress_args_pid_find(getpid())` in `stress_sigchld_helper_handler` finds nothing
  and the stressor is not stopped (`core-signal.c:423`; `ChildFindsItself`).
* `stress_stressors_kill` skips whoever has `signalled` set, so the promise at 652,
  "multiple calls will always fallback to SIGKILL", is not kept (689;
  `KillEscalates`).
* `stress_stressors_kill` tests a pid (686-689) and kills it afterwards (690). Run in a
  handler of a stressor, as after Ctrl-C or a crash, it may use a pid that main has
  waited for (1255-1260) in between and that the kernel may have given to somebody
  else; `KillHitsOwn` names this case.
* The manual says of exit status 7 that it is "most likely to occur when a stress test
  is terminated during the update of a bogo-ops counter such as when it has been OOM
  killed". A worker killed in that way is restarted (`core-out-of-memory.c:333-387`),
  and the first increment its successor finishes sets the counter ready again, so the
  lost increment goes unnoticed; `TornIsUntrustworthy` speaks of the latest increment
  only. When it does notice one, `rc = EXIT_METRICS_UNTRUSTWORTHY` (1785) replaces
  whatever the stressor has returned, a failure included.
* `stress_aggressive_wait` sets the affinity of pid 0, itself, instead of a running
  stressor's (1328; `MainStaysPut`).
* `--permute` and the metrics check: the counter is zeroed for every run (1911)
  and `completed` never, so a stressor that does not come to publish again is
  reported with "corrupted bogo-ops counter"; and the `break` at 1925, when a stop is
  seen before a fork, leaves `*checksum` where it is, so that a later item uses
  another slot than before. `AlarmsExplained` names these reports as exceptions.
* `stress_net_reserve_ports` scans for a range with a count of free ports from
  before it gave the lock up (`core-net.c:443`), and `stress_net_release_ports`
  clears bits without the lock (476); each can hand out a port twice on its own.
* A dekker or peterson parent whose child was killed inside the protocol spins
  without looking at the continue flag until main kills it (`stress-dekker.c:119`);
  `StopEnds` of `MutexStressors` excepts it.
* `--sync-start` and a stop: after the continue flag is cleared the supervisor
  makes one pass of SIGCONT; a stressor that stops itself afterwards stays
  stopped, and the supervisor waits for it (`core-sync.c:168`).
* `--sync-start` and a death before `FINISHED`, or at the barrier: the supervisor
  polls for ever (`core-sync.c:149-168`, `171-188`).
* `--sync-start --permute`: `stress_sync_start_init` keeps the `oomable_child` of
  the last run, so a stressor such as `stress-vm.c` stops an old pid and runs
  ahead of the others (`core-sync.c:65-69`, `110`).
* `stress_child_run` aborts everything for `EXIT_NOT_IMPLEMENTED` too
  (1832), where `stress_wait_status` says not to (1191).
* `EXIT_NOT_SUCCESS`, which the comment at 1215 recommends and `core-setting.c:242`
  uses, is counted under no heading of the summary (1221); `SummaryCountsAll` names it
  as its one exception, and `SupervisorExit` shows what becomes of the exit status.
* Without a timeout a stressor that is between `fork()` and
  `stress_parent_died_alarm` (1664) when main is killed runs for ever; `OrphansStop`,
  which is checked without a timeout, excepts it.

## 6. Not modelled

Listed in `PROJECT.json` with reasons: option parsing, measurements, the helper
daemons' own work, wrappers around system calls, portability layers, the
workloads themselves (but for the two mutex stressors) and the shell scripts. The
tree has some 395 stressors of a few hundred lines each, most of them a loop
around system calls or arithmetic whose only shared state is what is modelled
here; they make up most of its lines.

Of the modelled components: in `stress_oomable_child` a fork that fails for good
and `--oom-no-child`; `stress_wait_until_reaped` and `stress_kill_and_wait_many`;
the pthread, futex, semaphore and SysV variants of the locks; the release of the
heap (`stress_shared_heap_free`), when main is alone again; how metrics are
averaged; a signal handler of main interrupted by another one.
