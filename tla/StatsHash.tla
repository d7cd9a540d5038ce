----------------------------- MODULE StatsHash -----------------------------
(***************************************************************************)
(* The pid -> stress_stats_t hash table of stress-ng.c, the structure by    *)
(* which the supervisor charges an exit status to a stressor instance.      *)
(*                                                                          *)
(* The bucket array (stress_stats_hash.table) is private to each process    *)
(* and is copied by fork(); the links (stats->hash_next) and the pids       *)
(* (stats->s_pid.pid) live in memory shared by every process.  Instances    *)
(* are added by the supervisor after each fork() and are never removed, so  *)
(* under --permute the same stats are added again and again to the same     *)
(* table.                                                                   *)
(***************************************************************************)
EXTENDS Integers, Sequences, FiniteSets

CONSTANTS
    NStats,       \* number of stressor instances
    Size,         \* stress_stats_hash.size
    Pids,         \* process ids the kernel may hand out to this program
    Helpers,      \* pids of the helper children (klog, vmstat, thrash)
    SigchldUsers, \* instances that install stress_sigchld_helper_handler
    Plan          \* the instances each call of stress_run starts

Stats == 1..NStats
NULL == 0
FREE == 0         \* owner of a pid that names no process
HELPER == -1      \* owner of the pid of a helper child

ASSUME StatsAssumption == NStats \in Nat /\ Size \in Nat \ {0}
ASSUME PidsAssumption == Pids \subseteq Nat \ {0, 1} /\ Helpers \subseteq Pids
ASSUME PlanAssumption == Plan \in Seq(SUBSET Stats)
ASSUME UsersAssumption == SigchldUsers \subseteq Stats

VARIABLES
    table,    \* stress_stats_hash.table of the supervisor
    next,     \* stats->hash_next, shared
    pid,      \* stats->s_pid.pid, shared: -1 being forked, 0 finished
    owner,    \* kernel: the instance or helper a pid belongs to
    dead,     \* kernel: pids that have exited and were not waited for
    pc,       \* where the supervisor is
    back,     \* where stress_child_wait returns to: "start" or "wait"
    run,      \* number of the current stress_run
    todo,     \* instances of the current run that are still to be started
    target,   \* the pid being looked up by stress_stats_pid_find
    cursor,   \* the stats that look-up stands on
    kidTable, \* the copy of the bucket array each stressor process has
    kidState, \* state of the look-up in the SIGCHLD handler of a stressor
    kidCursor,\* the stats that look-up stands on
    bucket,   \* history: bucket an instance was added to in this run, or -1
    older     \* history: instances added to that bucket before it in this run

mainVars == <<table, next, pid, owner, dead, pc, back, run, todo, target, cursor>>
kidVars == <<kidTable, kidState, kidCursor>>
vars == <<mainVars, kidVars, bucket, older>>

Buckets == 0..(Size - 1)
Running == {p \in Pids : owner[p] # FREE /\ p \notin dead}

stress_stats_pid_to_hash(p) == p % Size

\* The members of bucket h that were added in the current run.
Added(h) == {s \in Stats : bucket[s] = h}

TypeOK ==
    /\ table \in [Buckets -> Stats \cup {NULL}]
    /\ next \in [Stats -> Stats \cup {NULL}]
    /\ pid \in [Stats -> Pids \cup {0, -1}]
    /\ owner \in [Pids -> Stats \cup {FREE, HELPER}]
    /\ dead \in SUBSET Pids
    /\ pc \in {"idle", "start", "poll", "wait", "find"}
    /\ back \in {"start", "wait"}
    /\ run \in 0..Len(Plan)
    /\ todo \in SUBSET Stats
    /\ target \in Pids \cup {NULL}
    /\ cursor \in Stats \cup {NULL}
    /\ kidTable \in [Stats -> [Buckets -> Stats \cup {NULL}]]
    /\ kidState \in [Stats -> {"none", "walk", "hit", "miss"}]
    /\ kidCursor \in [Stats -> Stats \cup {NULL}]
    /\ bucket \in [Stats -> Buckets \cup {-1}]
    /\ older \in [Stats -> SUBSET Stats]

Init ==
    /\ table = [h \in Buckets |-> NULL]          \* calloc
    /\ next = [s \in Stats |-> NULL]
    /\ pid = [s \in Stats |-> 0]
    /\ owner = [p \in Pids |-> IF p \in Helpers THEN HELPER ELSE FREE]
    /\ dead = {}
    /\ pc = "idle"
    /\ back = "start"
    /\ run = 0
    /\ todo = {}
    /\ target = NULL
    /\ cursor = NULL
    /\ kidTable = [s \in Stats |-> [h \in Buckets |-> NULL]]
    /\ kidState = [s \in Stats |-> "none"]
    /\ kidCursor = [s \in Stats |-> NULL]
    /\ bucket = [s \in Stats |-> -1]
    /\ older = [s \in Stats |-> {}]
-----------------------------------------------------------------------------
(* The supervisor. *)

\* The next call of stress_run by the parallel, sequential or permute driver.
BeginRun ==
    /\ pc = "idle"
    /\ run < Len(Plan)
    /\ run' = run + 1
    /\ todo' = Plan[run + 1]
    /\ pc' = "start"
    /\ bucket' = [s \in Stats |-> -1]
    /\ older' = [s \in Stats |-> {}]
    /\ UNCHANGED <<table, next, pid, owner, dead, back, target, cursor, kidVars>>

\* The instance stress_run comes to next: instances are taken in list order.
IsNext(s) == s \in todo /\ \A t \in todo : s <= t

\* Wrong variants of the next definition: the chain is cut, the two stores swapped.
AddCutsChain(s, p) ==
    LET h == stress_stats_pid_to_hash(p) IN
    /\ next' = [next EXCEPT ![s] = NULL]
    /\ table' = [table EXCEPT ![h] = s]
    /\ bucket' = [bucket EXCEPT ![s] = h]
    /\ older' = [older EXCEPT ![s] = Added(h)]

AddSwapped(s, p) ==
    LET h == stress_stats_pid_to_hash(p) IN
    /\ table' = [table EXCEPT ![h] = s]
    /\ next' = [next EXCEPT ![s] = s]
    /\ bucket' = [bucket EXCEPT ![s] = h]
    /\ older' = [older EXCEPT ![s] = Added(h)]

stress_stats_hash_table_add(s, p) ==
    LET h == stress_stats_pid_to_hash(p) IN
    /\ next' = [next EXCEPT ![s] = table[h]]
    /\ table' = [table EXCEPT ![h] = s]
    /\ bucket' = [bucket EXCEPT ![s] = h]
    /\ older' = [older EXCEPT ![s] = Added(h)]

\* fork() succeeds with pid p; parent and child both store p in the shared
\* stats, the parent adds it to its table, the child keeps the earlier table.
Start(s, p) ==
    /\ pc = "start"
    /\ IsNext(s)
    /\ owner[p] = FREE
    /\ todo' = todo \ {s}
    /\ owner' = [owner EXCEPT ![p] = s]
    /\ pid' = [pid EXCEPT ![s] = p]
    /\ stress_stats_hash_table_add(s, p)
    /\ kidTable' = [kidTable EXCEPT ![s] = table]
    /\ kidState' = [kidState EXCEPT ![s] = "none"]
    /\ pc' = "poll"
    /\ UNCHANGED <<dead, back, run, target, cursor, kidCursor>>

\* fork() fails with an error other than EAGAIN: no more starts in this run.
ForkFails(s) ==
    /\ pc = "start"
    /\ IsNext(s)
    /\ pid' = [pid EXCEPT ![s] = -1]
    /\ todo' = {}
    /\ pc' = "wait"
    /\ UNCHANGED <<table, next, owner, dead, back, run, target, cursor, kidVars,
                   bucket, older>>

AllStarted ==
    /\ pc = "start"
    /\ todo = {}
    /\ pc' = "wait"
    /\ UNCHANGED <<table, next, pid, owner, dead, back, run, todo, target,
                   cursor, kidVars, bucket, older>>

\* waitpid(-1, &status, WNOHANG) with nothing to reap.
PollNothing ==
    /\ pc = "poll"
    /\ dead = {}
    /\ pc' = "start"
    /\ UNCHANGED <<table, next, pid, owner, dead, back, run, todo, target,
                   cursor, kidVars, bucket, older>>

\* waitpid(-1, ...) returns p: stress_stats_pid_find(p) begins at the head of
\* the bucket.  waitpid is also how helper children get here.
WaitReturns(p) ==
    /\ pc \in {"poll", "wait"}
    /\ pc = "wait" => \E s \in Stats : pid[s] \in Pids
    /\ p \in dead
    /\ back' = IF pc = "poll" THEN "start" ELSE "wait"
    /\ target' = p
    /\ cursor' = table[stress_stats_pid_to_hash(p)]
    /\ pc' = "find"
    /\ UNCHANGED <<table, next, pid, owner, dead, run, todo, kidVars, bucket, older>>

\* while (stats && (stats->s_pid.pid != pid)) stats = stats->hash_next
FindNext ==
    /\ pc = "find"
    /\ cursor # NULL
    /\ pid[cursor] # target
    /\ cursor' = next[cursor]
    /\ UNCHANGED <<table, next, pid, owner, dead, pc, back, run, todo, target,
                   kidVars, bucket, older>>

\* The pid is gone from the kernel's table.  It is released here and not at
\* waitpid because the supervisor, the only caller of fork(), is busy here.
Release == /\ owner' = [owner EXCEPT ![target] = FREE]
           /\ dead' = dead \ {target}

\* Wrong variants: the entry is taken for its hash alone; 1 marks a finished one.
HitByHash ==
    /\ pc = "find"
    /\ cursor # NULL
    /\ stress_stats_pid_to_hash(pid[cursor]) = stress_stats_pid_to_hash(target)
    /\ pid' = [pid EXCEPT ![cursor] = 0]
    /\ Release
    /\ pc' = back
    /\ target' = NULL
    /\ cursor' = NULL
    /\ UNCHANGED <<table, next, back, run, todo, kidVars, bucket, older>>

HitLeavesOne ==
    /\ pc = "find"
    /\ cursor # NULL
    /\ pid[cursor] = target
    /\ pid' = [pid EXCEPT ![cursor] = 1]
    /\ Release
    /\ pc' = back
    /\ target' = NULL
    /\ cursor' = NULL
    /\ UNCHANGED <<table, next, back, run, todo, kidVars, bucket, older>>

\* Found: stress_wait_status, ending in stress_stressor_finished (pid = 0).
FindHit ==
    /\ pc = "find"
    /\ cursor # NULL
    /\ pid[cursor] = target
    /\ pid' = [pid EXCEPT ![cursor] = 0]
    /\ Release
    /\ pc' = back
    /\ target' = NULL
    /\ cursor' = NULL
    /\ UNCHANGED <<table, next, back, run, todo, kidVars, bucket, older>>

\* Not found: stress_child_wait returns NULL and the status is dropped.
FindNull ==
    /\ pc = "find"
    /\ cursor = NULL
    /\ Release
    /\ pc' = back
    /\ target' = NULL
    /\ cursor' = NULL
    /\ UNCHANGED <<table, next, pid, back, run, todo, kidVars,
                   bucket, older>>

\* Wrong variant: the wait loop is left one process too early.
EndRunEarly ==
    /\ pc = "wait"
    /\ Cardinality({s \in Stats : pid[s] \in Pids}) <= 1
    /\ pc' = "idle"
    /\ UNCHANGED <<table, next, pid, owner, dead, back, run, todo, target,
                   cursor, kidVars, bucket, older>>

\* stress_wait_reap_count() is zero: stress_run returns to its driver.
EndRun ==
    /\ pc = "wait"
    /\ \A s \in Stats : pid[s] \notin Pids
    /\ pc' = "idle"
    /\ UNCHANGED <<table, next, pid, owner, dead, back, run, todo, target,
                   cursor, kidVars, bucket, older>>

AllRunsDone == pc = "idle" /\ run = Len(Plan) /\ UNCHANGED vars
-----------------------------------------------------------------------------
(* The other processes. *)

\* A stressor or a helper child terminates, for whatever reason.
Exit(p) ==
    /\ p \in Running
    /\ dead' = dead \cup {p}
    /\ UNCHANGED <<table, next, pid, owner, pc, back, run, todo, target, cursor,
                   kidVars, bucket, older>>

Alive(s) == pid[s] \in Running /\ owner[pid[s]] = s

\* A stressor process gets SIGCHLD: stress_args_pid_find(getpid()) in its copy
\* of the bucket array, along the shared links.
Sigchld(s) ==
    /\ Alive(s)
    /\ kidState[s] = "none"
    /\ kidState' = [kidState EXCEPT ![s] = "walk"]
    /\ kidCursor' = [kidCursor EXCEPT ![s] =
                        kidTable[s][stress_stats_pid_to_hash(pid[s])]]
    /\ UNCHANGED <<mainVars, kidTable, bucket, older>>

SigchldStep(s) ==
    /\ Alive(s)
    /\ kidState[s] = "walk"
    /\ \/ /\ kidCursor[s] = NULL
          /\ kidState' = [kidState EXCEPT ![s] = "miss"]
          /\ kidCursor' = [kidCursor EXCEPT ![s] = NULL]
       \/ /\ kidCursor[s] # NULL
          /\ pid[kidCursor[s]] = pid[s]
          /\ kidState' = [kidState EXCEPT ![s] = "hit"]
          /\ kidCursor' = [kidCursor EXCEPT ![s] = NULL]
       \/ /\ kidCursor[s] # NULL
          /\ pid[kidCursor[s]] # pid[s]
          /\ kidCursor' = [kidCursor EXCEPT ![s] = next[kidCursor[s]]]
          /\ UNCHANGED kidState
    /\ UNCHANGED <<mainVars, kidTable, bucket, older>>
-----------------------------------------------------------------------------
Supervisor ==
    \/ BeginRun \/ AllStarted \/ PollNothing \/ FindNext \/ FindHit \/ FindNull
    \/ EndRun
    \/ \E s \in Stats : ForkFails(s) \/ \E p \in Pids : Start(s, p)
    \/ \E p \in Pids : WaitReturns(p)

Next ==
    \/ Supervisor
    \/ AllRunsDone
    \/ \E p \in Pids : Exit(p)
    \/ \E s \in SigchldUsers : Sigchld(s) \/ SigchldStep(s)

Spec == Init /\ [][Next]_vars

\* The supervisor runs until it blocks, and stressors end by their timeout.
\* Helper children need not end.
FairSpec ==
    /\ Spec
    /\ WF_vars(Supervisor)
    /\ \A p \in Pids : WF_vars(Exit(p) /\ owner[p] # HELPER)
-----------------------------------------------------------------------------
(***************************************************************************)
(* Properties.                                                             *)
(***************************************************************************)

\* The status of a stressor is never dropped: while stress_stats_pid_find looks
\* for the pid of an instance the walk never falls off the end of the chain,
\* whatever earlier permutations left in the table (stress-ng.c 504-513, 1257).
LiveLookupNeverMisses ==
    (pc = "find" /\ owner[target] \in Stats) => cursor # NULL

\* A wait status is charged to the instance whose process it is: an instance is
\* marked as finished only together with its own process leaving the kernel's
\* table, never because of a stale pid or link (stress-ng.c 1056-1060, 1257).
StatusGoesToOwner ==
    [][\A s \in Stats : (pid[s] \in Pids /\ pid'[s] \notin Pids)
          => owner[pid[s]] = s /\ owner'[pid[s]] = FREE]_vars

\* No stressor process outlives its run: when stress_run returns, none of the
\* processes it started is left, running or as a zombie (stress-ng.c 1362-1369).
NoneLeftBehind == pc = "idle" => \A p \in Pids : owner[p] \notin Stats

\* stress_stats_pid_find returns: NULL for a pid that is not in the table
\* (the helper children reaped by waitpid(-1)), the stats otherwise.  This does
\* not hold under --permute (README, section 5).
LookupTerminates == (pc = "find") ~> (pc # "find")

\* The same for the pid of a stressor only, which holds in every run mode:
\* stale links of earlier permutations never catch a look-up that must hit.
LiveLookupTerminates ==
    (pc = "find" /\ owner[target] \in Stats) ~> (pc # "find")

\* A stressor that takes SIGCHLD finds its own args and stops (comment of
\* stress_sigchld_helper_handler, core-signal.c 416-419).  It never does.
ChildFindsItself == \A s \in Stats : kidState[s] # "miss"
-----------------------------------------------------------------------------
(***************************************************************************)
(* The inductive invariant.  The entries added in the current run form an   *)
(* intact prefix of each chain: older[s] is the set of those behind s, and  *)
(* each link leads from s to the newest of them.                            *)
(***************************************************************************)
PidInv ==
    /\ \A s \in Stats : pid[s] \in Pids =>
          owner[pid[s]] = s /\ bucket[s] = stress_stats_pid_to_hash(pid[s])
    /\ \A p \in Pids : owner[p] \in Stats => pid[owner[p]] = p
    /\ \A p \in dead : owner[p] # FREE

RunInv ==
    /\ \A s \in todo : bucket[s] = -1
    /\ pc = "idle" => \A s \in Stats : pid[s] \notin Pids

ChainInv ==
    /\ \A s \in Stats : older[s] \subseteq Added(bucket[s]) \ {s}
    /\ \A s \in Stats : bucket[s] = -1 => older[s] = {}
    /\ \A h \in Buckets : Added(h) # {} =>
          table[h] \in Added(h) /\ older[table[h]] = Added(h) \ {table[h]}
    /\ \A s \in Stats : older[s] # {} =>
          next[s] \in older[s] /\ older[next[s]] = older[s] \ {next[s]}

FindInv ==
    pc = "find" =>
        /\ target \in dead
        /\ owner[target] \in Stats =>
              /\ cursor \in Added(stress_stats_pid_to_hash(target))
              /\ owner[target] \in older[cursor] \cup {cursor}

IndInv == TypeOK /\ PidInv /\ RunInv /\ ChainInv /\ FindInv
=============================================================================
