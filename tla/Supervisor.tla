----------------------------- MODULE Supervisor -----------------------------
(***************************************************************************)
(* The core of stress-ng: stress_run forks one process per stressor         *)
(* instance, stress_stressors_wait reaps them, stress_wait_status turns the *)
(* wait status into the summary and the exit status, and signals stop the   *)
(* whole thing.  Signals interleave with every step of the supervisor and   *)
(* of the stressor processes; pid, reaped, signalled and bogo.max_ops are   *)
(* in memory shared by all of them, the continue flag is private to each.   *)
(***************************************************************************)
EXTENDS Integers, Sequences, FiniteSets

CONSTANTS
    Inst,       \* the stressor instances, numbered from 1 in list order
    Item,       \* the stressor each instance belongs to
    Plan,       \* for each call of stress_run, the instances it starts
    Settings,   \* what the executions considered have set: a timeout (g_opt_timeout > 0),
                \* the ways a stressor may end, and whether main may be killed
    Abort,      \* OPT_FLAGS_ABORT
    Aggressive, \* OPT_FLAGS_AGGRESSIVE or OPT_FLAGS_TASKSET_RANDOM
    ForkErrors, \* fork() may fail
    MaxSigint,  \* bound: SIGINTs the user sends
    Group       \* may SIGINT go to the whole process group (Ctrl-C), not to main only

\* Results info->stressor(args) may return to stress_child_run.
Returned == {"SUCCESS", "FAILURE", "NOT_SUCCESS", "NO_RESOURCE",
             "NOT_IMPLEMENTED", "METRICS_UNTRUSTWORTHY"}
\* Ways to end without returning: exit(), SIGSEGV and its like (caught by
\* stress_terminate_handle), an uncaught signal, the OOM killer; the failure of
\* stress_sched_settings_apply before the stressor is called; and five calls of
\* pr_fail, after which the stressor runs on.
Fatal == {"SYS_EXIT", "CRASH", "SIGNAL"}
Other == {"OOM", "SCHED", "FAILURES"}
SettingType == [timeout : BOOLEAN, mainKilled : BOOLEAN,
                outcomes : SUBSET (Returned \cup Fatal \cup Other)]
\* What waitpid reports.
Status == Returned \cup {"SIGNALED", "BY_SYS_EXIT", "sigALRM", "sigKILL", "sigOther"}

ASSUME InstAssumption ==
    Inst \subseteq Nat \ {0} /\ IsFiniteSet(Inst) /\ DOMAIN Item = Inst
ASSUME PlanAssumption == Plan \in Seq(SUBSET Inst)
ASSUME FlagsAssumption ==
    /\ Settings \subseteq SettingType
    /\ {Abort, Aggressive, ForkErrors, Group} \subseteq BOOLEAN
    /\ MaxSigint \in Nat
    \* A stressor process counts its own calls of stress_stressors_kill; with
    \* fewer than seven SIGINTs that count never reaches the SIGKILL threshold.
    /\ Group => MaxSigint <= 6

VARIABLES
    mpc,       \* where the supervisor is
    run,       \* number of the current stress_run
    setting,   \* that of this execution
    todo,      \* instances this run has still to start
    cur,       \* the instance it is starting
    mflag,     \* g_stress_continue_flag of the supervisor
    mhandler,  \* the supervisor has a SIGALRM handler
    mpend,     \* signals pending for the supervisor
    kills,     \* static count of stress_stressors_kill
    reapCount, \* reap_count of the wait loop
    waited,    \* what waitpid has just returned (inst 0: nothing)
    mainMoved, \* sched_setaffinity was applied to the supervisor itself
    verdict,   \* *success, *resource_success, *metrics_success
    tally,     \* item->status[], summed over the items
    seen,      \* history: how often waitpid has returned each status of Apart
    started,   \* started_instances, summed over the runs
    pid,       \* shared s_pid.pid: -1 initialised, 1 a process, 0 finished
    reaped,    \* shared s_pid.reaped
    signalled, \* shared stats->signalled
    ops,       \* shared: instances with bogo.max_ops > 0
    kid,       \* the stressor process of each instance
    sigints    \* SIGINTs sent so far

resultVars == <<reapCount, waited, mainMoved, verdict, tally, seen>>
runVars == <<run, setting, mhandler, resultVars, started>>
mainVars == <<runVars, todo, cur>>
sigVars == <<mflag, mpend, kills, sigints>>
shared == <<pid, reaped, signalled, ops>>
vars == <<mpc, mainVars, sigVars, shared, kid>>

Outcomes == setting.outcomes

\* A handler that runs stress_stressors_kill in a stressor has the instances of
\* hunt still to look at and is about to kill the one it aims at, if any.
KidPc == {"none", "born", "new", "setup", "check", "begin", "run", "crash", "skip", "exit",
          "zombie"}
KidType == [pc : KidPc, flag : BOOLEAN, handler : BOOLEAN,
            pend : SUBSET {"INT", "ALRM"}, alarm : {"off", "timeout", "realarm"},
            hunt : SUBSET Inst, aim : Inst \cup {0}, rc : Status]
NoKid == [pc |-> "none", flag |-> FALSE, handler |-> FALSE, pend |-> {},
          alarm |-> "off", hunt |-> {}, aim |-> 0, rc |-> "SUCCESS"]
\* After fork(): flag and signal disposition inherited, nothing pending.
NewKid == [NoKid EXCEPT !.pc = "born", !.flag = mflag, !.handler = mhandler]
Zombie(rc) == [NoKid EXCEPT !.pc = "zombie", !.rc = rc]

Alive(s) == kid[s].pc \notin {"none", "zombie"}
\* stress_child_run blocks all signals once the stressor has returned.
Blocked(s) == kid[s].pc = "exit"
InHandler(s) == kid[s].hunt # {} \/ kid[s].aim # 0
Zombies == {s \in Inst : kid[s].pc = "zombie"}
Counted == {"PASSED", "SKIPPED", "FAILED", "BAD_METRICS"}
\* The statuses for which stress_wait_status keeps summary and verdict apart.
Apart == {"NOT_SUCCESS", "BY_SYS_EXIT"}

\* Control, bookkeeping and processes, and then everything else.
FlowType ==
    /\ mpc \in {"idle", "init", "fork", "record", "started", "poll", "handler",
                "acount", "count", "aggressive", "wait", "status", "done", "dead"}
    /\ run \in 0..Len(Plan) /\ todo \in SUBSET Inst /\ cur \in Inst \cup {0}
    /\ setting \in SettingType
    /\ mflag \in BOOLEAN /\ mhandler \in BOOLEAN
    /\ reapCount \in Int
    /\ waited \in [inst : Inst \cup {0}, rc : Status,
                   back : {"init", "aggressive", "wait"}]
    /\ pid \in [Inst -> {-1, 0, 1}] /\ reaped \in SUBSET Inst
    /\ kid \in [Inst -> KidType]

ResultType ==
    /\ mpend \subseteq {"INT", "ALRM"} /\ kills \in Nat /\ sigints \in 0..MaxSigint
    /\ mainMoved \in BOOLEAN
    /\ verdict \in [success : BOOLEAN, resource : BOOLEAN, metrics : BOOLEAN]
    /\ tally \in [Counted -> Nat] /\ seen \in [Apart -> Nat] /\ started \in Nat
    /\ signalled \in SUBSET Inst /\ ops \in SUBSET Inst

TypeOK == FlowType /\ ResultType

Init ==
    /\ mpc = "idle" /\ run = 0 /\ todo = {} /\ cur = 0 /\ setting \in Settings
    /\ mflag = TRUE /\ mhandler = FALSE /\ mpend = {}
    /\ kills = 0 /\ reapCount = 0 /\ sigints = 0 /\ mainMoved = FALSE
    /\ waited = [inst |-> 0, rc |-> "SUCCESS", back |-> "init"]
    /\ verdict = [success |-> TRUE, resource |-> TRUE, metrics |-> TRUE]
    /\ tally = [c \in Counted |-> 0] /\ seen = [r \in Apart |-> 0] /\ started = 0
    /\ pid = [s \in Inst |-> 0]
    /\ reaped = {} /\ signalled = {} /\ ops = {}
    /\ kid = [s \in Inst |-> NoKid]
-----------------------------------------------------------------------------
(* Sending signals. *)

\* Wrong variant of the next definition: pid -1 taken for a process.
TargetsUnstarted == {s \in Inst : pid[s] # 0 /\ s \notin reaped \cup signalled}

\* The processes stress_stressors_kill signals: never twice, never a reaped one.
Targets == {s \in Inst : pid[s] = 1 /\ s \notin reaped \cup signalled}

\* kill(2) on the processes of the instances in T; k is kid after the changes
\* the calling step makes itself.
Deliver(k, T, sig) ==
    [s \in Inst |->
        IF s \in T /\ k[s].pc \notin {"none", "zombie"}
        THEN IF sig = "KILL" THEN Zombie("sigKILL")
                             ELSE [k[s] EXCEPT !.pend = @ \cup {sig}]
        ELSE k[s]]

\* stress_stressors_kill(SIGALRM, force_sigkill) called by the supervisor:
\* the static count turns repeated forced calls into SIGKILL.
stress_stressors_kill(k, T, force) ==
    /\ kid' = Deliver(k, T, IF force /\ kills > 5 THEN "KILL" ELSE "ALRM")
    /\ signalled' = signalled \cup T
    /\ kills' = IF force /\ kills < 7 THEN kills + 1 ELSE kills
-----------------------------------------------------------------------------
(* The supervisor: stress_run. *)

\* stress_sequential_run and stress_permute_run go on to the next stress_run
\* only while the continue flag is set; in stress_parallel_run a cleared flag
\* makes stress_run start nothing, which is the same.
BeginRun ==
    /\ mpc = "idle" /\ run < Len(Plan) /\ mflag
    /\ run' = run + 1
    /\ todo' = Plan[run + 1]
    /\ mpc' = "init"
    /\ UNCHANGED <<setting, mhandler, started, resultVars, cur, sigVars, shared, kid>>

Finish ==
    /\ mpc = "idle" /\ (run = Len(Plan) \/ ~mflag)
    /\ mpc' = "done"
    /\ UNCHANGED <<mainVars, sigVars, shared, kid>>

\* Wrong variant: the instance number is stored where the pid belongs.
InitStoresNumber(s) ==
    /\ mpc = "init"
    /\ s \in todo /\ \A t \in todo : s <= t
    /\ cur' = s
    /\ pid' = [pid EXCEPT ![s] = s]
    /\ reaped' = reaped \ {s}
    /\ mpc' = "fork"
    /\ UNCHANGED <<runVars, todo, sigVars, signalled, ops, kid>>

\* Instances are taken in list order.
InitInstance(s) ==
    /\ mpc = "init"
    /\ s \in todo /\ \A t \in todo : s <= t
    /\ cur' = s
    /\ pid' = [pid EXCEPT ![s] = -1]
    /\ reaped' = reaped \ {s}
    /\ mpc' = "fork"
    /\ UNCHANGED <<runVars, todo, sigVars, signalled, ops, kid>>

\* if (!stress_continue_flag()) break; leaves the loop over the instances of
\* this stressor; the loop over the stressors goes on.
ForkStopped ==
    /\ mpc = "fork" /\ ~mflag
    /\ todo' = {t \in todo : Item[t] # Item[cur]}
    /\ mpc' = "init"
    /\ cur' = 0
    /\ UNCHANGED <<runVars, sigVars, shared, kid>>

Fork ==
    /\ mpc = "fork" /\ mflag
    /\ kid' = [kid EXCEPT ![cur] = NewKid]
    /\ mpc' = "record"
    /\ UNCHANGED <<mainVars, sigVars, shared>>

\* EAGAIN: marked as reaped, and tried again.
ForkAgain ==
    /\ ForkErrors /\ mpc = "fork" /\ mflag
    /\ reaped' = reaped \cup {cur}
    /\ UNCHANGED <<mpc, mainVars, sigVars, pid, signalled, ops, kid>>

\* Any other error: stop what was started and wait for it.
ForkFails ==
    /\ ForkErrors /\ mpc = "fork" /\ mflag
    /\ reaped' = reaped \cup {cur}
    /\ stress_stressors_kill(kid, Targets \ {cur}, FALSE)
    /\ todo' = {}
    /\ mpc' = "handler"
    /\ cur' = 0
    /\ UNCHANGED <<runVars, mflag, mpend, pid, ops, sigints>>

\* The parent's side of a successful fork.
Record ==
    /\ mpc = "record"
    /\ pid' = [pid EXCEPT ![cur] = 1]
    /\ reaped' = reaped \ {cur}
    /\ signalled' = signalled \ {cur}
    /\ started' = started + 1
    /\ todo' = todo \ {cur}
    /\ mpc' = "started"
    /\ cur' = 0
    /\ UNCHANGED <<run, setting, mhandler, resultVars, sigVars, ops, kid>>

StartedGoOn ==
    /\ mpc = "started" /\ mflag
    /\ mpc' = "poll"
    /\ UNCHANGED <<mainVars, sigVars, shared, kid>>

\* Wrong variant: no stress_stressors_kill after a stop during start-up.
StartedNoKill ==
    /\ mpc = "started" /\ ~mflag
    /\ todo' = {}
    /\ mpc' = "handler"
    /\ UNCHANGED <<runVars, cur, sigVars, shared, kid>>

\* "abort signal during startup, cleaning up"
StartedStopped ==
    /\ mpc = "started" /\ ~mflag
    /\ stress_stressors_kill(kid, Targets, TRUE)
    /\ todo' = {}
    /\ mpc' = "handler"
    /\ UNCHANGED <<runVars, cur, mflag, mpend, pid, reaped, ops, sigints>>

\* stress_child_wait(WNOHANG) finds nothing.
PollNothing ==
    /\ mpc = "poll" /\ Zombies = {}
    /\ mpc' = "init"
    /\ UNCHANGED <<mainVars, sigVars, shared, kid>>

AllStarted ==
    /\ mpc = "init" /\ todo = {}
    /\ mpc' = "handler"
    /\ UNCHANGED <<mainVars, sigVars, shared, kid>>

stress_handler_set ==
    /\ mpc = "handler"
    /\ mhandler' = TRUE
    /\ mpc' = IF Aggressive THEN "acount" ELSE "count"
    /\ UNCHANGED <<run, setting, started, resultVars, todo, cur, sigVars, shared, kid>>
-----------------------------------------------------------------------------
(* The supervisor: stress_stressors_wait. *)

AggressiveDone ==
    /\ mpc = "aggressive" /\ reapCount <= 0
    /\ mpc' = "count"
    /\ UNCHANGED <<mainVars, sigVars, shared, kid>>

\* Wrong variant: stressors that were told to stop are not waited for.
ReapCountUnsignalled ==
    /\ mpc \in {"acount", "count"}
    /\ reapCount' = Cardinality({s \in Inst : pid[s] = 1 /\ s \notin reaped \cup signalled})
    /\ mpc' = IF mpc = "acount" THEN "aggressive" ELSE "wait"
    /\ UNCHANGED <<run, setting, mhandler, started, waited, mainMoved, verdict, tally, seen,
                   todo, cur, sigVars, shared, kid>>

\* Called once by stress_aggressive_wait and once for the blocking loop.
stress_wait_reap_count ==
    /\ mpc \in {"acount", "count"}
    /\ reapCount' = Cardinality({s \in Inst : pid[s] = 1 /\ s \notin reaped})
    /\ mpc' = IF mpc = "acount" THEN "aggressive" ELSE "wait"
    /\ UNCHANGED <<run, setting, mhandler, started, waited, mainMoved, verdict, tally, seen,
                   todo, cur, sigVars, shared, kid>>

\* waitpid(-1, &status, ...) returns the process of instance s.
WaitReturns(s) ==
    /\ mpc \in {"poll", "aggressive", "wait"}
    /\ mpc # "poll" => reapCount > 0
    /\ s \in Zombies
    /\ waited' = [inst |-> s, rc |-> kid[s].rc,
                  back |-> IF mpc = "poll" THEN "init" ELSE mpc]
    /\ seen' = [r \in Apart |-> seen[r] + IF r = kid[s].rc THEN 1 ELSE 0]
    /\ kid' = [kid EXCEPT ![s] = NoKid]
    /\ mpc' = "status"
    /\ UNCHANGED <<run, setting, mhandler, started, reapCount, mainMoved, verdict, tally,
                   todo, cur, sigVars, shared>>

\* Wrong variants of the next definition: a status that is not counted, and one
\* counted under the wrong heading.
MetricsUncounted(rc) ==
    CASE rc \in {"SUCCESS", "sigKILL", "sigALRM"} -> {"PASSED"}
      [] rc \in {"NO_RESOURCE", "NOT_IMPLEMENTED"} -> {"SKIPPED"}
      [] rc \in {"FAILURE", "SIGNALED", "BY_SYS_EXIT", "sigOther"} -> {"FAILED"}
      [] rc = "METRICS_UNTRUSTWORTHY" -> {}
      [] rc = "NOT_SUCCESS" -> {}

SkippedAsFailed(rc) ==
    CASE rc \in {"SUCCESS", "sigKILL", "sigALRM"} -> {"PASSED"}
      [] rc \in {"NO_RESOURCE", "NOT_IMPLEMENTED"} -> {"FAILED"}
      [] rc \in {"FAILURE", "SIGNALED", "BY_SYS_EXIT", "sigOther"} -> {"FAILED"}
      [] rc = "METRICS_UNTRUSTWORTHY" -> {"BAD_METRICS"}
      [] rc = "NOT_SUCCESS" -> {}

\* The status[] counter a wait status is counted under, if any.
CountedAs(rc) ==
    CASE rc \in {"SUCCESS", "sigKILL", "sigALRM"} -> {"PASSED"}
      [] rc \in {"NO_RESOURCE", "NOT_IMPLEMENTED"} -> {"SKIPPED"}
      [] rc \in {"FAILURE", "SIGNALED", "BY_SYS_EXIT", "sigOther"} -> {"FAILED"}
      [] rc = "METRICS_UNTRUSTWORTHY" -> {"BAD_METRICS"}
      [] rc = "NOT_SUCCESS" -> {}

DoAbort(rc) == rc \in {"NO_RESOURCE", "SIGNALED", "BY_SYS_EXIT", "FAILURE",
                       "NOT_SUCCESS", "sigOther"}

\* Wrong variant: --abort clears the flag and tells nobody.
WaitStatusNoKill ==
    LET s == waited.inst
        rc == waited.rc
        left == reapCount - 1
    IN
    /\ mpc = "status"
    /\ reaped' = reaped \cup {s}
    /\ tally' = [c \in Counted |-> tally[c] + IF c \in CountedAs(rc) THEN 1 ELSE 0]
    /\ verdict' = [success |-> /\ verdict.success
                               /\ rc \notin {"SIGNALED", "FAILURE", "NOT_SUCCESS", "sigOther"},
                   resource |-> verdict.resource /\ rc # "NO_RESOURCE",
                   metrics |-> verdict.metrics /\ rc # "METRICS_UNTRUSTWORTHY"]
    /\ mflag' = (mflag /\ ~(Abort /\ DoAbort(rc)))
    /\ UNCHANGED <<ops, kid, signalled, kills>>
    /\ pid' = [pid EXCEPT ![s] = 0]
    /\ waited' = [waited EXCEPT !.inst = 0, !.rc = "SUCCESS"]
    /\ reapCount' = IF waited.back = "init" THEN reapCount ELSE left
    /\ mainMoved' = (mainMoved \/ (waited.back = "aggressive" /\ left > 0))
    /\ mpc' = waited.back
    /\ UNCHANGED <<run, setting, mhandler, started, seen, todo, cur, mpend, sigints>>

\* stress_child_wait after waitpid, with all of stress_wait_status.
stress_wait_status ==
    LET s == waited.inst
        rc == waited.rc
        left == reapCount - 1
    IN
    /\ mpc = "status"
    /\ reaped' = reaped \cup {s}
    /\ tally' = [c \in Counted |-> tally[c] + IF c \in CountedAs(rc) THEN 1 ELSE 0]
    /\ verdict' = [success |-> /\ verdict.success
                               /\ rc \notin {"SIGNALED", "FAILURE", "NOT_SUCCESS", "sigOther"},
                   resource |-> verdict.resource /\ rc # "NO_RESOURCE",
                   metrics |-> verdict.metrics /\ rc # "METRICS_UNTRUSTWORTHY"]
    /\ IF Abort /\ DoAbort(rc)
       THEN /\ mflag' = FALSE
            /\ ops' = {}
            /\ stress_stressors_kill(kid, Targets \ {s}, TRUE)
       ELSE UNCHANGED <<mflag, ops, kid, signalled, kills>>
    /\ pid' = [pid EXCEPT ![s] = 0]
    /\ waited' = [waited EXCEPT !.inst = 0, !.rc = "SUCCESS"]
    /\ reapCount' = IF waited.back = "init" THEN reapCount ELSE left
    \* stress_aggressive_wait: sched_setaffinity(stats->s_pid.pid, ...), with a
    \* pid that stress_stressor_finished has just zeroed: the caller itself.
    /\ mainMoved' = (mainMoved \/ (waited.back = "aggressive" /\ left > 0))
    /\ mpc' = waited.back
    /\ UNCHANGED <<run, setting, mhandler, started, seen, todo, cur, mpend, sigints>>

EndRun ==
    /\ mpc = "wait" /\ reapCount <= 0
    /\ mpc' = "idle"
    /\ UNCHANGED <<mainVars, sigVars, shared, kid>>
-----------------------------------------------------------------------------
(* Signals taken by the supervisor, at any point. *)

MainRunning == mpc \notin {"done", "dead"}

\* stress_sigint_handler, or stress_terminate_handle before it is installed.
MainSigint ==
    /\ MainRunning /\ "INT" \in mpend
    /\ mpend' = mpend \ {"INT"}
    /\ mflag' = FALSE
    /\ ops' = {}
    /\ stress_stressors_kill(kid, Targets, TRUE)
    /\ UNCHANGED <<mpc, mainVars, pid, reaped, sigints>>

\* stress_sigalrm_handler in the supervisor: the continue flag stays set.
MainSigalrm ==
    /\ MainRunning /\ "ALRM" \in mpend /\ mhandler
    /\ mpend' = mpend \ {"ALRM"}
    /\ ops' = {}
    /\ stress_stressors_kill(kid, Targets, FALSE)
    /\ UNCHANGED <<mpc, mainVars, mflag, pid, reaped, sigints>>

\* Wrong variant: no stressor has asked for a signal on its parent's death.
MainDiesSilently ==
    /\ mpc' = "dead"
    /\ kid' = kid

\* The kernel sends PDEATHSIG to the stressors that have asked for it.
MainDies ==
    /\ mpc' = "dead"
    /\ kid' = Deliver(kid, {s \in Inst : kid[s].pc \notin {"born", "new"}}, "ALRM")

\* SIGALRM is not in stress_signal_map: until the end of the first start-up
\* phase its default action is in force.
MainSigalrmDefault ==
    /\ MainRunning /\ "ALRM" \in mpend /\ ~mhandler
    /\ MainDies
    /\ UNCHANGED <<mainVars, sigVars, shared>>

MainIsKilled ==
    /\ setting.mainKilled /\ MainRunning
    /\ MainDies
    /\ UNCHANGED <<mainVars, sigVars, shared>>

\* The user sends SIGINT to main, or types Ctrl-C.
UserSigint ==
    /\ MainRunning /\ sigints < MaxSigint
    /\ sigints' = sigints + 1
    /\ mpend' = mpend \cup {"INT"}
    /\ kid' = kid \/ (Group /\ kid' = Deliver(kid, Inst, "INT"))
    /\ UNCHANGED <<mpc, mainVars, mflag, kills, pid, reaped, signalled, ops>>
-----------------------------------------------------------------------------
(* A stressor process: stress_child_run. *)

kidOnly == <<mpc, mainVars, mflag, kills, sigints>>

Goto(s, pc) == kid' = [kid EXCEPT ![s].pc = pc]

ChildBorn(s) ==
    /\ kid[s].pc = "born"
    /\ reaped' = reaped \ {s}
    /\ pid' = [pid EXCEPT ![s] = 1]
    /\ Goto(s, "new")
    /\ UNCHANGED <<kidOnly, mpend, signalled, ops>>

\* stress_handler_set, PDEATHSIG
ChildSetup(s) ==
    /\ kid[s].pc = "new"
    /\ kid' = [kid EXCEPT ![s].pc = "setup", ![s].handler = TRUE]
    /\ UNCHANGED <<kidOnly, mpend, pid, reaped, signalled, ops>>

\* stress_sched_settings_apply fails: EXIT_FAILURE with all signals blocked.
ChildSetupFails(s) ==
    /\ kid[s].pc = "new" /\ "SCHED" \in Outcomes
    /\ kid' = [kid EXCEPT ![s].pc = "exit", ![s].rc = "FAILURE"]
    /\ UNCHANGED <<kidOnly, mpend, pid, reaped, signalled, ops>>

\* Wrong variant: the timeout is never armed.
ChildNoAlarm(s) ==
    /\ kid[s].pc = "setup"
    /\ Goto(s, "check")
    /\ UNCHANGED <<kidOnly, mpend, pid, reaped, signalled, ops>>

\* if (g_opt_timeout) alarm(g_opt_timeout), which replaces any other alarm.
ChildAlarm(s) ==
    /\ kid[s].pc = "setup"
    /\ kid' = [kid EXCEPT ![s].pc = "check",
                          ![s].alarm = IF setting.timeout THEN "timeout" ELSE @]
    /\ UNCHANGED <<kidOnly, mpend, pid, reaped, signalled, ops>>

ChildCheck(s) ==
    /\ kid[s].pc = "check"
    /\ Goto(s, IF kid[s].flag THEN "begin" ELSE "skip")
    /\ UNCHANGED <<kidOnly, mpend, pid, reaped, signalled, ops>>

\* args->bogo.max_ops = ...; info->stressor(args) is called.
ChildBegin(s) ==
    /\ kid[s].pc = "begin"
    /\ ops' = ops \cup {s}
    /\ Goto(s, "run")
    /\ UNCHANGED <<kidOnly, mpend, pid, reaped, signalled>>

\* The stressor goes on as long as stress_continue(args) holds.
ChildWorks(s) == kid[s].pc = "run" /\ s \in ops /\ UNCHANGED vars

\* pr_msg: with the fifth failure the flag is cleared and everybody's bogo ops are
\* stopped.  That the stressor will have failed (abort_msg_emitted) is kept in rc.
FiveFailures(s) ==
    /\ kid[s].pc = "run" /\ "FAILURES" \in Outcomes
    /\ kid' = [kid EXCEPT ![s].flag = FALSE, ![s].rc = "FAILURE"]
    /\ ops' = {}
    /\ UNCHANGED <<kidOnly, mpend, pid, reaped, signalled>>

\* Wrong variant: what the stressor returns is believed.
ChildReturnsUnchecked(s, rc) ==
    /\ kid[s].pc = "run"
    /\ kid' = [kid EXCEPT ![s].pc = "exit", ![s].rc = rc, ![s].alarm = "off"]
    /\ UNCHANGED <<kidOnly, mpend, pid, reaped, signalled, ops>>

\* The stressor returns rc, because it was told to stop or by itself; then
\* signals are blocked, the alarm is cancelled and pr_fail_check turns a success
\* after five failures into a failure.
ChildReturns(s, rc) ==
    /\ kid[s].pc = "run"
    /\ kid' = [kid EXCEPT ![s].pc = "exit", ![s].alarm = "off",
                          ![s].rc = IF rc = "SUCCESS" THEN @ ELSE rc]
    /\ UNCHANGED <<kidOnly, mpend, pid, reaped, signalled, ops>>

ChildStops(s) == s \notin ops /\ ChildReturns(s, "SUCCESS")

ChildEnds(s) == \E rc \in Outcomes \cap Returned : ChildReturns(s, rc)

\* child_exit: with --abort a non-zero rc stops everybody and sends SIGALRM to
\* the parent; then _exit(rc).
ChildExit(s) ==
    /\ kid[s].pc \in {"skip", "exit"}
    /\ kid' = [kid EXCEPT ![s] = Zombie(kid[s].rc)]
    /\ IF Abort /\ kid[s].rc # "SUCCESS"
       THEN /\ ops' = {}
            /\ mpend' = IF MainRunning THEN mpend \cup {"ALRM"} ELSE mpend
       ELSE UNCHANGED <<ops, mpend>>
    /\ UNCHANGED <<kidOnly, pid, reaped, signalled>>

\* The stressor calls exit(): stress_child_atexit.
ChildSysExit(s) ==
    /\ kid[s].pc = "run" /\ "SYS_EXIT" \in Outcomes
    /\ kid' = [kid EXCEPT ![s] = Zombie("BY_SYS_EXIT")]
    /\ UNCHANGED <<kidOnly, mpend, pid, reaped, signalled, ops>>

\* SIGSEGV, SIGILL, SIGFPE, SIGABRT: stress_terminate_handle stops all the
\* stressors (HandlerLooks, HandlerKills) and exits with EXIT_SIGNALED.
ChildCrash(s) ==
    /\ kid[s].pc = "run" /\ "CRASH" \in Outcomes
    /\ ops' = {}
    /\ kid' = [kid EXCEPT ![s].pc = "crash", ![s].hunt = Inst]
    /\ UNCHANGED <<kidOnly, mpend, pid, reaped, signalled>>

ChildCrashed(s) ==
    /\ kid[s].pc = "crash"
    /\ kid' = [kid EXCEPT ![s] = Zombie("SIGNALED")]
    /\ UNCHANGED <<kidOnly, mpend, pid, reaped, signalled, ops>>

\* Death by a signal with no handler, or by the OOM killer.
ChildKilled(s) ==
    /\ \/ kid[s].pc = "run" /\ "SIGNAL" \in Outcomes
          /\ kid' = [kid EXCEPT ![s] = Zombie("sigOther")]
       \/ Alive(s) /\ "OOM" \in Outcomes
          /\ kid' = [kid EXCEPT ![s] = Zombie("sigKILL")]
    /\ UNCHANGED <<kidOnly, mpend, pid, reaped, signalled, ops>>

AlarmFires(s) ==
    /\ Alive(s) /\ kid[s].alarm # "off"
    /\ kid' = [kid EXCEPT ![s].alarm = "off", ![s].pend = @ \cup {"ALRM"}]
    /\ UNCHANGED <<kidOnly, mpend, pid, reaped, signalled, ops>>

\* Wrong variant: no re-alarm.
ChildSigalrmOnce(s) ==
    /\ Alive(s) /\ ~Blocked(s) /\ "ALRM" \in kid[s].pend /\ kid[s].handler
    /\ kid' = [kid EXCEPT ![s].pend = @ \ {"ALRM"}, ![s].flag = FALSE]
    /\ ops' = {}
    /\ UNCHANGED <<kidOnly, mpend, pid, reaped, signalled>>

\* stress_sigalrm_handler in a stressor: stop everybody's bogo ops, clear the
\* own flag, and ask for another SIGALRM in a second.
ChildSigalrm(s) ==
    /\ Alive(s) /\ ~Blocked(s) /\ "ALRM" \in kid[s].pend /\ kid[s].handler
    /\ kid' = [kid EXCEPT ![s].pend = @ \ {"ALRM"}, ![s].flag = FALSE,
                          ![s].alarm = "realarm"]
    /\ ops' = {}
    /\ UNCHANGED <<kidOnly, mpend, pid, reaped, signalled>>

\* Before the handler is set: the default action, or that of the supervisor.
ChildSigalrmDefault(s) ==
    /\ Alive(s) /\ ~Blocked(s) /\ "ALRM" \in kid[s].pend /\ ~kid[s].handler
    /\ kid' = [kid EXCEPT ![s] = Zombie("sigALRM")]
    /\ UNCHANGED <<kidOnly, mpend, pid, reaped, signalled, ops>>

\* stress_sigint_handler in a stressor.  SIGINT is masked while it runs.
ChildSigint(s) ==
    /\ Alive(s) /\ ~Blocked(s) /\ ~InHandler(s) /\ "INT" \in kid[s].pend
    /\ kid' = [kid EXCEPT ![s].pend = @ \ {"INT"}, ![s].flag = FALSE, ![s].hunt = Inst]
    /\ ops' = {}
    /\ UNCHANGED <<kidOnly, mpend, pid, reaped, signalled>>

\* stress_stressors_kill in a handler of a stressor, whose own count of calls
\* stays below 6: instance by instance the pid is loaded and tested, and only then
\* is the process killed.  Main may wait for it in between.
HandlerLooks(s) ==
    \E t \in kid[s].hunt :
        /\ kid[s].aim = 0 /\ \A u \in kid[s].hunt : t <= u
        /\ kid' = [kid EXCEPT ![s].hunt = @ \ {t}, ![s].aim = IF t \in Targets THEN t ELSE 0]
        /\ UNCHANGED <<kidOnly, mpend, pid, reaped, signalled, ops>>

\* Whoever has the pid of a process already waited for is outside this model.
HandlerKills(s) ==
    /\ kid[s].aim # 0
    /\ kid' = Deliver([kid EXCEPT ![s].aim = 0], {kid[s].aim}, "ALRM")
    /\ signalled' = signalled \cup {kid[s].aim}
    /\ UNCHANGED <<kidOnly, mpend, pid, reaped, ops>>
-----------------------------------------------------------------------------
MainStep ==
    \/ BeginRun \/ Finish \/ (\E s \in Inst : InitInstance(s)) \/ ForkStopped \/ Fork \/ ForkAgain
    \/ ForkFails \/ Record \/ StartedGoOn \/ StartedStopped \/ PollNothing
    \/ AllStarted \/ stress_handler_set \/ AggressiveDone \/ stress_wait_reap_count
    \/ (\E s \in Inst : WaitReturns(s)) \/ stress_wait_status \/ EndRun

MainSignal == MainSigint \/ MainSigalrm \/ MainSigalrmDefault

ChildStep(s) ==
    \/ HandlerLooks(s) \/ HandlerKills(s)
    \/ /\ ~InHandler(s)
       /\ \/ ChildBorn(s) \/ ChildSetup(s) \/ ChildAlarm(s) \/ ChildCheck(s)
          \/ ChildBegin(s) \/ ChildStops(s) \/ ChildExit(s) \/ ChildCrashed(s)

ChildSignal(s) ==
    AlarmFires(s) \/ ChildSigalrm(s) \/ ChildSigalrmDefault(s) \/ ChildSigint(s)

\* What may happen to a stressor process but need not.
ChildFate(s) ==
    \/ ChildKilled(s)
    \/ /\ ~InHandler(s)
       /\ \/ ChildWorks(s) \/ ChildSetupFails(s) \/ ChildEnds(s) \/ ChildSysExit(s)
          \/ ChildCrash(s) \/ FiveFailures(s)

Terminated == ~MainRunning /\ (\A s \in Inst : ~Alive(s)) /\ UNCHANGED vars

Next ==
    \/ MainStep \/ MainSignal \/ UserSigint \/ MainIsKilled
    \/ \E s \in Inst : ChildStep(s) \/ ChildSignal(s) \/ ChildFate(s)
    \/ Terminated

Spec == Init /\ [][Next]_vars

\* Every process is scheduled and takes the signals that are due or pending, in
\* whatever order.  Nothing is assumed of a stressor that has not been told to stop.
Fairness ==
    /\ WF_vars(MainStep) /\ WF_vars(MainSignal)
    /\ \A s \in Inst : WF_vars(ChildStep(s)) /\ WF_vars(ChildSignal(s))

FairSpec == Spec /\ Fairness
-----------------------------------------------------------------------------
(***************************************************************************)
(* Properties.                                                             *)
(***************************************************************************)
Processes == {s \in Inst : kid[s].pc # "none"}

\* The exit status main ends with.
ExitStatus == IF ~verdict.success THEN 2
              ELSE IF ~verdict.resource THEN 3
              ELSE IF ~verdict.metrics THEN 7 ELSE 0

\* When a stress_run is over no process of it is left, running or zombie,
\* whatever was signalled, killed or failed to start meanwhile.
NoneLeftBehind == mpc \in {"idle", "done"} => Processes = {}

\* reap_count, a local copy counted down while handlers and stressors change
\* the shared pids, is exactly the number of processes still to be waited for:
\* one too many blocks main for ever, one too few leaves a stressor behind.
ReapCountExact ==
    /\ mpc \in {"aggressive", "wait"} => reapCount = Cardinality(Processes)
    /\ mpc = "status" /\ waited.back # "init" => reapCount = Cardinality(Processes) + 1

\* Once main has seen a stop request and has left the start-up loop, every
\* stressor that is still alive has been signalled, the one being forked when
\* the request came included (the clean-up at "abort signal during startup").
StopReachesAll ==
    (~mflag /\ mpc \in {"handler", "acount", "count", "aggressive", "wait"})
        => \A s \in Inst : Alive(s) => s \in signalled

\* A SIGALRM that hits a stressor between its check of the continue flag and
\* its store of max_ops is not lost: a signalled stressor that is about to run
\* or runs has been stopped or will get another SIGALRM (the re-alarm).
NoLostStop ==
    MainRunning =>
        \A s \in signalled :
            \/ kid[s].pc \notin {"begin", "run"}
            \/ mpc = "record" /\ s = cur
            \/ "ALRM" \in kid[s].pend
            \/ kid[s].alarm # "off"
            \/ kid[s].pc = "run" /\ s \notin ops

\* Main may be between the waitpid that has returned instance t and the store of
\* reaped.
JustWaited(t) == mpc = "status" /\ waited.inst = t

\* stress_stressors_kill only signals processes of this run, though the pid it has
\* tested may be given back to the kernel before it is used.  For main, the only
\* caller of waitpid, that is in the moment before the store of reaped, which a
\* handler of main may interrupt.  A handler of a stressor may also have passed its
\* tests and find the process reaped when it comes to the kill.
KillHitsOwn ==
    MainRunning =>
        /\ \A t \in Targets : t \in Processes \/ JustWaited(t)
        /\ \A s \in Inst : LET t == kid[s].aim IN
              t # 0 => t \in Processes \/ JustWaited(t) \/ (t \in reaped /\ pid[t] = 0)

Summary == tally["PASSED"] + tally["SKIPPED"] + tally["FAILED"] + tally["BAD_METRICS"]

\* "provide summary of exit status of all instances": every process started is
\* counted once, but for those that end with EXIT_NOT_SUCCESS, which are not counted
\* at all.
SummaryCountsAll ==
    mpc \in {"idle", "done"} => started = Summary + seen["NOT_SUCCESS"]

\* The exit status is 2 ("one or more stressors failed") exactly when an instance
\* failed otherwise than by calling exit(): EXIT_BY_SYS_EXIT is counted as failed
\* and leaves *success set, EXIT_NOT_SUCCESS clears it and is not counted.
ExitAgreesWithSummary ==
    mpc = "done" =>
        (ExitStatus = 2 <=> tally["FAILED"] > seen["BY_SYS_EXIT"] \/ seen["NOT_SUCCESS"] > 0)

\* "2: One or more stressors failed": the exit status is 2 exactly when the summary
\* reports a failed instance.
ExitTellsFailures == mpc = "done" => (ExitStatus = 2 <=> tally["FAILED"] > 0)

\* Main is not killed by the SIGALRM with which a failing stressor tells it to
\* stop the others (--abort).
AbortSparesMain == mpc # "dead"

\* "multiple calls will always fallback to SIGKILL": after the seventh forced
\* call of stress_stressors_kill no stressor is left running.  This does not hold
\* (README, section 5).
KillEscalates == kills > 6 => \A s \in signalled : ~Alive(s)

\* stress_aggressive_wait moves stressors between CPUs, not the supervisor.  This
\* does not hold (README, section 5).
MainStaysPut == ~mainMoved

\* A stop request ends the program, with no timeout set and stressors that
\* would run for ever.
StopTerminates == ~mflag ~> ~MainRunning

\* With a timeout the program ends by itself.
TimeoutTerminates == setting.timeout ~> ~MainRunning

\* With --abort one failure ends the program, with no timeout set.
AbortTerminates == (~setting.timeout /\ tally["FAILED"] > 0) ~> ~MainRunning

\* A stressor that has logged five failures, and has stopped everybody else with
\* the fifth, ends and is counted as failed although it returns success, unless it
\* is killed or main is (pr_fail_check overrides no other result).
FailuresCounted ==
    (\E s \in Inst : kid[s].pc = "run" /\ kid[s].rc = "FAILURE")
        ~> (tally["FAILED"] > 0 \/ mpc = "dead")

\* "send child SIGALRM if the parent died": when main is killed every stressor that
\* has come past stress_parent_died_alarm ends, with no timeout that would end it,
\* wherever the signal meets it.
OrphansStop ==
    <>(mpc = "dead") =>
        \A s \in Inst :
            (~setting.timeout /\ MainRunning /\ Alive(s) /\ kid[s].pc \notin {"born", "new"})
                ~> ~Alive(s)
-----------------------------------------------------------------------------
(***************************************************************************)
(* The inductive invariant behind NoneLeftBehind, ReapCountExact and        *)
(* KillHitsOwn: while main runs, the shared bookkeeping (pid, reaped) and    *)
(* the processes of the kernel agree, but for the instance being forked     *)
(* ("record") and the one just waited for ("status").                       *)
(***************************************************************************)
BookkeepingInv ==
    MainRunning =>
        /\ \A s \in Processes :
              (pid[s] = 1 /\ s \notin reaped) \/ (mpc = "record" /\ s = cur)
        /\ \A s \in Inst : (pid[s] = 1 /\ s \notin reaped) =>
              s \in Processes \/ (mpc = "status" /\ waited.inst = s)

StartInv ==
    /\ \A s \in todo : s \in Processes => ~MainRunning \/ (mpc = "record" /\ s = cur)
    /\ mpc \in {"fork", "record"} => cur \in todo
    /\ mpc = "record" => cur \in Processes
    /\ mpc = "status" => waited.inst \in Inst \ Processes

IndInv == FlowType /\ BookkeepingInv /\ StartInv /\ ReapCountExact /\ NoneLeftBehind

\* A signalled stressor that lives has its stop ahead of it or behind it: another
\* SIGALRM is pending or due, or it is on its way out.
StopPending(s) ==
    \/ "ALRM" \in kid[s].pend
    \/ kid[s].alarm # "off"
    \/ kid[s].pc \in {"skip", "exit", "crash"}
    \/ kid[s].pc = "run" /\ s \notin ops

StopKept ==
    MainRunning =>
        \A s \in signalled : Alive(s) => StopPending(s) \/ (mpc = "record" /\ s = cur)

\* Once main has seen a stop request every live stressor is signalled, but for the
\* one being forked; at "started" that one is signalled before main goes on.
StopCovers ==
    (MainRunning /\ ~mflag /\ mpc # "started") =>
        \A s \in Inst : Alive(s) => s \in signalled \/ (mpc = "record" /\ s = cur)

\* Every process is waited for with a known status.
StopInv == ResultType /\ StopKept /\ StopCovers

\* What a handler of a stressor aims at is, or was, a process of this run, and it is
\* not forked again while the handler runs, as this run waits for the handler's process.
Known(t) == t \in Processes \/ JustWaited(t) \/ (t \in reaped /\ pid[t] = 0)
Begun(t) == t \notin todo \/ (mpc = "record" /\ t = cur)

AimInv ==
    /\ \A s \in Inst : InHandler(s) => Alive(s)
    /\ mpc = "status" => waited.inst \notin todo
    /\ MainRunning =>
          \A s \in Inst : kid[s].aim # 0 => Known(kid[s].aim) /\ Begun(kid[s].aim)

\* Every process started has been counted, or is still to be waited for, or is the
\* one just waited for, or has ended with EXIT_NOT_SUCCESS.  The process being forked
\* is not yet in started.
LedgerInv ==
    mpc # "dead" =>
        started + (IF mpc = "record" THEN 1 ELSE 0)
          = Summary + seen["NOT_SUCCESS"] + Cardinality(Processes)
              + (IF mpc = "status" /\ waited.rc # "NOT_SUCCESS" THEN 1 ELSE 0)

\* Processes with status rc that stress_wait_status has dealt with.
Dealt(rc) == seen[rc] - IF mpc = "status" /\ waited.rc = rc THEN 1 ELSE 0

VerdictInv ==
    mpc # "dead" =>
        /\ tally["FAILED"] >= Dealt("BY_SYS_EXIT") /\ Dealt("NOT_SUCCESS") >= 0
        /\ verdict.success <=>
              tally["FAILED"] = Dealt("BY_SYS_EXIT") /\ Dealt("NOT_SUCCESS") = 0
=============================================================================
