----------------------------- MODULE SyncStart -----------------------------
(***************************************************************************)
(* --sync-start (core-sync.c): every stressor process stops itself with     *)
(* SIGSTOP when it is ready, and the supervisor, once it has seen them all   *)
(* ready, sends SIGCONT until they run.  They agree only through a byte of   *)
(* shared memory per instance (s_pid.state) and signals, and the pid that    *)
(* is stopped and continued is read anew each time: that of the oomable      *)
(* child of the instance if one is recorded, else that of the stressor.      *)
(* The default timeout (g_opt_timeout > 0) is assumed.                       *)
(***************************************************************************)
EXTENDS Integers, FiniteSets

CONSTANTS
    Inst,      \* the stressor instances, numbered in the order they are started
    Kinds,     \* where a stressor may call stress_sync_start_wait, see below
    Runs,      \* number of calls of stress_run with these instances (--permute)
    MayStop,   \* the user may send SIGINT
    MaxDeaths  \* bound: unexpected deaths of a stressor process or its child

\* plain: in the stressor process, which has no oomable child (stress-cpu.c);
\* before: in the stressor process before it forks the child (stress-vm.c);
\* inside: in the oomable child (stress-malloc.c, stress-bigheap.c).

ASSUME InstAssumption == Inst \subseteq Nat \ {0} /\ IsFiniteSet(Inst)
ASSUME KindAssumption == Kinds \subseteq {"plain", "before", "inside"}
ASSUME BoundsAssumption ==
    Runs \in Nat \ {0} /\ MaxDeaths \in Nat /\ MayStop \in BOOLEAN

VARIABLES
    kind,      \* the kind of the stressor of each instance
    mpc,       \* where the supervisor is
    run,       \* number of the current stress_run
    mflag,     \* g_stress_continue_flag of the supervisor
    list,      \* s_pids_head: the instances started in this run
    scan,      \* the instances the current pass over the list has still to visit
    unready,   \* the pass of the first loop met an instance that is not ready
    up,        \* running + finished of the pass of the second loop
    state,     \* s_pid.state, shared
    oomable,   \* s_pid.oomable_child, shared: which process that pid names
    parent,    \* the stressor process of each instance
    child,     \* its oomable child
    deaths     \* unexpected deaths so far

mainVars == <<kind, mpc, run, mflag, list, scan, unready, up>>
procVars == <<state, oomable, parent, child>>
vars == <<mainVars, procVars, deaths>>

States == {"STARTED", "WAITING", "RUNNING", "FINISHED"}
\* What the pid read from s_pid names: nobody recorded (oomable only), the
\* stressor process, its present child, a child that is gone.
Named == {"none", "parent", "child", "gone"}
\* target is the pid stress_sync_start_wait has read.
Process == [pc : {"none", "init", "store", "kill", "woken", "fork", "publish",
                  "reap", "running", "finish"},
            target : Named, stopped : BOOLEAN]
NoProcess == [pc |-> "none", target |-> "none", stopped |-> FALSE]
NewProcess == [NoProcess EXCEPT !.pc = "init"]

TypeOK ==
    /\ kind \in [Inst -> Kinds]
    /\ mpc \in {"fork", "poll", "cont", "load", "wait", "done"}
    /\ run \in 1..Runs /\ mflag \in BOOLEAN /\ unready \in BOOLEAN
    /\ up \in 0..Cardinality(Inst)
    /\ list \subseteq Inst /\ scan \subseteq Inst
    /\ state \in [Inst -> States]
    /\ oomable \in [Inst -> Named \ {"parent"}]
    /\ parent \in [Inst -> Process] /\ child \in [Inst -> Process]
    /\ deaths \in 0..MaxDeaths

Init ==
    /\ kind \in [Inst -> Kinds]
    /\ mpc = "fork" /\ run = 1 /\ mflag = TRUE
    /\ list = {} /\ scan = {} /\ unready = FALSE /\ up = 0
    /\ state = [i \in Inst |-> "WAITING"]
    /\ oomable = [i \in Inst |-> "none"]
    /\ parent = [i \in Inst |-> NoProcess] /\ child = [i \in Inst |-> NoProcess]
    /\ deaths = 0

Alive(p) == p.pc # "none"
\* A stopped process takes no step.
At(p, pc) == p.pc = pc /\ ~p.stopped
Goto(p, pc) == [p EXCEPT !.pc = pc]

\* The pid of core-sync.c: the oomable child if there is one, else the stressor.
PidOf(i) == IF oomable[i] = "none" THEN "parent" ELSE oomable[i]

\* SIGSTOP and SIGCONT change the process only if the pid still names it.
Stop(p) == [p EXCEPT !.stopped = Alive(p)]
Cont(p) == [p EXCEPT !.stopped = FALSE]
-----------------------------------------------------------------------------
(* The supervisor. *)

\* stress_run: initialise an instance, fork its process, add it to the list.
\* stress_sync_start_init leaves s_pid.oomable_child as the last run set it.
Start(i) ==
    /\ mpc = "fork" /\ mflag /\ i \in Inst \ list
    /\ \A j \in Inst \ list : i <= j
    /\ list' = list \cup {i}
    /\ state' = [state EXCEPT ![i] = "STARTED"]
    /\ parent' = [parent EXCEPT ![i] = NewProcess]
    /\ UNCHANGED <<kind, mpc, run, mflag, scan, unready, up, oomable, child, deaths>>

\* All started, or the start-up is cut short: stress_sync_start_cont_list begins.
StartEnds ==
    /\ mpc = "fork" /\ (list = Inst \/ ~mflag)
    /\ mpc' = "poll" /\ scan' = list /\ unready' = FALSE
    /\ UNCHANGED <<kind, run, mflag, list, up, procVars, deaths>>

\* The list is built by adding at its head: the last one started comes first.
Visit(i) == i \in scan /\ \A j \in scan : j <= i

\* Wrong variant of the next definition: not yet at the barrier taken for ready.
PollTakesStarted(i) ==
    /\ mpc = "poll" /\ Visit(i)
    /\ scan' = scan \ {i}
    /\ unready' = (unready \/ state[i] = "RUNNING")
    /\ UNCHANGED <<kind, mpc, run, mflag, list, up, procVars, deaths>>

\* First loop: load the state of one instance.
Poll(i) ==
    /\ mpc = "poll" /\ Visit(i)
    /\ scan' = scan \ {i}
    /\ unready' = (unready \/ state[i] \notin {"WAITING", "FINISHED"})
    /\ UNCHANGED <<kind, mpc, run, mflag, list, up, procVars, deaths>>

\* Somebody is not ready: sleep and look again.
PollAgain ==
    /\ mpc = "poll" /\ scan = {} /\ unready /\ mflag
    /\ scan' = list /\ unready' = FALSE
    /\ UNCHANGED <<kind, mpc, run, mflag, list, up, procVars, deaths>>

\* All ready; or the continue flag is clear, in which case unready has just
\* been set to 0 and the second loop is entered all the same.
PollDone ==
    /\ mpc = "poll" /\ scan = {} /\ (~unready \/ ~mflag)
    /\ mpc' = "cont" /\ scan' = list /\ unready' = FALSE /\ up' = 0
    /\ UNCHANGED <<kind, run, mflag, list, procVars, deaths>>

\* Second loop: SIGCONT to one instance, then load its state.
SendCont(i) ==
    /\ mpc = "cont" /\ Visit(i)
    /\ mpc' = "load"
    /\ parent' = IF PidOf(i) = "parent"
                 THEN [parent EXCEPT ![i] = Cont(@)] ELSE parent
    /\ child' = IF PidOf(i) = "child"
                THEN [child EXCEPT ![i] = Cont(@)] ELSE child
    /\ UNCHANGED <<kind, run, mflag, list, scan, unready, up, state, oomable, deaths>>

\* Wrong variant of the next definition: finished instances are not counted.
LoadRunningOnly(i) ==
    /\ mpc = "load" /\ Visit(i)
    /\ mpc' = "cont" /\ scan' = scan \ {i}
    /\ up' = IF state[i] = "RUNNING" THEN up + 1 ELSE up
    /\ UNCHANGED <<kind, run, mflag, list, unready, procVars, deaths>>

LoadState(i) ==
    /\ mpc = "load" /\ Visit(i)
    /\ mpc' = "cont" /\ scan' = scan \ {i}
    /\ up' = IF state[i] \in {"RUNNING", "FINISHED"} THEN up + 1 ELSE up
    /\ UNCHANGED <<kind, run, mflag, list, unready, procVars, deaths>>

\* Wrong variant of the next definition: the count of the last pass is kept.
ContAgainCounts ==
    /\ mpc = "cont" /\ scan = {} /\ up # Cardinality(list) /\ mflag
    /\ scan' = list
    /\ UNCHANGED <<kind, mpc, run, mflag, list, unready, up, procVars, deaths>>

ContAgain ==
    /\ mpc = "cont" /\ scan = {} /\ up # Cardinality(list) /\ mflag
    /\ scan' = list /\ up' = 0
    /\ UNCHANGED <<kind, mpc, run, mflag, list, unready, procVars, deaths>>

\* Wrong variant of the next definition: one pass of SIGCONTs is thought enough.
ContOnce ==
    /\ mpc = "cont" /\ scan = {}
    /\ mpc' = "wait"
    /\ UNCHANGED <<kind, run, mflag, list, scan, unready, up, procVars, deaths>>

ContDone ==
    /\ mpc = "cont" /\ scan = {} /\ (up = Cardinality(list) \/ ~mflag)
    /\ mpc' = "wait"
    /\ UNCHANGED <<kind, run, mflag, list, scan, unready, up, procVars, deaths>>

\* stress_stressors_wait has reaped every stressor process of the run.
WaitDone ==
    /\ mpc = "wait" /\ \A i \in list : ~Alive(parent[i])
    /\ IF run < Runs /\ mflag
       THEN mpc' = "fork" /\ run' = run + 1 /\ list' = {}
       ELSE mpc' = "done" /\ UNCHANGED <<run, list>>
    /\ UNCHANGED <<kind, mflag, scan, unready, up, procVars, deaths>>

\* stress_sigint_handler in the supervisor.  The SIGALRM it sends to the
\* stressors takes effect in ParentGivesUp, ParentAlarm, Ends and Quit.
UserStop ==
    /\ MayStop /\ mflag /\ mpc # "done"
    /\ mflag' = FALSE
    /\ UNCHANGED <<kind, mpc, run, list, scan, unready, up, procVars, deaths>>
-----------------------------------------------------------------------------
(* stress_sync_start_wait, in the stressor process or in its oomable child.  *)

\* pid = oomable_child ? oomable_child : pid
ReadPid(i, p) == [p EXCEPT !.pc = "store", !.target = PidOf(i)]

ParentReadPid(i) ==
    /\ At(parent[i], "init") /\ kind[i] # "inside"
    /\ parent' = [parent EXCEPT ![i] = ReadPid(i, @)]
    /\ UNCHANGED <<mainVars, state, oomable, child, deaths>>

ChildReadPid(i) ==
    /\ At(child[i], "init") /\ kind[i] = "inside"
    /\ child' = [child EXCEPT ![i] = ReadPid(i, @)]
    /\ UNCHANGED <<mainVars, state, oomable, parent, deaths>>

ParentStore(i) ==
    /\ At(parent[i], "store")
    /\ state' = [state EXCEPT ![i] = "WAITING"]
    /\ parent' = [parent EXCEPT ![i] = Goto(@, "kill")]
    /\ UNCHANGED <<mainVars, oomable, child, deaths>>

ChildStore(i) ==
    /\ At(child[i], "store")
    /\ state' = [state EXCEPT ![i] = "WAITING"]
    /\ child' = [child EXCEPT ![i] = Goto(@, "kill")]
    /\ UNCHANGED <<mainVars, oomable, parent, deaths>>

\* kill(pid, SIGSTOP).  A pid that names no process any more: ESRCH, go on.
ParentStop(i) ==
    /\ At(parent[i], "kill")
    /\ parent' = [parent EXCEPT ![i] =
                     IF @.target = "parent" THEN Stop(Goto(@, "woken")) ELSE Goto(@, "woken")]
    /\ child' = [child EXCEPT ![i] = IF parent[i].target = "child" THEN Stop(@) ELSE @]
    /\ UNCHANGED <<mainVars, state, oomable, deaths>>

ChildStop(i) ==
    /\ At(child[i], "kill")
    /\ child' = [child EXCEPT ![i] =
                    IF @.target = "child" THEN Stop(Goto(@, "woken")) ELSE Goto(@, "woken")]
    /\ parent' = [parent EXCEPT ![i] = IF child[i].target = "parent" THEN Stop(@) ELSE @]
    /\ UNCHANGED <<mainVars, state, oomable, deaths>>

\* Back from SIGSTOP: STRESS_SYNC_START_FLAG_RUNNING, alarm, on with the stressor.
ParentWoken(i) ==
    /\ At(parent[i], "woken")
    /\ state' = [state EXCEPT ![i] = "RUNNING"]
    /\ parent' = [parent EXCEPT ![i] = Goto(@, IF kind[i] = "plain" THEN "running" ELSE "fork")]
    /\ UNCHANGED <<mainVars, oomable, child, deaths>>

ChildWoken(i) ==
    /\ At(child[i], "woken")
    /\ state' = [state EXCEPT ![i] = "RUNNING"]
    /\ child' = [child EXCEPT ![i] = Goto(@, "running")]
    /\ UNCHANGED <<mainVars, oomable, parent, deaths>>
-----------------------------------------------------------------------------
(* The rest of a stressor: stress_oomable_child, the end of stress_child_run. *)

\* A stressor of kind inside calls stress_oomable_child first.
ParentInside(i) ==
    /\ At(parent[i], "init") /\ kind[i] = "inside"
    /\ parent' = [parent EXCEPT ![i] = Goto(@, "fork")]
    /\ UNCHANGED <<mainVars, state, oomable, child, deaths>>

\* fork() in stress_oomable_child; a pid recorded before names nobody now.
ForkChild(i) ==
    /\ At(parent[i], "fork")
    /\ child' = [child EXCEPT ![i] = NewProcess]
    /\ oomable' = [oomable EXCEPT ![i] = IF @ = "none" THEN "none" ELSE "gone"]
    /\ parent' = [parent EXCEPT ![i] = Goto(@, "publish")]
    /\ UNCHANGED <<mainVars, state, deaths>>

\* !stress_continue(args), or the time is over: EXIT_SUCCESS without a child.
ParentGivesUp(i) ==
    /\ At(parent[i], "fork")
    /\ parent' = [parent EXCEPT ![i] = Goto(@, "finish")]
    /\ UNCHANGED <<mainVars, state, oomable, child, deaths>>

\* args->stats->s_pid.oomable_child = pid
PublishChild(i) ==
    /\ At(parent[i], "publish")
    /\ oomable' = [oomable EXCEPT ![i] = "child"]
    /\ parent' = [parent EXCEPT ![i] = Goto(@, "reap")]
    /\ UNCHANGED <<mainVars, state, child, deaths>>

\* waitpid returns the child: the stressor is over.
ReapChild(i) ==
    /\ At(parent[i], "reap") /\ ~Alive(child[i])
    /\ parent' = [parent EXCEPT ![i] = Goto(@, "finish")]
    /\ UNCHANGED <<mainVars, state, oomable, child, deaths>>

\* SIGALRM interrupts waitpid (its own timeout or a stop): the parent signals
\* the child, up to SIGKILL, which a stopped process does not survive either.
ParentAlarm(i) ==
    /\ At(parent[i], "reap") /\ Alive(child[i])
    /\ child' = [child EXCEPT ![i] = NoProcess]
    /\ UNCHANGED <<mainVars, state, oomable, parent, deaths>>

\* The OOM killer, SIGBUS or SIGSEGV takes the child while the parent waits: it
\* is started again, unless --oomable is set.
ChildOomed(i) ==
    /\ deaths < MaxDeaths /\ Alive(child[i]) /\ At(parent[i], "reap")
    /\ child' = [child EXCEPT ![i] = NoProcess]
    /\ \E pc \in {"fork", "finish"} : parent' = [parent EXCEPT ![i] = Goto(@, pc)]
    /\ deaths' = deaths + 1
    /\ UNCHANGED <<mainVars, state, oomable>>

\* A child of a stressor of kind before has nothing to wait for.
ChildGoes(i) ==
    /\ At(child[i], "init") /\ kind[i] = "before"
    /\ child' = [child EXCEPT ![i] = Goto(@, "running")]
    /\ UNCHANGED <<mainVars, state, oomable, parent, deaths>>

\* The child finds !stress_continue(args) or its time over before it begins.
ChildQuits(i) ==
    /\ At(child[i], "init")
    /\ child' = [child EXCEPT ![i] = NoProcess]
    /\ UNCHANGED <<mainVars, state, oomable, parent, deaths>>

\* The work is done, or the timeout or a stop has come.
ChildEnds(i) ==
    /\ At(child[i], "running")
    /\ child' = [child EXCEPT ![i] = NoProcess]
    /\ UNCHANGED <<mainVars, state, oomable, parent, deaths>>

ParentEnds(i) ==
    /\ At(parent[i], "running")
    /\ parent' = [parent EXCEPT ![i] = Goto(@, "finish")]
    /\ UNCHANGED <<mainVars, state, oomable, child, deaths>>

\* The stressor returns before it is ready (EXIT_NO_RESOURCE and the like).
ReturnsEarly(i) ==
    /\ At(parent[i], "init")
    /\ parent' = [parent EXCEPT ![i] = Goto(@, "finish")]
    /\ UNCHANGED <<mainVars, state, oomable, child, deaths>>

\* stress_child_run after the stressor: STRESS_SYNC_START_FLAG_FINISHED, exit.
Finish(i) ==
    /\ At(parent[i], "finish")
    /\ state' = [state EXCEPT ![i] = "FINISHED"]
    /\ parent' = [parent EXCEPT ![i] = NoProcess]
    /\ UNCHANGED <<mainVars, oomable, child, deaths>>

\* The process ends without FINISHED: stress_child_run does not call the
\* stressor when its continue flag is clear.
Quit(i) ==
    /\ At(parent[i], "init") /\ ~mflag
    /\ parent' = [parent EXCEPT ![i] = NoProcess]
    /\ UNCHANGED <<mainVars, state, oomable, child, deaths>>

\* Or it calls exit(), or stress_sched_settings_apply fails, or it is killed,
\* which a stopped process does not survive.
Dies(i) ==
    /\ parent[i].pc \in {"init", "store", "kill", "woken"} /\ deaths < MaxDeaths
    /\ parent' = [parent EXCEPT ![i] = NoProcess]
    /\ deaths' = deaths + 1
    /\ UNCHANGED <<mainVars, state, oomable, child>>
-----------------------------------------------------------------------------
Main ==
    \/ \E i \in Inst : Start(i) \/ Poll(i) \/ SendCont(i) \/ LoadState(i)
    \/ StartEnds \/ PollAgain \/ PollDone \/ ContAgain \/ ContDone \/ WaitDone

Stressor(i) ==
    \/ ParentReadPid(i) \/ ParentStore(i) \/ ParentStop(i) \/ ParentWoken(i)
    \/ ParentInside(i) \/ ForkChild(i) \/ PublishChild(i) \/ ReapChild(i)
    \/ ParentAlarm(i) \/ ParentEnds(i) \/ Finish(i)

OomableChild(i) ==
    \/ ChildReadPid(i) \/ ChildStore(i) \/ ChildStop(i) \/ ChildWoken(i)
    \/ ChildGoes(i) \/ ChildEnds(i)

\* What may happen but need not.
Chance(i) ==
    \/ ParentGivesUp(i) \/ ChildOomed(i) \/ ChildQuits(i) \/ ReturnsEarly(i) \/ Quit(i) \/ Dies(i)

Next ==
    \/ Main \/ UserStop
    \/ \E i \in Inst : Stressor(i) \/ OomableChild(i) \/ Chance(i)

Spec == Init /\ [][Next]_vars

\* Every process that can run does run; alarms fire; stressors end in time.
Fairness ==
    /\ WF_vars(Main)
    /\ \A i \in Inst : WF_vars(Stressor(i)) /\ WF_vars(OomableChild(i))

FairSpec == Spec /\ Fairness
-----------------------------------------------------------------------------
(* Properties. *)

\* A stopped process p is made to run again, as q.
Continued(p, q) == p.stopped /\ ~q.stopped /\ Alive(q) /\ q.pc # "init"

\* The instance got as far as the barrier, in this run, or has ended its stressor.
Reached(i) == i \in list /\ state[i] # "STARTED"

\* A stopped process is continued only when every instance of the run has
\* reached the barrier, however its stores interleave with the passes of
\* stress_sync_start_cont_list, unless the run is being stopped.
ReleasedTogether ==
    [][\A i \in Inst :
          Continued(parent[i], parent'[i]) \/ Continued(child[i], child'[i])
          => ~mflag \/ \A j \in Inst : Reached(j)]_vars

\* When the supervisor turns to waiting for the stressors none is left stopped
\* at the barrier, where it would stay for ever: SIGCONT may come before the
\* SIGSTOP it is the answer to.  (A stop may cut the passes short, and a
\* stressor of kind inside may stop the wrong process: see WokenByParent.)
NoneLeftStopped ==
    mpc = "wait" /\ mflag => \A i \in Inst : kind[i] # "inside" => ~parent[i].stopped

\* With no stop, no unexpected death and no SIGSTOP that hits a stressor away
\* from the barrier, all runs get through the start and end.
Undisturbed ==
    mflag /\ deaths = 0 /\ \A i \in Inst : parent[i].stopped => parent[i].pc = "woken"
SyncTerminates == []Undisturbed => <>(mpc = "done")

\* What the comment on stress_sync_start_wait promises: a process in the
\* stopped state is woken up by the parent.
WokenByParent == \A i \in Inst : parent[i].stopped ~> ~parent[i].stopped
=============================================================================
