----------------------------- MODULE BogoMetrics -----------------------------
(***************************************************************************)
(* The bogo-op counter of an instance from its reset in stress_run to the    *)
(* verdict of stress_metrics_check: the stressor process, or a worker that  *)
(* stress_oomable_child runs and restarts for it, counts; stress_child_run   *)
(* publishes a second copy with a hash; main compares the two after every   *)
(* run.  Processes are killed between any two stores.  Every stressor of    *)
(* the list has one instance.                                               *)
(***************************************************************************)
EXTENDS Integers, Sequences, FiniteSets

CONSTANTS
    N,          \* number of stressors in the list
    Plan,       \* the stressors each stress_run is to start
    Wrapped,    \* stressors that use stress_oomable_child
    Oomable,    \* --oomable
    MaxOps,     \* bogo_max_ops
    Signals,    \* signals[] of stress_oomable_child: what it sends its worker
    MaxMishaps  \* bound: failures, interrupted increments, processes killed from
                \* outside, workers that die or get stuck, corrupted counters

Inst == 1..N

ASSUME PlanAssumption == N \in Nat /\ Plan \in Seq(SUBSET Inst) /\ Wrapped \subseteq Inst
ASSUME OptionsAssumption ==
    /\ Oomable \in BOOLEAN
    /\ Signals \in Seq({"ALRM", "TERM", "KILL"}) /\ Len(Signals) > 0
    /\ \A k \in 1..Len(Signals) : Signals[k] = "KILL" <=> k = Len(Signals)
    /\ MaxOps \in Nat \ {0} /\ MaxMishaps \in Nat

VARIABLES
    run, mpc, next,     \* main: the run, what it does, the stressor it has come to
    contin,             \* its continue flag
    pos,                \* *checksum: the next slot of the checksums
    told,               \* stressors that have got SIGALRM, which comes again and again
    halted,             \* stressors whose bogo.max_ops is zero
    bogo,               \* args->bogo.count and completed, in shared memory
    sum,                \* the checksums, in another shared memory
    slot,               \* stats->checksum
    kid,                \* the stressor processes
    worker,             \* the children of stress_oomable_child
    reported,           \* instances stress_metrics_check finds corrupted
    pub, hit, outlived, oomed,  \* history: has this run published, was the counter
                                \* corrupted since, did the worker outlive the
                                \* stressor, was it killed for lack of memory
    torn,                       \* history: instances with an increment interrupted and
                                \* none finished since
    mishaps

mainVars == <<run, mpc, next, contin, pos, slot, reported>>
history == <<pub, hit, outlived, oomed, torn>>
vars == <<mainVars, told, halted, bogo, sum, kid, worker, history, mishaps>>

SUCCESS == 0
FAILURE == 1
UNTRUSTWORTHY == 7

NoSum == [counter |-> 0, ok |-> FALSE, hash |-> <<>>]
Hash(counter, ok) == <<counter, ok>>
NoWorker == [at |-> "none", stuck |-> FALSE, how |-> "none"]

KidPc == {"none", "born", "stress", "not ready", "counted", "again", "wait", "ended",
          "completed", "run ok", "sum ok", "judged", "sum counter", "exited", "dead"}

BogoType == [ready : BOOLEAN, counter : 0..(MaxOps + 2), ok : BOOLEAN, force : BOOLEAN,
             completed : BOOLEAN, oom : BOOLEAN]
HashType == {<<>>} \cup (Nat \X BOOLEAN)
SumType == [counter : 0..(MaxOps + 2), ok : BOOLEAN, hash : HashType]
KidType == [pc : KidPc, rc : {SUCCESS, FAILURE, UNTRUSTWORTHY}, idx : 1..Len(Signals)]
WorkerType == [at : {"none", "run", "not ready", "counted", "zombie"}, stuck : BOOLEAN,
               how : {"none", "SUCCESS", "FAILURE", "OOM", "CRASH", "SIGNAL", "KILL"}]

TypeOK ==
    /\ run \in 1..(Len(Plan) + 1) /\ next \in 1..(N + 1) /\ pos \in 1..(N + 1)
    /\ mpc \in {"start", "forked", "wait", "check", "next run", "done"} /\ contin \in BOOLEAN
    /\ told \subseteq Inst /\ halted \subseteq Inst /\ reported \subseteq Inst
    /\ bogo \in [Inst -> BogoType] /\ sum \in [Inst -> SumType] /\ slot \in [Inst -> 0..N]
    /\ kid \in [Inst -> KidType] /\ worker \in [Inst -> WorkerType]
    /\ pub \in [Inst -> {"no", "begun", "full"}]
    /\ hit \subseteq Inst /\ outlived \subseteq Inst /\ oomed \subseteq Inst /\ torn \subseteq Inst
    /\ mishaps \in 0..MaxMishaps

Init ==
    /\ run = 1 /\ mpc = "start" /\ next = 1 /\ contin = TRUE /\ pos = 1
    /\ told = {} /\ halted = {} /\ reported = {}
    /\ bogo = [i \in Inst |-> [ready |-> FALSE, counter |-> 0, ok |-> FALSE, force |-> FALSE,
                               completed |-> FALSE, oom |-> FALSE]]
    /\ sum = [i \in Inst |-> NoSum] /\ slot = [i \in Inst |-> 0]
    /\ kid = [i \in Inst |-> [pc |-> "none", rc |-> SUCCESS, idx |-> 1]]
    /\ worker = [i \in Inst |-> NoWorker]
    /\ pub = [i \in Inst |-> "no"] /\ hit = {} /\ outlived = {} /\ oomed = {} /\ torn = {}
    /\ mishaps = 0
-----------------------------------------------------------------------------
(* Main: stress_run, and stress_metrics_check after it. *)

Mishap == mishaps < MaxMishaps /\ mishaps' = mishaps + 1

\* A result other than success is a mishap.
MishapIf(bad) == IF bad THEN Mishap ELSE UNCHANGED mishaps

\* ignore.permute: the slots of the stressor are skipped.
Skip ==
    /\ mpc = "start" /\ next <= N /\ next \notin Plan[run]
    /\ next' = next + 1 /\ pos' = pos + 1
    /\ UNCHANGED <<run, mpc, contin, slot, reported, told, halted, bogo, sum, kid, worker,
                   history, mishaps>>

\* Wrong variant: an increment interrupted in an earlier run is still there.
ResetKeepsReady ==
    /\ bogo' = [bogo EXCEPT ![next].counter = 0]
    /\ slot' = [slot EXCEPT ![next] = pos]
    /\ pub' = [pub EXCEPT ![next] = "no"]
    /\ hit' = hit \ {next} /\ torn' = torn \ {next}

\* The reset of the counter at the head of the loop, and the slot.
Reset ==
    /\ bogo' = [bogo EXCEPT ![next].ready = TRUE, ![next].counter = 0]
    /\ slot' = [slot EXCEPT ![next] = pos]
    /\ pub' = [pub EXCEPT ![next] = "no"]
    /\ hit' = hit \ {next} /\ torn' = torn \ {next}

Fork ==
    /\ mpc = "start" /\ next <= N /\ next \in Plan[run] /\ contin
    /\ Reset
    /\ mpc' = "forked"
    /\ kid' = [kid EXCEPT ![next] = [pc |-> "born", rc |-> SUCCESS, idx |-> 1]]
    /\ told' = told \ {next}
    /\ UNCHANGED <<run, next, contin, pos, reported, halted, sum, worker, outlived, oomed, mishaps>>

ForkedGoOn ==
    /\ mpc = "forked" /\ contin
    /\ mpc' = "start" /\ next' = next + 1 /\ pos' = pos + 1
    /\ UNCHANGED <<run, contin, slot, reported, told, halted, bogo, sum, kid, worker, history,
                   mishaps>>

\* A process that has not ended.
Alive(i) == kid[i].pc \notin {"none", "exited", "dead"}

\* "abort signal during startup, cleaning up": the later stressors are not reset.
ForkedStopped ==
    /\ mpc = "forked" /\ ~contin
    /\ mpc' = "wait"
    /\ told' = told \cup {i \in Inst : Alive(i)}
    /\ UNCHANGED <<run, next, contin, pos, slot, reported, halted, bogo, sum, kid, worker, history,
                   mishaps>>

\* if (!stress_continue_flag()) break: the slot is not counted, and the loop over
\* the stressors goes on.
StopSeen ==
    /\ mpc = "start" /\ next <= N /\ next \in Plan[run] /\ ~contin
    /\ Reset
    /\ next' = next + 1
    /\ UNCHANGED <<run, mpc, contin, pos, reported, told, halted, sum, kid, worker, outlived,
                   oomed, mishaps>>

\* fork fails for good: the others are told to stop, and main waits.
ForkFails ==
    /\ mpc = "start" /\ next <= N /\ next \in Plan[run] /\ contin /\ Mishap
    /\ Reset
    /\ mpc' = "wait"
    /\ told' = told \cup {i \in Inst : Alive(i)}
    /\ UNCHANGED <<run, next, contin, pos, reported, halted, sum, kid, worker, outlived, oomed>>

AllStarted ==
    /\ mpc = "start" /\ next = N + 1
    /\ mpc' = "wait"
    /\ UNCHANGED <<run, next, contin, pos, slot, reported, told, halted, bogo, sum, kid, worker,
                   history, mishaps>>

AllReaped ==
    /\ mpc = "wait" /\ \A i \in Inst : ~Alive(i)
    /\ mpc' = "check"
    /\ kid' = [i \in Inst |-> [kid[i] EXCEPT !.pc = "none"]]
    /\ UNCHANGED <<run, next, contin, pos, slot, reported, told, halted, bogo, sum, worker,
                   history, mishaps>>

\* Wrong variant: only the counters are compared.
CountersDiffer(i) == bogo[i].counter # sum[slot[i]].counter

\* One of the three comparisons fails.
Corrupted(i) ==
    \/ bogo[i].counter # sum[slot[i]].counter
    \/ bogo[i].ok # sum[slot[i]].ok
    \/ Hash(bogo[i].counter, bogo[i].ok) # sum[slot[i]].hash

stress_metrics_check ==
    /\ mpc = "check"
    /\ reported' = {i \in Inst : bogo[i].completed /\ Corrupted(i)}
    /\ mpc' = "next run"
    /\ UNCHANGED <<run, next, contin, pos, slot, told, halted, bogo, sum, kid, worker, history,
                   mishaps>>

\* The loop of stress_permute_run; checksum starts again at the first slot.
NextRun ==
    /\ mpc = "next run"
    /\ IF contin /\ run < Len(Plan)
       THEN mpc' = "start" /\ run' = run + 1 /\ next' = 1 /\ pos' = 1
       ELSE mpc' = "done" /\ UNCHANGED <<run, next, pos>>
    /\ UNCHANGED <<contin, slot, reported, told, halted, bogo, sum, kid, worker, history, mishaps>>

MainStep ==
    \/ Skip \/ Fork \/ ForkedGoOn \/ ForkedStopped \/ StopSeen \/ AllStarted \/ AllReaped
    \/ stress_metrics_check \/ NextRun

\* SIGINT to main: everybody is told, and max_ops of all is zero.
Stop ==
    /\ contin /\ mpc \notin {"next run", "done"}
    /\ contin' = FALSE
    /\ halted' = Inst
    /\ told' = told \cup {i \in Inst : Alive(i)}
    /\ UNCHANGED <<run, mpc, next, pos, slot, reported, bogo, sum, kid, worker, history, mishaps>>
-----------------------------------------------------------------------------
(* The stressor process: stress_child_run. *)

other == <<mainVars, mishaps>>

Kid(i, from, to) == kid[i].pc = from /\ kid' = [kid EXCEPT ![i].pc = to]

\* The timer of a stressor, or a SIGALRM it has got: all stressors are halted.
Alarm(i) ==
    /\ Alive(i) /\ kid[i].pc # "born" /\ (i \notin told \/ halted # Inst)
    /\ halted' = Inst
    /\ told' = told \cup {i}
    /\ UNCHANGED <<other, bogo, sum, kid, worker, history>>

\* Set-up fails, or the process has been told to stop before it begins.
ChildSkips(i) ==
    /\ kid[i].pc = "born"
    /\ \E rc \in {SUCCESS, FAILURE} :
          /\ rc = SUCCESS => i \in told
          /\ MishapIf(rc # SUCCESS)
          /\ kid' = [kid EXCEPT ![i].pc = "exited", ![i].rc = rc]
    /\ UNCHANGED <<mainVars, told, halted, bogo, sum, worker, history>>

\* max_ops is set, the counter and the checksum cleared, the stressor called.
ChildBegin(i) ==
    /\ Kid(i, "born", IF i \in Wrapped THEN "again" ELSE "stress")
    /\ halted' = halted \ {i}
    /\ bogo' = [bogo EXCEPT ![i].counter = 0, ![i].oom = FALSE]
    /\ sum' = [sum EXCEPT ![slot[i]] = NoSum]
    /\ UNCHANGED <<other, told, worker, history>>

stress_continue(i) == i \notin halted /\ bogo[i].counter < MaxOps

\* Wrong variant: max_ops is not looked at.
IncRegardless(i) ==
    /\ Kid(i, "stress", "not ready")
    /\ bogo' = [bogo EXCEPT ![i].ready = FALSE]
    /\ UNCHANGED <<other, told, halted, sum, worker, history>>

\* stress_bogo_inc, in three stores.
IncNotReady(i) ==
    /\ Kid(i, "stress", "not ready") /\ stress_continue(i)
    /\ bogo' = [bogo EXCEPT ![i].ready = FALSE]
    /\ UNCHANGED <<other, told, halted, sum, worker, history>>

IncCount(i) ==
    /\ Kid(i, "not ready", "counted")
    /\ bogo' = [bogo EXCEPT ![i].counter = @ + 1]
    /\ UNCHANGED <<other, told, halted, sum, worker, history>>

IncReady(i) ==
    /\ Kid(i, "counted", "stress")
    /\ bogo' = [bogo EXCEPT ![i].ready = TRUE]
    /\ torn' = torn \ {i}
    /\ UNCHANGED <<other, told, halted, sum, worker, pub, hit, outlived, oomed>>

\* The stressor returns; it must once it has been told to.
StressorReturns(i) ==
    /\ kid[i].pc = "stress"
    /\ \E rc \in {SUCCESS, FAILURE} :
          /\ kid' = [kid EXCEPT ![i].pc = "ended", ![i].rc = rc]
          /\ MishapIf(rc # SUCCESS)
    /\ UNCHANGED <<mainVars, told, halted, bogo, sum, worker, history>>

\* It jumps out of an increment in a signal handler, or has killed a child of its own
\* that was counting, and says so with stress_force_killed_bogo.
StressorInterrupted(i) ==
    /\ Mishap /\ kid[i].pc \in {"not ready", "counted"}
    /\ kid' = [kid EXCEPT ![i].pc = "ended"]
    /\ \E f \in BOOLEAN : bogo' = [bogo EXCEPT ![i].force = @ \/ f]
    /\ torn' = torn \cup {i}
    /\ UNCHANGED <<mainVars, told, halted, sum, worker, pub, hit, outlived, oomed>>

\* stats->completed = true
Completed(i) ==
    /\ Kid(i, "ended", "completed")
    /\ bogo' = [bogo EXCEPT ![i].completed = TRUE]
    /\ pub' = [pub EXCEPT ![i] = "begun"]
    /\ UNCHANGED <<other, told, halted, sum, worker, hit, outlived, oomed, torn>>

RunOk(i) ==
    /\ Kid(i, "completed", "run ok")
    /\ bogo' = [bogo EXCEPT ![i].ok = (kid[i].rc = SUCCESS)]
    /\ UNCHANGED <<other, told, halted, sum, worker, history>>

SumOk(i) ==
    /\ Kid(i, "run ok", "sum ok")
    /\ sum' = [sum EXCEPT ![slot[i]].ok = (kid[i].rc = SUCCESS)]
    /\ UNCHANGED <<other, told, halted, bogo, worker, history>>

\* bogo-ops counter in non-ready state, metrics are untrustworthy
Judge(i) ==
    /\ kid[i].pc = "sum ok"
    /\ kid' = [kid EXCEPT ![i].pc = "judged",
                          ![i].rc = IF ~bogo[i].ready /\ ~bogo[i].force
                                    THEN UNTRUSTWORTHY ELSE @]
    /\ UNCHANGED <<other, told, halted, bogo, sum, worker, history>>

\* Wrong variant: the counter of the slot is left as it was cleared.
SumNoCounter(i) ==
    /\ Kid(i, "judged", "sum counter")
    /\ UNCHANGED <<other, told, halted, bogo, sum, worker, history>>

SumCounter(i) ==
    /\ Kid(i, "judged", "sum counter")
    /\ sum' = [sum EXCEPT ![slot[i]].counter = bogo[i].counter]
    /\ UNCHANGED <<other, told, halted, bogo, worker, history>>

SumHash(i) ==
    /\ Kid(i, "sum counter", "exited")
    /\ sum' = [sum EXCEPT ![slot[i]].hash = Hash(sum[slot[i]].counter, sum[slot[i]].ok)]
    /\ pub' = [pub EXCEPT ![i] = "full"]
    /\ UNCHANGED <<other, told, halted, bogo, worker, hit, outlived, oomed, torn>>

ChildStep(i) ==
    \/ ChildBegin(i) \/ IncCount(i) \/ IncReady(i) \/ StressorReturns(i) \/ Completed(i)
    \/ RunOk(i) \/ SumOk(i) \/ Judge(i) \/ SumCounter(i) \/ SumHash(i)

\* SIGKILL from outside, or by the out of memory killer.
ChildKilled(i) ==
    /\ mishaps < MaxMishaps /\ Alive(i)
    /\ kid' = [kid EXCEPT ![i].pc = "dead"]
    /\ mishaps' = mishaps + 1
    /\ outlived' = IF worker[i].at \in {"run", "not ready", "counted"}
                   THEN outlived \cup {i} ELSE outlived
    /\ UNCHANGED <<mainVars, told, halted, bogo, sum, worker, pub, hit, oomed, torn>>

\* Bits flip in the statistics or the checksum of an instance that has ended,
\* before they are compared: once for what a run has published, as a second flip
\* could undo the first.
Fault(i) ==
    /\ mpc \in {"start", "forked", "wait", "check"}
    /\ Mishap /\ kid[i].pc \in {"none", "exited"} /\ pub[i] = "full" /\ i \notin hit
    /\ hit' = hit \cup {i}
    /\ \/ bogo' = [bogo EXCEPT ![i].counter = @ + 1] /\ UNCHANGED sum
       \/ bogo' = [bogo EXCEPT ![i].ok = ~@] /\ UNCHANGED sum
       \/ sum' = [sum EXCEPT ![slot[i]].counter = @ + 1] /\ UNCHANGED bogo
       \/ sum' = [sum EXCEPT ![slot[i]].hash = <<>>] /\ UNCHANGED bogo
    /\ UNCHANGED <<mainVars, told, halted, kid, worker, pub, outlived, oomed, torn>>
-----------------------------------------------------------------------------
(* stress_oomable_child. *)

\* again: the worker is forked unless it is time to stop.
Again(i) ==
    /\ kid[i].pc = "again"
    /\ IF stress_continue(i)
       THEN /\ kid' = [kid EXCEPT ![i].pc = "wait"]
            /\ worker' = [worker EXCEPT ![i] = [NoWorker EXCEPT !.at = "run"]]
       ELSE /\ kid' = [kid EXCEPT ![i].pc = "ended", ![i].rc = SUCCESS]
            /\ UNCHANGED worker
    /\ UNCHANGED <<other, told, halted, bogo, sum, history>>

Runs(i) == worker[i].at \in {"run", "not ready", "counted"} /\ ~worker[i].stuck

WorkerIncs(i) ==
    /\ Runs(i)
    /\ \/ /\ worker[i].at = "run" /\ stress_continue(i)
          /\ bogo' = [bogo EXCEPT ![i].ready = FALSE]
          /\ worker' = [worker EXCEPT ![i].at = "not ready"]
          /\ UNCHANGED torn
       \/ /\ worker[i].at = "not ready"
          /\ bogo' = [bogo EXCEPT ![i].counter = @ + 1]
          /\ worker' = [worker EXCEPT ![i].at = "counted"]
          /\ UNCHANGED torn
       \/ /\ worker[i].at = "counted"
          /\ bogo' = [bogo EXCEPT ![i].ready = TRUE]
          /\ worker' = [worker EXCEPT ![i].at = "run"]
          /\ torn' = torn \ {i}
    /\ UNCHANGED <<other, told, halted, sum, kid, pub, hit, outlived, oomed>>

\* A worker that is killed may leave an increment behind.
Torn(i) == IF worker[i].at \in {"not ready", "counted"} THEN {i} ELSE {}

\* A worker whose parent is gone leaves no zombie.
Gone(i, how) ==
    IF kid[i].pc = "wait" THEN [at |-> "zombie", stuck |-> FALSE, how |-> how] ELSE NoWorker

WorkerExits(i) ==
    /\ Runs(i) /\ worker[i].at = "run"
    /\ \E how \in {"SUCCESS", "FAILURE"} :
          /\ worker' = [worker EXCEPT ![i] = Gone(i, how)]
          /\ MishapIf(how # "SUCCESS")
    /\ UNCHANGED <<mainVars, told, halted, bogo, sum, kid, history>>

\* The out of memory killer, or SIGBUS or SIGSEGV.
WorkerDies(i) ==
    /\ Mishap /\ Runs(i)
    /\ \E how \in {"OOM", "CRASH"} :
          /\ worker' = [worker EXCEPT ![i] = Gone(i, how)]
          /\ oomed' = IF how = "OOM" THEN oomed \cup {i} ELSE oomed
    /\ torn' = torn \cup Torn(i)
    /\ UNCHANGED <<mainVars, told, halted, bogo, sum, kid, pub, hit, outlived>>

\* It sleeps in the kernel, where no signal reaches it, and may wake up again.
WorkerStuck(i) ==
    /\ Mishap /\ Runs(i)
    /\ worker' = [worker EXCEPT ![i].stuck = TRUE]
    /\ UNCHANGED <<mainVars, told, halted, bogo, sum, kid, history>>

WorkerWakes(i) ==
    /\ worker[i].stuck
    /\ worker' = [worker EXCEPT ![i].stuck = FALSE]
    /\ UNCHANGED <<other, told, halted, bogo, sum, kid, history>>

\* waitpid returns the worker's status: restart it, or report.
Waited(i, restart, rc, oom) ==
    /\ kid' = [kid EXCEPT ![i].pc = IF restart THEN "again" ELSE "ended", ![i].rc = rc]
    /\ worker' = [worker EXCEPT ![i] = NoWorker]
    /\ bogo' = [bogo EXCEPT ![i].oom = @ \/ oom]

\* Wrong variant: a SIGKILL the wrapper has sent itself is taken for the killer's.
AnyKill(i) == worker[i].how \in {"OOM", "KILL"}

\* Killed by SIGKILL while the next signal to send is not SIGKILL.
OomKill(i) == worker[i].how \in {"OOM", "KILL"} /\ Signals[kid[i].idx] # "KILL"

WaitReturns(i) ==
    /\ kid[i].pc = "wait" /\ worker[i].at = "zombie"
    /\ \/ worker[i].how = "CRASH" /\ Waited(i, TRUE, kid[i].rc, FALSE)
       \/ OomKill(i) /\ Waited(i, ~Oomable, IF Oomable THEN SUCCESS ELSE kid[i].rc, TRUE)
       \/ /\ worker[i].how # "CRASH" /\ ~OomKill(i)
          /\ Waited(i, FALSE, IF worker[i].how = "FAILURE" THEN FAILURE ELSE SUCCESS, FALSE)
    /\ UNCHANGED <<other, told, halted, sum, history>>

\* Wrong variant: the same signal is sent every time.
NoEscalation(i) ==
    /\ kid[i].pc = "wait" /\ worker[i].at # "zombie" /\ i \in told
    /\ \E dies \in {FALSE, ~worker[i].stuck} :
          worker' = IF dies THEN [worker EXCEPT ![i] = Gone(i, "SIGNAL")] ELSE worker
    /\ UNCHANGED <<other, told, halted, bogo, sum, kid, history>>

\* SIGALRM interrupts waitpid: the worker is sent the next signal.  It catches
\* the first ones, or dies of them.
WaitInterrupted(i) ==
    /\ kid[i].pc = "wait" /\ worker[i].at # "zombie" /\ i \in told
    /\ \E dies \in {FALSE, ~worker[i].stuck} :
          /\ Signals[kid[i].idx] = "KILL" => dies = ~worker[i].stuck
          /\ worker' = IF dies
                       THEN [worker EXCEPT ![i] = Gone(i, IF Signals[kid[i].idx] = "KILL"
                                                          THEN "KILL" ELSE "SIGNAL")]
                       ELSE worker
          /\ torn' = IF dies THEN torn \cup Torn(i) ELSE torn
    /\ kid' = [kid EXCEPT ![i].idx = IF @ < Len(Signals) THEN @ + 1 ELSE @]
    /\ UNCHANGED <<other, told, halted, bogo, sum, pub, hit, outlived, oomed>>

\* cannot terminate process, gave up
GiveUp(i) ==
    /\ kid[i].pc = "wait" /\ worker[i].stuck /\ i \in told /\ kid[i].idx = Len(Signals)
    /\ kid' = [kid EXCEPT ![i].pc = "ended"]
    /\ outlived' = outlived \cup {i}
    /\ UNCHANGED <<other, told, halted, bogo, sum, worker, pub, hit, oomed, torn>>

WrapperStep(i) == Again(i) \/ WaitReturns(i) \/ WaitInterrupted(i) \/ GiveUp(i)

Ended == mpc = "done" /\ UNCHANGED vars

Next ==
    \/ MainStep \/ ForkFails \/ Stop \/ Ended
    \/ \E i \in Inst :
          \/ ChildStep(i) \/ Alarm(i) \/ ChildSkips(i) \/ IncNotReady(i) \/ StressorInterrupted(i)
          \/ ChildKilled(i) \/ Fault(i) \/ WrapperStep(i)
          \/ WorkerIncs(i) \/ WorkerExits(i) \/ WorkerDies(i) \/ WorkerStuck(i)
          \/ WorkerWakes(i)

Spec == Init /\ [][Next]_vars

\* Processes are scheduled, a timer that is due fires and comes again, the waits of
\* stress_oomable_child are timed; a worker owes nothing.
Fairness ==
    /\ WF_vars(MainStep)
    /\ \A i \in Inst : WF_vars(ChildStep(i) \/ WrapperStep(i) \/ Alarm(i))

FairSpec == Spec /\ Fairness
-----------------------------------------------------------------------------
(***************************************************************************)
(* Properties.                                                             *)
(***************************************************************************)
Checked == mpc \in {"next run", "done"}

\* stress_metrics_check finds every corruption of what an instance has published,
\* in the statistics or in the checksum.
CorruptionReported == Checked => \A i \in hit : pub[i] = "full" => i \in reported

\* It reports nothing else, with three exceptions: an instance that was killed
\* while it published, one that has not come to publish in the latest run although
\* it had in an earlier one (--permute), and one whose worker goes on counting.
AlarmsExplained ==
    Checked => \A i \in reported : i \in hit \/ pub[i] # "full" \/ i \in outlived

\* An instance that publishes ends with EXIT_METRICS_UNTRUSTWORTHY exactly when the
\* latest increment of its counter, in this run, by the stressor or by whichever of its
\* workers came last to count, was begun and not finished, and the stressor has not
\* said that it has killed the counting process itself.  An increment in which a worker
\* was killed is passed over once the worker that stress_oomable_child has started in
\* its place finishes one.
TornIsUntrustworthy ==
    \A i \in Inst : kid[i].pc = "exited" /\ pub[i] = "full" /\ i \notin outlived =>
        (kid[i].rc = UNTRUSTWORTHY <=> i \in torn /\ ~bogo[i].force)

\* "(possibly terminated by out-of-memory killer)" is never said of a worker that
\* stress_oomable_child has killed itself.
OomHonest == \A i \in Inst : bogo[i].oom => i \in oomed

\* Main comes to the end of every run and to the end of the program, though
\* workers crash, get stuck and are restarted.
RunsEnd == <>(mpc = "done")
-----------------------------------------------------------------------------
(***************************************************************************)
(* The inductive invariant behind the invariants above: where main is, and  *)
(* then, for each instance by itself, the stages of publishing.             *)
(***************************************************************************)
\* A stressor is forked only while the slots and the list are in step, and only
\* when its process of the run before has been reaped.
MainInv ==
    /\ mpc = "start" => pos <= next /\ (contin => pos = next)
    /\ mpc = "start" => \A i \in Inst : i >= next => kid[i].pc = "none"
    /\ mpc = "forked" => pos = next /\ next <= N /\ \A i \in Inst : i > next => kid[i].pc = "none"
    /\ mpc \in {"check", "next run", "done"} => \A i \in Inst : kid[i].pc = "none"

Working == {"born", "stress", "not ready", "counted", "again", "wait", "ended"}
Publishing == {"completed", "run ok", "sum ok", "judged", "sum counter"}

\* What an instance has published is in a slot that no other instance writes.
StageInv(i) ==
    /\ kid[i].pc # "none" \/ pub[i] # "no" => slot[i] = i
    /\ kid[i].pc \in Working => pub[i] = "no"
    /\ kid[i].pc \in Publishing => pub[i] = "begun"
    /\ pub[i] # "no" => bogo[i].completed
    /\ i \in hit => pub[i] = "full"

\* Only one process counts for an instance, and none once the stressor has come to
\* publish, unless its worker has outlived it.
WorkerInv(i) ==
    /\ i \in Wrapped => kid[i].pc \notin {"stress", "not ready", "counted"}
    /\ worker[i].at # "none" => i \in Wrapped
    /\ kid[i].pc \in {"again", "wait"} => i \in Wrapped
    /\ worker[i].at \in {"none", "zombie"} \/ kid[i].pc = "wait" \/ i \in outlived

CountInv(i) ==
    /\ bogo[i].counter <= MaxOps + 1 /\ (i \notin hit => bogo[i].counter <= MaxOps)
    /\ kid[i].pc = "not ready" \/ worker[i].at = "not ready" =>
          bogo[i].counter <= MaxOps /\ (i \notin hit => bogo[i].counter < MaxOps)
    /\ sum[i].counter <= MaxOps + 1

\* The two copies agree from stage to stage; a fault leaves a trace that counting
\* on does not wipe out.
CopyInv(i) ==
    /\ kid[i].pc \in {"run ok", "sum ok"} => (bogo[i].ok = TRUE <=> kid[i].rc = SUCCESS)
    /\ kid[i].pc \in {"sum ok", "judged", "sum counter"} => sum[i].ok = bogo[i].ok
    /\ kid[i].pc = "sum counter" \/ (pub[i] = "full" /\ i \notin hit) =>
          /\ sum[i].ok = bogo[i].ok
          /\ sum[i].counter <= bogo[i].counter
          /\ i \notin outlived => sum[i].counter = bogo[i].counter

HashInv(i) ==
    /\ pub[i] = "full" /\ i \notin hit => sum[i].hash = Hash(sum[i].counter, sum[i].ok)
    /\ i \in hit => \/ sum[i].hash # Hash(sum[i].counter, sum[i].ok)
                    \/ sum[i].ok # bogo[i].ok
                    \/ sum[i].counter < bogo[i].counter

\* The signal the wrapper sends next tells its own SIGKILL from the killer's.
OomInv(i) ==
    /\ bogo[i].oom => i \in oomed
    /\ worker[i].how = "OOM" => i \in oomed
    /\ kid[i].pc = "wait" /\ worker[i].how = "KILL" => kid[i].idx = Len(Signals)

InstInv(i) ==
    /\ StageInv(i) /\ WorkerInv(i) /\ CountInv(i) /\ CopyInv(i) /\ HashInv(i) /\ OomInv(i)

IndInv ==
    /\ TypeOK /\ MainInv
    /\ \A i \in Inst : InstInv(i)
    /\ CorruptionReported /\ AlarmsExplained

\* On top of it, the verdict.  The counter is not ready exactly while an increment is
\* under way or interrupted.
Counts(i) == kid[i].pc \in {"not ready", "counted"} \/ worker[i].at \in {"not ready", "counted"}

ReadyInv(i) ==
    kid[i].pc \notin {"none", "dead"} /\ i \notin outlived
    => (~bogo[i].ready <=> i \in torn \/ Counts(i))

Judged(i) ==
    kid[i].pc \in {"judged", "sum counter"} \/ (kid[i].pc = "exited" /\ pub[i] = "full")

JudgedInv(i) ==
    /\ kid[i].pc \in Working \cup {"completed", "run ok", "sum ok"} => kid[i].rc # UNTRUSTWORTHY
    /\ Judged(i) /\ i \notin outlived => (kid[i].rc = UNTRUSTWORTHY <=> i \in torn /\ ~bogo[i].force)

TornInv == \A i \in Inst : ReadyInv(i) /\ JudgedInv(i)
==============================================================================
