--------------------------- MODULE MutexStressors ---------------------------
(***************************************************************************)
(* The dekker and the peterson stressor: a parent (process 1) and the child *)
(* it has forked (process 0) take turns in a critical section that counts   *)
(* check up and down, and report a failure when a count is off by more than *)
(* their own.  The build is the one for x86: every store goes through the   *)
(* store buffer of its processor, and mfence waits until that is empty.     *)
(* stress_kill_pid_wait and the failure counting of core-log.c decide what  *)
(* the stressor returns.                                                    *)
(***************************************************************************)
EXTENDS Integers, Sequences

CONSTANTS
    Algorithms,     \* the stressors checked, of "dekker" and "peterson"
    Modulus,        \* bound: check is counted modulo this
    AbortFailures,  \* ABORT_FAILURES of core-log.c
    MaxKills,       \* bound: the child is killed by the system this often
    MaxFaults       \* bound: check is corrupted in memory this often

ASSUME AlgorithmsAssumption == Algorithms \subseteq {"dekker", "peterson"}
ASSUME ModulusAssumption == Modulus \in Nat /\ Modulus > 2 /\ AbortFailures \in Nat \ {0}
ASSUME FaultsAssumption == MaxKills \in Nat /\ MaxFaults \in Nat

Proc == {0, 1}
Child == 0
Parent == 1
Other(p) == 1 - p

VARIABLES
    alg,            \* which of the stressors this is
    mem,            \* shared memory: want[p], turn and check
    buf,            \* the store buffer of each process
    pc,
    check0, check1, tmp,    \* local variables, and the value check++ has loaded
    fails,          \* abort_fails of each process: its calls of pr_fail
    rc,             \* what the loop of each process returned
    status,         \* what waitpid tells the parent: none, exited, signaled
    result,         \* what the stressor returns in the end
    stopped,        \* bogo.max_ops is zero
    kills, faults,
    life            \* of the child: alive, killed (SIGKILL is pending), dead

vars == <<alg, mem, buf, pc, check0, check1, tmp, fails, rc, status, result, stopped,
          kills, faults, life>>

Want(p) == IF p = 0 THEN "want0" ELSE "want1"
Location == {"want0", "want1", "turn", "check"}
EXIT_SUCCESS == 0
EXIT_FAILURE == 1
Running == 2

\* The mapping is fresh, and the child has just been forked.
Init ==
    /\ alg \in Algorithms
    /\ mem = [l \in Location |-> 0]
    /\ buf = [p \in Proc |-> <<>>]
    /\ pc = [p \in Proc |-> "loop"]
    /\ check0 = [p \in Proc |-> 0] /\ check1 = [p \in Proc |-> 0] /\ tmp = [p \in Proc |-> 0]
    /\ fails = [p \in Proc |-> 0] /\ rc = [p \in Proc |-> EXIT_SUCCESS]
    /\ status = "none" /\ result = Running /\ stopped = FALSE
    /\ kills = 0 /\ faults = 0 /\ life = "alive"
-----------------------------------------------------------------------------
(* The processor. *)

\* A load sees the process's own latest store, or else the memory.
Load(p, l) ==
    LET own == {i \in 1..Len(buf[p]) : buf[p][i].loc = l}
    IN  IF own = {} THEN mem[l]
        ELSE buf[p][CHOOSE i \in own : \A j \in own : j <= i].val

Store(p, l, v) ==
    /\ buf' = [buf EXCEPT ![p] = Append(@, [loc |-> l, val |-> v])]
    /\ UNCHANGED mem

\* Wrong variant: no fence.
NoFence(p) == TRUE

\* shim_mfence, before the next access.
mfence(p) == buf[p] = <<>>

\* The oldest store of a processor reaches the memory.
Flush(p) ==
    /\ buf[p] # <<>>
    /\ mem' = [mem EXCEPT ![Head(buf[p]).loc] = Head(buf[p]).val]
    /\ buf' = [buf EXCEPT ![p] = Tail(@)]
    /\ UNCHANGED <<alg, pc, check0, check1, tmp, fails, rc, status, result, stopped, kills,
                   faults, life>>

\* The hardware is broken: check changes by itself.
Fault ==
    /\ faults < MaxFaults
    /\ faults' = faults + 1
    /\ \E v \in 0..(Modulus - 1) : mem' = [mem EXCEPT !["check"] = v]
    /\ UNCHANGED <<alg, buf, pc, check0, check1, tmp, fails, rc, status, result, stopped,
                   kills, life>>
-----------------------------------------------------------------------------
(* stress_dekker_p0 and p1, stress_peterson_p0 and p1. *)

\* A step of p from one place to another; a dead child takes none.
Goto(p, from, to) ==
    /\ p = Child => life # "dead"
    /\ pc[p] = from /\ pc' = [pc EXCEPT ![p] = to]

locals == <<alg, check0, check1, tmp, fails, rc, status, result, stopped, kills, faults, life>>

\* After the loop: the child exits, the parent kills the child.
AfterLoop(p) == IF p = Child THEN "exited" ELSE "kill"

\* while (stress_continue(args))
Loop(p) ==
    /\ Goto(p, "loop", IF stopped THEN AfterLoop(p) ELSE "want")
    /\ UNCHANGED <<mem, buf, locals>>

\* wants_to_enter[p] = true; flag[p] = true
Enter(p) ==
    /\ Goto(p, "want", IF alg = "dekker" THEN "test" ELSE "give")
    /\ Store(p, Want(p), 1)
    /\ UNCHANGED locals

\* peterson: turn is given to the other.
Give(p) ==
    /\ Goto(p, "give", "test")
    /\ Store(p, "turn", Other(p))
    /\ UNCHANGED locals

\* Does the other want to enter?
Test(p) ==
    /\ mfence(p)
    /\ Goto(p, "test", IF Load(p, Want(Other(p))) = 1 THEN "test turn" ELSE "check0")
    /\ UNCHANGED <<mem, buf, locals>>

\* Wrong variant: having the turn is taken for leave to enter.
TurnAdmits(p) ==
    /\ Goto(p, "test turn",
            IF Load(p, "turn") = p THEN "check0" ELSE IF alg = "dekker" THEN "back" ELSE "test")
    /\ UNCHANGED <<mem, buf, locals>>

TestTurn(p) ==
    /\ Goto(p, "test turn",
            IF alg = "dekker"
            THEN IF Load(p, "turn") # p THEN "back" ELSE "test"
            ELSE IF Load(p, "turn") = Other(p) THEN "test" ELSE "check0")
    /\ UNCHANGED <<mem, buf, locals>>

\* dekker: not p's turn, it waits for it and asks again.
Back(p) ==
    /\ Goto(p, "back", "spin")
    /\ Store(p, Want(p), 0)
    /\ UNCHANGED locals

Spin(p) ==
    /\ mfence(p)
    /\ Goto(p, "spin", IF Load(p, "turn") # p THEN "spin" ELSE "again")
    /\ UNCHANGED <<mem, buf, locals>>

Again(p) ==
    /\ Goto(p, "again", "test")
    /\ Store(p, Want(p), 1)
    /\ UNCHANGED locals

\* check0 = check; check++ or check--; check1 = check
ReadCheck0(p) ==
    /\ Goto(p, "check0", "load")
    /\ check0' = [check0 EXCEPT ![p] = Load(p, "check")]
    /\ UNCHANGED <<mem, buf, alg, check1, tmp, fails, rc, status, result, stopped, kills,
                   faults, life>>

LoadCheck(p) ==
    /\ Goto(p, "load", "store")
    /\ tmp' = [tmp EXCEPT ![p] = Load(p, "check")]
    /\ UNCHANGED <<mem, buf, alg, check0, check1, fails, rc, status, result, stopped, kills,
                   faults, life>>

\* p0 counts up, p1 down.
Counted(p, v) == IF p = Child THEN (v + 1) % Modulus ELSE (v - 1) % Modulus

StoreCheck(p) ==
    /\ Goto(p, "store", "check1")
    /\ Store(p, "check", Counted(p, tmp[p]))
    /\ UNCHANGED locals

ReadCheck1(p) ==
    /\ Goto(p, "check1", IF alg = "dekker" THEN "pass turn" ELSE "leave")
    /\ check1' = [check1 EXCEPT ![p] = Load(p, "check")]
    /\ UNCHANGED <<mem, buf, alg, check0, tmp, fails, rc, status, result, stopped, kills,
                   faults, life>>

\* Wrong variant: the turn is kept.
KeepTurn(p) ==
    /\ mfence(p)
    /\ Goto(p, "pass turn", "leave")
    /\ Store(p, "turn", p)
    /\ UNCHANGED locals

\* dekker: turn is given to the other.
PassTurn(p) ==
    /\ mfence(p)
    /\ Goto(p, "pass turn", "leave")
    /\ Store(p, "turn", Other(p))
    /\ UNCHANGED locals

\* Wrong variant: the flag stays set when the stressor is being stopped.
LeaveUnlessStopped(p) ==
    /\ Goto(p, "leave", "verdict")
    /\ IF stopped THEN UNCHANGED <<mem, buf>> ELSE Store(p, Want(p), 0)
    /\ UNCHANGED locals

\* wants_to_enter[p] = false; flag[p] = false
Leave(p) ==
    /\ Goto(p, "leave", "verdict")
    /\ Store(p, Want(p), 0)
    /\ UNCHANGED locals

\* check0 + 1 != check1: pr_fail, and the loop is left with EXIT_FAILURE.  The local
\* variables are gone.
Verdict(p) ==
    /\ mfence(p)
    /\ \/ /\ check1[p] = Counted(p, check0[p]) /\ Goto(p, "verdict", "loop")
          /\ rc' = [rc EXCEPT ![p] = EXIT_SUCCESS]
          /\ UNCHANGED fails
       \/ /\ check1[p] # Counted(p, check0[p]) /\ Goto(p, "verdict", AfterLoop(p))
          /\ rc' = [rc EXCEPT ![p] = EXIT_FAILURE]
          /\ fails' = [fails EXCEPT ![p] = @ + 1]
    /\ check0' = [check0 EXCEPT ![p] = 0] /\ check1' = [check1 EXCEPT ![p] = 0]
    /\ tmp' = [tmp EXCEPT ![p] = 0]
    /\ UNCHANGED <<mem, buf, alg, status, result, stopped, kills, faults, life>>

Step(p) ==
    \/ Loop(p) \/ Enter(p) \/ Give(p) \/ Test(p) \/ TestTurn(p) \/ Back(p) \/ Spin(p)
    \/ Again(p) \/ ReadCheck0(p) \/ LoadCheck(p) \/ StoreCheck(p) \/ ReadCheck1(p)
    \/ PassTurn(p) \/ Leave(p) \/ Verdict(p)
-----------------------------------------------------------------------------
(* The end of the child. *)

\* stress_kill_pid_wait: SIGKILL, which takes effect a little later.
stress_kill_pid ==
    /\ Goto(Parent, "kill", "wait")
    /\ life' = IF life = "alive" /\ pc[Child] # "exited" THEN "killed" ELSE life
    /\ UNCHANGED <<mem, buf, alg, check0, check1, tmp, fails, rc, status, result, stopped,
                   kills, faults>>

ChildDies ==
    /\ life = "killed" /\ pc[Child] # "exited"
    /\ life' = "dead"
    /\ UNCHANGED <<mem, buf, pc, alg, check0, check1, tmp, fails, rc, status, result, stopped,
                   kills, faults>>

\* The out of memory killer, or somebody else, kills the child.
ChildKilled ==
    /\ kills < MaxKills /\ life # "dead" /\ pc[Child] # "exited"
    /\ life' = "dead"
    /\ kills' = kills + 1
    /\ UNCHANGED <<mem, buf, pc, alg, check0, check1, tmp, fails, rc, status, result, stopped,
                   faults>>

\* pr_fail_check, in stress_child_run: rc is a failure after ABORT_FAILURES.
pr_fail_check(code) ==
    IF fails[Parent] >= AbortFailures /\ code = EXIT_SUCCESS THEN EXIT_FAILURE ELSE code

\* What the stressor returns: the status of the child if it has exited, and what
\* becomes of it in stress_child_run.
Result(code) ==
    pr_fail_check(IF pc[Child] = "exited" THEN code ELSE rc[Parent])

shim_waitpid ==
    /\ Goto(Parent, "wait", "done") /\ (pc[Child] = "exited" \/ life = "dead")
    /\ status' = IF pc[Child] = "exited" THEN "exited" ELSE "signaled"
    /\ result' = Result(rc[Child])
    /\ UNCHANGED <<mem, buf, alg, check0, check1, tmp, fails, rc, stopped, kills, faults,
                   life>>

\* SIGALRM, or the last bogo operation: the loops end.
Stop ==
    /\ ~stopped
    /\ stopped' = TRUE
    /\ UNCHANGED <<mem, buf, pc, alg, check0, check1, tmp, fails, rc, status, result, kills,
                   faults, life>>

Ended == pc[Parent] = "done" /\ UNCHANGED vars

Next ==
    \/ \E p \in Proc : Step(p) \/ Flush(p)
    \/ stress_kill_pid \/ ChildDies \/ ChildKilled \/ shim_waitpid \/ Stop \/ Fault \/ Ended

Spec == Init /\ [][Next]_vars

\* The two run on processors that make progress, stores reach the memory, and
\* a signal is delivered; nothing else has to happen.
Fairness ==
    /\ \A p \in Proc : WF_vars(Step(p)) /\ WF_vars(Flush(p))
    /\ WF_vars(stress_kill_pid) /\ WF_vars(ChildDies) /\ WF_vars(shim_waitpid)

FairSpec == Spec /\ Fairness
-----------------------------------------------------------------------------
(***************************************************************************)
(* Properties.                                                             *)
(***************************************************************************)
\* A stressor that runs on working hardware never reports a mutex failure,
\* whatever the order in which the stores of the two reach the memory.
NoFalseFailure == faults = 0 => \A p \in Proc : fails[p] = 0

\* "set rc to EXIT_FAILURE if we detected a pr_fail error condition in the
\* logging during a run": a stressor that has reported a failure fails.
ReportedFailureFails ==
    pc[Parent] = "done" /\ fails[Parent] > 0 => result = EXIT_FAILURE

\* The process in the critical section.
InCS(p) == pc[p] \in {"check0", "load", "store", "check1", "pass turn", "leave"}

\* The child was killed between asking for entry and giving it up.
Orphaned == life = "dead" /\ pc[Child] \notin {"loop", "want", "verdict"}

\* Stopping ends the stressor, wherever the two are when the flag is cleared; only
\* if the child was killed in the middle of the protocol may the parent spin, without
\* looking at the continue flag, until it is killed itself.
StopEnds == stopped ~> (pc[Parent] = "done" \/ Orphaned)

\* Whoever asks for entry gets it, though the other may ask again and again,
\* and until the other has been killed.
NoStarvation ==
    \A p \in Proc : pc[p] = "want" ~> (InCS(p) \/ life = "dead")

\* Who is in the critical section, for ever if it was killed there.
FreeCS == 2
GoneOwner == 3
Owner ==
    IF InCS(Parent) THEN Parent
    ELSE IF ~InCS(Child) THEN FreeCS
    ELSE IF life = "dead" THEN GoneOwner ELSE Child

CS == INSTANCE AbstractLock WITH Free <- FreeCS, Gone <- GoneOwner, owner <- Owner

\* The two entry protocols, with the fences the code has, are locks.
ImplementsLock == CS!Spec
-----------------------------------------------------------------------------
(***************************************************************************)
(* The inductive invariant behind NoFalseFailure and ImplementsLock.  The   *)
(* stores a process may have in its buffer follow from the place it has     *)
(* come to, since each fence empties the buffer: this is what makes the     *)
(* argument for a sequentially consistent memory carry over.                *)
(***************************************************************************)
Place == {"loop", "want", "give", "test", "test turn", "back", "spin", "again", "check0", "load",
          "store", "check1", "pass turn", "leave", "verdict", "exited", "kill", "wait", "done"}
CheckType == 0..(Modulus - 1)

TypeOK ==
    /\ alg \in {"dekker", "peterson"} /\ pc \in [Proc -> Place]
    /\ mem \in [Location -> CheckType] /\ mem["turn"] \in Proc
    /\ buf \in [Proc -> Seq([loc : Location, val : CheckType])]
    /\ check0 \in [Proc -> CheckType] /\ check1 \in [Proc -> CheckType]
    /\ tmp \in [Proc -> CheckType]
    /\ fails \in [Proc -> Nat] /\ rc \in [Proc -> {EXIT_SUCCESS, EXIT_FAILURE}]
    /\ status \in {"none", "exited", "signaled"}
    /\ result \in {EXIT_SUCCESS, EXIT_FAILURE, Running} /\ stopped \in BOOLEAN
    /\ kills \in 0..MaxKills /\ faults \in 0..MaxFaults
    /\ life \in {"alive", "killed", "dead"}

\* The stores of the two protocols.
Asks(p) == [loc |-> Want(p), val |-> 1]
Drops(p) == [loc |-> Want(p), val |-> 0]
Gives(p) == [loc |-> "turn", val |-> Other(p)]
Counts(p) == [loc |-> "check", val |-> Counted(p, tmp[p])]

\* The last store before the flag is dropped.
FinalStore(p) == IF alg = "dekker" THEN Gives(p) ELSE Counts(p)

PlaceInv(p) ==
    /\ pc[p] = "give" => alg = "peterson"
    /\ pc[p] \in {"back", "spin", "again", "pass turn"} => alg = "dekker"

\* What has not reached the memory yet.
BufInv(p) ==
    \/ buf[p] = <<>>
    \/ pc[p] = "give" /\ buf[p] = <<Asks(p)>>
    \/ pc[p] = "test" /\ alg = "dekker" /\ buf[p] = <<Asks(p)>>
    \/ pc[p] = "test" /\ alg = "peterson" /\ buf[p] \in {<<Gives(p)>>, <<Asks(p), Gives(p)>>}
    \/ pc[p] = "spin" /\ buf[p] = <<Drops(p)>>
    \/ pc[p] \in {"check1", "pass turn"} /\ buf[p] = <<Counts(p)>>
    \/ pc[p] = "leave" /\ buf[p] = <<FinalStore(p)>>
    \/ pc[p] = "verdict" /\ buf[p] \in {<<Drops(p)>>, <<FinalStore(p), Drops(p)>>}

\* In the critical section, as the memory shows it to the other.
Holding(p) == InCS(p) \/ (pc[p] = "verdict" /\ buf[p] # <<>>)

\* Looking at the other's flag, its own stores done.
Waiting(p) == pc[p] = "test turn" \/ (pc[p] = "test" /\ buf[p] = <<>>)

\* Who waits or holds has its flag set where the other can see it.
FlagInv(p) ==
    \/ Holding(p) \/ Waiting(p)
    \/ pc[p] = "give" /\ buf[p] = <<>>
    \/ pc[p] = "test" /\ buf[p] = <<Gives(p)>>
    => mem[Want(p)] = 1

\* peterson: who waits for the holder of the critical section has given it the turn.
TurnInv(p) == alg = "peterson" /\ Holding(p) /\ Waiting(Other(p)) => mem["turn"] = p

\* What p has read of check is not disturbed by the other.
CountInv(p) ==
    faults = 0 =>
        /\ fails[p] = 0
        /\ pc[p] \in {"load", "store"} => check0[p] = mem["check"]
        /\ pc[p] \in {"store", "check1"} => tmp[p] = check0[p]
        /\ pc[p] = "check1" /\ buf[p] = <<>> => mem["check"] = Counted(p, tmp[p])
        /\ pc[p] \in {"pass turn", "leave", "verdict"} => check1[p] = Counted(p, check0[p])

Exclusive == ~(Holding(Child) /\ Holding(Parent))

ProcInv(p) == PlaceInv(p) /\ BufInv(p) /\ FlagInv(p) /\ TurnInv(p) /\ CountInv(p)

IndInv == TypeOK /\ Exclusive /\ \A p \in Proc : ProcInv(p)
=============================================================================
