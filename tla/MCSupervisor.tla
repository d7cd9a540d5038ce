---------------------------- MODULE MCSupervisor ----------------------------
(***************************************************************************)
(* Instances of Supervisor for TLC.  Instances are numbers in list order.   *)
(***************************************************************************)
EXTENDS Supervisor

\* All instances of one stressor; each of its own.
ItemOf == [s \in Inst |-> "first"]
ItemEach == [s \in Inst |-> s]

ParallelTwo == << {1, 2} >>

Setting(timeout, killed, outcomes) ==
    [timeout |-> timeout, mainKilled |-> killed, outcomes |-> outcomes]

\* Stressors that only end when told to.
Endless == {Setting(FALSE, FALSE, {})}
\* Every outcome, with a timeout; without one, one failure, or main's death, or five
\* failures, must end them.
AllOutcomes ==
    { Setting(TRUE, FALSE, (Returned \cup Fatal \cup Other) \ {"FAILURES"}),
      Setting(FALSE, TRUE, {"FAILURE", "SIGNAL"}),
      Setting(FALSE, FALSE, {"FAILURES"}) }
Failing == {Setting(TRUE, FALSE, {"FAILURE"})}
Unusual == {Setting(TRUE, FALSE, {"SYS_EXIT", "NOT_SUCCESS"})}
=============================================================================
