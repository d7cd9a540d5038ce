-------------------------- MODULE SupervisorProofs --------------------------
(***************************************************************************)
(* Proofs about Supervisor for any number of instances, any plan of runs,   *)
(* any settings and any options.                                            *)
(***************************************************************************)
EXTENDS Supervisor, FiniteSetTheorems, TLAPS

USE InstAssumption, PlanAssumption, FlagsAssumption

\* Sending a signal creates no process and removes none from the kernel's table.
LEMMA DeliverKeeps ==
    ASSUME NEW k \in [Inst -> KidType], NEW T, NEW sig \in {"KILL", "ALRM", "INT"}
    PROVE  /\ Deliver(k, T, sig) \in [Inst -> KidType]
           /\ \A s \in Inst : Deliver(k, T, sig)[s].pc = "none" <=> k[s].pc = "none"
  <1> DEFINE d(s) == IF s \in T /\ k[s].pc \notin {"none", "zombie"}
                     THEN IF sig = "KILL" THEN Zombie("sigKILL")
                                          ELSE [k[s] EXCEPT !.pend = @ \cup {sig}]
                     ELSE k[s]
  <1>1. Zombie("sigKILL") \in KidType /\ Zombie("sigKILL").pc = "zombie"
      BY DEF Zombie, NoKid, KidType, KidPc, Status, Returned
  <1>2. ASSUME NEW s \in Inst
        PROVE  d(s) \in KidType /\ (d(s).pc = "none" <=> k[s].pc = "none")
      <2>1. CASE s \in T /\ k[s].pc \notin {"none", "zombie"} /\ sig = "KILL"
          BY <1>1, <2>1
      <2>2. CASE s \in T /\ k[s].pc \notin {"none", "zombie"} /\ sig # "KILL"
          <3>1. k[s] \in KidType /\ k[s].pend \cup {sig} \in SUBSET {"INT", "ALRM"}
              BY <2>2 DEF KidType
          <3>2. [k[s] EXCEPT !.pend = k[s].pend \cup {sig}] \in KidType
              BY <3>1 DEF KidType
          <3>3. [k[s] EXCEPT !.pend = k[s].pend \cup {sig}].pc = k[s].pc
              BY <3>1 DEF KidType
          <3> QED
              BY <2>2, <3>2, <3>3
      <2>3. CASE ~(s \in T /\ k[s].pc \notin {"none", "zombie"})
          BY <2>3
      <2> QED
          BY <2>1, <2>2, <2>3
  <1> QED
      BY <1>2 DEF Deliver

\* A step that leaves the supervisor where it is and the bookkeeping and the
\* set of processes alone keeps the invariant.
SameProcesses ==
    /\ kid' \in [Inst -> KidType]
    /\ \A t \in Inst : kid'[t].pc = "none" <=> kid[t].pc = "none"

SameFlow ==
    /\ UNCHANGED <<run, setting, cur, todo, waited, reapCount, pid, reaped, mhandler>>
    /\ mflag' \in BOOLEAN

SamePlace == SameProcesses /\ SameFlow /\ mpc' = mpc

LEMMA Frame ==
    ASSUME IndInv, SameFlow, SameProcesses, mpc' = mpc
    PROVE  IndInv'
  <1> USE DEF SameFlow, SameProcesses
  <1>1. FlowType'
      BY DEF IndInv, FlowType
  <1>2. Processes' = Processes
      BY DEF Processes
  <1>3. BookkeepingInv'
      BY <1>2 DEF IndInv, BookkeepingInv, MainRunning
  <1>4. StartInv'
      BY <1>2 DEF IndInv, StartInv, MainRunning
  <1>5. ReapCountExact' /\ NoneLeftBehind'
      BY <1>2 DEF IndInv, ReapCountExact, NoneLeftBehind
  <1> QED
      BY <1>1, <1>3, <1>4, <1>5 DEF IndInv

\* The same when only one process record changes.
LEMMA OneKid ==
    ASSUME FlowType, NEW s \in Inst, NEW r \in KidType, r.pc # "none",
           kid[s].pc # "none", kid' = [kid EXCEPT ![s] = r]
    PROVE  SameProcesses
  <1>1. kid \in [Inst -> KidType]
      BY DEF FlowType
  <1> QED
      BY <1>1 DEF SameProcesses

LEMMA InitInv == Init => IndInv
  <1> SUFFICES ASSUME Init PROVE IndInv
      OBVIOUS
  <1>1. NoKid \in KidType /\ NoKid.pc = "none"
      BY DEF NoKid, KidType, KidPc, Status, Returned
  <1>2. FlowType
      <2>1. kid \in [Inst -> KidType] /\ pid \in [Inst -> {-1, 0, 1}]
          BY <1>1 DEF Init
      <2>2. waited \in [inst : Inst \cup {0}, rc : Status, back : {"init", "aggressive", "wait"}]
          BY DEF Init, Status, Returned
      <2>3. run \in 0..Len(Plan) /\ todo \in SUBSET Inst /\ cur \in Inst \cup {0}
            /\ reapCount \in Int /\ reaped \in SUBSET Inst
          BY DEF Init
      <2>4. mflag \in BOOLEAN /\ mhandler \in BOOLEAN /\ mpc = "idle" /\ setting \in SettingType
          BY DEF Init
      <2> QED
          BY <2>1, <2>2, <2>3, <2>4 DEF FlowType
  <1>3. Processes = {}
      BY <1>1 DEF Init, Processes
  <1>4. BookkeepingInv /\ StartInv /\ ReapCountExact /\ NoneLeftBehind
      BY <1>3 DEF Init, BookkeepingInv, StartInv, ReapCountExact, NoneLeftBehind
  <1> QED
      BY <1>2, <1>4 DEF IndInv

\* The first step of a stressor process: it stores its own pid, as its parent
\* does, and each of them may come first.
LEMMA ChildBornStep ==
    ASSUME IndInv, NEW s \in Inst, ChildBorn(s)
    PROVE  IndInv'
  <1> USE DEF kidOnly, mainVars, runVars, resultVars
  <1> DEFINE r == [kid[s] EXCEPT !.pc = "new"]
  <1>1. kid \in [Inst -> KidType] /\ kid[s] \in KidType
      BY DEF IndInv, FlowType
  <1>2. r \in KidType /\ r.pc # "none" /\ kid[s].pc # "none" /\ kid' = [kid EXCEPT ![s] = r]
      BY <1>1 DEF ChildBorn, Goto, KidType, KidPc
  <1>3. SameProcesses
      BY <1>2, OneKid DEF IndInv
  <1>4. Processes' = Processes /\ s \in Processes
      BY <1>2, <1>3 DEF SameProcesses, Processes
  <1>5. /\ UNCHANGED <<mpc, run, setting, cur, todo, waited, reapCount, mhandler, mflag>>
        /\ pid' = [pid EXCEPT ![s] = 1] /\ reaped' = reaped \ {s}
      BY DEF ChildBorn
  <1>6. pid' \in [Inst -> {-1, 0, 1}] /\ reaped' \in SUBSET Inst
      BY <1>5 DEF IndInv, FlowType
  <1>7. FlowType'
      BY <1>3, <1>5, <1>6 DEF IndInv, FlowType, SameProcesses
  <1>8. BookkeepingInv'
      BY <1>4, <1>5 DEF IndInv, FlowType, BookkeepingInv, MainRunning
  <1>9. StartInv' /\ ReapCountExact' /\ NoneLeftBehind'
      BY <1>4, <1>5 DEF IndInv, StartInv, ReapCountExact, NoneLeftBehind, MainRunning
  <1> QED
      BY <1>7, <1>8, <1>9 DEF IndInv

\* No other step of a stressor changes which processes there are, or what the
\* supervisor knows of them.
LEMMA ChildSame ==
    ASSUME IndInv, NEW s \in Inst, ChildStep(s) \/ ChildSignal(s) \/ ChildFate(s), ~ChildBorn(s)
    PROVE  SamePlace
  <1> USE DEF kidOnly, mainVars, runVars, resultVars
  <1>k. kid \in [Inst -> KidType] /\ kid[s] \in KidType /\ mflag \in BOOLEAN
      BY DEF IndInv, FlowType
  <1>z. \A rc \in Status : Zombie(rc) \in KidType /\ Zombie(rc).pc = "zombie"
      BY DEF Zombie, NoKid, KidType, KidPc
  <1>o. ASSUME NEW r \in KidType, r.pc # "none", kid[s].pc # "none",
               kid' = [kid EXCEPT ![s] = r], SameFlow, mpc' = mpc
        PROVE  SamePlace
      BY <1>o, OneKid DEF IndInv, SamePlace
  <1>1. CASE ChildSetup(s)
      <2> DEFINE r == [kid[s] EXCEPT !.pc = "setup", !.handler = TRUE]
      <2>1. r \in KidType /\ r.pc # "none" /\ kid[s].pc # "none" /\ kid' = [kid EXCEPT ![s] = r]
          BY <1>k, <1>1 DEF ChildSetup, KidType, KidPc
      <2>2. SameFlow /\ mpc' = mpc
          BY <1>k, <1>1 DEF ChildSetup, SameFlow
      <2> QED
          BY <1>o, <2>1, <2>2
  <1>2. CASE ChildSetupFails(s)
      <2> DEFINE r == [kid[s] EXCEPT !.pc = "exit", !.rc = "FAILURE"]
      <2>1. r \in KidType /\ r.pc # "none" /\ kid[s].pc # "none" /\ kid' = [kid EXCEPT ![s] = r]
          BY <1>k, <1>2 DEF ChildSetupFails, KidType, KidPc, Status, Returned
      <2>2. SameFlow /\ mpc' = mpc
          BY <1>k, <1>2 DEF ChildSetupFails, SameFlow
      <2> QED
          BY <1>o, <2>1, <2>2
  <1>3. CASE ChildAlarm(s)
      <2> DEFINE r == [kid[s] EXCEPT !.pc = "check", !.alarm = IF setting.timeout THEN "timeout" ELSE @]
      <2>1. r \in KidType /\ r.pc # "none" /\ kid[s].pc # "none" /\ kid' = [kid EXCEPT ![s] = r]
          BY <1>k, <1>3 DEF ChildAlarm, KidType, KidPc
      <2>2. SameFlow /\ mpc' = mpc
          BY <1>k, <1>3 DEF ChildAlarm, SameFlow
      <2> QED
          BY <1>o, <2>1, <2>2
  <1>4. CASE ChildCheck(s)
      <2> DEFINE r == [kid[s] EXCEPT !.pc = IF kid[s].flag THEN "begin" ELSE "skip"]
      <2>1. r \in KidType /\ r.pc # "none" /\ kid[s].pc # "none" /\ kid' = [kid EXCEPT ![s] = r]
          BY <1>k, <1>4 DEF ChildCheck, Goto, KidType, KidPc
      <2>2. SameFlow /\ mpc' = mpc
          BY <1>k, <1>4 DEF ChildCheck, SameFlow
      <2> QED
          BY <1>o, <2>1, <2>2
  <1>5. CASE ChildBegin(s)
      <2> DEFINE r == [kid[s] EXCEPT !.pc = "run"]
      <2>1. r \in KidType /\ r.pc # "none" /\ kid[s].pc # "none" /\ kid' = [kid EXCEPT ![s] = r]
          BY <1>k, <1>5 DEF ChildBegin, Goto, KidType, KidPc
      <2>2. SameFlow /\ mpc' = mpc
          BY <1>k, <1>5 DEF ChildBegin, SameFlow
      <2> QED
          BY <1>o, <2>1, <2>2
  <1>6. ASSUME NEW rc \in Returned, ChildReturns(s, rc) PROVE SamePlace
      <2> DEFINE r == [kid[s] EXCEPT !.pc = "exit", !.alarm = "off",
                                     !.rc = IF rc = "SUCCESS" THEN @ ELSE rc]
      <2>1. r \in KidType /\ r.pc # "none" /\ kid[s].pc # "none" /\ kid' = [kid EXCEPT ![s] = r]
          BY <1>k, <1>6 DEF ChildReturns, KidType, KidPc, Status
      <2>2. SameFlow /\ mpc' = mpc
          BY <1>k, <1>6 DEF ChildReturns, SameFlow
      <2> QED
          BY <1>o, <2>1, <2>2
  <1>7. CASE ChildExit(s)
      <2> DEFINE r == Zombie(kid[s].rc)
      <2>1. r \in KidType /\ r.pc # "none" /\ kid[s].pc # "none" /\ kid' = [kid EXCEPT ![s] = r]
          <3>1. kid[s].rc \in Status
              BY <1>k DEF KidType
          <3> QED
              BY <1>z, <1>7, <3>1 DEF ChildExit
      <2>2. SameFlow /\ mpc' = mpc
          BY <1>k, <1>7 DEF ChildExit, SameFlow
      <2> QED
          BY <1>o, <2>1, <2>2
  <1>8. CASE ChildSysExit(s)
      <2>1. Zombie("BY_SYS_EXIT") \in KidType /\ Zombie("BY_SYS_EXIT").pc # "none"
          BY <1>z DEF Status
      <2>2. SameFlow /\ mpc' = mpc /\ kid[s].pc # "none" /\ kid' = [kid EXCEPT ![s] = Zombie("BY_SYS_EXIT")]
          BY <1>k, <1>8 DEF ChildSysExit, SameFlow
      <2> QED
          BY <1>o, <2>1, <2>2
  <1>9. CASE ChildCrash(s)
      <2> DEFINE r == [kid[s] EXCEPT !.pc = "crash", !.hunt = Inst]
      <2>1. r \in KidType /\ r.pc # "none" /\ kid[s].pc # "none" /\ kid' = [kid EXCEPT ![s] = r]
          BY <1>k, <1>9 DEF ChildCrash, KidType, KidPc
      <2>2. SameFlow /\ mpc' = mpc
          BY <1>k, <1>9 DEF ChildCrash, SameFlow
      <2> QED
          BY <1>o, <2>1, <2>2
  <1>10. CASE ChildKilled(s)
      <2>1. \A rc \in {"sigOther", "sigKILL"} : Zombie(rc) \in KidType /\ Zombie(rc).pc # "none"
          BY <1>z DEF Status
      <2>2. SameFlow /\ mpc' = mpc /\ kid[s].pc # "none"
          BY <1>k, <1>10 DEF ChildKilled, SameFlow, Alive
      <2>3. PICK rc \in {"sigOther", "sigKILL"} : kid' = [kid EXCEPT ![s] = Zombie(rc)]
          BY <1>10 DEF ChildKilled
      <2> QED
          BY <1>o, <2>1, <2>2, <2>3
  <1>11. CASE AlarmFires(s)
      <2> DEFINE r == [kid[s] EXCEPT !.alarm = "off", !.pend = @ \cup {"ALRM"}]
      <2>1. r \in KidType /\ r.pc # "none" /\ kid[s].pc # "none" /\ kid' = [kid EXCEPT ![s] = r]
          BY <1>k, <1>11 DEF AlarmFires, Alive, KidType, KidPc
      <2>2. SameFlow /\ mpc' = mpc
          BY <1>k, <1>11 DEF AlarmFires, SameFlow
      <2> QED
          BY <1>o, <2>1, <2>2
  <1>12. CASE ChildSigalrm(s)
      <2> DEFINE r == [kid[s] EXCEPT !.pend = @ \ {"ALRM"}, !.flag = FALSE, !.alarm = "realarm"]
      <2>1. r \in KidType /\ r.pc # "none" /\ kid[s].pc # "none" /\ kid' = [kid EXCEPT ![s] = r]
          BY <1>k, <1>12 DEF ChildSigalrm, Alive, KidType, KidPc
      <2>2. SameFlow /\ mpc' = mpc
          BY <1>k, <1>12 DEF ChildSigalrm, SameFlow
      <2> QED
          BY <1>o, <2>1, <2>2
  <1>13. CASE ChildSigalrmDefault(s)
      <2>1. Zombie("sigALRM") \in KidType /\ Zombie("sigALRM").pc # "none"
          BY <1>z DEF Status
      <2>2. SameFlow /\ mpc' = mpc /\ kid[s].pc # "none" /\ kid' = [kid EXCEPT ![s] = Zombie("sigALRM")]
          BY <1>k, <1>13 DEF ChildSigalrmDefault, SameFlow, Alive
      <2> QED
          BY <1>o, <2>1, <2>2
  <1>14. CASE ChildSigint(s)
      <2> DEFINE r == [kid[s] EXCEPT !.pend = @ \ {"INT"}, !.flag = FALSE, !.hunt = Inst]
      <2>1. r \in KidType /\ r.pc # "none" /\ kid[s].pc # "none" /\ kid' = [kid EXCEPT ![s] = r]
          BY <1>k, <1>14 DEF ChildSigint, Alive, KidType, KidPc
      <2>2. SameFlow /\ mpc' = mpc
          BY <1>k, <1>14 DEF ChildSigint, SameFlow
      <2> QED
          BY <1>o, <2>1, <2>2
  <1>19. CASE HandlerLooks(s)
      <2>1. PICK t \in kid[s].hunt :
                kid' = [kid EXCEPT ![s].hunt = @ \ {t}, ![s].aim = IF t \in Targets THEN t ELSE 0]
          BY <1>19 DEF HandlerLooks
      <2> DEFINE r == [kid[s] EXCEPT !.hunt = @ \ {t}, !.aim = IF t \in Targets THEN t ELSE 0]
      <2>2. r \in KidType /\ kid' = [kid EXCEPT ![s] = r]
          BY <1>k, <2>1 DEF KidType
      <2>3. r.pc = kid[s].pc
          BY <1>k DEF KidType
      <2>5. SameProcesses
          BY <1>k, <2>2, <2>3 DEF SameProcesses
      <2>4. SameFlow /\ mpc' = mpc
          BY <1>k, <1>19 DEF HandlerLooks, SameFlow
      <2> QED
          BY <2>4, <2>5 DEF SamePlace
  <1>20. CASE HandlerKills(s)
      <2> DEFINE k == [kid EXCEPT ![s].aim = 0]
      <2>1. k \in [Inst -> KidType] /\ \A t \in Inst : k[t].pc = "none" <=> kid[t].pc = "none"
          BY <1>k DEF KidType
      <2>2. kid' = Deliver(k, {kid[s].aim}, "ALRM")
          BY <1>20 DEF HandlerKills
      <2> HIDE DEF k
      <2>3. /\ Deliver(k, {kid[s].aim}, "ALRM") \in [Inst -> KidType]
            /\ \A t \in Inst : Deliver(k, {kid[s].aim}, "ALRM")[t].pc = "none" <=> k[t].pc = "none"
          BY <2>1, DeliverKeeps
      <2>4. SameProcesses
          BY <2>1, <2>2, <2>3 DEF SameProcesses
      <2>5. SameFlow /\ mpc' = mpc
          BY <1>k, <1>20 DEF HandlerKills, SameFlow
      <2> QED
          BY <2>4, <2>5 DEF SamePlace
  <1>21. CASE ChildCrashed(s)
      <2>1. Zombie("SIGNALED") \in KidType /\ Zombie("SIGNALED").pc # "none"
          BY <1>z DEF Status
      <2>2. SameFlow /\ mpc' = mpc /\ kid[s].pc # "none" /\ kid' = [kid EXCEPT ![s] = Zombie("SIGNALED")]
          BY <1>k, <1>21 DEF ChildCrashed, SameFlow
      <2> QED
          BY <1>o, <2>1, <2>2
  <1>15. CASE ChildWorks(s)
      <2>1. SameFlow /\ mpc' = mpc /\ kid' = kid
          BY <1>k, <1>15 DEF ChildWorks, vars, sigVars, shared, SameFlow
      <2>2. SameProcesses
          BY <1>k, <2>1 DEF SameProcesses
      <2> QED
          BY <2>1, <2>2 DEF SamePlace
  <1>18. CASE FiveFailures(s)
      <2> DEFINE r == [kid[s] EXCEPT !.flag = FALSE, !.rc = "FAILURE"]
      <2>1. r \in KidType /\ r.pc # "none" /\ kid[s].pc # "none" /\ kid' = [kid EXCEPT ![s] = r]
          BY <1>k, <1>18 DEF FiveFailures, KidType, KidPc, Status, Returned
      <2>2. SameFlow /\ mpc' = mpc
          BY <1>k, <1>18 DEF FiveFailures, SameFlow
      <2> QED
          BY <1>o, <2>1, <2>2
  <1>16. ChildStops(s) => SamePlace
      BY <1>6 DEF ChildStops, Returned
  <1>17. ChildEnds(s) => SamePlace
      BY <1>6 DEF ChildEnds
  <1> QED
      BY <1>1, <1>2, <1>3, <1>4, <1>5, <1>7, <1>8, <1>9, <1>10, <1>11, <1>12, <1>13,
         <1>14, <1>15, <1>16, <1>17, <1>18, <1>19, <1>20, <1>21 DEF ChildStep, ChildSignal, ChildFate

LEMMA ChildSteps ==
    ASSUME IndInv, NEW s \in Inst, ChildStep(s) \/ ChildSignal(s) \/ ChildFate(s), ~ChildBorn(s)
    PROVE  IndInv'
  BY ChildSame, Frame DEF SamePlace

LEMMA KillKeeps ==
    ASSUME FlowType, NEW T, NEW force, stress_stressors_kill(kid, T, force)
    PROVE  SameProcesses
  <1> DEFINE sig == IF force /\ kills > 5 THEN "KILL" ELSE "ALRM"
  <1>1. kid \in [Inst -> KidType]
      BY DEF FlowType
  <1>2. sig \in {"KILL", "ALRM", "INT"} /\ kid' = Deliver(kid, T, sig)
      BY DEF stress_stressors_kill
  <1> HIDE DEF sig
  <1>3. /\ Deliver(kid, T, sig) \in [Inst -> KidType]
        /\ \A s \in Inst : Deliver(kid, T, sig)[s].pc = "none" <=> kid[s].pc = "none"
      BY <1>1, <1>2, DeliverKeeps
  <1> QED
      BY <1>2, <1>3 DEF SameProcesses

\* Signals to the supervisor, handled or not, leave the bookkeeping alone.
LEMMA SignalSteps ==
    ASSUME IndInv, MainSignal \/ UserSigint \/ MainIsKilled
    PROVE  IndInv'
  <1> USE DEF mainVars, runVars, resultVars, sigVars, shared
  <1>k. FlowType /\ kid \in [Inst -> KidType] /\ mflag \in BOOLEAN
      BY DEF IndInv, FlowType
  <1>1. CASE MainSigint
      <2>1. SameProcesses
          BY <1>k, <1>1, KillKeeps DEF MainSigint
      <2>2. SameFlow /\ mpc' = mpc
          BY <1>1 DEF MainSigint, SameFlow
      <2> QED
          BY <2>1, <2>2, Frame
  <1>2. CASE MainSigalrm
      <2>1. SameProcesses
          BY <1>k, <1>2, KillKeeps DEF MainSigalrm
      <2>2. SameFlow /\ mpc' = mpc
          BY <1>k, <1>2 DEF MainSigalrm, SameFlow
      <2> QED
          BY <2>1, <2>2, Frame
  <1>3. CASE MainSigalrmDefault \/ MainIsKilled
      <2> DEFINE T == {s \in Inst : kid[s].pc \notin {"born", "new"}}
      <2>1. kid' = Deliver(kid, T, "ALRM") /\ mpc' = "dead"
          BY <1>3 DEF MainSigalrmDefault, MainIsKilled, MainDies
      <2>2. kid' \in [Inst -> KidType]
          BY <1>k, <2>1, DeliverKeeps
      <2>3. UNCHANGED <<run, setting, cur, todo, waited, reapCount, pid, reaped, mhandler, mflag>>
          BY <1>3 DEF MainSigalrmDefault, MainIsKilled
      <2>4. FlowType'
          BY <1>k, <2>1, <2>2, <2>3 DEF FlowType
      <2>5. BookkeepingInv' /\ StartInv' /\ ReapCountExact' /\ NoneLeftBehind'
          BY <2>1 DEF BookkeepingInv, StartInv, ReapCountExact, NoneLeftBehind, MainRunning
      <2> QED
          BY <2>4, <2>5 DEF IndInv
  <1>4. CASE UserSigint
      <2>1. kid' = kid \/ kid' = Deliver(kid, Inst, "INT")
          BY <1>4 DEF UserSigint
      <2>2. SameProcesses
          BY <1>k, <2>1, DeliverKeeps DEF SameProcesses
      <2>3. SameFlow /\ mpc' = mpc
          BY <1>k, <1>4 DEF UserSigint, SameFlow
      <2> QED
          BY <2>2, <2>3, Frame
  <1> QED
      BY <1>1, <1>2, <1>3, <1>4 DEF MainSignal

\* The steps of stress_run up to the wait, one by one.
LEMMA StartSteps ==
    ASSUME IndInv,
           BeginRun \/ Finish \/ (\E s \in Inst : InitInstance(s)) \/ ForkStopped \/ Fork
             \/ ForkAgain \/ ForkFails \/ Record \/ StartedGoOn \/ StartedStopped
             \/ PollNothing \/ AllStarted \/ stress_handler_set
    PROVE  IndInv'
  <1> USE DEF mainVars, runVars, resultVars, sigVars, shared
  <1>k. FlowType /\ kid \in [Inst -> KidType] /\ pid \in [Inst -> {-1, 0, 1}]
        /\ mflag \in BOOLEAN /\ mhandler \in BOOLEAN
      BY DEF IndInv, FlowType
  <1>p. ASSUME kid' = kid PROVE Processes' = Processes
      BY <1>p DEF Processes
  <1>1. CASE BeginRun
      <2>1. Processes' = Processes /\ Processes = {}
          BY <1>1, <1>p DEF BeginRun, IndInv, NoneLeftBehind
      <2>2. todo' \in SUBSET Inst /\ run' \in 0..Len(Plan)
          BY <1>1 DEF BeginRun, IndInv, FlowType
      <2>3. FlowType'
          BY <1>k, <1>1, <2>2 DEF BeginRun, FlowType
      <2>4. BookkeepingInv'
          BY <1>1, <2>1 DEF BeginRun, IndInv, BookkeepingInv, MainRunning
      <2>5. StartInv' /\ ReapCountExact' /\ NoneLeftBehind'
          BY <1>1, <2>1 DEF BeginRun, StartInv, ReapCountExact, NoneLeftBehind
      <2> QED
          BY <2>3, <2>4, <2>5 DEF IndInv
  <1>2. CASE Finish
      <2>1. Processes' = Processes /\ Processes = {}
          BY <1>2, <1>p DEF Finish, IndInv, NoneLeftBehind
      <2>2. FlowType'
          BY <1>k, <1>2 DEF Finish, FlowType
      <2>3. BookkeepingInv' /\ StartInv' /\ ReapCountExact' /\ NoneLeftBehind'
          BY <1>2, <2>1 DEF Finish, BookkeepingInv, StartInv, ReapCountExact, NoneLeftBehind,
             MainRunning
      <2> QED
          BY <2>2, <2>3 DEF IndInv
  <1>3. ASSUME NEW s \in Inst, InitInstance(s) PROVE IndInv'
      <2>1. Processes' = Processes /\ s \notin Processes
          BY <1>3, <1>p DEF InitInstance, IndInv, StartInv, MainRunning
      <2>2. pid' \in [Inst -> {-1, 0, 1}] /\ reaped' \in SUBSET Inst
          BY <1>k, <1>3 DEF InitInstance, FlowType
      <2>3. FlowType'
          BY <1>k, <1>3, <2>2 DEF InitInstance, FlowType
      <2>4. BookkeepingInv'
          BY <1>k, <1>3, <2>1 DEF InitInstance, IndInv, BookkeepingInv, MainRunning
      <2>5. StartInv' /\ ReapCountExact' /\ NoneLeftBehind'
          BY <1>3, <2>1 DEF InitInstance, IndInv, StartInv, ReapCountExact, NoneLeftBehind,
             MainRunning
      <2> QED
          BY <2>3, <2>4, <2>5 DEF IndInv
  <1>4. CASE ForkStopped
      <2>1. Processes' = Processes
          BY <1>4, <1>p DEF ForkStopped
      <2>2. FlowType'
          BY <1>k, <1>4 DEF ForkStopped, FlowType
      <2>3. BookkeepingInv'
          BY <1>4, <2>1 DEF ForkStopped, IndInv, BookkeepingInv, MainRunning
      <2>4. StartInv' /\ ReapCountExact' /\ NoneLeftBehind'
          BY <1>4, <2>1 DEF ForkStopped, IndInv, StartInv, ReapCountExact, NoneLeftBehind,
             MainRunning
      <2> QED
          BY <2>2, <2>3, <2>4 DEF IndInv
  <1>5. CASE Fork
      <2>1. cur \in todo /\ cur \in Inst /\ cur \notin Processes
          BY <1>5 DEF Fork, IndInv, FlowType, StartInv, MainRunning
      <2>2. NewKid \in KidType /\ NewKid.pc = "born"
          BY <1>k DEF NewKid, NoKid, KidType, KidPc, Status, Returned
      <2>3. kid' \in [Inst -> KidType] /\ kid' = [kid EXCEPT ![cur] = NewKid]
          BY <1>k, <1>5, <2>1, <2>2 DEF Fork
      <2>4. Processes' = Processes \cup {cur}
          BY <1>k, <2>1, <2>2, <2>3 DEF Processes
      <2>5. FlowType'
          BY <1>k, <1>5, <2>3 DEF Fork, FlowType
      <2>6. BookkeepingInv'
          BY <1>5, <2>4 DEF Fork, IndInv, BookkeepingInv, MainRunning
      <2>7. StartInv' /\ ReapCountExact' /\ NoneLeftBehind'
          BY <1>5, <2>1, <2>4 DEF Fork, IndInv, StartInv, ReapCountExact, NoneLeftBehind,
             MainRunning
      <2> QED
          BY <2>5, <2>6, <2>7 DEF IndInv
  <1>6. CASE ForkAgain
      <2>1. cur \in Inst /\ cur \notin Processes /\ Processes' = Processes
          BY <1>6, <1>p DEF ForkAgain, IndInv, FlowType, StartInv, MainRunning
      <2>2. FlowType'
          BY <1>k, <1>6, <2>1 DEF ForkAgain, FlowType
      <2>3. BookkeepingInv'
          BY <1>6, <2>1 DEF ForkAgain, IndInv, BookkeepingInv, MainRunning
      <2>4. StartInv' /\ ReapCountExact' /\ NoneLeftBehind'
          BY <1>6, <2>1 DEF ForkAgain, IndInv, StartInv, ReapCountExact, NoneLeftBehind,
             MainRunning
      <2> QED
          BY <2>2, <2>3, <2>4 DEF IndInv
  <1>7. CASE ForkFails
      <2>1. SameProcesses
          BY <1>k, <1>7, KillKeeps DEF ForkFails
      <2>2. cur \in Inst /\ cur \notin Processes /\ Processes' = Processes
          BY <1>7, <2>1 DEF ForkFails, IndInv, FlowType, StartInv, MainRunning, SameProcesses,
             Processes
      <2>3. FlowType'
          BY <1>k, <1>7, <2>1, <2>2 DEF ForkFails, FlowType, SameProcesses
      <2>4. BookkeepingInv'
          BY <1>7, <2>2 DEF ForkFails, IndInv, BookkeepingInv, MainRunning
      <2>5. StartInv' /\ ReapCountExact' /\ NoneLeftBehind'
          BY <1>7, <2>2 DEF ForkFails, StartInv, ReapCountExact, NoneLeftBehind
      <2> QED
          BY <2>3, <2>4, <2>5 DEF IndInv
  <1>8. CASE Record
      <2>1. cur \in Inst /\ cur \in Processes /\ Processes' = Processes
          BY <1>8, <1>p DEF Record, IndInv, FlowType, StartInv
      <2>2. pid' \in [Inst -> {-1, 0, 1}] /\ reaped' \in SUBSET Inst
          BY <1>k, <1>8 DEF Record, FlowType
      <2>3. FlowType'
          BY <1>k, <1>8, <2>2 DEF Record, FlowType
      <2>4. BookkeepingInv'
          BY <1>k, <1>8, <2>1 DEF Record, IndInv, BookkeepingInv, MainRunning
      <2>5. StartInv' /\ ReapCountExact' /\ NoneLeftBehind'
          BY <1>8, <2>1 DEF Record, IndInv, StartInv, ReapCountExact, NoneLeftBehind, MainRunning
      <2> QED
          BY <2>3, <2>4, <2>5 DEF IndInv
  <1>9. CASE StartedStopped
      <2>1. SameProcesses
          BY <1>k, <1>9, KillKeeps DEF StartedStopped
      <2>2. Processes' = Processes
          BY <2>1 DEF SameProcesses, Processes
      <2>3. FlowType'
          BY <1>k, <1>9, <2>1 DEF StartedStopped, FlowType, SameProcesses
      <2>4. BookkeepingInv'
          BY <1>9, <2>2 DEF StartedStopped, IndInv, BookkeepingInv, MainRunning
      <2>5. StartInv' /\ ReapCountExact' /\ NoneLeftBehind'
          BY <1>9, <2>2 DEF StartedStopped, StartInv, ReapCountExact, NoneLeftBehind
      <2> QED
          BY <2>3, <2>4, <2>5 DEF IndInv
  <1>10. CASE StartedGoOn \/ PollNothing \/ AllStarted \/ stress_handler_set
      <2>1. Processes' = Processes
          BY <1>10, <1>p DEF StartedGoOn, PollNothing, AllStarted, stress_handler_set
      <2>2. FlowType'
          BY <1>k, <1>10 DEF StartedGoOn, PollNothing, AllStarted, stress_handler_set, FlowType
      <2>3. BookkeepingInv'
          BY <1>10, <2>1 DEF StartedGoOn, PollNothing, AllStarted, stress_handler_set, IndInv,
             BookkeepingInv, MainRunning
      <2>4. StartInv' /\ ReapCountExact' /\ NoneLeftBehind'
          BY <1>10, <2>1 DEF StartedGoOn, PollNothing, AllStarted, stress_handler_set, IndInv,
             StartInv, ReapCountExact, NoneLeftBehind, MainRunning
      <2> QED
          BY <2>2, <2>3, <2>4 DEF IndInv
  <1> QED
      BY <1>1, <1>2, <1>3, <1>4, <1>5, <1>6, <1>7, <1>8, <1>9, <1>10

\* The steps of stress_stressors_wait and of the poll during start-up.
LEMMA WaitSteps ==
    ASSUME IndInv,
           AggressiveDone \/ stress_wait_reap_count \/ (\E s \in Inst : WaitReturns(s))
             \/ stress_wait_status \/ EndRun
    PROVE  IndInv'
  <1> USE DEF mainVars, runVars, resultVars, sigVars, shared
  <1>k. FlowType /\ kid \in [Inst -> KidType] /\ pid \in [Inst -> {-1, 0, 1}]
        /\ mflag \in BOOLEAN
      BY DEF IndInv, FlowType
  <1>p. ASSUME kid' = kid PROVE Processes' = Processes
      BY <1>p DEF Processes
  <1>f. IsFiniteSet(Processes) /\ Cardinality(Processes) \in Nat
      BY FS_Subset, FS_CardinalityType DEF Processes
  <1>1. CASE AggressiveDone
      <2>1. Processes' = Processes
          BY <1>1, <1>p DEF AggressiveDone
      <2>2. FlowType'
          BY <1>k, <1>1 DEF AggressiveDone, FlowType
      <2>3. BookkeepingInv' /\ StartInv' /\ ReapCountExact' /\ NoneLeftBehind'
          BY <1>1, <2>1 DEF AggressiveDone, IndInv, BookkeepingInv, StartInv, ReapCountExact,
             NoneLeftBehind, MainRunning
      <2> QED
          BY <2>2, <2>3 DEF IndInv
  <1>2. CASE stress_wait_reap_count
      <2>1. Processes' = Processes
          BY <1>2, <1>p DEF stress_wait_reap_count
      <2>2. {s \in Inst : pid[s] = 1 /\ s \notin reaped} = Processes
          BY <1>2 DEF stress_wait_reap_count, IndInv, BookkeepingInv, MainRunning, Processes
      <2>3. reapCount' = Cardinality(Processes) /\ reapCount' \in Int
          <3>1. reapCount' = Cardinality({s \in Inst : pid[s] = 1 /\ s \notin reaped})
              BY <1>2 DEF stress_wait_reap_count
          <3>2. reapCount' = Cardinality(Processes)
              BY <2>2, <3>1, Zenon
          <3> QED
              BY <1>f, <3>2
      <2>4. FlowType'
          BY <1>k, <1>2, <2>3 DEF stress_wait_reap_count, FlowType
      <2>5. BookkeepingInv' /\ StartInv'
          BY <1>2, <2>1 DEF stress_wait_reap_count, IndInv, BookkeepingInv, StartInv, MainRunning
      <2>6. ReapCountExact' /\ NoneLeftBehind'
          BY <1>2, <2>1, <2>3 DEF stress_wait_reap_count, ReapCountExact, NoneLeftBehind
      <2> QED
          BY <2>4, <2>5, <2>6 DEF IndInv
  <1>3. ASSUME NEW s \in Inst, WaitReturns(s) PROVE IndInv'
      <2>1. NoKid \in KidType /\ NoKid.pc = "none"
          BY DEF NoKid, KidType, KidPc, Status, Returned
      <2>2. kid' \in [Inst -> KidType] /\ s \in Processes /\ Processes' = Processes \ {s}
          BY <1>k, <1>3, <2>1 DEF WaitReturns, Zombies, Processes
      <2>3. Cardinality(Processes') = Cardinality(Processes) - 1
          BY <1>f, <2>2, FS_RemoveElement
      <2>4. kid[s].rc \in Status
          BY <1>k DEF KidType
      <2>5. /\ waited' \in [inst : Inst \cup {0}, rc : Status, back : {"init", "aggressive", "wait"}]
            /\ waited'.inst = s /\ waited'.back = IF mpc = "poll" THEN "init" ELSE mpc
          BY <1>3, <2>4 DEF WaitReturns
      <2>6. FlowType'
          BY <1>k, <1>3, <2>2, <2>5 DEF WaitReturns, FlowType
      <2>7. BookkeepingInv' /\ StartInv'
          BY <1>3, <2>2, <2>5 DEF WaitReturns, IndInv, BookkeepingInv, StartInv, MainRunning
      <2>8. ReapCountExact'
          BY <1>3, <1>f, <2>3, <2>5 DEF WaitReturns, IndInv, ReapCountExact
      <2>9. NoneLeftBehind'
          BY <1>3 DEF WaitReturns, NoneLeftBehind
      <2> QED
          BY <2>6, <2>7, <2>8, <2>9 DEF IndInv
  <1>4. CASE stress_wait_status
      <2> DEFINE s == waited.inst
      <2>1. mpc = "status" /\ s \in Inst /\ s \notin Processes
          BY <1>4 DEF stress_wait_status, IndInv, StartInv
      <2>2. SameProcesses
          <3>1. CASE stress_stressors_kill(kid, Targets \ {s}, TRUE)
              BY <1>k, <3>1, KillKeeps
          <3>2. CASE kid' = kid
              BY <1>k, <3>2 DEF SameProcesses
          <3> QED
              BY <1>4, <3>1, <3>2 DEF stress_wait_status
      <2>3. Processes' = Processes
          BY <2>2 DEF SameProcesses, Processes
      <2>4. /\ mpc' = waited.back /\ waited.back \in {"init", "aggressive", "wait"}
            /\ pid' = [pid EXCEPT ![s] = 0] /\ reaped' = reaped \cup {s}
            /\ reapCount' = IF waited.back = "init" THEN reapCount ELSE reapCount - 1
            /\ UNCHANGED <<run, setting, mhandler, todo, cur>>
          BY <1>k, <1>4 DEF stress_wait_status, FlowType
      <2>5. pid' \in [Inst -> {-1, 0, 1}] /\ reaped' \in SUBSET Inst /\ reapCount' \in Int
          <3>1. reapCount \in Int /\ reaped \in SUBSET Inst
              BY <1>k DEF FlowType
          <3>2. reapCount' \in Int
              BY <2>4, <3>1
          <3>3. reaped' \in SUBSET Inst
              BY <2>1, <2>4, <3>1
          <3>4. pid' \in [Inst -> {-1, 0, 1}]
              BY <1>k, <2>1, <2>4
          <3> QED
              BY <3>2, <3>3, <3>4
      <2>6. waited' \in [inst : Inst \cup {0}, rc : Status, back : {"init", "aggressive", "wait"}]
          BY <1>k, <1>4 DEF stress_wait_status, FlowType, Status, Returned
      <2>7. mflag' \in BOOLEAN
          BY <1>k, <1>4 DEF stress_wait_status
      <2>8. FlowType'
          BY <1>k, <2>2, <2>4, <2>5, <2>6, <2>7 DEF FlowType, SameProcesses
      <2>9. BookkeepingInv'
          BY <1>k, <2>1, <2>3, <2>4 DEF IndInv, BookkeepingInv, MainRunning
      <2>10. StartInv'
          BY <2>1, <2>3, <2>4 DEF IndInv, StartInv, MainRunning
      <2>11. ReapCountExact' /\ NoneLeftBehind'
          BY <1>f, <2>1, <2>3, <2>4 DEF IndInv, ReapCountExact, NoneLeftBehind
      <2> QED
          BY <2>8, <2>9, <2>10, <2>11 DEF IndInv
  <1>5. CASE EndRun
      <2>1. Processes' = Processes
          BY <1>5, <1>p DEF EndRun
      <2>2. Processes = {}
          BY <1>5, <1>f, FS_EmptySet DEF EndRun, IndInv, ReapCountExact
      <2>3. FlowType'
          BY <1>k, <1>5 DEF EndRun, FlowType
      <2>4. BookkeepingInv' /\ StartInv' /\ ReapCountExact' /\ NoneLeftBehind'
          BY <1>5, <2>1, <2>2 DEF EndRun, IndInv, BookkeepingInv, StartInv, ReapCountExact,
             NoneLeftBehind, MainRunning
      <2> QED
          BY <2>3, <2>4 DEF IndInv
  <1> QED
      BY <1>1, <1>2, <1>3, <1>4, <1>5

\* While main runs, the shared bookkeeping and the processes agree.
THEOREM Inductive == Spec => []IndInv
  <1>1. Init => IndInv
      BY InitInv
  <1>2. ASSUME IndInv, [Next]_vars PROVE IndInv'
      <2>1. CASE UNCHANGED vars \/ Terminated
          <3>1. SameFlow /\ mpc' = mpc /\ kid' = kid
              BY <1>2, <2>1 DEF IndInv, FlowType, Terminated, vars, mainVars, runVars, resultVars,
                 sigVars, shared, SameFlow
          <3>2. SameProcesses
              BY <1>2, <3>1 DEF IndInv, FlowType, SameProcesses
          <3> QED
              BY <1>2, <3>1, <3>2, Frame
      <2>2. CASE MainStep
          BY <1>2, <2>2, StartSteps, WaitSteps DEF MainStep
      <2>3. CASE MainSignal \/ UserSigint \/ MainIsKilled
          BY <1>2, <2>3, SignalSteps
      <2>4. ASSUME NEW s \in Inst, ChildStep(s) \/ ChildSignal(s) \/ ChildFate(s) PROVE IndInv'
          BY <1>2, <2>4, ChildBornStep, ChildSteps
      <2> QED
          BY <1>2, <2>1, <2>2, <2>3, <2>4 DEF Next
  <1> QED
      BY <1>1, <1>2, PTL DEF Spec

\* stress_run returns with no process of its own left, running or zombie.
THEOREM RunsLeaveNothing == Spec => []NoneLeftBehind
  <1>1. IndInv => NoneLeftBehind
      BY DEF IndInv
  <1> QED
      BY <1>1, Inductive, PTL

\* The reap count of the wait loops is the number of processes still to be
\* waited for, in every state of every execution.
THEOREM ReapsExactly == Spec => []ReapCountExact
  <1>1. IndInv => ReapCountExact
      BY DEF IndInv
  <1> QED
      BY <1>1, Inductive, PTL

\* ------------------------------------------------------------------------
\* The handlers of the stressors.

\* No step but HandlerLooks makes a handler aim at something, and none leaves a
\* handler behind where a process ends.
KeepAims ==
    \A t \in Inst :
        /\ kid'[t].aim # 0 => kid'[t].aim = kid[t].aim
        /\ (InHandler(t) => Alive(t)) => (InHandler(t)' => Alive(t)')

LEMMA DeliverAims ==
    ASSUME NEW k \in [Inst -> KidType], NEW T, NEW sig, NEW t \in Inst
    PROVE  \/ Deliver(k, T, sig)[t].aim = 0 /\ Deliver(k, T, sig)[t].hunt = {}
           \/ /\ Deliver(k, T, sig)[t].aim = k[t].aim
              /\ Deliver(k, T, sig)[t].hunt = k[t].hunt
              /\ Deliver(k, T, sig)[t].pc = k[t].pc
  <1>1. k[t] \in KidType /\ Zombie("sigKILL").aim = 0 /\ Zombie("sigKILL").hunt = {}
      BY DEF Zombie, NoKid
  <1>2. /\ [k[t] EXCEPT !.pend = @ \cup {sig}].aim = k[t].aim
        /\ [k[t] EXCEPT !.pend = @ \cup {sig}].hunt = k[t].hunt
        /\ [k[t] EXCEPT !.pend = @ \cup {sig}].pc = k[t].pc
      BY <1>1 DEF KidType
  <1> QED
      BY <1>1, <1>2 DEF Deliver

LEMMA KillAims ==
    ASSUME FlowType, NEW T, NEW force, stress_stressors_kill(kid, T, force)
    PROVE  KeepAims
  <1>1. kid \in [Inst -> KidType]
      BY DEF FlowType
  <1> QED
      BY <1>1, DeliverAims DEF stress_stressors_kill, KeepAims, Alive, InHandler

LEMMA ChildAims ==
    ASSUME FlowType, NEW s \in Inst, ChildStep(s) \/ ChildSignal(s) \/ ChildFate(s)
    PROVE  KeepAims \/ HandlerLooks(s)
  <1>k. kid \in [Inst -> KidType] /\ kid[s] \in KidType
      BY DEF FlowType
  <1>o. ASSUME NEW r, kid' = [kid EXCEPT ![s] = r], r.aim \in {0, kid[s].aim},
               r.pc \notin {"none", "zombie"} \/ (r.aim = 0 /\ r.hunt = {})
        PROVE  KeepAims
      BY <1>k, <1>o DEF KeepAims, Alive, InHandler
  <1>z. ASSUME NEW rc, kid' = [kid EXCEPT ![s] = Zombie(rc)] PROVE KeepAims
      BY <1>o, <1>z DEF Zombie, NoKid
  <1>1. CASE ChildBorn(s) \/ ChildCheck(s) \/ ChildBegin(s)
      <2>1. PICK pc \in {"new", "begin", "skip", "run"} :
                kid' = [kid EXCEPT ![s] = [kid[s] EXCEPT !.pc = pc]]
          BY <1>k, <1>1 DEF ChildBorn, ChildCheck, ChildBegin, Goto
      <2>2. [kid[s] EXCEPT !.pc = pc].aim = kid[s].aim /\ [kid[s] EXCEPT !.pc = pc].pc = pc
          BY <1>k DEF KidType
      <2> QED
          BY <1>o, <2>1, <2>2
  <1>2. CASE ChildSetup(s) \/ ChildSetupFails(s) \/ ChildAlarm(s)
      <2>1. \A t \in Inst : t # s => kid'[t] = kid[t]
          BY <1>k, <1>2 DEF ChildSetup, ChildSetupFails, ChildAlarm
      <2>2. kid'[s].aim = kid[s].aim /\ kid'[s].pc \in {"setup", "exit", "check"}
          BY <1>k, <1>2 DEF ChildSetup, ChildSetupFails, ChildAlarm, KidType
      <2> QED
          BY <2>1, <2>2 DEF KeepAims, Alive, InHandler
  <1>3. ASSUME NEW rc, ChildReturns(s, rc) PROVE KeepAims
      <2>1. \A t \in Inst : t # s => kid'[t] = kid[t]
          BY <1>k, <1>3 DEF ChildReturns
      <2>2. kid'[s].aim = kid[s].aim /\ kid'[s].pc = "exit"
          BY <1>k, <1>3 DEF ChildReturns, KidType
      <2> QED
          BY <2>1, <2>2 DEF KeepAims, Alive, InHandler
  <1>4. CASE ChildExit(s) \/ ChildSysExit(s) \/ ChildCrashed(s) \/ ChildKilled(s)
               \/ ChildSigalrmDefault(s)
      BY <1>z, <1>4 DEF ChildExit, ChildSysExit, ChildCrashed, ChildKilled, ChildSigalrmDefault
  <1>5. CASE \/ ChildCrash(s) \/ FiveFailures(s)
             \/ AlarmFires(s) \/ ChildSigalrm(s) \/ ChildSigint(s)
      <2>1. \A t \in Inst : t # s => kid'[t] = kid[t]
          BY <1>k, <1>5 DEF ChildCrash, FiveFailures, AlarmFires, ChildSigalrm, ChildSigint
      <2>2. kid'[s].aim = kid[s].aim
          BY <1>k, <1>5 DEF ChildCrash, FiveFailures, AlarmFires, ChildSigalrm, ChildSigint, KidType
      <2>3. kid'[s].pc \notin {"none", "zombie"}
          BY <1>k, <1>5 DEF ChildCrash, FiveFailures, AlarmFires, ChildSigalrm, ChildSigint,
             KidType, Alive
      <2> QED
          BY <2>1, <2>2, <2>3 DEF KeepAims, Alive, InHandler
  <1>7. CASE HandlerKills(s)
      <2> DEFINE k == [kid EXCEPT ![s].aim = 0]
      <2>1. /\ k \in [Inst -> KidType]
            /\ \A t \in Inst : /\ k[t].pc = kid[t].pc /\ k[t].hunt = kid[t].hunt
                               /\ k[t].aim \in {0, kid[t].aim}
          BY <1>k DEF KidType
      <2>2. kid' = Deliver(k, {kid[s].aim}, "ALRM")
          BY <1>7 DEF HandlerKills
      <2> HIDE DEF k
      <2>3. ASSUME NEW t \in Inst
            PROVE  \/ kid'[t].aim = 0 /\ kid'[t].hunt = {}
                   \/ kid'[t].aim = k[t].aim /\ kid'[t].hunt = k[t].hunt /\ kid'[t].pc = k[t].pc
        <3> DEFINE d(u) == Deliver(k, u, "ALRM")[t]
        <3>1. k \in [Inst -> KidType]
            BY <2>1
        <3>2. ASSUME NEW T
              PROVE  \/ d(T).aim = 0 /\ d(T).hunt = {}
                     \/ d(T).aim = k[t].aim /\ d(T).hunt = k[t].hunt /\ d(T).pc = k[t].pc
            BY <3>1, DeliverAims
        <3>3. kid'[t] = d({kid[s].aim})
            BY <2>2
        <3> HIDE DEF d
        <3> QED
            BY <3>2, <3>3
      <2> QED
          BY <2>1, <2>3 DEF KeepAims, Alive, InHandler
  <1>8. CASE ChildWorks(s)
      BY <1>8 DEF ChildWorks, vars, KeepAims, Alive, InHandler
  <1> QED
      BY <1>1, <1>2, <1>3, <1>4, <1>5, <1>7, <1>8
         DEF ChildStep, ChildSignal, ChildFate, ChildStops, ChildEnds

\* A step keeps AimInv if it makes no handler aim and the main process, where it
\* runs on, forgets nothing of what is known of the instances.
LEMMA AimFrame ==
    ASSUME IndInv, AimInv, KeepAims,
           mpc' = "status" => waited'.inst \notin todo',
           MainRunning' => MainRunning,
           MainRunning' => \A t \in Inst : Known(t) /\ Begun(t) => Known(t)' /\ Begun(t)'
    PROVE  AimInv'
  <1>1. \A s \in Inst : kid[s].aim \in Inst \cup {0}
      BY DEF IndInv, FlowType, KidType
  <1>2. \A s \in Inst : InHandler(s)' => Alive(s)'
      BY DEF AimInv, KeepAims
  <1>3. ASSUME MainRunning', NEW s \in Inst, kid'[s].aim # 0
        PROVE  Known(kid[s].aim)' /\ Begun(kid[s].aim)'
      <2>1. PICK t \in Inst : t = kid[s].aim /\ t = kid'[s].aim
          BY <1>1, <1>3 DEF KeepAims
      <2>2. Known(t) /\ Begun(t)
          BY <1>3, <2>1 DEF AimInv
      <2>3. Known(t)' /\ Begun(t)'
          BY <1>3, <2>2
      <2> QED
          BY <2>1, <2>3
  <1>4. MainRunning' =>
           \A s \in Inst : kid'[s].aim # 0 => Known(kid[s].aim)' /\ Begun(kid[s].aim)'
      BY <1>3
  <1> QED
      BY <1>2, <1>4, Zenon DEF AimInv

LEMMA MainAims ==
    ASSUME IndInv, AimInv, MainStep
    PROVE  AimInv'
  <1> USE DEF mainVars, runVars, resultVars, sigVars, shared
  <1>k. FlowType /\ kid \in [Inst -> KidType] /\ pid \in [Inst -> {-1, 0, 1}]
      BY DEF IndInv, FlowType
  <1>p. ASSUME kid' = kid PROVE KeepAims /\ Processes' = Processes
      BY <1>p DEF KeepAims, Alive, InHandler, Processes
  <1>q. ASSUME NEW T, NEW force, stress_stressors_kill(kid, T, force)
        PROVE  KeepAims /\ Processes' = Processes
      BY <1>k, <1>q, KillAims, KillKeeps DEF SameProcesses, Processes
  <1>1. CASE BeginRun
      <2>1. \A s \in Inst : kid'[s].aim = 0 /\ ~InHandler(s)'
          BY <1>1 DEF BeginRun, IndInv, NoneLeftBehind, AimInv, Alive, InHandler, Processes
      <2> QED
          BY <1>1, <2>1 DEF BeginRun, AimInv
  <1>2. CASE Finish \/ EndRun \/ AggressiveDone \/ stress_wait_reap_count \/ StartedGoOn
               \/ PollNothing \/ AllStarted \/ stress_handler_set
      <2>1. /\ UNCHANGED <<kid, todo, cur, waited, pid, reaped>>
            /\ mpc \notin {"record", "status", "done", "dead"} /\ mpc' \notin {"record", "status"}
          BY <1>2 DEF Finish, EndRun, AggressiveDone, stress_wait_reap_count, StartedGoOn,
             PollNothing, AllStarted, stress_handler_set
      <2> QED
          BY <1>p, <2>1, AimFrame DEF MainRunning, Known, Begun, JustWaited
  <1>3. ASSUME NEW i \in Inst, InitInstance(i) PROVE AimInv'
      <2>1. /\ UNCHANGED <<kid, todo, waited>> /\ mpc = "init" /\ mpc' = "fork" /\ i \in todo
            /\ pid' = [pid EXCEPT ![i] = -1] /\ reaped' = reaped \ {i}
          BY <1>3 DEF InitInstance
      <2> QED
          BY <1>k, <1>p, <2>1, AimFrame DEF MainRunning, Known, Begun, JustWaited
  <1>4. CASE ForkStopped \/ ForkAgain
      <2>1. /\ UNCHANGED <<kid, waited, pid>> /\ mpc = "fork" /\ mpc' \in {"init", "fork"}
            /\ todo' \subseteq todo /\ reaped \subseteq reaped'
          BY <1>4 DEF ForkStopped, ForkAgain
      <2> QED
          BY <1>p, <2>1, AimFrame DEF MainRunning, Known, Begun, JustWaited
  <1>5. CASE Fork
      <2>1. /\ UNCHANGED <<todo, cur, waited, pid, reaped>> /\ mpc = "fork" /\ mpc' = "record"
            /\ kid' = [kid EXCEPT ![cur] = NewKid]
          BY <1>5 DEF Fork
      <2>2. cur \in Inst /\ cur \notin Processes
          BY <2>1 DEF IndInv, FlowType, StartInv, MainRunning
      <2>3. NewKid.aim = 0 /\ NewKid.pc = "born"
          BY DEF NewKid, NoKid
      <2>4. KeepAims /\ Processes \subseteq Processes'
          BY <1>k, <2>1, <2>2, <2>3 DEF KeepAims, Alive, InHandler, Processes
      <2> QED
          BY <2>1, <2>4, AimFrame DEF MainRunning, Known, Begun, JustWaited
  <1>6. CASE ForkFails \/ StartedStopped
      <2>1. KeepAims /\ Processes' = Processes
          BY <1>6, <1>q DEF ForkFails, StartedStopped
      <2>2. /\ UNCHANGED <<waited, pid>> /\ mpc \in {"fork", "started"} /\ mpc' = "handler"
            /\ todo' = {} /\ reaped \subseteq reaped'
          BY <1>6 DEF ForkFails, StartedStopped
      <2> QED
          BY <2>1, <2>2, AimFrame DEF MainRunning, Known, Begun, JustWaited
  <1>7. CASE Record
      <2>1. /\ UNCHANGED <<kid, waited>> /\ mpc = "record" /\ mpc' = "started"
            /\ pid' = [pid EXCEPT ![cur] = 1] /\ reaped' = reaped \ {cur} /\ todo' = todo \ {cur}
          BY <1>7 DEF Record
      <2>2. cur \in Inst /\ cur \in Processes
          BY <2>1 DEF IndInv, FlowType, StartInv
      <2> QED
          BY <1>k, <1>p, <2>1, <2>2, AimFrame DEF MainRunning, Known, Begun, JustWaited
  <1>8. ASSUME NEW i \in Inst, WaitReturns(i) PROVE AimInv'
      <2>1. /\ UNCHANGED <<todo, cur, pid, reaped>> /\ mpc \in {"poll", "aggressive", "wait"}
            /\ mpc' = "status" /\ waited'.inst = i /\ kid' = [kid EXCEPT ![i] = NoKid]
            /\ kid[i].pc = "zombie"
          BY <1>8 DEF WaitReturns, Zombies
      <2>2. NoKid.aim = 0 /\ NoKid.hunt = {} /\ NoKid.pc = "none"
          BY DEF NoKid
      <2>3. KeepAims /\ Processes' = Processes \ {i} /\ i \in Processes
          BY <1>k, <2>1, <2>2 DEF KeepAims, Alive, InHandler, Processes
      <2>4. i \notin todo'
          BY <2>1, <2>3 DEF IndInv, StartInv, MainRunning
      <2> QED
          BY <2>1, <2>3, <2>4, AimFrame DEF MainRunning, Known, Begun, JustWaited
  <1>9. CASE stress_wait_status
      <2>1. KeepAims /\ Processes' = Processes
          BY <1>9, <1>p, <1>q DEF stress_wait_status
      <2>2. waited.inst \in Inst /\ waited.back \in {"init", "aggressive", "wait"} /\ mpc = "status"
          BY <1>k, <1>9 DEF stress_wait_status, FlowType, IndInv, StartInv
      <2>3. /\ UNCHANGED <<todo, cur>> /\ mpc' = waited.back
            /\ pid' = [pid EXCEPT ![waited.inst] = 0] /\ reaped' = reaped \cup {waited.inst}
          BY <1>9 DEF stress_wait_status
      <2> QED
          BY <1>k, <2>1, <2>2, <2>3, AimFrame DEF MainRunning, Known, Begun, JustWaited
  <1> QED
      BY <1>1, <1>2, <1>3, <1>4, <1>5, <1>6, <1>7, <1>8, <1>9 DEF MainStep

\* Where nothing changes but signals and processes, what is known stays known.
LEMMA AimQuiet ==
    ASSUME IndInv, AimInv, KeepAims, Processes' = Processes,
           mpc' = mpc \/ mpc' = "dead", UNCHANGED <<todo, cur, waited, pid, reaped>>
    PROVE  AimInv'
  BY AimFrame DEF MainRunning, Known, Begun, JustWaited, AimInv

LEMMA SignalAims ==
    ASSUME IndInv, AimInv, MainSignal \/ UserSigint \/ MainIsKilled
    PROVE  AimInv'
  <1> USE DEF mainVars, runVars, resultVars, sigVars, shared
  <1>k. FlowType /\ kid \in [Inst -> KidType]
      BY DEF IndInv, FlowType
  <1>d. ASSUME NEW T, NEW sig \in {"KILL", "ALRM", "INT"}, kid' = Deliver(kid, T, sig)
        PROVE  KeepAims /\ Processes' = Processes
      <2>1. ASSUME NEW t \in Inst
            PROVE  \/ kid'[t].aim = 0 /\ kid'[t].hunt = {}
                   \/ kid'[t].aim = kid[t].aim /\ kid'[t].hunt = kid[t].hunt
                      /\ kid'[t].pc = kid[t].pc
          BY <1>k, <1>d, DeliverAims
      <2>2. \A t \in Inst : kid'[t].pc = "none" <=> kid[t].pc = "none"
          BY <1>k, <1>d, DeliverKeeps
      <2> QED
          BY <2>1, <2>2 DEF KeepAims, Alive, InHandler, Processes
  <1>1. CASE MainSigint \/ MainSigalrm
      <2>1. KeepAims /\ Processes' = Processes
          BY <1>k, <1>1, KillAims, KillKeeps DEF MainSigint, MainSigalrm, SameProcesses, Processes
      <2>2. mpc' = mpc /\ UNCHANGED <<todo, cur, waited, pid, reaped>>
          BY <1>1 DEF MainSigint, MainSigalrm
      <2> QED
          BY <2>1, <2>2, AimQuiet
  <1>2. CASE MainSigalrmDefault \/ MainIsKilled
      <2>1. KeepAims /\ Processes' = Processes
          BY <1>2, <1>d DEF MainSigalrmDefault, MainIsKilled, MainDies
      <2>2. mpc' = "dead" /\ UNCHANGED <<todo, cur, waited, pid, reaped>>
          BY <1>2 DEF MainSigalrmDefault, MainIsKilled, MainDies
      <2> QED
          BY <2>1, <2>2, AimQuiet
  <1>3. CASE UserSigint
      <2>1. KeepAims /\ Processes' = Processes
          <3>1. CASE kid' = kid
              BY <3>1 DEF KeepAims, Alive, InHandler, Processes
          <3>2. CASE kid' = Deliver(kid, Inst, "INT")
              BY <1>d, <3>2
          <3> QED
              BY <1>3, <3>1, <3>2 DEF UserSigint
      <2>2. mpc' = mpc /\ UNCHANGED <<todo, cur, waited, pid, reaped>>
          BY <1>3 DEF UserSigint
      <2> QED
          BY <2>1, <2>2, AimQuiet
  <1> QED
      BY <1>1, <1>2, <1>3 DEF MainSignal

LEMMA ChildKeepsAims ==
    ASSUME IndInv, AimInv, NEW s \in Inst, ChildStep(s) \/ ChildSignal(s) \/ ChildFate(s),
           ~HandlerLooks(s)
    PROVE  AimInv'
  <1> USE DEF kidOnly, mainVars, runVars, resultVars
  <1>1. KeepAims
      BY ChildAims DEF IndInv
  <1>2. CASE ~ChildBorn(s)
      <2>1. SamePlace
          BY <1>2, ChildSame
      <2>2. Processes' = Processes /\ UNCHANGED <<mpc, todo, cur, waited, pid, reaped>>
          BY <2>1 DEF SamePlace, SameProcesses, SameFlow, Processes
      <2> QED
          BY <1>1, <2>2, AimQuiet
  <1>3. CASE ChildBorn(s)
      <2>1. /\ UNCHANGED <<mpc, todo, cur, waited>> /\ kid[s].pc = "born"
            /\ pid' = [pid EXCEPT ![s] = 1] /\ reaped' = reaped \ {s}
            /\ kid' = [kid EXCEPT ![s].pc = "new"]
          BY <1>3 DEF ChildBorn, Goto
      <2>2. Processes' = Processes /\ s \in Processes
          BY <2>1 DEF IndInv, FlowType, KidType, Processes
      <2>3. pid \in [Inst -> {-1, 0, 1}]
          BY DEF IndInv, FlowType
      <2> QED
          BY <1>1, <2>1, <2>2, <2>3, AimFrame DEF MainRunning, Known, Begun, JustWaited, AimInv
  <1> QED
      BY <1>2, <1>3

\* A handler takes aim only at what passes the tests of stress_stressors_kill: a
\* process, or the one just waited for.
LEMMA LookAims ==
    ASSUME IndInv, AimInv, NEW s \in Inst, HandlerLooks(s)
    PROVE  AimInv'
  <1> USE DEF kidOnly, mainVars, runVars, resultVars
  <1>k. kid \in [Inst -> KidType] /\ kid[s] \in KidType
      BY DEF IndInv, FlowType
  <1>1. PICK t \in kid[s].hunt :
            kid' = [kid EXCEPT ![s].hunt = @ \ {t}, ![s].aim = IF t \in Targets THEN t ELSE 0]
      BY DEF HandlerLooks
  <1>2. UNCHANGED <<mpc, todo, cur, waited, pid, reaped>> /\ Alive(s)
      BY <1>1 DEF HandlerLooks, AimInv, InHandler
  <1>3. /\ \A u \in Inst : u # s => kid'[u] = kid[u]
        /\ kid'[s].pc = kid[s].pc /\ kid'[s].aim = IF t \in Targets THEN t ELSE 0
      BY <1>k, <1>1 DEF KidType
  <1>4. Processes' = Processes
      BY <1>3 DEF Processes
  <1>5. \A u : Known(u)' = Known(u) /\ Begun(u)' = Begun(u)
      BY <1>2, <1>4 DEF Known, Begun, JustWaited
  <1>6. (MainRunning /\ t \in Targets) => Known(t) /\ Begun(t)
      BY DEF IndInv, BookkeepingInv, StartInv, AimInv, Targets, Known, Begun, JustWaited
  <1>7. \A u \in Inst : InHandler(u)' => Alive(u)'
      BY <1>2, <1>3 DEF AimInv, Alive, InHandler
  <1>8. ASSUME MainRunning', NEW u \in Inst, kid'[u].aim # 0
        PROVE  Known(kid'[u].aim) /\ Begun(kid'[u].aim)
      <2>1. CASE u = s
          BY <1>2, <1>3, <1>6, <1>8, <2>1 DEF MainRunning
      <2>2. CASE u # s
          BY <1>2, <1>3, <1>8, <2>2 DEF MainRunning, AimInv
      <2> QED
          BY <2>1, <2>2
  <1>9. (mpc = "status" => waited.inst \notin todo)'
      BY <1>2 DEF AimInv
  <1>10. MainRunning' => \A u \in Inst : kid'[u].aim # 0 => Known(kid[u].aim)' /\ Begun(kid[u].aim)'
      <2>1. ASSUME MainRunning', NEW u \in Inst, kid'[u].aim # 0
            PROVE  Known(kid[u].aim)' /\ Begun(kid[u].aim)'
          BY <1>2, <1>4, <1>8, <2>1 DEF Known, Begun, JustWaited
      <2> QED
          BY <2>1
  <1> QED
      BY <1>7, <1>9, <1>10, Zenon DEF AimInv

LEMMA AimsInductive == Spec => []AimInv
  <1>1. Init => AimInv
      BY DEF Init, AimInv, NoKid, InHandler, MainRunning
  <1>2. ASSUME IndInv, AimInv, [Next]_vars PROVE AimInv'
      <2> USE DEF mainVars, runVars, resultVars, sigVars, shared
      <2>1. CASE UNCHANGED vars \/ Terminated
          <3>1. UNCHANGED <<mpc, kid, todo, cur, waited, pid, reaped>>
              BY <2>1 DEF Terminated, vars
          <3> QED
              BY <1>2, <3>1, AimQuiet DEF KeepAims, Alive, InHandler, Processes
      <2>2. CASE MainStep
          BY <1>2, <2>2, MainAims
      <2>3. CASE MainSignal \/ UserSigint \/ MainIsKilled
          BY <1>2, <2>3, SignalAims
      <2>4. ASSUME NEW s \in Inst, ChildStep(s) \/ ChildSignal(s) \/ ChildFate(s) PROVE AimInv'
          <3>1. CASE HandlerLooks(s)
              BY <1>2, <3>1, LookAims
          <3>2. CASE ~HandlerLooks(s)
              BY <1>2, <2>4, <3>2, ChildKeepsAims
          <3> QED
              BY <3>1, <3>2
      <2> QED
          BY <1>2, <2>1, <2>2, <2>3, <2>4 DEF Next
  <1> QED
      BY <1>1, <1>2, Inductive, PTL DEF Spec

\* Whatever stress_stressors_kill signals is a process of this run, or was one when it
\* was looked at: main may be between waitpid and the store of reaped, and a process a
\* stressor's handler has passed may be waited for before the kill.
THEOREM KillsOwnOnly == Spec => []KillHitsOwn
  <1>1. IndInv /\ AimInv => KillHitsOwn
      <2> SUFFICES ASSUME IndInv, AimInv, MainRunning PROVE KillHitsOwn
          BY DEF KillHitsOwn
      <2>1. \A t \in Targets : t \in Processes \/ JustWaited(t)
          BY DEF IndInv, BookkeepingInv, Targets, JustWaited
      <2>2. \A s \in Inst : kid[s].aim # 0 => Known(kid[s].aim)
          BY DEF AimInv
      <2> QED
          BY <2>1, <2>2 DEF KillHitsOwn, Known
  <1> QED
      BY <1>1, Inductive, AimsInductive, PTL
=============================================================================
