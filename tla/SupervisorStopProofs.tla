------------------------ MODULE SupervisorStopProofs ------------------------
(***************************************************************************)
(* More proofs about Supervisor, on top of SupervisorProofs: stop requests  *)
(* reach every stressor and are not lost, and the summary and the exit      *)
(* status account for every process.                                       *)
(***************************************************************************)
EXTENDS SupervisorProofs

\* What every step but Fork does to the processes: none comes to life, and one with
\* a stop pending, or signalled by this very step, has a stop pending afterwards.
StopQuiet ==
    \A t \in Inst :
        /\ Alive(t)' => Alive(t)
        /\ Alive(t)' /\ (StopPending(t) \/ t \in signalled' \ signalled) => StopPending(t)'

\* A signal, or a step of a stressor, besides starts no process and removes none.
QuietKids == StopQuiet /\ SameProcesses

\* StopPending of a process record r of instance s.
RecPending(r, s, o) ==
    \/ "ALRM" \in r.pend
    \/ r.alarm # "off"
    \/ r.pc \in {"skip", "exit", "crash"}
    \/ r.pc = "run" /\ s \notin o

LEMMA PendingOf ==
    ASSUME NEW t
    PROVE  /\ StopPending(t) <=> RecPending(kid[t], t, ops)
           /\ StopPending(t)' <=> RecPending(kid'[t], t, ops')
  BY DEF StopPending, RecPending

\* One process record changes, and no instance is signalled.
LEMMA OneQuiet ==
    ASSUME FlowType, NEW s \in Inst, NEW r \in KidType,
           Alive(s), r.pc # "none",
           kid' = [kid EXCEPT ![s] = r], signalled' = signalled,
           ops' \subseteq ops \cup {s},
           RecPending(kid[s], s, ops) => r.pc = "zombie" \/ RecPending(r, s, ops')
    PROVE  QuietKids
  <1>1. kid \in [Inst -> KidType]
      BY DEF FlowType
  <1>2. kid' \in [Inst -> KidType] /\ kid'[s] = r /\ \A t \in Inst \ {s} : kid'[t] = kid[t]
      BY <1>1
  <1>3. ASSUME NEW t \in Inst
        PROVE  /\ kid'[t].pc = "none" <=> kid[t].pc = "none"
               /\ Alive(t)' => Alive(t)
               /\ Alive(t)' /\ (StopPending(t) \/ t \in signalled' \ signalled) => StopPending(t)'
      <2>1. CASE t = s
          <3>1. kid'[t] = r
              BY <1>2, <2>1
          <3> QED
              BY <2>1, <3>1, PendingOf DEF Alive
      <2>2. CASE t # s
          <3>1. kid'[t] = kid[t]
              BY <1>2, <2>2
          <3>2. RecPending(kid[t], t, ops) => RecPending(kid'[t], t, ops')
              BY <2>2, <3>1 DEF RecPending
          <3> QED
              BY <3>1, <3>2, PendingOf DEF Alive
      <2> QED
          BY <2>1, <2>2
  <1> QED
      BY <1>2, <1>3 DEF QuietKids, StopQuiet, SameProcesses

\* What kill(2) does to one process record.
LEMMA DeliverTo ==
    ASSUME NEW k \in [Inst -> KidType], NEW T, NEW sig \in {"KILL", "ALRM", "INT"},
           NEW t \in Inst, NEW o
    PROVE  LET d == Deliver(k, T, sig)[t] IN
           \/ d = k[t] /\ (t \in T => k[t].pc \in {"none", "zombie"})
           \/ d = Zombie("sigKILL") /\ k[t].pc \notin {"none", "zombie"}
           \/ /\ d = [k[t] EXCEPT !.pend = @ \cup {sig}] /\ sig # "KILL"
              /\ k[t].pc \notin {"none", "zombie"}
  BY DEF Deliver

\* stress_stressors_kill, called in the supervisor or in a stressor whose own
\* record changes from kid to k: the processes signalled have a SIGALRM pending.
LEMMA DeliverQuiet ==
    ASSUME FlowType, NEW k \in [Inst -> KidType],
           NEW T, NEW sig \in {"KILL", "ALRM", "INT"},
           kid' = Deliver(k, T, sig), signalled' \ signalled \subseteq T,
           sig # "INT" \/ signalled' = signalled,
           ops' \subseteq ops,
           \A t \in Inst : /\ k[t].pc = "none" <=> kid[t].pc = "none"
                           /\ k[t].pc \notin {"none", "zombie"} => Alive(t)
                           /\ RecPending(kid[t], t, ops)
                                => k[t].pc = "zombie" \/ RecPending(k[t], t, ops)
    PROVE  QuietKids
  <1>1. kid' \in [Inst -> KidType] /\ \A t \in Inst : kid'[t].pc = "none" <=> k[t].pc = "none"
      BY DeliverKeeps
  <1>2. Zombie("sigKILL").pc = "zombie"
      BY DEF Zombie, NoKid
  <1>3. ASSUME NEW t \in Inst
        PROVE  /\ kid'[t].pc = "none" <=> kid[t].pc = "none"
               /\ Alive(t)' => Alive(t)
               /\ Alive(t)' /\ (StopPending(t) \/ t \in signalled' \ signalled) => StopPending(t)'
      <2>k. k[t] \in KidType
          OBVIOUS
      <2>1. \/ kid'[t] = k[t] /\ (t \in T => k[t].pc \in {"none", "zombie"})
            \/ kid'[t] = Zombie("sigKILL") /\ k[t].pc \notin {"none", "zombie"}
            \/ /\ kid'[t] = [k[t] EXCEPT !.pend = @ \cup {sig}] /\ sig # "KILL"
               /\ k[t].pc \notin {"none", "zombie"}
          BY DeliverTo
      <2>2. CASE kid'[t] = k[t] /\ (t \in T => k[t].pc \in {"none", "zombie"})
          <3>1. RecPending(k[t], t, ops) => RecPending(kid'[t], t, ops')
              BY <2>2 DEF RecPending
          <3> QED
              BY <2>2, <3>1, PendingOf DEF Alive
      <2>3. CASE kid'[t] = Zombie("sigKILL") /\ k[t].pc \notin {"none", "zombie"}
          BY <1>2, <2>3 DEF Alive
      <2>4. CASE /\ kid'[t] = [k[t] EXCEPT !.pend = @ \cup {sig}] /\ sig # "KILL"
                 /\ k[t].pc \notin {"none", "zombie"}
          <3>1. /\ kid'[t].pc = k[t].pc /\ kid'[t].alarm = k[t].alarm
                /\ kid'[t].pend = k[t].pend \cup {sig}
              BY <2>k, <2>4 DEF KidType
          <3>2. RecPending(k[t], t, ops) => RecPending(kid'[t], t, ops')
              BY <3>1 DEF RecPending
          <3>3. sig = "ALRM" => RecPending(kid'[t], t, ops')
              BY <3>1 DEF RecPending
          <3> QED
              BY <2>4, <3>1, <3>2, <3>3, PendingOf DEF Alive
      <2> QED
          BY <2>1, <2>2, <2>3, <2>4
  <1> QED
      BY <1>1, <1>3 DEF QuietKids, StopQuiet, SameProcesses

\* The effect of any step of a stressor process.
ChildEffect ==
    /\ QuietKids
    /\ UNCHANGED <<mpc, mainVars, mflag, kills, sigints>>
    /\ mpend' \subseteq {"INT", "ALRM"} /\ ops' \subseteq Inst
    /\ signalled \subseteq signalled' /\ signalled' \subseteq Inst

LEMMA ChildQuiet ==
    ASSUME FlowType, ResultType, AimInv, NEW s \in Inst,
           ChildStep(s) \/ ChildSignal(s) \/ ChildFate(s)
    PROVE  ChildEffect
  <1> USE DEF kidOnly
  <1> DEFINE Same == /\ UNCHANGED <<mpc, mainVars, mflag, kills, sigints>>
                     /\ mpend' \in {mpend, mpend \cup {"ALRM"}}
  <1>k. /\ kid \in [Inst -> KidType] /\ kid[s] \in KidType
        /\ mpend \subseteq {"INT", "ALRM"} /\ signalled \subseteq Inst /\ ops \subseteq Inst
      BY DEF FlowType, ResultType
  <1>r. /\ kid[s].rc \in Status
        /\ {"FAILURE", "SUCCESS", "SIGNALED", "BY_SYS_EXIT", "sigALRM", "sigKILL", "sigOther"}
              \subseteq Status
        /\ Returned \subseteq Status
      BY <1>k DEF Status, Returned, KidType
  <1>z. \A rc \in Status : Zombie(rc) \in KidType /\ Zombie(rc).pc = "zombie"
      BY DEF Zombie, NoKid, KidType, KidPc
  <1>o. ASSUME NEW r \in KidType, Alive(s), r.pc # "none",
               kid' = [kid EXCEPT ![s] = r], signalled' = signalled,
               ops' \subseteq ops \cup {s},
               RecPending(kid[s], s, ops) => r.pc = "zombie" \/ RecPending(r, s, ops'),
               Same
        PROVE  ChildEffect
      <2>1. QuietKids
          BY <1>o, OneQuiet
      <2> QED
          BY <1>k, <1>o, <2>1 DEF ChildEffect
  <1>e. ASSUME NEW rc \in Status, Alive(s), kid' = [kid EXCEPT ![s] = Zombie(rc)],
               signalled' = signalled, ops' \subseteq ops, Same
        PROVE  ChildEffect
      <2>1. Zombie(rc).pc # "none" /\ Zombie(rc) \in KidType
            /\ Zombie(rc).pc = "zombie"
          BY <1>z
      <2> DEFINE r == Zombie(rc)
      <2> HIDE DEF r
      <2>2. r \in KidType /\ r.pc # "none" /\ r.pc = "zombie"
            /\ kid' = [kid EXCEPT ![s] = r] /\ ops' \subseteq ops \cup {s}
          BY <1>e, <2>1 DEF r
      <2> QED
          BY <1>e, <1>o, <2>2
  <1>1. CASE ChildBorn(s)
      <2> DEFINE r == [kid[s] EXCEPT !.pc = "new"]
      <2>1. r \in KidType /\ r.pc # "none" /\ Alive(s) /\ kid' = [kid EXCEPT ![s] = r]
          BY <1>k, <1>1 DEF ChildBorn, Goto, Alive, KidType, KidPc
      <2>3. Same /\ signalled' = signalled /\ ops' \subseteq ops \cup {s}
          BY <1>1 DEF ChildBorn
      <2>4. RecPending(kid[s], s, ops) => r.pc = "zombie" \/ RecPending(r, s, ops')
          BY <1>k, <1>1, <2>3 DEF ChildBorn, RecPending, KidType
      <2> QED
          BY <1>o, <2>1, <2>3, <2>4
  <1>2. CASE ChildSetup(s)
      <2> DEFINE r == [kid[s] EXCEPT !.pc = "setup", !.handler = TRUE]
      <2>1. r \in KidType /\ r.pc # "none" /\ Alive(s) /\ kid' = [kid EXCEPT ![s] = r]
          BY <1>k, <1>2 DEF ChildSetup, Alive, KidType, KidPc
      <2>3. Same /\ signalled' = signalled /\ ops' \subseteq ops \cup {s}
          BY <1>2 DEF ChildSetup
      <2>4. RecPending(kid[s], s, ops) => r.pc = "zombie" \/ RecPending(r, s, ops')
          BY <1>k, <1>2, <2>3 DEF ChildSetup, RecPending, KidType
      <2> QED
          BY <1>o, <2>1, <2>3, <2>4
  <1>3. CASE ChildSetupFails(s)
      <2> DEFINE r == [kid[s] EXCEPT !.pc = "exit", !.rc = "FAILURE"]
      <2>1. r \in KidType /\ r.pc # "none" /\ Alive(s) /\ kid' = [kid EXCEPT ![s] = r]
          BY <1>k, <1>3 DEF ChildSetupFails, Alive, KidType, KidPc, Status, Returned
      <2>3. Same /\ signalled' = signalled /\ ops' \subseteq ops \cup {s}
          BY <1>3 DEF ChildSetupFails
      <2>4. RecPending(kid[s], s, ops) => r.pc = "zombie" \/ RecPending(r, s, ops')
          BY <1>k, <1>3, <2>3 DEF ChildSetupFails, RecPending, KidType
      <2> QED
          BY <1>o, <2>1, <2>3, <2>4
  <1>4. CASE ChildAlarm(s)
      <2> DEFINE r == [kid[s] EXCEPT !.pc = "check", !.alarm = IF setting.timeout THEN "timeout" ELSE @]
      <2>1. r \in KidType /\ r.pc # "none" /\ Alive(s) /\ kid' = [kid EXCEPT ![s] = r]
          BY <1>k, <1>4 DEF ChildAlarm, Alive, KidType, KidPc
      <2>3. Same /\ signalled' = signalled /\ ops' \subseteq ops \cup {s}
          BY <1>4 DEF ChildAlarm
      <2>4. RecPending(kid[s], s, ops) => r.pc = "zombie" \/ RecPending(r, s, ops')
          BY <1>k, <1>4, <2>3 DEF ChildAlarm, RecPending, KidType
      <2> QED
          BY <1>o, <2>1, <2>3, <2>4
  <1>5. CASE ChildCheck(s)
      <2> DEFINE r == [kid[s] EXCEPT !.pc = IF kid[s].flag THEN "begin" ELSE "skip"]
      <2>1. r \in KidType /\ r.pc # "none" /\ Alive(s) /\ kid' = [kid EXCEPT ![s] = r]
          BY <1>k, <1>5 DEF ChildCheck, Goto, Alive, KidType, KidPc
      <2>3. Same /\ signalled' = signalled /\ ops' \subseteq ops \cup {s}
          BY <1>5 DEF ChildCheck
      <2>4. RecPending(kid[s], s, ops) => r.pc = "zombie" \/ RecPending(r, s, ops')
          BY <1>k, <1>5, <2>3 DEF ChildCheck, RecPending, KidType
      <2> QED
          BY <1>o, <2>1, <2>3, <2>4
  <1>6. CASE ChildBegin(s)
      <2> DEFINE r == [kid[s] EXCEPT !.pc = "run"]
      <2>1. r \in KidType /\ r.pc # "none" /\ Alive(s) /\ kid' = [kid EXCEPT ![s] = r]
          BY <1>k, <1>6 DEF ChildBegin, Goto, Alive, KidType, KidPc
      <2>3. Same /\ signalled' = signalled /\ ops' \subseteq ops \cup {s}
          BY <1>6 DEF ChildBegin
      <2>4. RecPending(kid[s], s, ops) => r.pc = "zombie" \/ RecPending(r, s, ops')
          BY <1>k, <1>6, <2>3 DEF ChildBegin, RecPending, KidType
      <2> QED
          BY <1>o, <2>1, <2>3, <2>4
  <1>7. CASE FiveFailures(s)
      <2> DEFINE r == [kid[s] EXCEPT !.flag = FALSE, !.rc = "FAILURE"]
      <2>1. r \in KidType /\ r.pc # "none" /\ Alive(s) /\ kid' = [kid EXCEPT ![s] = r]
          BY <1>k, <1>7 DEF FiveFailures, Alive, KidType, KidPc, Status, Returned
      <2>3. Same /\ signalled' = signalled /\ ops' \subseteq ops \cup {s}
          BY <1>7 DEF FiveFailures
      <2>4. RecPending(kid[s], s, ops) => r.pc = "zombie" \/ RecPending(r, s, ops')
          BY <1>k, <1>7, <2>3 DEF FiveFailures, RecPending, KidType
      <2> QED
          BY <1>o, <2>1, <2>3, <2>4
  <1>8. CASE AlarmFires(s)
      <2> DEFINE r == [kid[s] EXCEPT !.alarm = "off", !.pend = @ \cup {"ALRM"}]
      <2>1. r \in KidType /\ r.pc # "none" /\ Alive(s) /\ kid' = [kid EXCEPT ![s] = r]
          BY <1>k, <1>8 DEF AlarmFires, Alive, KidType, KidPc
      <2>3. Same /\ signalled' = signalled /\ ops' \subseteq ops \cup {s}
          BY <1>8 DEF AlarmFires
      <2>4. RecPending(kid[s], s, ops) => r.pc = "zombie" \/ RecPending(r, s, ops')
          BY <1>k, <1>8, <2>3 DEF AlarmFires, RecPending, KidType
      <2> QED
          BY <1>o, <2>1, <2>3, <2>4
  <1>9. CASE ChildSigalrm(s)
      <2> DEFINE r == [kid[s] EXCEPT !.pend = @ \ {"ALRM"}, !.flag = FALSE, !.alarm = "realarm"]
      <2>1. r \in KidType /\ r.pc # "none" /\ Alive(s) /\ kid' = [kid EXCEPT ![s] = r]
          BY <1>k, <1>9 DEF ChildSigalrm, Alive, KidType, KidPc
      <2>3. Same /\ signalled' = signalled /\ ops' \subseteq ops \cup {s}
          BY <1>9 DEF ChildSigalrm
      <2>4. RecPending(kid[s], s, ops) => r.pc = "zombie" \/ RecPending(r, s, ops')
          BY <1>k, <1>9, <2>3 DEF ChildSigalrm, RecPending, KidType
      <2> QED
          BY <1>o, <2>1, <2>3, <2>4
  <1>10. ASSUME NEW rc \in Returned, ChildReturns(s, rc) PROVE ChildEffect
      <2> DEFINE r == [kid[s] EXCEPT !.pc = "exit", !.alarm = "off",
                                     !.rc = IF rc = "SUCCESS" THEN @ ELSE rc]
      <2>1. r \in KidType /\ r.pc # "none" /\ Alive(s) /\ kid' = [kid EXCEPT ![s] = r]
          BY <1>k, <1>r, <1>10 DEF ChildReturns, Alive, KidType, KidPc
      <2>2. r.pc = "exit"
          BY <1>k DEF KidType
      <2>3. Same /\ signalled' = signalled /\ ops' \subseteq ops \cup {s}
          BY <1>10 DEF ChildReturns
      <2>4. RecPending(r, s, ops')
          BY <2>2 DEF RecPending
      <2> QED
          BY <1>o, <2>1, <2>2, <2>3, <2>4
  <1>11. CASE ChildExit(s)
      <2>1. Same /\ signalled' = signalled /\ ops' \subseteq ops
          BY <1>k, <1>11 DEF ChildExit
      <2>2. Alive(s) /\ kid' = [kid EXCEPT ![s] = Zombie(kid[s].rc)]
          BY <1>11 DEF ChildExit, Alive
      <2> QED
          BY <1>e, <1>r, <2>1, <2>2
  <1>12. CASE ChildSysExit(s) \/ ChildCrashed(s) \/ ChildKilled(s) \/ ChildSigalrmDefault(s)
      <2>1. Same /\ signalled' = signalled /\ ops' \subseteq ops /\ Alive(s)
          BY <1>12 DEF ChildSysExit, ChildCrashed, ChildKilled, ChildSigalrmDefault, Alive
      <2>2. \E rc \in Status : kid' = [kid EXCEPT ![s] = Zombie(rc)]
          BY <1>r, <1>12 DEF ChildSysExit, ChildCrashed, ChildKilled, ChildSigalrmDefault
      <2> QED
          BY <1>e, <2>1, <2>2
  <1>13. CASE ChildCrash(s)
      <2> DEFINE r == [kid[s] EXCEPT !.pc = "crash", !.hunt = Inst]
      <2>1. r \in KidType /\ r.pc # "none" /\ Alive(s) /\ kid' = [kid EXCEPT ![s] = r]
          BY <1>k, <1>13 DEF ChildCrash, Alive, KidType, KidPc
      <2>3. Same /\ signalled' = signalled /\ ops' \subseteq ops \cup {s}
          BY <1>13 DEF ChildCrash
      <2>4. RecPending(kid[s], s, ops) => r.pc = "zombie" \/ RecPending(r, s, ops')
          BY <1>k DEF RecPending, KidType
      <2> QED
          BY <1>o, <2>1, <2>3, <2>4
  <1>14. CASE ChildSigint(s)
      <2> DEFINE r == [kid[s] EXCEPT !.pend = @ \ {"INT"}, !.flag = FALSE, !.hunt = Inst]
      <2>1. r \in KidType /\ r.pc # "none" /\ Alive(s) /\ kid' = [kid EXCEPT ![s] = r]
          BY <1>k, <1>14 DEF ChildSigint, Alive, KidType, KidPc
      <2>3. Same /\ signalled' = signalled /\ ops' \subseteq ops \cup {s}
          BY <1>14 DEF ChildSigint
      <2>4. RecPending(kid[s], s, ops) => r.pc = "zombie" \/ RecPending(r, s, ops')
          <3>1. /\ r.alarm = kid[s].alarm /\ r.pc = kid[s].pc
                /\ "ALRM" \in kid[s].pend => "ALRM" \in r.pend
              BY <1>k DEF KidType
          <3>2. s \notin ops'
              BY <1>14 DEF ChildSigint
          <3> QED
              BY <3>1, <3>2 DEF RecPending
      <2> QED
          BY <1>o, <2>1, <2>3, <2>4
  <1>18. CASE HandlerLooks(s)
      <2>1. PICK t \in kid[s].hunt : kid' = [kid EXCEPT ![s].hunt = @ \ {t},
                                                ![s].aim = IF t \in Targets THEN t ELSE 0]
          BY <1>18 DEF HandlerLooks
      <2> DEFINE r == [kid[s] EXCEPT !.hunt = @ \ {t}, !.aim = IF t \in Targets THEN t ELSE 0]
      <2>2. r \in KidType /\ r.pc = kid[s].pc /\ kid' = [kid EXCEPT ![s] = r]
          BY <1>k, <2>1 DEF KidType
      <2>3. Same /\ signalled' = signalled /\ ops' \subseteq ops \cup {s}
          BY <1>18 DEF HandlerLooks
      <2>4. RecPending(kid[s], s, ops) => r.pc = "zombie" \/ RecPending(r, s, ops')
          <3>1. r.pend = kid[s].pend /\ r.alarm = kid[s].alarm
              BY <1>k DEF KidType
          <3>2. ops' = ops
              BY <1>18 DEF HandlerLooks
          <3> QED
              BY <2>2, <3>1, <3>2 DEF RecPending
      <2>5. Alive(s)
          BY <2>1 DEF AimInv, InHandler
      <2>6. r.pc # "none"
          BY <2>2, <2>5 DEF Alive
      <2> QED
          BY <1>o, <2>2, <2>3, <2>4, <2>5, <2>6
  <1>19. CASE HandlerKills(s)
      <2> DEFINE k == [kid EXCEPT ![s].aim = 0]
                 T == {kid[s].aim}
      <2>1. /\ k \in [Inst -> KidType]
            /\ \A t \in Inst : /\ k[t].pc = kid[t].pc /\ k[t].pend = kid[t].pend
                               /\ k[t].alarm = kid[t].alarm
          BY <1>k DEF KidType
      <2>2. kid' = Deliver(k, T, "ALRM") /\ signalled' = signalled \cup T /\ ops' = ops
          BY <1>19 DEF HandlerKills
      <2>3. T \subseteq Inst
          BY <1>k, <1>19 DEF HandlerKills, KidType
      <2>4. Same
          BY <1>19 DEF HandlerKills
      <2> HIDE DEF k, T
      <2>5. \A t \in Inst : /\ k[t].pc = "none" <=> kid[t].pc = "none"
                            /\ k[t].pc \notin {"none", "zombie"} => Alive(t)
                            /\ RecPending(kid[t], t, ops)
                                 => k[t].pc = "zombie" \/ RecPending(k[t], t, ops)
          BY <2>1 DEF Alive, RecPending
      <2>6. QuietKids
          BY <2>1, <2>2, <2>5, DeliverQuiet
      <2> QED
          BY <1>k, <2>2, <2>3, <2>4, <2>6 DEF ChildEffect
  <1>15. CASE ChildWorks(s)
      <2>1. UNCHANGED vars /\ Alive(s)
          BY <1>15 DEF ChildWorks, Alive
      <2>2. kid' = [kid EXCEPT ![s] = kid[s]] /\ ops' = ops /\ signalled' = signalled
          BY <1>k, <2>1 DEF vars, shared
      <2>3. Same
          BY <2>1 DEF vars, sigVars
      <2> QED
          BY <1>k, <1>o, <1>r, <2>1, <2>2, <2>3 DEF Alive
  <1>16. ChildStops(s) => ChildEffect
      BY <1>10, <1>r DEF ChildStops, Returned
  <1>17. ChildEnds(s) => ChildEffect
      BY <1>10, <1>r DEF ChildEnds
  <1> QED
      BY <1>1, <1>2, <1>3, <1>4, <1>5, <1>6, <1>7, <1>8, <1>9, <1>11, <1>12, <1>13, <1>14,
         <1>15, <1>16, <1>17, <1>18, <1>19 DEF ChildStep, ChildSignal, ChildFate

\* Every step but those that create a process (Fork) or record it (Record): it
\* signals more instances or as many, and a stop request it starts with, or
\* makes, covers everybody.
LEMMA StopFrame ==
    ASSUME StopKept, StopCovers, StopQuiet, signalled \subseteq signalled',
           signalled' \subseteq Inst,
           MainRunning' => MainRunning,
           mpc = "record" /\ MainRunning' => mpc' = "record" /\ cur' = cur,
           (MainRunning' /\ ~mflag' /\ mpc' # "started") =>
              \/ ~mflag /\ mpc # "started"
              \/ \A s \in Inst : Alive(s)' => s \in signalled' \/ (mpc' = "record" /\ s = cur')
    PROVE  StopKept' /\ StopCovers'
  <1>1. StopKept'
      <2> SUFFICES ASSUME MainRunning', NEW s \in signalled', Alive(s)'
                   PROVE  StopPending(s)' \/ (mpc' = "record" /\ s = cur')
          BY DEF StopKept
      <2>1. /\ s \in Inst /\ Alive(s)
            /\ (StopPending(s) \/ s \in signalled' \ signalled) => StopPending(s)'
          BY DEF StopQuiet
      <2>2. CASE s \notin signalled
          BY <2>1, <2>2
      <2>3. CASE s \in signalled
          BY <2>1, <2>3 DEF StopKept
      <2> QED
          BY <2>2, <2>3
  <1>2. StopCovers'
      <2> SUFFICES ASSUME MainRunning', ~mflag', mpc' # "started", NEW s \in Inst, Alive(s)'
                   PROVE  s \in signalled' \/ (mpc' = "record" /\ s = cur')
          BY DEF StopCovers
      <2>1. Alive(s)
          BY DEF StopQuiet
      <2> QED
          BY <2>1 DEF StopCovers
  <1> QED
      BY <1>1, <1>2

\* stress_stressors_kill misses nobody: a live stressor is a target, or was
\* signalled before, but for the one the parent has not recorded yet.
LEMMA TargetsCover ==
    ASSUME BookkeepingInv, MainRunning, StopQuiet, NEW T,
           \A s \in Targets \ T : ~Alive(s), signalled' = signalled \cup T
    PROVE  \A s \in Inst : Alive(s)' => s \in signalled' \/ (mpc = "record" /\ s = cur)
  <1> SUFFICES ASSUME NEW s \in Inst, Alive(s)', ~(mpc = "record" /\ s = cur)
               PROVE  s \in signalled'
      OBVIOUS
  <1>1. Alive(s)
      BY DEF StopQuiet
  <1>2. pid[s] = 1 /\ s \notin reaped
      BY <1>1 DEF BookkeepingInv, Processes, Alive
  <1> QED
      BY <1>1, <1>2 DEF Targets

\* The supervisor's own calls of stress_stressors_kill.
LEMMA KillQuiet ==
    ASSUME FlowType, NEW T \in SUBSET Inst, NEW force,
           stress_stressors_kill(kid, T, force), ops' \subseteq ops
    PROVE  QuietKids /\ signalled' = signalled \cup T /\ (kills \in Nat => kills' \in Nat)
  <1> DEFINE sig == IF force /\ kills > 5 THEN "KILL" ELSE "ALRM"
  <1>1. kid \in [Inst -> KidType]
      BY DEF FlowType
  <1>2. sig \in {"KILL", "ALRM", "INT"} /\ sig # "INT" /\ kid' = Deliver(kid, T, sig)
        /\ signalled' = signalled \cup T
      BY DEF stress_stressors_kill
  <1> HIDE DEF sig
  <1>3. \A t \in Inst : kid[t].pc \notin {"none", "zombie"} => Alive(t)
      BY DEF Alive
  <1>4. QuietKids
      BY <1>1, <1>2, <1>3, DeliverQuiet
  <1>5. kills \in Nat => kills' \in Nat
      BY DEF stress_stressors_kill
  <1> QED
      BY <1>2, <1>4, <1>5

\* A step that leaves the processes, the signalled instances and max_ops alone.
LEMMA SameKidsQuiet ==
    ASSUME FlowType, kid' = kid, signalled' = signalled, ops' \subseteq ops
    PROVE  QuietKids
  <1>1. ASSUME NEW t \in Inst PROVE RecPending(kid[t], t, ops) => RecPending(kid'[t], t, ops')
      BY DEF RecPending
  <1> QED
      BY <1>1, PendingOf DEF QuietKids, StopQuiet, SameProcesses, Alive, FlowType

\* Signals to the supervisor.
LEMMA SignalStop ==
    ASSUME IndInv, StopInv, MainSignal \/ UserSigint \/ MainIsKilled
    PROVE  StopInv'
  <1> USE DEF mainVars, runVars, resultVars, sigVars, shared
  <1>k. FlowType /\ ResultType /\ StopKept /\ StopCovers /\ BookkeepingInv
      BY DEF IndInv, StopInv
  <1>t. Targets \in SUBSET Inst /\ signalled \subseteq Inst
      BY <1>k DEF Targets, ResultType
  <1>1. CASE MainSigint \/ MainSigalrm
      <2>1. PICK force \in BOOLEAN : stress_stressors_kill(kid, Targets, force)
          BY <1>1 DEF MainSigint, MainSigalrm
      <2>2. /\ UNCHANGED <<mpc, cur, waited>> /\ MainRunning /\ ops' = {}
            /\ mflag' = mflag \/ mflag' = FALSE
          BY <1>1 DEF MainSigint, MainSigalrm
      <2>3. QuietKids /\ signalled' = signalled \cup Targets /\ (kills \in Nat => kills' \in Nat)
          BY <1>k, <1>t, <2>1, <2>2, KillQuiet
      <2>4. \A s \in Inst : Alive(s)' => s \in signalled' \/ (mpc = "record" /\ s = cur)
          BY <1>k, <2>2, <2>3, TargetsCover DEF QuietKids
      <2>5. StopKept' /\ StopCovers'
          BY <1>k, <1>t, <2>2, <2>3, <2>4, StopFrame DEF MainRunning, QuietKids
      <2>7. ResultType'
          BY <1>k, <1>1, <1>t, <2>2, <2>3 DEF MainSigint, MainSigalrm, ResultType
      <2> QED
          BY <2>5, <2>7 DEF StopInv
  <1>2. CASE UserSigint
      <2>1. kid' = kid \/ kid' = Deliver(kid, Inst, "INT")
          BY <1>2 DEF UserSigint
      <2>2. UNCHANGED <<mpc, cur, waited, mflag, signalled, ops>>
          BY <1>2 DEF UserSigint
      <2>3. QuietKids
          <3>1. CASE kid' = kid
              BY <1>k, <2>2, <3>1, SameKidsQuiet
          <3>2. CASE kid' = Deliver(kid, Inst, "INT")
              <4>1. \A t \in Inst : kid[t].pc \notin {"none", "zombie"} => Alive(t)
                  BY DEF Alive
              <4>2. kid \in [Inst -> KidType]
                  BY <1>k DEF FlowType
              <4> QED
                  BY <1>k, <2>2, <3>2, <4>1, <4>2, DeliverQuiet
          <3> QED
              BY <2>1, <3>1, <3>2
      <2>4. StopKept' /\ StopCovers'
          BY <1>k, <1>t, <2>2, <2>3, StopFrame DEF MainRunning, QuietKids
      <2>6. ResultType'
          <3>1. mpend' \subseteq {"INT", "ALRM"} /\ sigints' \in 0..MaxSigint
              BY <1>k, <1>2, FlagsAssumption DEF UserSigint, ResultType
          <3>2. UNCHANGED <<kills, mainMoved, verdict, tally, seen, started, signalled, ops>>
              BY <1>2 DEF UserSigint
          <3> QED
              BY <1>k, <3>1, <3>2 DEF ResultType
      <2> QED
          BY <2>4, <2>6 DEF StopInv
  <1>3. CASE MainSigalrmDefault \/ MainIsKilled
      <2> DEFINE T == {s \in Inst : kid[s].pc \notin {"born", "new"}}
      <2>1. kid' = Deliver(kid, T, "ALRM") /\ mpc' = "dead" /\ UNCHANGED <<mainVars, sigVars, shared>>
          BY <1>3 DEF MainSigalrmDefault, MainIsKilled, MainDies
      <2>2. QuietKids
          <3>1. \A t \in Inst : kid[t].pc \notin {"none", "zombie"} => Alive(t)
              BY DEF Alive
          <3>2. kid \in [Inst -> KidType]
              BY <1>k DEF FlowType
          <3> QED
              BY <1>k, <2>1, <3>1, <3>2, DeliverQuiet
      <2>3. StopKept' /\ StopCovers'
          BY <2>1 DEF StopKept, StopCovers, MainRunning
      <2>5. ResultType'
          BY <1>k, <2>1 DEF ResultType
      <2> QED
          BY <2>3, <2>5 DEF StopInv
  <1> QED
      BY <1>1, <1>2, <1>3 DEF MainSignal

\* The steps of stress_run and stress_stressors_wait.
LEMMA MainStop ==
    ASSUME IndInv, StopInv, MainStep
    PROVE  StopInv'
  <1> USE DEF mainVars, runVars, resultVars, sigVars, shared
  <1>k. FlowType /\ ResultType /\ StopKept /\ StopCovers /\ BookkeepingInv
        /\ kid \in [Inst -> KidType]
      BY DEF IndInv, StopInv, FlowType
  <1>t. Targets \in SUBSET Inst /\ signalled \subseteq Inst
      BY <1>k DEF Targets, ResultType
  <1>1. CASE \/ BeginRun \/ Finish \/ (\E s \in Inst : InitInstance(s)) \/ ForkStopped
             \/ ForkAgain \/ StartedGoOn \/ PollNothing \/ AllStarted \/ stress_handler_set
             \/ AggressiveDone \/ stress_wait_reap_count \/ EndRun
      <2>1. /\ UNCHANGED <<kid, signalled, ops, mflag, waited, mpend, kills, sigints, mainMoved>>
            /\ UNCHANGED <<verdict, tally, seen, started>>
          BY <1>1 DEF BeginRun, Finish, InitInstance, ForkStopped, ForkAgain, StartedGoOn,
             PollNothing, AllStarted, stress_handler_set, AggressiveDone,
             stress_wait_reap_count, EndRun
      <2>2. mpc # "record" /\ MainRunning /\ (mpc = "started" => mflag)
          BY <1>1 DEF BeginRun, Finish, InitInstance, ForkStopped, ForkAgain, StartedGoOn,
             PollNothing, AllStarted, stress_handler_set, AggressiveDone,
             stress_wait_reap_count, EndRun, MainRunning
      <2>3. QuietKids
          BY <1>k, <2>1, SameKidsQuiet
      <2>4. StopKept' /\ StopCovers'
          BY <1>k, <1>t, <2>1, <2>2, <2>3, StopFrame DEF QuietKids
      <2>5. ResultType'
          BY <1>k, <2>1 DEF ResultType
      <2> QED
          BY <2>4, <2>5 DEF StopInv
  <1>2. CASE Fork
      <2>1. /\ mpc' = "record" /\ mpc = "fork" /\ mflag /\ kid' = [kid EXCEPT ![cur] = NewKid]
            /\ UNCHANGED <<mainVars, sigVars, shared>>
          BY <1>2 DEF Fork
      <2>2. cur \in Inst
          BY <1>k, <2>1 DEF IndInv, FlowType, StartInv
      <2>3. ASSUME NEW t \in Inst, t # cur
            PROVE  kid'[t] = kid[t] /\ (Alive(t)' => Alive(t))
                   /\ (StopPending(t) => StopPending(t)')
          <3>1. kid'[t] = kid[t] /\ ops' = ops
              BY <1>k, <2>1, <2>3
          <3> QED
              BY <3>1 DEF Alive, StopPending
      <2>4. StopKept'
          BY <1>k, <1>t, <2>1, <2>2, <2>3 DEF StopKept, MainRunning
      <2>5. StopCovers'
          BY <2>1 DEF StopCovers
      <2>7. ResultType'
          BY <1>k, <2>1 DEF ResultType
      <2> QED
          BY <2>4, <2>5, <2>7 DEF StopInv
  <1>3. CASE Record
      <2>1. /\ mpc' = "started" /\ mpc = "record" /\ signalled' = signalled \ {cur}
            /\ started' = started + 1
            /\ UNCHANGED <<run, setting, mhandler, resultVars, sigVars, ops, kid>>
          BY <1>3 DEF Record
      <2>2. StopKept'
          BY <1>k, <2>1 DEF StopKept, StopPending, Alive, MainRunning
      <2>3. StopCovers'
          BY <2>1 DEF StopCovers
      <2>5. started' \in Nat /\ signalled' \in SUBSET Inst
          BY <1>k, <2>1 DEF ResultType
      <2>6. ResultType'
          BY <1>k, <2>1, <2>5 DEF ResultType
      <2> QED
          BY <2>2, <2>3, <2>6 DEF StopInv
  <1>4. ASSUME NEW T \in SUBSET Inst, \A s \in Targets \ T : ~Alive(s), NEW force \in BOOLEAN,
               stress_stressors_kill(kid, T, force), ops' \subseteq ops, MainRunning, mpc # "record"
        PROVE  StopKept' /\ StopCovers' /\ signalled' \in SUBSET Inst
               /\ kills' \in Nat
      <2>1. QuietKids /\ signalled' = signalled \cup T /\ (kills \in Nat => kills' \in Nat)
          BY <1>k, <1>4, KillQuiet
      <2>2. \A s \in Inst : Alive(s)' => s \in signalled'
          BY <1>k, <1>4, <2>1, TargetsCover DEF QuietKids
      <2>3. StopKept' /\ StopCovers'
          BY <1>k, <1>t, <1>4, <2>1, <2>2, StopFrame DEF QuietKids
      <2> QED
          BY <1>k, <1>t, <2>1, <2>3 DEF ResultType
  <1>5. CASE ForkFails
      <2>1. cur \notin Processes /\ mpc = "fork"
          BY <1>5 DEF ForkFails, IndInv, StartInv, MainRunning
      <2>2. /\ stress_stressors_kill(kid, Targets \ {cur}, FALSE) /\ UNCHANGED <<ops, waited>>
            /\ UNCHANGED <<mpend, sigints, mainMoved, verdict, tally, seen, started>>
          BY <1>5 DEF ForkFails
      <2>3. \A s \in Targets \ (Targets \ {cur}) : ~Alive(s)
          BY <2>1 DEF Processes, Alive, Targets
      <2>4. StopKept' /\ StopCovers' /\ signalled' \in SUBSET Inst /\ kills' \in Nat
          BY <1>k, <1>t, <1>4, <2>1, <2>2, <2>3 DEF MainRunning
      <2>5. ResultType'
          BY <1>k, <2>2, <2>4 DEF ResultType
      <2> QED
          BY <2>4, <2>5 DEF StopInv
  <1>6. CASE StartedStopped
      <2>1. /\ stress_stressors_kill(kid, Targets, TRUE) /\ UNCHANGED <<ops, waited>>
            /\ UNCHANGED <<mpend, sigints, mainMoved, verdict, tally, seen, started>>
            /\ mpc = "started"
          BY <1>6 DEF StartedStopped
      <2>2. StopKept' /\ StopCovers' /\ signalled' \in SUBSET Inst /\ kills' \in Nat
          BY <1>k, <1>t, <1>4, <2>1 DEF MainRunning
      <2>3. ResultType'
          BY <1>k, <2>1, <2>2 DEF ResultType
      <2> QED
          BY <2>2, <2>3 DEF StopInv
  <1>7. ASSUME NEW s \in Inst, WaitReturns(s) PROVE StopInv'
      <2>1. /\ mpc \in {"poll", "aggressive", "wait"} /\ mpc' = "status" /\ MainRunning
            /\ waited'.rc = kid[s].rc /\ kid' = [kid EXCEPT ![s] = NoKid]
            /\ UNCHANGED <<mainMoved, verdict, tally, started, sigVars, shared>>
            /\ seen' = [r \in Apart |-> seen[r] + IF r = kid[s].rc THEN 1 ELSE 0]
          BY <1>7 DEF WaitReturns, MainRunning
      <2>2. NoKid.pc = "none"
          BY DEF NoKid
      <2>3. StopQuiet
          <3>1. ASSUME NEW t \in Inst
                PROVE  /\ Alive(t)' => Alive(t)
                       /\ Alive(t)' /\ StopPending(t) => StopPending(t)'
              <4>1. CASE t = s
                  BY <1>k, <2>1, <2>2, <4>1 DEF Alive
              <4>2. CASE t # s
                  BY <1>k, <2>1, <4>2 DEF Alive, StopPending
              <4> QED
                  BY <4>1, <4>2
          <3> QED
              BY <2>1, <3>1 DEF StopQuiet
      <2>4. StopKept' /\ StopCovers'
          BY <1>k, <1>t, <2>1, <2>3, StopFrame
      <2>5. seen' \in [Apart -> Nat]
          BY <1>k, <2>1 DEF ResultType
      <2>6. ResultType'
          BY <1>k, <2>1, <2>5 DEF ResultType
      <2> QED
          BY <2>4, <2>6 DEF StopInv
  <1>8. CASE stress_wait_status
      <2> DEFINE s == waited.inst
      <2>1. mpc = "status" /\ s \in Inst /\ s \notin Processes /\ ~Alive(s)
            /\ mpc' \in {"init", "aggressive", "wait"} /\ MainRunning
          BY <1>k, <1>8 DEF stress_wait_status, IndInv, StartInv, FlowType, Processes, Alive,
             MainRunning
      <2>3. StopKept' /\ StopCovers' /\ signalled' \in SUBSET Inst
            /\ kills' \in Nat /\ ops' \subseteq ops
          <3>1. CASE stress_stressors_kill(kid, Targets \ {s}, TRUE) /\ ops' = {}
              <4>1. \A x \in Targets \ (Targets \ {s}) : ~Alive(x)
                  BY <2>1
              <4> QED
                  BY <1>t, <1>4, <2>1, <3>1, <4>1
          <3>2. CASE UNCHANGED <<mflag, ops, kid, signalled, kills>>
              <4>1. QuietKids
                  BY <1>k, <3>2, SameKidsQuiet
              <4>2. StopKept' /\ StopCovers'
                  BY <1>k, <1>t, <2>1, <3>2, <4>1, StopFrame DEF QuietKids
              <4> QED
                  BY <1>k, <3>2, <4>1, <4>2 DEF QuietKids, StopQuiet, ResultType
          <3> QED
              BY <1>8, <3>1, <3>2 DEF stress_wait_status
      <2>4. mainMoved' \in BOOLEAN /\ UNCHANGED <<mpend, sigints, started, seen>>
          BY <1>k, <1>8 DEF stress_wait_status, ResultType
      <2>5. verdict' \in [success : BOOLEAN, resource : BOOLEAN, metrics : BOOLEAN]
          BY <1>k, <1>8 DEF stress_wait_status, ResultType
      <2>6. tally' \in [Counted -> Nat]
          BY <1>k, <1>8 DEF stress_wait_status, ResultType
      <2>7. ResultType'
          BY <1>k, <2>3, <2>4, <2>5, <2>6 DEF ResultType
      <2> QED
          BY <2>3, <2>7 DEF StopInv
  <1> QED
      BY <1>1, <1>2, <1>3, <1>5, <1>6, <1>7, <1>8 DEF MainStep

LEMMA InitStop == Init => StopInv
  <1> SUFFICES ASSUME Init PROVE StopInv
      OBVIOUS
  <1>1. ResultType
      <2>1. verdict \in [success : BOOLEAN, resource : BOOLEAN, metrics : BOOLEAN]
            /\ tally \in [Counted -> Nat] /\ seen \in [Apart -> Nat]
          BY DEF Init
      <2>2. mpend \subseteq {"INT", "ALRM"} /\ kills \in Nat /\ sigints \in 0..MaxSigint
            /\ started \in Nat /\ signalled \in SUBSET Inst /\ ops \in SUBSET Inst
          BY FlagsAssumption DEF Init
      <2>3. mainMoved \in BOOLEAN
          BY DEF Init
      <2> QED
          BY <2>1, <2>2, <2>3 DEF ResultType
  <1>3. StopKept /\ StopCovers
      BY DEF Init, StopKept, StopCovers
  <1> QED
      BY <1>1, <1>3 DEF StopInv

\* Types, wait statuses, and the two facts about stop requests, in every state.
THEOREM StopInductive == Spec => []StopInv
  <1>1. ASSUME IndInv, AimInv, StopInv, [Next]_vars PROVE StopInv'
      <2>k. FlowType /\ ResultType /\ StopKept /\ StopCovers
          BY <1>1 DEF IndInv, StopInv
      <2>1. CASE UNCHANGED vars \/ Terminated
          <3>1. UNCHANGED <<mpc, mainVars, sigVars, shared, kid>>
              BY <2>1 DEF Terminated, vars
          <3> QED
              BY <2>k, <3>1 DEF mainVars, runVars, resultVars, sigVars, shared, StopInv, ResultType,
                 StopKept, StopCovers, StopPending, Alive, MainRunning
      <2>2. CASE MainStep
          BY <1>1, <2>2, MainStop
      <2>3. CASE MainSignal \/ UserSigint \/ MainIsKilled
          BY <1>1, <2>3, SignalStop
      <2>4. ASSUME NEW s \in Inst, ChildStep(s) \/ ChildSignal(s) \/ ChildFate(s) PROVE StopInv'
          <3>1. ChildEffect
              BY <1>1, <2>k, <2>4, ChildQuiet
          <3>2. StopQuiet /\ signalled \subseteq signalled' /\ signalled' \subseteq Inst
                /\ UNCHANGED <<mpc, mainVars, mflag, kills, sigints>>
                /\ mpend' \subseteq {"INT", "ALRM"} /\ ops' \subseteq Inst
              BY <3>1 DEF ChildEffect, QuietKids
          <3>3. StopKept' /\ StopCovers'
              BY <2>k, <3>2, StopFrame DEF MainRunning, mainVars
          <3>4. ResultType'
              BY <2>k, <3>2 DEF ResultType, StopQuiet, mainVars, runVars, resultVars
          <3> QED
              BY <3>3, <3>4 DEF StopInv
      <2> QED
          BY <1>1, <2>1, <2>2, <2>3, <2>4 DEF Next
  <1> QED
      BY <1>1, InitStop, Inductive, AimsInductive, PTL DEF Spec

\* Every variable has its type.
THEOREM TypeCorrect == Spec => []TypeOK
  <1>1. IndInv /\ StopInv => TypeOK
      BY DEF IndInv, StopInv, TypeOK
  <1> QED
      BY <1>1, Inductive, StopInductive, PTL

\* After a stop request, once main has left the start-up loop, every stressor that
\* still lives has been signalled, however the request, forks, fork failures,
\* --abort and the wait loops interleave.
THEOREM StopsReachAll == Spec => []StopReachesAll
  <1>1. StopInv => StopReachesAll
      BY DEF StopInv, StopCovers, StopReachesAll, MainRunning
  <1> QED
      BY <1>1, StopInductive, PTL

\* A SIGALRM that hits a stressor before it stores max_ops is not lost.
THEOREM StopsAreKept == Spec => []NoLostStop
  <1>1. StopInv => NoLostStop
      <2> SUFFICES ASSUME StopInv, MainRunning, NEW s \in signalled,
                          kid[s].pc \in {"begin", "run"}, ~(mpc = "record" /\ s = cur)
                   PROVE  \/ "ALRM" \in kid[s].pend
                          \/ kid[s].alarm # "off"
                          \/ kid[s].pc = "run" /\ s \notin ops
          BY DEF NoLostStop
      <2>1. Alive(s)
          BY DEF Alive
      <2> QED
          BY <2>1 DEF StopInv, StopKept, StopPending
  <1> QED
      BY <1>1, StopInductive, PTL
-----------------------------------------------------------------------------
(* The summary. *)

LEMMA ProcessesFinite == IsFiniteSet(Processes) /\ Cardinality(Processes) \in Nat
  BY InstAssumption, FS_Subset, FS_CardinalityType DEF Processes

\* Everything stress_wait_status can be given is counted under one heading,
\* EXIT_NOT_SUCCESS excepted.
LEMMA OneHeading ==
    ASSUME NEW rc \in Status, rc # "NOT_SUCCESS"
    PROVE  \E c \in Counted : CountedAs(rc) = {c}
  BY DEF Status, Returned, Counted, CountedAs

\* The steps that change no counter of the summary.
LEMMA QuietSummary ==
    ASSUME IndInv, AimInv, StopInv, [Next]_vars, ~Fork, ~Record, ~(\E s \in Inst : WaitReturns(s)),
           ~stress_wait_status
    PROVE  /\ UNCHANGED <<verdict, tally, seen, started>>
           /\ Processes' = Processes
           /\ mpc' # "dead" => /\ mpc # "dead" /\ (mpc' = "record" <=> mpc = "record")
                               /\ (mpc' = "status" <=> mpc = "status")
           /\ waited' = waited
  <1> USE DEF mainVars, runVars, resultVars, sigVars, shared
  <1>k. FlowType /\ ResultType /\ kid \in [Inst -> KidType]
      BY DEF IndInv, StopInv, FlowType
  <1>p. ASSUME SameProcesses PROVE Processes' = Processes
      BY <1>p DEF SameProcesses, Processes
  <1>s. ASSUME kid' = kid PROVE Processes' = Processes
      BY <1>s DEF Processes
  <1>1. CASE UNCHANGED vars \/ Terminated
      BY <1>1, <1>s DEF Terminated, vars
  <1>2. CASE \/ BeginRun \/ Finish \/ (\E s \in Inst : InitInstance(s)) \/ ForkStopped
             \/ ForkAgain \/ StartedGoOn \/ PollNothing \/ AllStarted \/ stress_handler_set
             \/ AggressiveDone \/ stress_wait_reap_count \/ EndRun
      BY <1>2, <1>s DEF BeginRun, Finish, InitInstance, ForkStopped, ForkAgain, StartedGoOn,
         PollNothing, AllStarted, stress_handler_set, AggressiveDone, stress_wait_reap_count,
         EndRun
  <1>3. CASE ForkFails \/ StartedStopped
      <2>1. \E T, force : stress_stressors_kill(kid, T, force)
          BY <1>3 DEF ForkFails, StartedStopped
      <2>2. SameProcesses
          BY <1>k, <2>1, KillKeeps
      <2> QED
          BY <1>3, <1>p, <2>2 DEF ForkFails, StartedStopped
  <1>4. CASE MainSigint \/ MainSigalrm
      <2>1. \E force : stress_stressors_kill(kid, Targets, force)
          BY <1>4 DEF MainSigint, MainSigalrm
      <2>2. SameProcesses
          BY <1>k, <2>1, KillKeeps
      <2> QED
          BY <1>4, <1>p, <2>2 DEF MainSigint, MainSigalrm
  <1>5. CASE UserSigint \/ MainSigalrmDefault \/ MainIsKilled
      <2>1. kid' = kid \/ \E T, sig : sig \in {"ALRM", "INT"} /\ kid' = Deliver(kid, T, sig)
          BY <1>5 DEF UserSigint, MainSigalrmDefault, MainIsKilled, MainDies
      <2>2. SameProcesses
          BY <1>k, <2>1, DeliverKeeps DEF SameProcesses
      <2> QED
          BY <1>5, <1>p, <2>2 DEF UserSigint, MainSigalrmDefault, MainIsKilled, MainDies
  <1>6. CASE \E s \in Inst : ChildStep(s) \/ ChildSignal(s) \/ ChildFate(s)
      <2>1. ChildEffect
          BY <1>k, <1>6, ChildQuiet
      <2> QED
          BY <1>p, <2>1 DEF ChildEffect, QuietKids
  <1> QED
      BY <1>1, <1>2, <1>3, <1>4, <1>5, <1>6 DEF Next, MainStep, MainSignal

\* The process just waited for is to be counted, unless it ended with EXIT_NOT_SUCCESS.
Uncounted == IF mpc = "status" /\ waited.rc # "NOT_SUCCESS" THEN 1 ELSE 0

LEMMA LedgerNow ==
    ASSUME LedgerInv, mpc # "dead"
    PROVE  started + (IF mpc = "record" THEN 1 ELSE 0)
             = Summary + seen["NOT_SUCCESS"] + Cardinality(Processes) + Uncounted
  BY DEF LedgerInv, Uncounted

LEMMA LedgerNext ==
    ASSUME started' + (IF mpc' = "record" THEN 1 ELSE 0)
             = Summary' + seen'["NOT_SUCCESS"] + Cardinality(Processes') + Uncounted'
    PROVE  LedgerInv'
  BY DEF LedgerInv, Uncounted

\* Every process started is counted under exactly one heading of the summary when
\* a run is over, unless it ended with EXIT_NOT_SUCCESS: those are counted under none.
THEOREM SummaryComplete == Spec => []SummaryCountsAll
  <1>1. ASSUME Init PROVE LedgerInv
      <2>1. Processes = {}
          BY <1>1 DEF Init, Processes, NoKid
      <2>2. Cardinality(Processes) = 0
          BY <2>1, FS_EmptySet
      <2>3. Summary = 0 /\ seen["NOT_SUCCESS"] = 0 /\ started = 0 /\ mpc = "idle"
          BY <1>1 DEF Init, Summary, Counted, Apart
      <2> QED
          BY <2>2, <2>3 DEF LedgerInv
  <1>2. ASSUME IndInv, AimInv, StopInv, LedgerInv, [Next]_vars PROVE LedgerInv'
      <2> USE DEF mainVars, runVars, resultVars, sigVars, shared
      <2>f. IsFiniteSet(Processes) /\ Cardinality(Processes) \in Nat
          BY ProcessesFinite
      <2>k. FlowType /\ kid \in [Inst -> KidType]
          BY <1>2 DEF IndInv, StopInv, FlowType, ResultType
      <2>c. /\ tally["PASSED"] \in Nat /\ tally["SKIPPED"] \in Nat
            /\ tally["FAILED"] \in Nat /\ tally["BAD_METRICS"] \in Nat
          BY <1>2 DEF StopInv, ResultType, Counted
      <2>n. started \in Nat /\ seen["NOT_SUCCESS"] \in Nat
          BY <1>2 DEF StopInv, ResultType, Apart
      <2>s. Summary \in Nat
          BY <2>c DEF Summary
      <2>l. mpc # "dead" => started + (IF mpc = "record" THEN 1 ELSE 0)
                = Summary + seen["NOT_SUCCESS"] + Cardinality(Processes) + Uncounted
          BY <1>2, LedgerNow
      <2>1. CASE Fork
          <3>1. cur \in Inst /\ cur \notin Processes /\ mpc = "fork" /\ mpc' = "record"
                /\ kid' = [kid EXCEPT ![cur] = NewKid] /\ UNCHANGED <<tally, seen, started>>
              BY <1>2, <2>1 DEF Fork, IndInv, FlowType, StartInv, MainRunning
          <3>2. Processes' = Processes \cup {cur}
              BY <2>k, <3>1 DEF Processes, NewKid, NoKid
          <3>3. Cardinality(Processes') = Cardinality(Processes) + 1
              BY <2>f, <3>1, <3>2, FS_AddElement
          <3>4. Summary' = Summary /\ Uncounted = 0 /\ Uncounted' = 0
              BY <3>1 DEF Summary, Uncounted
          <3>5. started + 0 = Summary + seen["NOT_SUCCESS"] + Cardinality(Processes) + 0
              BY <2>l, <3>1, <3>4
          <3>6. started' + 1 = Summary' + seen'["NOT_SUCCESS"] + Cardinality(Processes') + 0
              BY <2>f, <2>n, <2>s, <3>1, <3>3, <3>4, <3>5
          <3> QED
              BY <3>1, <3>4, <3>6, LedgerNext
      <2>2. CASE Record
          <3>1. Processes' = Processes
              BY <2>2 DEF Record, Processes
          <3>2. /\ mpc = "record" /\ mpc' = "started" /\ started' = started + 1
                /\ UNCHANGED <<tally, seen>>
              BY <2>2 DEF Record
          <3>3. Summary' = Summary /\ Uncounted = 0 /\ Uncounted' = 0
              BY <3>2 DEF Summary, Uncounted
          <3> QED
              BY <2>f, <2>n, <2>s, <2>l, <3>1, <3>2, <3>3, LedgerNext
      <2>3. ASSUME NEW s \in Inst, WaitReturns(s) PROVE LedgerInv'
          <3>1. /\ s \in Processes /\ mpc \in {"poll", "aggressive", "wait"} /\ mpc' = "status"
                /\ kid' = [kid EXCEPT ![s] = NoKid] /\ UNCHANGED <<tally, started>>
                /\ seen' = [r \in Apart |-> seen[r] + IF r = kid[s].rc THEN 1 ELSE 0]
                /\ waited'.rc = kid[s].rc
              BY <2>3 DEF WaitReturns, Zombies, Processes
          <3>2. Processes' = Processes \ {s}
              BY <2>k, <3>1 DEF Processes, NoKid
          <3>3. Cardinality(Processes') = Cardinality(Processes) - 1
              BY <2>f, <3>1, <3>2, FS_RemoveElement
          <3>4. Summary' = Summary /\ Uncounted = 0
              BY <3>1 DEF Summary, Uncounted
          <3>5. seen'["NOT_SUCCESS"] + Uncounted' = seen["NOT_SUCCESS"] + 1
              <4>1. seen'["NOT_SUCCESS"]
                      = seen["NOT_SUCCESS"] + IF kid[s].rc = "NOT_SUCCESS" THEN 1 ELSE 0
                  BY <3>1 DEF Apart
              <4>2. Uncounted' = IF kid[s].rc # "NOT_SUCCESS" THEN 1 ELSE 0
                  BY <3>1 DEF Uncounted
              <4> QED
                  BY <2>n, <4>1, <4>2
          <3>6. seen'["NOT_SUCCESS"] \in Nat /\ Uncounted' \in Nat
              BY <2>n, <3>1 DEF Apart, Uncounted
          <3> QED
              BY <2>f, <2>n, <2>s, <2>l, <3>1, <3>3, <3>4, <3>5, <3>6, LedgerNext
      <2>4. CASE stress_wait_status
          <3>1. waited.rc \in Status
              BY <2>k DEF FlowType
          <3>2. mpc = "status" /\ mpc' \in {"init", "aggressive", "wait"}
                /\ UNCHANGED <<seen, started>>
              BY <2>k, <2>4 DEF stress_wait_status, FlowType
          <3>3. Processes' = Processes
              <4>1. SameProcesses
                  <5>1. CASE kid' = kid
                      BY <2>k, <5>1 DEF SameProcesses
                  <5>2. CASE stress_stressors_kill(kid, Targets \ {waited.inst}, TRUE)
                      BY <2>k, <5>2, KillKeeps
                  <5> QED
                      BY <2>4, <5>1, <5>2 DEF stress_wait_status
              <4> QED
                  BY <4>1 DEF SameProcesses, Processes
          <3>4. Summary' = Summary + Uncounted
              <4>1. \A d \in Counted :
                       tally'[d] = tally[d] + IF d \in CountedAs(waited.rc) THEN 1 ELSE 0
                  BY <2>4 DEF stress_wait_status
              <4>2. CASE waited.rc = "NOT_SUCCESS"
                  <5>1. CountedAs(waited.rc) = {} /\ Uncounted = 0
                      BY <4>2 DEF CountedAs, Uncounted
                  <5>2. \A d \in Counted : tally'[d] = tally[d] + 0
                      BY <4>1, <5>1
                  <5> QED
                      BY <2>c, <5>1, <5>2 DEF Summary, Counted
              <4>3. CASE waited.rc # "NOT_SUCCESS"
                  <5>1. PICK c \in Counted : CountedAs(waited.rc) = {c}
                      BY <3>1, <4>3, OneHeading
                  <5>2. c \in {"PASSED", "SKIPPED", "FAILED", "BAD_METRICS"} /\ Uncounted = 1
                      BY <3>2, <4>3 DEF Counted, Uncounted
                  <5>3. \A d \in {"PASSED", "SKIPPED", "FAILED", "BAD_METRICS"} :
                           tally'[d] = IF d = c THEN tally[d] + 1 ELSE tally[d]
                      BY <2>c, <4>1, <5>1 DEF Counted
                  <5> HIDE <4>1
                  <5>4. tally'["PASSED"] + tally'["SKIPPED"] + tally'["FAILED"]
                            + tally'["BAD_METRICS"]
                         = tally["PASSED"] + tally["SKIPPED"] + tally["FAILED"]
                            + tally["BAD_METRICS"] + 1
                      BY <2>c, <5>2, <5>3
                  <5> QED
                      BY <5>2, <5>4 DEF Summary
              <4> QED
                  BY <4>2, <4>3
          <3>5. Uncounted' = 0 /\ Uncounted \in Nat
              BY <3>2 DEF Uncounted
          <3> QED
              BY <2>f, <2>n, <2>s, <2>l, <3>2, <3>3, <3>4, <3>5, LedgerNext
      <2>5. CASE ~Fork /\ ~Record /\ ~(\E s \in Inst : WaitReturns(s)) /\ ~stress_wait_status
          <3>1. /\ UNCHANGED <<verdict, tally, seen, started>>
                /\ Processes' = Processes
                /\ mpc' # "dead" => /\ mpc # "dead" /\ (mpc' = "record" <=> mpc = "record")
                                    /\ (mpc' = "status" <=> mpc = "status")
                /\ waited' = waited
              BY <1>2, <2>5, QuietSummary
          <3> QED
              BY <1>2, <3>1 DEF LedgerInv, Summary
      <2> QED
          BY <2>1, <2>2, <2>3, <2>4, <2>5
  <1>3. ASSUME IndInv, StopInv, LedgerInv PROVE SummaryCountsAll
      <2> SUFFICES ASSUME mpc \in {"idle", "done"}
                   PROVE  started = Summary + seen["NOT_SUCCESS"]
          BY DEF SummaryCountsAll
      <2>1. Processes = {}
          BY <1>3 DEF IndInv, NoneLeftBehind
      <2>2. Cardinality(Processes) = 0
          BY <2>1, FS_EmptySet
      <2>3. /\ started \in Nat /\ \A c \in Counted : tally[c] \in Nat
            /\ seen["NOT_SUCCESS"] \in Nat
          BY <1>3 DEF StopInv, ResultType, Apart
      <2>4. Summary \in Nat
          BY <2>3 DEF Summary, Counted
      <2> QED
          BY <1>3, <2>2, <2>3, <2>4 DEF LedgerInv
  <1> QED
      BY <1>1, <1>2, <1>3, Inductive, AimsInductive, StopInductive, PTL DEF Spec

\* main exits with 2 exactly when an instance failed otherwise than by calling exit()
\* or ended with EXIT_NOT_SUCCESS, whatever the stressors return: the summary has these
\* two statuses wrong, the one way and the other.
THEOREM ExitIsSummary == Spec => []ExitAgreesWithSummary
  <1>1. Init => VerdictInv
      BY DEF Init, VerdictInv, Dealt, Counted, Apart
  <1>2. ASSUME IndInv, AimInv, StopInv, VerdictInv, [Next]_vars PROVE VerdictInv'
      <2> USE DEF mainVars, runVars, resultVars, sigVars, shared
      <2>t. /\ tally["FAILED"] \in Nat /\ seen["BY_SYS_EXIT"] \in Nat /\ seen["NOT_SUCCESS"] \in Nat
            /\ verdict.success \in BOOLEAN
          BY <1>2 DEF StopInv, ResultType, Counted, Apart
      <2>w. waited.rc \in Status
          BY <1>2 DEF IndInv, FlowType
      <2>v. mpc # "dead" => VerdictInv
          BY <1>2
      <2>1. CASE stress_wait_status
          <3>1. mpc = "status" /\ mpc' \in {"init", "aggressive", "wait"} /\ seen' = seen
              BY <1>2, <2>1 DEF stress_wait_status, IndInv, FlowType
          <3>2. tally'["FAILED"] = tally["FAILED"] + IF "FAILED" \in CountedAs(waited.rc) THEN 1 ELSE 0
              BY <2>1 DEF stress_wait_status, Counted
          <3>3. "FAILED" \in CountedAs(waited.rc)
                   <=> waited.rc \in {"SIGNALED", "FAILURE", "BY_SYS_EXIT", "sigOther"}
              BY <2>w DEF CountedAs, Status, Returned
          <3>4. verdict'.success <=> /\ verdict.success
                                     /\ waited.rc \notin {"SIGNALED", "FAILURE", "NOT_SUCCESS", "sigOther"}
              BY <2>1 DEF stress_wait_status
          <3>5. /\ Dealt("BY_SYS_EXIT") = seen["BY_SYS_EXIT"] - IF waited.rc = "BY_SYS_EXIT" THEN 1 ELSE 0
                /\ Dealt("NOT_SUCCESS") = seen["NOT_SUCCESS"] - IF waited.rc = "NOT_SUCCESS" THEN 1 ELSE 0
              BY <3>1 DEF Dealt
          <3>6. /\ Dealt("BY_SYS_EXIT")' = seen["BY_SYS_EXIT"]
                /\ Dealt("NOT_SUCCESS")' = seen["NOT_SUCCESS"]
              BY <2>t, <3>1 DEF Dealt
          <3>7. /\ tally["FAILED"] >= Dealt("BY_SYS_EXIT") /\ Dealt("NOT_SUCCESS") >= 0
                /\ verdict.success <=>
                     tally["FAILED"] = Dealt("BY_SYS_EXIT") /\ Dealt("NOT_SUCCESS") = 0
              BY <1>2, <3>1 DEF VerdictInv
          <3> DEFINE f == tally["FAILED"]
                     fn == tally'["FAILED"]
                     b == seen["BY_SYS_EXIT"]
                     n == seen["NOT_SUCCESS"]
                     ok == verdict.success
                     okn == verdict'.success
                     db == Dealt("BY_SYS_EXIT")
                     dn == Dealt("NOT_SUCCESS")
                     rc == waited.rc
          <3>8. /\ f \in Nat /\ b \in Nat /\ n \in Nat /\ ok \in BOOLEAN
                /\ fn = f + (IF rc \in {"SIGNALED", "FAILURE", "BY_SYS_EXIT", "sigOther"} THEN 1 ELSE 0)
                /\ db = b - (IF rc = "BY_SYS_EXIT" THEN 1 ELSE 0)
                /\ dn = n - (IF rc = "NOT_SUCCESS" THEN 1 ELSE 0)
              BY <2>t, <3>2, <3>3, <3>5
          <3>9. /\ f >= db /\ dn >= 0 /\ (ok <=> f = db /\ dn = 0)
                /\ okn <=> ok /\ rc \notin {"SIGNALED", "FAILURE", "NOT_SUCCESS", "sigOther"}
              BY <3>4, <3>7
          <3> HIDE DEF f, fn, b, n, ok, okn, db, dn, rc
          <3>10. fn >= b /\ n >= 0 /\ (okn <=> fn = b /\ n = 0)
              <4>1. CASE rc = "BY_SYS_EXIT"
                  BY <3>8, <3>9, <4>1
              <4>2. CASE rc = "NOT_SUCCESS"
                  BY <3>8, <3>9, <4>2
              <4>3. CASE rc \in {"SIGNALED", "FAILURE", "sigOther"}
                  BY <3>8, <3>9, <4>3
              <4>4. CASE rc \notin {"SIGNALED", "FAILURE", "BY_SYS_EXIT", "NOT_SUCCESS", "sigOther"}
                  BY <3>8, <3>9, <4>4
              <4> QED
                  BY <4>1, <4>2, <4>3, <4>4
          <3>11. /\ tally'["FAILED"] >= Dealt("BY_SYS_EXIT")' /\ Dealt("NOT_SUCCESS")' >= 0
                 /\ verdict'.success <=>
                      tally'["FAILED"] = Dealt("BY_SYS_EXIT")' /\ Dealt("NOT_SUCCESS")' = 0
              BY <3>6, <3>10 DEF fn, b, n, okn
          <3> QED
              BY <3>11 DEF VerdictInv
      <2>2. ASSUME NEW s \in Inst, WaitReturns(s) PROVE VerdictInv'
          <3>1. /\ mpc \in {"poll", "aggressive", "wait"} /\ mpc' = "status" /\ UNCHANGED <<verdict, tally>>
                /\ seen' = [r \in Apart |-> seen[r] + IF r = kid[s].rc THEN 1 ELSE 0]
                /\ waited'.rc = kid[s].rc
              BY <2>2 DEF WaitReturns
          <3>2. ASSUME NEW r \in Apart PROVE Dealt(r)' = Dealt(r)
              <4>1. seen[r] \in Nat /\ Dealt(r) = seen[r] - 0
                  BY <1>2, <3>1 DEF Dealt, StopInv, ResultType
              <4>2. seen'[r] = seen[r] + IF r = kid[s].rc THEN 1 ELSE 0
                  BY <3>1
              <4>3. Dealt(r)' = seen'[r] - IF kid[s].rc = r THEN 1 ELSE 0
                  BY <3>1 DEF Dealt
              <4> QED
                  BY <4>1, <4>2, <4>3
          <3>3. Dealt("BY_SYS_EXIT")' = Dealt("BY_SYS_EXIT") /\ Dealt("NOT_SUCCESS")' = Dealt("NOT_SUCCESS")
              BY <3>2 DEF Apart
          <3> QED
              BY <1>2, <3>1, <3>3 DEF VerdictInv
      <2>3. CASE Fork \/ Record
          <3>1. /\ mpc \in {"fork", "record"} /\ mpc' \in {"record", "started"}
                /\ UNCHANGED <<verdict, tally, seen>>
              BY <2>3 DEF Fork, Record
          <3> QED
              BY <1>2, <3>1 DEF VerdictInv, Dealt
      <2>4. CASE ~Fork /\ ~Record /\ ~(\E s \in Inst : WaitReturns(s)) /\ ~stress_wait_status
          <3>1. /\ UNCHANGED <<verdict, tally, seen, waited>>
                /\ mpc' # "dead" => mpc # "dead" /\ (mpc' = "status" <=> mpc = "status")
              BY <1>2, <2>4, QuietSummary
          <3> QED
              BY <1>2, <3>1 DEF VerdictInv, Dealt
      <2> QED
          BY <2>1, <2>2, <2>3, <2>4
  <1>3. ASSUME StopInv, VerdictInv PROVE ExitAgreesWithSummary
      <2> SUFFICES ASSUME mpc = "done"
                   PROVE  ExitStatus = 2 <=>
                             tally["FAILED"] > seen["BY_SYS_EXIT"] \/ seen["NOT_SUCCESS"] > 0
          BY DEF ExitAgreesWithSummary
      <2>1. tally["FAILED"] \in Nat /\ seen["BY_SYS_EXIT"] \in Nat /\ seen["NOT_SUCCESS"] \in Nat
          BY <1>3 DEF StopInv, ResultType, Counted, Apart
      <2>2. ExitStatus = 2 <=> ~verdict.success
          BY DEF ExitStatus
      <2>3. Dealt("BY_SYS_EXIT") = seen["BY_SYS_EXIT"] /\ Dealt("NOT_SUCCESS") = seen["NOT_SUCCESS"]
          BY <2>1 DEF Dealt
      <2>4. /\ tally["FAILED"] >= seen["BY_SYS_EXIT"] /\ seen["NOT_SUCCESS"] >= 0
            /\ verdict.success <=> tally["FAILED"] = seen["BY_SYS_EXIT"] /\ seen["NOT_SUCCESS"] = 0
          BY <1>3, <2>3 DEF VerdictInv
      <2> QED
          BY <2>1, <2>2, <2>4
  <1> QED
      BY <1>1, <1>2, <1>3, Inductive, AimsInductive, StopInductive, PTL DEF Spec
=============================================================================
