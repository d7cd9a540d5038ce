--------------------------- MODULE SyncStartProofs ---------------------------
(***************************************************************************)
(* Proofs about SyncStart, for any set of instances, any mixture of kinds    *)
(* of stressor and any number of runs, stops and deaths.                     *)
(***************************************************************************)
EXTENDS SyncStart, FiniteSetTheorems, TLAPS

\* TypeOK with up a natural number: its bound follows from CountInv.
BaseType ==
    /\ kind \in [Inst -> Kinds]
    /\ mpc \in {"fork", "poll", "cont", "load", "wait", "done"}
    /\ run \in 1..Runs /\ mflag \in BOOLEAN /\ unready \in BOOLEAN /\ up \in Nat
    /\ list \subseteq Inst /\ scan \subseteq list
    /\ mpc \in {"fork", "wait", "done"} => scan = {}
    /\ state \in [Inst -> States]
    /\ oomable \in [Inst -> Named \ {"parent"}]
    /\ parent \in [Inst -> Process] /\ child \in [Inst -> Process]
    /\ deaths \in 0..MaxDeaths

\* Once the start is over all instances are in the list, unless it was cut short.
ListInv == mpc \in {"poll", "cont", "load", "wait"} /\ mflag => list = Inst

\* What the first loop has loaded stays true: nobody goes back to STARTED.
PollInv ==
    /\ mpc = "poll" /\ ~unready => \A i \in list \ scan : state[i] # "STARTED"
    /\ mpc \in {"cont", "load"} /\ mflag => \A i \in list : state[i] # "STARTED"

\* The stressor process has yet to leave stress_sync_start_wait.
Before(i) == parent[i].pc \in {"init", "store", "kill", "woken"}

\* A stressor that waits in its own process is stopped only there, and its
\* state says RUNNING or FINISHED only when it is through.
BarrierInv ==
    \A i \in Inst : kind[i] # "inside" =>
        /\ parent[i].stopped => parent[i].pc = "woken"
        /\ state[i] \in {"RUNNING", "FINISHED"} => ~Before(i)
        /\ child[i].pc \in {"none", "init", "running"}

\* Only a living process is stopped, and an instance that this run has still to
\* start has none.
AliveInv ==
    \A i \in Inst :
        /\ parent[i].stopped => Alive(parent[i])
        /\ mpc = "fork" /\ i \notin list => ~Alive(parent[i])

Settled(i) == kind[i] = "inside" \/ ~Before(i)

\* The count of the second loop: it reaches the number of instances visited
\* only if each of them was through when its state was loaded.
CountInv ==
    /\ mpc \in {"cont", "load"} =>
         /\ up <= Cardinality(list \ scan)
         /\ up = Cardinality(list \ scan) => \A i \in list \ scan : Settled(i)
    /\ up <= Cardinality(Inst)
    /\ mpc = "wait" /\ mflag => \A i \in Inst : Settled(i)

IndInv == BaseType /\ ListInv /\ PollInv /\ BarrierInv /\ AliveInv /\ CountInv

\* What a step of a stressor process or of its child leaves true whatever it is.
ProcessFrame ==
    /\ \A i \in Inst : state'[i] = "STARTED" => state[i] = "STARTED"
    /\ \A i \in Inst : Settled(i) => Settled(i)'

Processes(i) == Stressor(i) \/ OomableChild(i) \/ Chance(i)

\* Those steps touch nothing of the supervisor's.
LEMMA MainUntouched ==
    ASSUME NEW i \in Inst, Processes(i) PROVE UNCHANGED mainVars
BY DEF Processes, Stressor, OomableChild, Chance, ParentReadPid, ParentStore, ParentStop,
   ParentWoken, ParentInside, ForkChild, PublishChild, ReapChild, ParentAlarm, ParentEnds,
   Finish, ChildReadPid, ChildStore, ChildStop, ChildWoken, ChildGoes, ChildEnds,
   ParentGivesUp, ChildOomed, ChildQuits, ReturnsEarly, Quit, Dies

\* A step of the processes of one instance keeps the types, the barrier
\* invariant and everything the supervisor has already observed.
LEMMA ProcessSteps ==
    ASSUME BaseType, BarrierInv, AliveInv, NEW i \in Inst, Processes(i)
    PROVE BaseType' /\ BarrierInv' /\ AliveInv' /\ ProcessFrame
<1>. USE DEF At, Goto, NoProcess, NewProcess, mainVars
<1>1. CASE ParentReadPid(i)
  <2>1. BaseType'
    <3>1. parent'[i] \in Process /\ child'[i] \in Process
      BY <1>1 DEF ParentReadPid, ReadPid, PidOf, BaseType, Process, Named
    <3>2. parent' = [parent EXCEPT ![i] = parent'[i]] /\ child' = [child EXCEPT ![i] = child'[i]]
      BY <1>1 DEF ParentReadPid, ReadPid, PidOf, BaseType
    <3>3. parent' \in [Inst -> Process] /\ child' \in [Inst -> Process]
      BY <3>1, <3>2 DEF BaseType
    <3>. QED  BY <1>1, <3>3 DEF ParentReadPid, ReadPid, PidOf, BaseType
  <2>2. BarrierInv'
    BY <1>1 DEF ParentReadPid, ReadPid, PidOf, BaseType, BarrierInv, Before
  <2>3. ProcessFrame
    BY <1>1 DEF ParentReadPid, ReadPid, PidOf, BaseType, ProcessFrame, Settled, Before
  <2>4. AliveInv'
    BY <1>1 DEF ParentReadPid, ReadPid, PidOf, Alive, BaseType, AliveInv
  <2>. QED  BY <2>1, <2>2, <2>3, <2>4
<1>2. CASE ParentStore(i)
  <2>1. BaseType'
    BY <1>2 DEF ParentStore, BaseType, Process, Named, States
  <2>2. BarrierInv'
    BY <1>2 DEF ParentStore, BaseType, BarrierInv, Before
  <2>3. ProcessFrame
    BY <1>2 DEF ParentStore, BaseType, ProcessFrame, Settled, Before
  <2>4. AliveInv'
    BY <1>2 DEF ParentStore, Alive, BaseType, AliveInv
  <2>. QED  BY <2>1, <2>2, <2>3, <2>4
<1>3. CASE ParentStop(i)
  <2>1. BaseType'
    <3>1. parent'[i] \in Process /\ child'[i] \in Process
      BY <1>3 DEF ParentStop, Stop, Alive, BaseType, Process, Named
    <3>2. parent' = [parent EXCEPT ![i] = parent'[i]] /\ child' = [child EXCEPT ![i] = child'[i]]
      BY <1>3 DEF ParentStop, Stop, Alive, BaseType
    <3>3. parent' \in [Inst -> Process] /\ child' \in [Inst -> Process]
      BY <3>1, <3>2 DEF BaseType
    <3>. QED  BY <1>3, <3>3 DEF ParentStop, Stop, Alive, BaseType
  <2>2. BarrierInv'
    BY <1>3 DEF ParentStop, Stop, Alive, BaseType, BarrierInv, Before
  <2>3. ProcessFrame
    BY <1>3 DEF ParentStop, Stop, Alive, BaseType, ProcessFrame, Settled, Before
  <2>4. AliveInv'
    BY <1>3 DEF ParentStop, Stop, Alive, BaseType, AliveInv
  <2>. QED  BY <2>1, <2>2, <2>3, <2>4
<1>4. CASE ParentWoken(i)
  <2>1. BaseType'
    <3>1. parent'[i] \in Process
      BY <1>4 DEF ParentWoken, BaseType, Process
    <3>2. parent' = [parent EXCEPT ![i] = parent'[i]]
      BY <1>4 DEF ParentWoken, BaseType
    <3>3. parent' \in [Inst -> Process]
      BY <3>1, <3>2 DEF BaseType
    <3>. QED  BY <1>4, <3>3 DEF ParentWoken, BaseType, States
  <2>2. BarrierInv'
    BY <1>4 DEF ParentWoken, BaseType, BarrierInv, Before
  <2>3. ProcessFrame
    BY <1>4 DEF ParentWoken, BaseType, ProcessFrame, Settled, Before
  <2>4. AliveInv'
    BY <1>4 DEF ParentWoken, Alive, BaseType, AliveInv
  <2>. QED  BY <2>1, <2>2, <2>3, <2>4
<1>5. CASE ParentInside(i)
  <2>1. BaseType'
    BY <1>5 DEF ParentInside, BaseType, Process, Named, States
  <2>2. BarrierInv'
    BY <1>5 DEF ParentInside, BaseType, BarrierInv, Before
  <2>3. ProcessFrame
    BY <1>5 DEF ParentInside, BaseType, ProcessFrame, Settled, Before
  <2>4. AliveInv'
    BY <1>5 DEF ParentInside, Alive, BaseType, AliveInv
  <2>. QED  BY <2>1, <2>2, <2>3, <2>4
<1>6. CASE ForkChild(i)
  <2>1. BaseType'
    BY <1>6 DEF ForkChild, BaseType, Process, Named, States
  <2>2. BarrierInv'
    BY <1>6 DEF ForkChild, BaseType, BarrierInv, Before
  <2>3. ProcessFrame
    BY <1>6 DEF ForkChild, BaseType, ProcessFrame, Settled, Before
  <2>4. AliveInv'
    BY <1>6 DEF ForkChild, Alive, BaseType, AliveInv
  <2>. QED  BY <2>1, <2>2, <2>3, <2>4
<1>7. CASE PublishChild(i)
  <2>1. BaseType'
    BY <1>7 DEF PublishChild, BaseType, Process, Named, States
  <2>2. BarrierInv'
    BY <1>7 DEF PublishChild, BaseType, BarrierInv, Before
  <2>3. ProcessFrame
    BY <1>7 DEF PublishChild, BaseType, ProcessFrame, Settled, Before
  <2>4. AliveInv'
    BY <1>7 DEF PublishChild, Alive, BaseType, AliveInv
  <2>. QED  BY <2>1, <2>2, <2>3, <2>4
<1>8. CASE ReapChild(i)
  <2>1. BaseType'
    BY <1>8 DEF ReapChild, Alive, BaseType, Process, Named, States
  <2>2. BarrierInv'
    BY <1>8 DEF ReapChild, Alive, BaseType, BarrierInv, Before
  <2>3. ProcessFrame
    BY <1>8 DEF ReapChild, Alive, BaseType, ProcessFrame, Settled, Before
  <2>4. AliveInv'
    BY <1>8 DEF ReapChild, Alive, BaseType, AliveInv
  <2>. QED  BY <2>1, <2>2, <2>3, <2>4
<1>9. CASE ParentAlarm(i)
  <2>1. BaseType'
    BY <1>9 DEF ParentAlarm, Alive, BaseType, Process, Named, States
  <2>2. BarrierInv'
    BY <1>9 DEF ParentAlarm, Alive, BaseType, BarrierInv, Before
  <2>3. ProcessFrame
    BY <1>9 DEF ParentAlarm, Alive, BaseType, ProcessFrame, Settled, Before
  <2>4. AliveInv'
    BY <1>9 DEF ParentAlarm, Alive, BaseType, AliveInv
  <2>. QED  BY <2>1, <2>2, <2>3, <2>4
<1>10. CASE ParentEnds(i)
  <2>1. BaseType'
    BY <1>10 DEF ParentEnds, BaseType, Process, Named, States
  <2>2. BarrierInv'
    BY <1>10 DEF ParentEnds, BaseType, BarrierInv, Before
  <2>3. ProcessFrame
    BY <1>10 DEF ParentEnds, BaseType, ProcessFrame, Settled, Before
  <2>4. AliveInv'
    BY <1>10 DEF ParentEnds, Alive, BaseType, AliveInv
  <2>. QED  BY <2>1, <2>2, <2>3, <2>4
<1>11. CASE Finish(i)
  <2>1. BaseType'
    BY <1>11 DEF Finish, BaseType, Process, Named, States
  <2>2. BarrierInv'
    BY <1>11 DEF Finish, BaseType, BarrierInv, Before
  <2>3. ProcessFrame
    BY <1>11 DEF Finish, BaseType, ProcessFrame, Settled, Before
  <2>4. AliveInv'
    BY <1>11 DEF Finish, Alive, BaseType, AliveInv
  <2>. QED  BY <2>1, <2>2, <2>3, <2>4
<1>12. CASE ChildReadPid(i)
  <2>1. BaseType'
    <3>1. parent'[i] \in Process /\ child'[i] \in Process
      BY <1>12 DEF ChildReadPid, ReadPid, PidOf, BaseType, Process, Named
    <3>2. parent' = [parent EXCEPT ![i] = parent'[i]] /\ child' = [child EXCEPT ![i] = child'[i]]
      BY <1>12 DEF ChildReadPid, ReadPid, PidOf, BaseType
    <3>3. parent' \in [Inst -> Process] /\ child' \in [Inst -> Process]
      BY <3>1, <3>2 DEF BaseType
    <3>. QED  BY <1>12, <3>3 DEF ChildReadPid, ReadPid, PidOf, BaseType
  <2>2. BarrierInv'
    BY <1>12 DEF ChildReadPid, ReadPid, PidOf, BaseType, BarrierInv, Before
  <2>3. ProcessFrame
    BY <1>12 DEF ChildReadPid, ReadPid, PidOf, BaseType, ProcessFrame, Settled, Before
  <2>4. AliveInv'
    BY <1>12 DEF ChildReadPid, ReadPid, PidOf, Alive, BaseType, AliveInv
  <2>. QED  BY <2>1, <2>2, <2>3, <2>4
<1>13. CASE ChildStore(i)
  <2>1. BaseType'
    BY <1>13 DEF ChildStore, BaseType, Process, Named, States
  <2>2. BarrierInv'
    BY <1>13 DEF ChildStore, BaseType, BarrierInv, Before
  <2>3. ProcessFrame
    BY <1>13 DEF ChildStore, BaseType, ProcessFrame, Settled, Before
  <2>4. AliveInv'
    BY <1>13 DEF ChildStore, Alive, BaseType, AliveInv
  <2>. QED  BY <2>1, <2>2, <2>3, <2>4
<1>14. CASE ChildStop(i)
  <2>1. BaseType'
    <3>1. parent'[i] \in Process /\ child'[i] \in Process
      BY <1>14 DEF ChildStop, Stop, Alive, BaseType, Process, Named
    <3>2. parent' = [parent EXCEPT ![i] = parent'[i]] /\ child' = [child EXCEPT ![i] = child'[i]]
      BY <1>14 DEF ChildStop, Stop, Alive, BaseType
    <3>3. parent' \in [Inst -> Process] /\ child' \in [Inst -> Process]
      BY <3>1, <3>2 DEF BaseType
    <3>. QED  BY <1>14, <3>3 DEF ChildStop, Stop, Alive, BaseType
  <2>2. BarrierInv'
    BY <1>14 DEF ChildStop, Stop, Alive, BaseType, BarrierInv, Before
  <2>3. ProcessFrame
    BY <1>14 DEF ChildStop, Stop, Alive, BaseType, ProcessFrame, Settled, Before
  <2>4. AliveInv'
    BY <1>14 DEF ChildStop, Stop, Alive, BaseType, Process, AliveInv
  <2>. QED  BY <2>1, <2>2, <2>3, <2>4
<1>15. CASE ChildWoken(i)
  <2>1. BaseType'
    BY <1>15 DEF ChildWoken, BaseType, Process, Named, States
  <2>2. BarrierInv'
    BY <1>15 DEF ChildWoken, BaseType, BarrierInv, Before
  <2>3. ProcessFrame
    BY <1>15 DEF ChildWoken, BaseType, ProcessFrame, Settled, Before
  <2>4. AliveInv'
    BY <1>15 DEF ChildWoken, Alive, BaseType, AliveInv
  <2>. QED  BY <2>1, <2>2, <2>3, <2>4
<1>16. CASE ChildGoes(i)
  <2>1. BaseType'
    BY <1>16 DEF ChildGoes, BaseType, Process, Named, States
  <2>2. BarrierInv'
    BY <1>16 DEF ChildGoes, BaseType, BarrierInv, Before
  <2>3. ProcessFrame
    BY <1>16 DEF ChildGoes, BaseType, ProcessFrame, Settled, Before
  <2>4. AliveInv'
    BY <1>16 DEF ChildGoes, Alive, BaseType, AliveInv
  <2>. QED  BY <2>1, <2>2, <2>3, <2>4
<1>17. CASE ChildEnds(i)
  <2>1. BaseType'
    BY <1>17 DEF ChildEnds, BaseType, Process, Named, States
  <2>2. BarrierInv'
    BY <1>17 DEF ChildEnds, BaseType, BarrierInv, Before
  <2>3. ProcessFrame
    BY <1>17 DEF ChildEnds, BaseType, ProcessFrame, Settled, Before
  <2>4. AliveInv'
    BY <1>17 DEF ChildEnds, Alive, BaseType, AliveInv
  <2>. QED  BY <2>1, <2>2, <2>3, <2>4
<1>23. CASE ChildQuits(i)
  <2>1. BaseType'
    BY <1>23 DEF ChildQuits, BaseType, Process, Named, States
  <2>2. BarrierInv'
    BY <1>23 DEF ChildQuits, BaseType, BarrierInv, Before
  <2>3. ProcessFrame
    BY <1>23 DEF ChildQuits, BaseType, ProcessFrame, Settled, Before
  <2>4. AliveInv'
    BY <1>23 DEF ChildQuits, Alive, BaseType, AliveInv
  <2>. QED  BY <2>1, <2>2, <2>3, <2>4
<1>18. CASE ParentGivesUp(i)
  <2>1. BaseType'
    BY <1>18 DEF ParentGivesUp, BaseType, Process, Named, States
  <2>2. BarrierInv'
    BY <1>18 DEF ParentGivesUp, BaseType, BarrierInv, Before
  <2>3. ProcessFrame
    BY <1>18 DEF ParentGivesUp, BaseType, ProcessFrame, Settled, Before
  <2>4. AliveInv'
    BY <1>18 DEF ParentGivesUp, Alive, BaseType, AliveInv
  <2>. QED  BY <2>1, <2>2, <2>3, <2>4
<1>19. CASE ChildOomed(i)
  <2>1. BaseType'
    <3>0. PICK pc \in {"fork", "finish"} : parent' = [parent EXCEPT ![i] = Goto(@, pc)]
      BY <1>19 DEF ChildOomed
    <3>1. parent'[i] \in Process /\ child'[i] \in Process
      BY <1>19, <3>0 DEF ChildOomed, BaseType, Process, Named
    <3>2. parent' = [parent EXCEPT ![i] = parent'[i]] /\ child' = [child EXCEPT ![i] = child'[i]]
      BY <1>19, <3>0 DEF ChildOomed, BaseType
    <3>3. parent' \in [Inst -> Process] /\ child' \in [Inst -> Process]
      BY <3>1, <3>2 DEF BaseType
    <3>. QED  BY <1>19, <3>3, BoundsAssumption DEF ChildOomed, Alive, BaseType
  <2>2. BarrierInv'
    BY <1>19 DEF ChildOomed, Alive, BaseType, BarrierInv, Before
  <2>3. ProcessFrame
    BY <1>19 DEF ChildOomed, Alive, BaseType, ProcessFrame, Settled, Before
  <2>4. AliveInv'
    BY <1>19 DEF ChildOomed, Alive, BaseType, AliveInv
  <2>. QED  BY <2>1, <2>2, <2>3, <2>4
<1>20. CASE ReturnsEarly(i)
  <2>1. BaseType'
    BY <1>20 DEF ReturnsEarly, BaseType, Process, Named, States
  <2>2. BarrierInv'
    BY <1>20 DEF ReturnsEarly, BaseType, BarrierInv, Before
  <2>3. ProcessFrame
    BY <1>20 DEF ReturnsEarly, BaseType, ProcessFrame, Settled, Before
  <2>4. AliveInv'
    BY <1>20 DEF ReturnsEarly, Alive, BaseType, AliveInv
  <2>. QED  BY <2>1, <2>2, <2>3, <2>4
<1>21. CASE Quit(i)
  <2>1. BaseType'
    BY <1>21 DEF Quit, BaseType, Process, Named, States
  <2>2. BarrierInv'
    BY <1>21 DEF Quit, BaseType, BarrierInv, Before
  <2>3. ProcessFrame
    BY <1>21 DEF Quit, BaseType, ProcessFrame, Settled, Before
  <2>4. AliveInv'
    BY <1>21 DEF Quit, Alive, BaseType, AliveInv
  <2>. QED  BY <2>1, <2>2, <2>3, <2>4
<1>22. CASE Dies(i)
  <2>1. BaseType'
    BY <1>22, BoundsAssumption DEF Dies, BaseType, Process, Named, States
  <2>2. BarrierInv'
    BY <1>22 DEF Dies, BaseType, BarrierInv, Before
  <2>3. ProcessFrame
    BY <1>22 DEF Dies, BaseType, ProcessFrame, Settled, Before
  <2>4. AliveInv'
    BY <1>22 DEF Dies, Alive, BaseType, AliveInv
  <2>. QED  BY <2>1, <2>2, <2>3, <2>4
<1>. QED
  BY <1>1, <1>2, <1>3, <1>4, <1>5, <1>6, <1>7, <1>8, <1>9, <1>10, <1>11,
     <1>12, <1>13, <1>14, <1>15, <1>16, <1>17, <1>18, <1>19, <1>20, <1>21,
     <1>22, <1>23
  DEF Processes, Stressor, OomableChild, Chance

\* The sets of instances the supervisor handles are finite.
LEMMA Finite ==
    ASSUME NEW S \in SUBSET Inst
    PROVE /\ IsFiniteSet(S) /\ Cardinality(S) \in Nat /\ Cardinality(Inst) \in Nat
          /\ Cardinality(S) <= Cardinality(Inst)
BY InstAssumption, FS_Subset, FS_CardinalityType

\* The invariant survives the steps of the stressor processes.
LEMMA ProcessesKeep ==
    ASSUME IndInv, NEW i \in Inst, Processes(i) PROVE IndInv'
<1>1. BaseType' /\ BarrierInv' /\ AliveInv' /\ ProcessFrame
  BY ProcessSteps DEF IndInv
<1>2. UNCHANGED mainVars
  BY MainUntouched
<1>3. ListInv'
  BY <1>2 DEF IndInv, ListInv, mainVars
<1>4. PollInv'
  BY <1>1, <1>2 DEF IndInv, PollInv, BaseType, ProcessFrame, mainVars
<1>5. CountInv'
  BY <1>1, <1>2 DEF IndInv, CountInv, BaseType, ProcessFrame, mainVars
<1>. QED  BY <1>1, <1>3, <1>4, <1>5 DEF IndInv

\* The invariant survives the steps of the supervisor.
LEMMA MainKeeps ==
    ASSUME IndInv, Main \/ UserStop PROVE IndInv'
<1>. USE DEF IndInv
<1>1. ASSUME NEW i \in Inst, Start(i) PROVE IndInv'
  <2>1. BaseType'
    BY <1>1 DEF Start, BaseType, Process, NewProcess, NoProcess, States, Named
  <2>2. BarrierInv'
    BY <1>1 DEF Start, BaseType, BarrierInv, Before, NewProcess, NoProcess
  <2>3. ListInv' /\ PollInv' /\ CountInv'
    BY <1>1 DEF Start, ListInv, PollInv, CountInv
  <2>4. AliveInv'
    BY <1>1 DEF Start, BaseType, AliveInv, Alive, NewProcess, NoProcess
  <2>. QED  BY <2>1, <2>2, <2>3, <2>4
<1>2. CASE StartEnds
  BY <1>2 DEF StartEnds, procVars, BaseType, BarrierInv, Before, AliveInv, Alive,
     ListInv, PollInv, CountInv
<1>3. ASSUME NEW i \in Inst, Poll(i) PROVE IndInv'
  <2>1. BaseType' /\ BarrierInv' /\ AliveInv' /\ ListInv' /\ CountInv'
    BY <1>3 DEF Poll, Visit, procVars, BaseType, BarrierInv, Before, AliveInv,
       Alive, ListInv, CountInv
  <2>2. PollInv'
    BY <1>3 DEF Poll, Visit, procVars, BaseType, PollInv
  <2>. QED  BY <2>1, <2>2
<1>4. CASE PollAgain
  BY <1>4 DEF PollAgain, procVars, BaseType, BarrierInv, Before, AliveInv, Alive,
     ListInv, PollInv, CountInv
<1>5. CASE PollDone
  <2>1. BaseType' /\ BarrierInv' /\ AliveInv' /\ ListInv' /\ PollInv'
    BY <1>5 DEF PollDone, procVars, BaseType, BarrierInv, Before, AliveInv,
       Alive, ListInv, PollInv
  <2>2. list' \ scan' = {} /\ Cardinality({}) = 0 /\ Cardinality(Inst) \in Nat
    BY <1>5, FS_EmptySet, Finite DEF PollDone
  <2>3. CountInv'
    BY <1>5, <2>2 DEF PollDone, CountInv
  <2>. QED  BY <2>1, <2>3
<1>6. ASSUME NEW i \in Inst, SendCont(i) PROVE IndInv'
  <2>1. BaseType'
    BY <1>6 DEF SendCont, Cont, BaseType, Process
  <2>2. BarrierInv' /\ \A j \in Inst : Settled(j) => Settled(j)'
    BY <1>6 DEF SendCont, Cont, BaseType, Process, BarrierInv, Before, Settled
  <2>5. AliveInv'
    BY <1>6 DEF SendCont, Cont, BaseType, Process, AliveInv, Alive
  <2>3. ListInv' /\ PollInv'
    BY <1>6 DEF SendCont, ListInv, PollInv
  <2>4. CountInv'
    BY <1>6, <2>2 DEF SendCont, CountInv, BaseType
  <2>. QED  BY <2>1, <2>2, <2>3, <2>4, <2>5
<1>7. ASSUME NEW i \in Inst, LoadState(i) PROVE IndInv'
  <2>1. BaseType' /\ BarrierInv' /\ AliveInv' /\ ListInv' /\ PollInv'
    BY <1>7 DEF LoadState, Visit, procVars, BaseType, BarrierInv, Before, AliveInv,
       Alive, ListInv, PollInv
  <2>. DEFINE seen == list \ scan
  <2>2. i \in list /\ i \notin seen /\ list' \ scan' = seen \cup {i} /\ seen \subseteq Inst
    BY <1>7 DEF LoadState, Visit, BaseType
  <2>3. Cardinality(seen) \in Nat /\ Cardinality(seen \cup {i}) = Cardinality(seen) + 1
    BY <2>2, FS_AddElement, Finite
  <2>4. Cardinality(seen \cup {i}) <= Cardinality(Inst) /\ Cardinality(Inst) \in Nat
    BY <2>2, Finite
  <2>5. state[i] \in {"RUNNING", "FINISHED"} => Settled(i)
    BY DEF BarrierInv, Settled
  <2>6. up <= Cardinality(seen)
        /\ (up = Cardinality(seen) => \A j \in seen : Settled(j))
    BY <1>7 DEF LoadState, CountInv
  <2>7. \A j \in Inst : Settled(j)' = Settled(j)
    BY <1>7 DEF LoadState, Settled, Before, procVars
  <2>8. up' <= Cardinality(seen \cup {i})
        /\ (up' = Cardinality(seen \cup {i}) => \A j \in seen \cup {i} : Settled(j))
    BY <1>7, <2>3, <2>5, <2>6 DEF LoadState, BaseType
  <2>9. CountInv'
    <3>1. up' <= Cardinality(Inst)'
      BY <1>7, <2>1, <2>3, <2>4, <2>8 DEF BaseType
    <3>. QED  BY <1>7, <2>2, <2>7, <2>8, <3>1 DEF LoadState, CountInv
  <2>. QED  BY <2>1, <2>9
<1>8. CASE ContAgain
  <2>1. BaseType' /\ BarrierInv' /\ AliveInv' /\ ListInv' /\ PollInv'
    BY <1>8 DEF ContAgain, procVars, BaseType, BarrierInv, Before, AliveInv,
       Alive, ListInv, PollInv
  <2>2. list' \ scan' = {} /\ Cardinality({}) = 0 /\ Cardinality(Inst) \in Nat
    BY <1>8, FS_EmptySet, Finite DEF ContAgain
  <2>3. CountInv'
    BY <1>8, <2>2 DEF ContAgain, CountInv
  <2>. QED  BY <2>1, <2>3
<1>9. CASE ContDone
  <2>1. BaseType' /\ BarrierInv' /\ AliveInv' /\ ListInv' /\ PollInv'
    BY <1>9 DEF ContDone, procVars, BaseType, BarrierInv, Before, AliveInv,
       Alive, ListInv, PollInv
  <2>2. list \ scan = list
    BY <1>9 DEF ContDone
  <2>3. CountInv'
    BY <1>9, <2>2 DEF ContDone, procVars, CountInv, ListInv, Settled, Before
  <2>. QED  BY <2>1, <2>3
<1>10. CASE WaitDone
  <2>1. CASE run < Runs /\ mflag
    <3>1. BaseType'
      BY <1>10, <2>1, BoundsAssumption DEF WaitDone, procVars, BaseType
    <3>2. BarrierInv' /\ ListInv' /\ PollInv' /\ CountInv'
      BY <1>10, <2>1 DEF WaitDone, procVars, BarrierInv, Before, ListInv, PollInv, CountInv
    <3>3. AliveInv'
      BY <1>10, <2>1 DEF WaitDone, procVars, AliveInv, Alive, ListInv
    <3>. QED  BY <3>1, <3>2, <3>3
  <2>2. CASE ~(run < Runs /\ mflag)
    <3>1. BaseType'
      BY <1>10, <2>2 DEF WaitDone, procVars, BaseType
    <3>2. BarrierInv' /\ ListInv' /\ PollInv' /\ CountInv' /\ AliveInv'
      BY <1>10, <2>2 DEF WaitDone, procVars, BarrierInv, Before, ListInv, PollInv, CountInv,
         AliveInv, Alive
    <3>. QED  BY <3>1, <3>2
  <2>. QED  BY <2>1, <2>2
<1>11. CASE UserStop
  BY <1>11 DEF UserStop, procVars, BaseType, BarrierInv, Before, AliveInv, Alive,
     ListInv, PollInv, CountInv,
     Settled
<1>. QED
  BY <1>1, <1>2, <1>3, <1>4, <1>5, <1>6, <1>7, <1>8, <1>9, <1>10, <1>11 DEF Main

\* IndInv holds in every reachable state.
THEOREM Inductive == Spec => []IndInv
<1>1. Init => IndInv
  <2>. SUFFICES ASSUME Init PROVE IndInv
    OBVIOUS
  <2>1. Cardinality(Inst) \in Nat
    BY Finite
  <2>2. BaseType
    <3>1. NoProcess \in Process
      BY DEF NoProcess, Process, Named
    <3>2. parent \in [Inst -> Process] /\ child \in [Inst -> Process]
      BY <3>1 DEF Init
    <3>3. state \in [Inst -> States] /\ oomable \in [Inst -> Named \ {"parent"}]
      BY DEF Init, States, Named
    <3>4. run \in 1..Runs /\ deaths \in 0..MaxDeaths
      BY BoundsAssumption DEF Init
    <3>. QED  BY <3>2, <3>3, <3>4 DEF Init, BaseType
  <2>3. BarrierInv /\ AliveInv
    BY DEF Init, BarrierInv, Before, AliveInv, Alive, NoProcess
  <2>4. ListInv /\ PollInv /\ CountInv
    BY <2>1 DEF Init, ListInv, PollInv, CountInv
  <2>. QED  BY <2>2, <2>3, <2>4 DEF IndInv
<1>2. IndInv /\ [Next]_vars => IndInv'
  <2>. SUFFICES ASSUME IndInv, [Next]_vars PROVE IndInv'
    OBVIOUS
  <2>1. CASE Main \/ UserStop
    BY <2>1, MainKeeps
  <2>2. ASSUME NEW i \in Inst, Processes(i) PROVE IndInv'
    BY <2>2, ProcessesKeep
  <2>3. CASE UNCHANGED vars
    BY <2>3 DEF vars, mainVars, procVars, IndInv, BaseType, ListInv, PollInv, BarrierInv,
       AliveInv, Alive, CountInv, Before, Settled
  <2>. QED  BY <2>1, <2>2, <2>3 DEF Next, Processes
<1>. QED  BY <1>1, <1>2, PTL DEF Spec

\* Every reachable state of the start-up protocol is well typed; in particular
\* the count of running and finished stressors never exceeds their number.
THEOREM TypeCorrect == Spec => []TypeOK
<1>1. IndInv => TypeOK
  BY Finite DEF IndInv, BaseType, CountInv, TypeOK
<1>. QED  BY <1>1, Inductive, PTL

\* When stress_sync_start_cont_list returns, and nobody asked to stop, no
\* stressor that waits in its own process is left stopped.
THEOREM AllWoken == Spec => []NoneLeftStopped
<1>1. IndInv => NoneLeftStopped
  BY DEF IndInv, BarrierInv, CountInv, Settled, Before, NoneLeftStopped
<1>. QED  BY <1>1, Inductive, PTL

\* A process of instance i was stopped and is so no more.
Released(i) ==
    Continued(parent[i], parent'[i]) \/ Continued(child[i], child'[i])

\* No step of a stressor process or of its child continues a stopped process.
LEMMA OnlyMainReleases ==
    ASSUME BaseType, AliveInv, NEW i \in Inst, NEW k \in Inst, Processes(k)
    PROVE ~Released(i)
<1>. USE DEF Released, Continued, Alive, BaseType, Process, At, Goto, NoProcess, NewProcess
<1>1. CASE ParentReadPid(k)
  BY <1>1 DEF ParentReadPid, ReadPid
<1>2. CASE ParentStore(k)
  BY <1>2 DEF ParentStore
<1>3. CASE ParentStop(k)
  BY <1>3 DEF ParentStop, Stop, Alive, AliveInv
<1>4. CASE ParentWoken(k)
  BY <1>4 DEF ParentWoken
<1>5. CASE ParentInside(k)
  BY <1>5 DEF ParentInside
<1>6. CASE ForkChild(k)
  BY <1>6 DEF ForkChild
<1>7. CASE PublishChild(k)
  BY <1>7 DEF PublishChild
<1>8. CASE ReapChild(k)
  BY <1>8 DEF ReapChild
<1>9. CASE ParentAlarm(k)
  BY <1>9 DEF ParentAlarm
<1>10. CASE ParentEnds(k)
  BY <1>10 DEF ParentEnds
<1>11. CASE Finish(k)
  BY <1>11 DEF Finish
<1>12. CASE ChildReadPid(k)
  BY <1>12 DEF ChildReadPid, ReadPid
<1>13. CASE ChildStore(k)
  BY <1>13 DEF ChildStore
<1>14. CASE ChildStop(k)
  BY <1>14 DEF ChildStop, Stop, Alive, AliveInv
<1>15. CASE ChildWoken(k)
  BY <1>15 DEF ChildWoken
<1>16. CASE ChildGoes(k)
  BY <1>16 DEF ChildGoes
<1>17. CASE ChildEnds(k)
  BY <1>17 DEF ChildEnds
<1>23. CASE ChildQuits(k)
  BY <1>23 DEF ChildQuits
<1>18. CASE ParentGivesUp(k)
  BY <1>18 DEF ParentGivesUp
<1>19. CASE ChildOomed(k)
  BY <1>19 DEF ChildOomed
<1>20. CASE ReturnsEarly(k)
  BY <1>20 DEF ReturnsEarly
<1>21. CASE Quit(k)
  BY <1>21 DEF Quit
<1>22. CASE Dies(k)
  BY <1>22 DEF Dies
<1>. QED
  BY <1>1, <1>2, <1>3, <1>4, <1>5, <1>6, <1>7, <1>8, <1>9, <1>10, <1>11,
     <1>12, <1>13, <1>14, <1>15, <1>16, <1>17, <1>18, <1>19, <1>20, <1>21,
     <1>22, <1>23
  DEF Processes, Stressor, OomableChild, Chance

\* No process is continued before every instance has reached the barrier,
\* unless the run is being stopped.
THEOREM StartedTogether == Spec => ReleasedTogether
<1>1. IndInv /\ [Next]_vars =>
        [\A i \in Inst : Released(i) => ~mflag \/ \A j \in Inst : Reached(j)]_vars
  <2>. SUFFICES ASSUME IndInv, Next, NEW i \in Inst, Released(i), mflag
                PROVE \A j \in Inst : Reached(j)
    OBVIOUS
  <2>1. ASSUME NEW k \in Inst, SendCont(k) PROVE \A j \in Inst : Reached(j)
    BY <2>1 DEF SendCont, IndInv, ListInv, PollInv, Reached
  <2>2. ASSUME NEW k \in Inst, Start(k) PROVE FALSE
    BY <2>2 DEF Start, IndInv, BaseType, AliveInv, Alive, Released, Continued
  <2>3. ASSUME NEW k \in Inst, Processes(k) PROVE FALSE
    BY <2>3, OnlyMainReleases DEF IndInv
  <2>4. ASSUME UNCHANGED procVars PROVE FALSE
    BY <2>4 DEF procVars, Released, Continued
  <2>. QED
    BY <2>1, <2>2, <2>3, <2>4 DEF Next, Main, Processes, StartEnds, Poll, PollAgain, PollDone,
       LoadState, ContAgain, ContDone, WaitDone, UserStop
<1>. QED  BY <1>1, Inductive, PTL DEF Spec, ReleasedTogether, Released
=============================================================================
