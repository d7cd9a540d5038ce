------------------------- MODULE BogoMetricsProofs -------------------------
(***************************************************************************)
(* Proofs about BogoMetrics for any list of stressors, any plan of runs,    *)
(* any number of bogo-ops and of mishaps.                                   *)
(***************************************************************************)
EXTENDS BogoMetrics, TLAPS

LEMMA MishapType ==
    ASSUME TypeOK, Mishap \/ mishaps' = mishaps
    PROVE  mishaps' \in 0..MaxMishaps
  <1>1. MaxMishaps \in Nat /\ mishaps \in 0..MaxMishaps
      BY OptionsAssumption DEF TypeOK
  <1> QED
      BY <1>1 DEF Mishap

\* torn stays a set of instances.
LEMMA TornType ==
    ASSUME TypeOK, Next
    PROVE  torn' \subseteq Inst
  <1>1. torn \subseteq Inst
      BY DEF TypeOK
  <1>2. torn' = torn \/ torn' = torn \ {next} \/ \E i \in Inst : torn' \subseteq torn \cup {i}
      <2>1. CASE MainStep
          BY <2>1 DEF MainStep, Skip, Fork, ForkedGoOn, ForkedStopped, StopSeen, AllStarted, AllReaped,
                      stress_metrics_check, NextRun, Reset, history
      <2>2. CASE ForkFails \/ Stop \/ Ended
          BY <2>2 DEF ForkFails, Stop, Ended, Reset, history, vars
      <2>3. ASSUME NEW i \in Inst, ChildStep(i)
            PROVE  torn' \subseteq torn \cup {i}
          BY <2>3 DEF ChildStep, ChildBegin, IncCount, IncReady, StressorReturns, Completed, RunOk,
                      SumOk, Judge, SumCounter, SumHash, history
      <2>4. ASSUME NEW i \in Inst,
                   \/ Alarm(i) \/ ChildSkips(i) \/ IncNotReady(i) \/ StressorInterrupted(i)
                   \/ ChildKilled(i) \/ Fault(i)
            PROVE  torn' \subseteq torn \cup {i}
          BY <2>4 DEF Alarm, ChildSkips, IncNotReady, StressorInterrupted, ChildKilled, Fault, history
      <2>5. ASSUME NEW i \in Inst,
                   \/ WrapperStep(i) \/ WorkerIncs(i) \/ WorkerExits(i) \/ WorkerDies(i)
                   \/ WorkerStuck(i) \/ WorkerWakes(i)
            PROVE  torn' \subseteq torn \cup {i}
          BY <2>5 DEF WrapperStep, Again, WaitReturns, WaitInterrupted, GiveUp, WorkerIncs,
                      WorkerExits, WorkerDies, WorkerStuck, WorkerWakes, Torn, history
      <2> QED
          BY <2>1, <2>2, <2>3, <2>4, <2>5 DEF Next
  <1> QED
      BY <1>1, <1>2

\* A step of one instance leaves main and the other instances alone.
OnlyAt(i) ==
    /\ UNCHANGED mainVars
    /\ \A j \in Inst \ {i} :
          /\ kid'[j] = kid[j] /\ worker'[j] = worker[j] /\ bogo'[j] = bogo[j] /\ sum'[j] = sum[j]
          /\ pub'[j] = pub[j] /\ (j \in hit' <=> j \in hit) /\ (j \in outlived' <=> j \in outlived)
          /\ (j \in oomed' <=> j \in oomed)

\* An instance of which nothing changes keeps its part of the invariant.
LEMMA Untouched ==
    ASSUME NEW j \in Inst, InstInv(j),
           kid'[j] = kid[j], worker'[j] = worker[j], bogo'[j] = bogo[j], sum'[j] = sum[j],
           slot'[j] = slot[j], pub'[j] = pub[j], j \in hit' <=> j \in hit,
           j \in outlived' <=> j \in outlived, j \in oomed' <=> j \in oomed
    PROVE  InstInv(j)'
  <1>1. StageInv(j)' /\ WorkerInv(j)'
      BY DEF InstInv, StageInv, WorkerInv
  <1>2. CountInv(j)'
      BY DEF InstInv, CountInv
  <1>3. CopyInv(j)'
      BY DEF InstInv, CopyInv
  <1>4. HashInv(j)'
      BY DEF InstInv, HashInv
  <1>5. OomInv(j)'
      BY DEF InstInv, OomInv
  <1> QED
      BY <1>1, <1>2, <1>3, <1>4, <1>5 DEF InstInv

\* A step of a process of instance i: what it must show is its own part.
LEMMA Local ==
    ASSUME IndInv, NEW i \in Inst, TypeOK', OnlyAt(i), InstInv(i)',
           kid'[i].pc = "none" <=> kid[i].pc = "none",
           (pub' = pub /\ hit' = hit /\ outlived \subseteq outlived') \/ ~Checked
    PROVE  IndInv'
  <1>1. UNCHANGED <<run, mpc, next, contin, pos, slot, reported>>
      BY DEF OnlyAt, mainVars
  <1>2. \A j \in Inst : InstInv(j)'
      <2>1. ASSUME NEW j \in Inst, j # i PROVE InstInv(j)'
          <3>1. /\ kid'[j] = kid[j] /\ worker'[j] = worker[j] /\ bogo'[j] = bogo[j]
                /\ sum'[j] = sum[j] /\ slot'[j] = slot[j] /\ pub'[j] = pub[j]
                /\ (j \in hit' <=> j \in hit) /\ (j \in outlived' <=> j \in outlived)
                /\ (j \in oomed' <=> j \in oomed)
              BY <1>1, <2>1 DEF OnlyAt
          <3>2. InstInv(j)
              BY DEF IndInv
          <3> QED
              BY <3>1, <3>2, Untouched
      <2> QED
          BY <2>1
  <1>3. \A j \in Inst : kid'[j].pc = "none" <=> kid[j].pc = "none"
      BY DEF OnlyAt
  <1>4. MainInv'
      BY <1>1, <1>3 DEF IndInv, MainInv
  <1>5. CorruptionReported' /\ AlarmsExplained'
      BY <1>1 DEF IndInv, CorruptionReported, AlarmsExplained, Checked
  <1> QED
      BY <1>2, <1>4, <1>5 DEF IndInv

\* The steps of the stressor process up to the return of the stressor.
LEMMA CountingSteps ==
    ASSUME IndInv, torn' \subseteq Inst, NEW i \in Inst,
           \/ ChildBegin(i) \/ IncNotReady(i) \/ IncCount(i) \/ IncReady(i) \/ StressorInterrupted(i)
           \/ ChildSkips(i) \/ StressorReturns(i)
    PROVE  IndInv'
  <1> USE DEF other, mainVars, history
  <1>t. TypeOK /\ InstInv(i) /\ MainInv
      BY DEF IndInv
  <1>a. /\ StageInv(i) /\ WorkerInv(i) /\ CountInv(i) /\ CopyInv(i) /\ HashInv(i)
        /\ OomInv(i)
      BY <1>t DEF InstInv
  <1>i. /\ kid \in [Inst -> KidType] /\ worker \in [Inst -> WorkerType]
        /\ bogo \in [Inst -> BogoType] /\ sum \in [Inst -> SumType]
        /\ pub \in [Inst -> {"no", "begun", "full"}]
      BY <1>t DEF TypeOK
  <1>n. MaxOps \in Nat /\ MaxOps > 0
      BY OptionsAssumption
  <1>m. bogo[i].counter \in Nat /\ sum[i].counter \in Nat
      BY <1>i, <1>n DEF BogoType, SumType
  <1>1. CASE IncNotReady(i)
      <2>p. kid[i].pc = "stress" /\ bogo[i].counter < MaxOps
          BY <1>a, <1>m, <1>1 DEF IncNotReady, Kid, stress_continue
      <2>1. /\ kid' = [kid EXCEPT ![i] = [kid[i] EXCEPT !.pc = "not ready"]]
            /\ bogo' = [bogo EXCEPT ![i] = [bogo[i] EXCEPT !.ready = FALSE]]
            /\ UNCHANGED <<mainVars, mishaps, told, halted, worker, sum, pub, hit, outlived, oomed>>
          BY <1>i, <1>a, <2>p, <1>1 DEF IncNotReady, Kid, stress_continue
      <2>2. /\ kid'[i].pc = "not ready" /\ kid'[i].rc = kid[i].rc /\ kid'[i].idx = kid[i].idx
            /\ bogo'[i].ready = FALSE /\ bogo'[i].counter = bogo[i].counter
            /\ bogo'[i].ok = bogo[i].ok /\ bogo'[i].force = bogo[i].force
            /\ bogo'[i].completed = bogo[i].completed /\ bogo'[i].oom = bogo[i].oom
            /\ UNCHANGED <<slot, worker, sum, pub, hit, outlived, oomed>>
          BY <1>i, <2>1 DEF KidType, BogoType
      <2>3. OnlyAt(i)
          BY <1>i, <2>1 DEF OnlyAt
      <2>4. TypeOK'
          <3>1. kid' \in [Inst -> KidType]
              BY <1>i, <2>p, <2>1 DEF KidType, KidPc
          <3>2. bogo' \in [Inst -> BogoType]
              BY <1>i, <2>p, <2>1 DEF BogoType
          <3> QED
              BY <1>t, <2>1, <3>1, <3>2 DEF TypeOK
      <2>5. StageInv(i)'
          BY <1>a, <2>p, <2>2 DEF StageInv, Working, Publishing
      <2>6. WorkerInv(i)'
          BY <1>a, <2>p, <2>2 DEF WorkerInv
      <2>7. CountInv(i)'
          <3> DEFINE c == bogo[i].counter
          <3>1. c \in Nat /\ c < MaxOps
              BY <1>a, <1>m, <2>p, <2>2 DEF CountInv, WorkerInv, StageInv, Working
          <3>2. bogo'[i].counter = c
              BY <1>a, <2>p, <2>2 DEF WorkerInv
          <3> HIDE DEF c
          <3>3. c <= MaxOps /\ c <= MaxOps + 1
              BY <1>n, <3>1
          <3> QED
              BY <1>a, <2>p, <2>2, <3>2, <3>3 DEF CountInv
      <2>8. CopyInv(i)'
          BY <1>a, <1>m, <2>p, <2>2 DEF CopyInv, StageInv, Working, Publishing
      <2>9. HashInv(i)'
          BY <1>a, <1>m, <2>p, <2>2 DEF HashInv, StageInv, Working, Publishing
      <2>11. OomInv(i)'
          BY <1>a, <2>p, <2>2 DEF OomInv
      <2>12. InstInv(i)'
          BY <2>5, <2>6, <2>7, <2>8, <2>9, <2>11 DEF InstInv
      <2> QED
          BY <1>t, <2>p, <2>2, <2>3, <2>4, <2>12, Local DEF Checked, MainInv
  <1>2. CASE IncCount(i)
      <2>p. kid[i].pc = "not ready" /\ i \notin hit /\ bogo[i].counter < MaxOps
          BY <1>a, <1>m, <1>2 DEF IncCount, Kid, CountInv, WorkerInv, StageInv, Working
      <2>1. /\ kid' = [kid EXCEPT ![i] = [kid[i] EXCEPT !.pc = "counted"]]
            /\ bogo' = [bogo EXCEPT ![i] = [bogo[i] EXCEPT !.counter = bogo[i].counter + 1]]
            /\ UNCHANGED <<mainVars, mishaps, told, halted, worker, sum, pub, hit, outlived, oomed>>
          BY <1>i, <1>a, <2>p, <1>2 DEF IncCount, Kid, CountInv, WorkerInv, StageInv, Working
      <2>2. /\ kid'[i].pc = "counted" /\ kid'[i].rc = kid[i].rc /\ kid'[i].idx = kid[i].idx
            /\ bogo'[i].ready = bogo[i].ready /\ bogo'[i].counter = bogo[i].counter + 1
            /\ bogo'[i].ok = bogo[i].ok /\ bogo'[i].force = bogo[i].force
            /\ bogo'[i].completed = bogo[i].completed /\ bogo'[i].oom = bogo[i].oom
            /\ UNCHANGED <<slot, worker, sum, pub, hit, outlived, oomed>>
          BY <1>i, <2>1 DEF KidType, BogoType
      <2>3. OnlyAt(i)
          BY <1>i, <2>1 DEF OnlyAt
      <2>4. TypeOK'
          <3>1. bogo[i].counter + 1 \in 0..(MaxOps + 2)
              <4> DEFINE c == bogo[i].counter
              <4>1. c \in Nat /\ c < MaxOps
                  BY <1>m, <2>p
              <4> HIDE DEF c
              <4>2. c + 1 \in 0..(MaxOps + 2)
                  BY <1>n, <4>1
              <4> QED
                  BY <4>2 DEF c
          <3>2. kid' \in [Inst -> KidType]
              BY <1>i, <2>p, <2>1, <3>1 DEF KidType, KidPc
          <3>3. bogo' \in [Inst -> BogoType]
              BY <1>i, <2>p, <2>1, <3>1 DEF BogoType
          <3> QED
              BY <1>t, <2>1, <3>1, <3>2, <3>3 DEF TypeOK
      <2>5. StageInv(i)'
          BY <1>a, <2>p, <2>2 DEF StageInv, Working, Publishing
      <2>6. WorkerInv(i)'
          BY <1>a, <2>p, <2>2 DEF WorkerInv
      <2>7. CountInv(i)'
          <3> DEFINE c == bogo[i].counter
          <3>1. c \in Nat /\ c < MaxOps
              BY <1>a, <1>m, <2>p, <2>2 DEF CountInv, WorkerInv, StageInv, Working
          <3>2. bogo'[i].counter = c + 1 /\ worker[i].at # "not ready"
              BY <1>a, <2>p, <2>2 DEF WorkerInv
          <3> HIDE DEF c
          <3>3. c + 1 <= MaxOps /\ c + 1 <= MaxOps + 1
              BY <1>n, <3>1
          <3> QED
              BY <1>a, <2>p, <2>2, <3>2, <3>3 DEF CountInv
      <2>8. CopyInv(i)'
          BY <1>a, <1>m, <2>p, <2>2 DEF CopyInv, StageInv, Working, Publishing
      <2>9. HashInv(i)'
          BY <1>a, <1>m, <2>p, <2>2 DEF HashInv, StageInv, Working, Publishing
      <2>11. OomInv(i)'
          BY <1>a, <2>p, <2>2 DEF OomInv
      <2>12. InstInv(i)'
          BY <2>5, <2>6, <2>7, <2>8, <2>9, <2>11 DEF InstInv
      <2> QED
          BY <1>t, <2>p, <2>2, <2>3, <2>4, <2>12, Local DEF Checked, MainInv
  <1>3. CASE IncReady(i)
      <2>p. kid[i].pc = "counted"
          BY <1>a, <1>m, <1>3 DEF IncReady, Kid
      <2>1. /\ kid' = [kid EXCEPT ![i] = [kid[i] EXCEPT !.pc = "stress"]]
            /\ bogo' = [bogo EXCEPT ![i] = [bogo[i] EXCEPT !.ready = TRUE]]
            /\ UNCHANGED <<mainVars, mishaps, told, halted, worker, sum, pub, hit, outlived, oomed>>
          BY <1>i, <1>a, <2>p, <1>3 DEF IncReady, Kid
      <2>2. /\ kid'[i].pc = "stress" /\ kid'[i].rc = kid[i].rc /\ kid'[i].idx = kid[i].idx
            /\ bogo'[i].ready = TRUE /\ bogo'[i].counter = bogo[i].counter
            /\ bogo'[i].ok = bogo[i].ok /\ bogo'[i].force = bogo[i].force
            /\ bogo'[i].completed = bogo[i].completed /\ bogo'[i].oom = bogo[i].oom
            /\ UNCHANGED <<slot, worker, sum, pub, hit, outlived, oomed>>
          BY <1>i, <2>1 DEF KidType, BogoType
      <2>3. OnlyAt(i)
          BY <1>i, <2>1 DEF OnlyAt
      <2>4. TypeOK'
          <3>1. kid' \in [Inst -> KidType]
              BY <1>i, <2>p, <2>1 DEF KidType, KidPc
          <3>2. bogo' \in [Inst -> BogoType]
              BY <1>i, <2>p, <2>1 DEF BogoType
          <3> QED
              BY <1>t, <2>1, <3>1, <3>2 DEF TypeOK
      <2>5. StageInv(i)'
          BY <1>a, <2>p, <2>2 DEF StageInv, Working, Publishing
      <2>6. WorkerInv(i)'
          BY <1>a, <2>p, <2>2 DEF WorkerInv
      <2>7. CountInv(i)'
          BY <1>a, <1>m, <2>p, <2>2 DEF CountInv
      <2>8. CopyInv(i)'
          BY <1>a, <1>m, <2>p, <2>2 DEF CopyInv, StageInv, Working, Publishing
      <2>9. HashInv(i)'
          BY <1>a, <1>m, <2>p, <2>2 DEF HashInv, StageInv, Working, Publishing
      <2>11. OomInv(i)'
          BY <1>a, <2>p, <2>2 DEF OomInv
      <2>12. InstInv(i)'
          BY <2>5, <2>6, <2>7, <2>8, <2>9, <2>11 DEF InstInv
      <2> QED
          BY <1>t, <2>p, <2>2, <2>3, <2>4, <2>12, Local DEF Checked, MainInv
  <1>4. ASSUME NEW g \in BOOLEAN, Mishap, kid[i].pc \in {"not ready", "counted"},
               kid' = [kid EXCEPT ![i].pc = "ended"],
               bogo' = [bogo EXCEPT ![i].force = g],
               UNCHANGED <<mainVars, told, halted, sum, worker, pub, hit, outlived, oomed>>
        PROVE  IndInv'
      <2>p. kid[i].pc \in {"not ready", "counted"}
          BY <1>i, <1>4 DEF StressorInterrupted, BogoType
      <2>1. /\ kid' = [kid EXCEPT ![i] = [kid[i] EXCEPT !.pc = "ended"]]
            /\ bogo' = [bogo EXCEPT ![i] = [bogo[i] EXCEPT !.force = g]]
            /\ UNCHANGED <<mainVars, told, halted, worker, sum, pub, hit, outlived, oomed>>
          BY <1>i, <1>a, <2>p, <1>4 DEF StressorInterrupted, BogoType
      <2>2. /\ kid'[i].pc = "ended" /\ kid'[i].rc = kid[i].rc /\ kid'[i].idx = kid[i].idx
            /\ bogo'[i].ready = bogo[i].ready /\ bogo'[i].counter = bogo[i].counter
            /\ bogo'[i].ok = bogo[i].ok /\ bogo'[i].force = g
            /\ bogo'[i].completed = bogo[i].completed /\ bogo'[i].oom = bogo[i].oom
            /\ UNCHANGED <<slot, worker, sum, pub, hit, outlived, oomed>>
          BY <1>i, <2>1 DEF KidType, BogoType
      <2>3. OnlyAt(i)
          BY <1>i, <2>1 DEF OnlyAt
      <2>4. TypeOK'
          <3>1. mishaps' \in 0..MaxMishaps
              BY <1>t, <1>4, MishapType DEF StressorInterrupted, MishapIf, Mishap
          <3>2. kid' \in [Inst -> KidType]
              BY <1>i, <2>p, <2>1 DEF KidType, KidPc
          <3>3. bogo' \in [Inst -> BogoType]
              BY <1>i, <2>p, <2>1 DEF BogoType
          <3> QED
              BY <1>t, <2>1, <3>1, <3>2, <3>3 DEF TypeOK
      <2>5. StageInv(i)'
          BY <1>a, <2>p, <2>2 DEF StageInv, Working, Publishing
      <2>6. WorkerInv(i)'
          BY <1>a, <2>p, <2>2 DEF WorkerInv
      <2>7. CountInv(i)'
          BY <1>a, <1>m, <2>p, <2>2 DEF CountInv
      <2>8. CopyInv(i)'
          BY <1>a, <1>m, <2>p, <2>2 DEF CopyInv, StageInv, Working, Publishing
      <2>9. HashInv(i)'
          BY <1>a, <1>m, <2>p, <2>2 DEF HashInv, StageInv, Working, Publishing
      <2>11. OomInv(i)'
          BY <1>a, <2>p, <2>2 DEF OomInv
      <2>12. InstInv(i)'
          BY <2>5, <2>6, <2>7, <2>8, <2>9, <2>11 DEF InstInv
      <2> QED
          BY <1>t, <2>p, <2>2, <2>3, <2>4, <2>12, Local DEF Checked, MainInv
  <1>5. CASE ChildBegin(i)
      <2> DEFINE q == IF i \in Wrapped THEN "again" ELSE "stress"
      <2>p. kid[i].pc = "born" /\ slot[i] = i /\ i \notin hit
          BY <1>a, <1>m, <1>5 DEF ChildBegin, Kid, StageInv, Working
      <2>1. /\ kid' = [kid EXCEPT ![i] = [kid[i] EXCEPT !.pc = q]]
            /\ bogo' = [bogo EXCEPT ![i] = [bogo[i] EXCEPT !.counter = 0, !.oom = FALSE]]
            /\ sum' = [sum EXCEPT ![i] = NoSum]
            /\ UNCHANGED <<mainVars, mishaps, told, worker, pub, hit, outlived, oomed>>
          BY <1>i, <1>a, <2>p, <1>5 DEF ChildBegin, Kid, StageInv, Working
      <2>g. /\ 0 \in 0..(MaxOps + 2) /\ q \in KidPc /\ NoSum \in SumType
            /\ q \in {"again", "stress"} /\ (q = "again" <=> i \in Wrapped)
          BY <1>n DEF KidPc, NoSum, SumType, HashType
      <2> HIDE DEF q
      <2>2. /\ kid'[i].pc = q /\ kid'[i].rc = kid[i].rc /\ kid'[i].idx = kid[i].idx
            /\ bogo'[i].ready = bogo[i].ready /\ bogo'[i].counter = 0 /\ bogo'[i].ok = bogo[i].ok
            /\ bogo'[i].force = bogo[i].force /\ bogo'[i].completed = bogo[i].completed
            /\ bogo'[i].oom = FALSE /\ sum'[i] = NoSum
            /\ UNCHANGED <<slot, worker, pub, hit, outlived, oomed>>
          BY <1>i, <2>1 DEF KidType, BogoType, SumType
      <2>3. OnlyAt(i)
          BY <1>i, <2>1 DEF OnlyAt
      <2>4. TypeOK'
          <3>1. kid' \in [Inst -> KidType]
              BY <1>i, <2>p, <2>1, <2>g DEF KidType
          <3>2. bogo' \in [Inst -> BogoType]
              BY <1>i, <2>p, <2>1, <2>g DEF BogoType
          <3>3. sum' \in [Inst -> SumType]
              BY <1>i, <2>p, <2>1, <2>g DEF SumType
          <3> QED
              BY <1>t, <2>1, <3>1, <3>2, <3>3, <1>5 DEF TypeOK, ChildBegin
      <2>5. StageInv(i)'
          BY <1>a, <2>p, <2>2, <2>g DEF StageInv, Working, Publishing
      <2>6. WorkerInv(i)'
          BY <1>a, <2>p, <2>2, <2>g DEF WorkerInv
      <2>7. CountInv(i)'
          <3>1. 0 <= MaxOps /\ 0 <= MaxOps + 1 /\ 0 < MaxOps
              BY <1>n
          <3>2. bogo'[i].counter = 0 /\ sum'[i].counter = 0
              BY <2>2 DEF NoSum
          <3> QED
              BY <3>1, <3>2 DEF CountInv
      <2>8. CopyInv(i)'
          BY <1>a, <1>m, <2>p, <2>2, <2>g DEF CopyInv, StageInv, Working, Publishing
      <2>9. HashInv(i)'
          BY <1>a, <1>m, <2>p, <2>2, <2>g DEF HashInv, StageInv, Working, Publishing
      <2>11. OomInv(i)'
          BY <1>a, <2>p, <2>2, <2>g DEF OomInv
      <2>12. InstInv(i)'
          BY <2>5, <2>6, <2>7, <2>8, <2>9, <2>11 DEF InstInv
      <2> QED
          BY <1>t, <2>p, <2>2, <2>3, <2>4, <2>12, <2>g, Local DEF Checked, MainInv
  <1>6. ASSUME NEW rc \in {SUCCESS, FAILURE}, kid[i].pc = "born", MishapIf(rc # SUCCESS),
               kid' = [kid EXCEPT ![i].pc = "exited", ![i].rc = rc],
               UNCHANGED <<mainVars, told, halted, bogo, sum, worker, history>>
        PROVE  IndInv'
      <2>p. kid[i].pc = "born"
          BY <1>a, <1>m, <1>6 DEF ChildSkips
      <2>1. /\ kid' = [kid EXCEPT ![i] = [kid[i] EXCEPT !.pc = "exited", !.rc = rc]]
            /\ UNCHANGED <<mainVars, told, halted, worker, bogo, sum, pub, hit, outlived, oomed>>
          BY <1>i, <1>a, <2>p, <1>6 DEF ChildSkips
      <2>2. /\ kid'[i].pc = "exited" /\ kid'[i].rc = rc /\ kid'[i].idx = kid[i].idx
            /\ UNCHANGED <<slot, worker, bogo, sum, pub, hit, outlived, oomed>>
          BY <1>i, <2>1 DEF KidType
      <2>3. OnlyAt(i)
          BY <1>i, <2>1 DEF OnlyAt
      <2>4. TypeOK'
          <3>1. mishaps' \in 0..MaxMishaps
              BY <1>t, <1>6, MishapType DEF ChildSkips, MishapIf, Mishap
          <3>2. kid' \in [Inst -> KidType]
              BY <1>i, <2>p, <2>1 DEF KidType, KidPc
          <3> QED
              BY <1>t, <2>1, <3>1, <3>2 DEF TypeOK
      <2>5. StageInv(i)'
          BY <1>a, <2>p, <2>2 DEF StageInv, Working, Publishing
      <2>6. WorkerInv(i)'
          BY <1>a, <2>p, <2>2 DEF WorkerInv
      <2>7. CountInv(i)'
          BY <1>a, <1>m, <2>p, <2>2 DEF CountInv
      <2>8. CopyInv(i)'
          BY <1>a, <1>m, <2>p, <2>2 DEF CopyInv, StageInv, Working, Publishing
      <2>9. HashInv(i)'
          BY <1>a, <1>m, <2>p, <2>2 DEF HashInv, StageInv, Working, Publishing
      <2>11. OomInv(i)'
          BY <1>a, <2>p, <2>2 DEF OomInv
      <2>12. InstInv(i)'
          BY <2>5, <2>6, <2>7, <2>8, <2>9, <2>11 DEF InstInv
      <2> QED
          BY <1>t, <2>p, <2>2, <2>3, <2>4, <2>12, Local DEF Checked, MainInv
  <1>7. ASSUME NEW rc \in {SUCCESS, FAILURE}, kid[i].pc = "stress", MishapIf(rc # SUCCESS),
               kid' = [kid EXCEPT ![i].pc = "ended", ![i].rc = rc],
               UNCHANGED <<mainVars, told, halted, bogo, sum, worker, history>>
        PROVE  IndInv'
      <2>p. kid[i].pc = "stress"
          BY <1>a, <1>m, <1>7 DEF StressorReturns
      <2>1. /\ kid' = [kid EXCEPT ![i] = [kid[i] EXCEPT !.pc = "ended", !.rc = rc]]
            /\ UNCHANGED <<mainVars, told, halted, worker, bogo, sum, pub, hit, outlived, oomed>>
          BY <1>i, <1>a, <2>p, <1>7 DEF StressorReturns
      <2>2. /\ kid'[i].pc = "ended" /\ kid'[i].rc = rc /\ kid'[i].idx = kid[i].idx
            /\ UNCHANGED <<slot, worker, bogo, sum, pub, hit, outlived, oomed>>
          BY <1>i, <2>1 DEF KidType
      <2>3. OnlyAt(i)
          BY <1>i, <2>1 DEF OnlyAt
      <2>4. TypeOK'
          <3>1. mishaps' \in 0..MaxMishaps
              BY <1>t, <1>7, MishapType DEF StressorReturns, MishapIf, Mishap
          <3>2. kid' \in [Inst -> KidType]
              BY <1>i, <2>p, <2>1 DEF KidType, KidPc
          <3> QED
              BY <1>t, <2>1, <3>1, <3>2 DEF TypeOK
      <2>5. StageInv(i)'
          BY <1>a, <2>p, <2>2 DEF StageInv, Working, Publishing
      <2>6. WorkerInv(i)'
          BY <1>a, <2>p, <2>2 DEF WorkerInv
      <2>7. CountInv(i)'
          BY <1>a, <1>m, <2>p, <2>2 DEF CountInv
      <2>8. CopyInv(i)'
          BY <1>a, <1>m, <2>p, <2>2 DEF CopyInv, StageInv, Working, Publishing
      <2>9. HashInv(i)'
          BY <1>a, <1>m, <2>p, <2>2 DEF HashInv, StageInv, Working, Publishing
      <2>11. OomInv(i)'
          BY <1>a, <2>p, <2>2 DEF OomInv
      <2>12. InstInv(i)'
          BY <2>5, <2>6, <2>7, <2>8, <2>9, <2>11 DEF InstInv
      <2> QED
          BY <1>t, <2>p, <2>2, <2>3, <2>4, <2>12, Local DEF Checked, MainInv
  <1>8. StressorInterrupted(i) => IndInv'
      <2> SUFFICES ASSUME StressorInterrupted(i) PROVE IndInv'
          OBVIOUS
      <2>1. PICK f \in BOOLEAN : bogo' = [bogo EXCEPT ![i].force = @ \/ f]
          BY DEF StressorInterrupted
      <2>2. bogo[i].force \/ f \in BOOLEAN
          OBVIOUS
      <2> QED
          BY <1>4, <2>1, <2>2 DEF StressorInterrupted
  <1> QED
      BY <1>1, <1>2, <1>3, <1>5, <1>6, <1>7, <1>8 DEF ChildSkips, StressorReturns

\* The steps of the stressor process after the return of the stressor.
LEMMA PublishSteps ==
    ASSUME IndInv, torn' \subseteq Inst, NEW i \in Inst,
           Completed(i) \/ RunOk(i) \/ SumOk(i) \/ Judge(i) \/ SumCounter(i) \/ SumHash(i)
    PROVE  IndInv'
  <1> USE DEF other, mainVars, history
  <1>t. TypeOK /\ InstInv(i) /\ MainInv
      BY DEF IndInv
  <1>a. /\ StageInv(i) /\ WorkerInv(i) /\ CountInv(i) /\ CopyInv(i) /\ HashInv(i)
        /\ OomInv(i)
      BY <1>t DEF InstInv
  <1>i. /\ kid \in [Inst -> KidType] /\ worker \in [Inst -> WorkerType]
        /\ bogo \in [Inst -> BogoType] /\ sum \in [Inst -> SumType]
        /\ pub \in [Inst -> {"no", "begun", "full"}]
      BY <1>t DEF TypeOK
  <1>n. MaxOps \in Nat /\ MaxOps > 0
      BY OptionsAssumption
  <1>m. bogo[i].counter \in Nat /\ sum[i].counter \in Nat
      BY <1>i, <1>n DEF BogoType, SumType
  <1>1. CASE Completed(i)
      <2>p. kid[i].pc = "ended"
          BY <1>a, <1>m, <1>1 DEF Completed, Kid
      <2>1. /\ kid' = [kid EXCEPT ![i] = [kid[i] EXCEPT !.pc = "completed"]]
            /\ bogo' = [bogo EXCEPT ![i] = [bogo[i] EXCEPT !.completed = TRUE]]
            /\ pub' = [pub EXCEPT ![i] = "begun"]
            /\ UNCHANGED <<mainVars, mishaps, told, halted, worker, sum, hit, outlived, oomed>>
          BY <1>i, <1>a, <2>p, <1>1 DEF Completed, Kid
      <2>2. /\ kid'[i].pc = "completed" /\ kid'[i].rc = kid[i].rc /\ kid'[i].idx = kid[i].idx
            /\ bogo'[i].ready = bogo[i].ready /\ bogo'[i].counter = bogo[i].counter
            /\ bogo'[i].ok = bogo[i].ok /\ bogo'[i].force = bogo[i].force
            /\ bogo'[i].completed = TRUE /\ bogo'[i].oom = bogo[i].oom /\ pub'[i] = "begun"
            /\ UNCHANGED <<slot, worker, sum, hit, outlived, oomed>>
          BY <1>i, <2>1 DEF KidType, BogoType
      <2>3. OnlyAt(i)
          BY <1>i, <2>1 DEF OnlyAt
      <2>4. TypeOK'
          <3>1. kid' \in [Inst -> KidType]
              BY <1>i, <2>p, <2>1 DEF KidType, KidPc
          <3>2. bogo' \in [Inst -> BogoType]
              BY <1>i, <2>p, <2>1 DEF BogoType
          <3>3. pub' \in [Inst -> {"no", "begun", "full"}]
              BY <1>i, <2>1
          <3> QED
              BY <1>t, <2>1, <3>1, <3>2, <3>3 DEF TypeOK
      <2>5. StageInv(i)'
          BY <1>a, <2>p, <2>2 DEF StageInv, Working, Publishing
      <2>6. WorkerInv(i)'
          BY <1>a, <2>p, <2>2 DEF WorkerInv
      <2>7. CountInv(i)'
          BY <1>a, <1>m, <2>p, <2>2 DEF CountInv
      <2>8. CopyInv(i)'
          BY <1>a, <1>m, <2>p, <2>2 DEF CopyInv, StageInv, Working, Publishing
      <2>9. HashInv(i)'
          BY <1>a, <1>m, <2>p, <2>2 DEF HashInv, StageInv, Working, Publishing
      <2>11. OomInv(i)'
          BY <1>a, <2>p, <2>2 DEF OomInv
      <2>12. InstInv(i)'
          BY <2>5, <2>6, <2>7, <2>8, <2>9, <2>11 DEF InstInv
      <2> QED
          BY <1>t, <2>p, <2>2, <2>3, <2>4, <2>12, Local DEF Checked, MainInv
  <1>2. CASE RunOk(i)
      <2> DEFINE v == (kid[i].rc = SUCCESS)
      <2>p. kid[i].pc = "completed"
          BY <1>a, <1>m, <1>2 DEF RunOk, Kid
      <2>1. /\ kid' = [kid EXCEPT ![i] = [kid[i] EXCEPT !.pc = "run ok"]]
            /\ bogo' = [bogo EXCEPT ![i] = [bogo[i] EXCEPT !.ok = v]]
            /\ UNCHANGED <<mainVars, mishaps, told, halted, worker, sum, pub, hit, outlived, oomed>>
          BY <1>i, <1>a, <2>p, <1>2 DEF RunOk, Kid
      <2>g. v \in BOOLEAN /\ (v = TRUE <=> kid[i].rc = SUCCESS)
          OBVIOUS
      <2> HIDE DEF v
      <2>2. /\ kid'[i].pc = "run ok" /\ kid'[i].rc = kid[i].rc /\ kid'[i].idx = kid[i].idx
            /\ bogo'[i].ready = bogo[i].ready /\ bogo'[i].counter = bogo[i].counter
            /\ bogo'[i].ok = v /\ bogo'[i].force = bogo[i].force
            /\ bogo'[i].completed = bogo[i].completed /\ bogo'[i].oom = bogo[i].oom
            /\ UNCHANGED <<slot, worker, sum, pub, hit, outlived, oomed>>
          BY <1>i, <2>1 DEF KidType, BogoType
      <2>3. OnlyAt(i)
          BY <1>i, <2>1 DEF OnlyAt
      <2>4. TypeOK'
          <3>1. kid' \in [Inst -> KidType]
              BY <1>i, <2>p, <2>1, <2>g DEF KidType, KidPc
          <3>2. bogo' \in [Inst -> BogoType]
              BY <1>i, <2>p, <2>1, <2>g DEF BogoType
          <3> QED
              BY <1>t, <2>1, <3>1, <3>2 DEF TypeOK
      <2>5. StageInv(i)'
          BY <1>a, <2>p, <2>2, <2>g DEF StageInv, Working, Publishing
      <2>6. WorkerInv(i)'
          BY <1>a, <2>p, <2>2, <2>g DEF WorkerInv
      <2>7. CountInv(i)'
          BY <1>a, <1>m, <2>p, <2>2 DEF CountInv
      <2>8. CopyInv(i)'
          BY <1>a, <1>m, <2>p, <2>2, <2>g DEF CopyInv, StageInv, Working, Publishing
      <2>9. HashInv(i)'
          BY <1>a, <1>m, <2>p, <2>2, <2>g DEF HashInv, StageInv, Working, Publishing
      <2>11. OomInv(i)'
          BY <1>a, <2>p, <2>2, <2>g DEF OomInv
      <2>12. InstInv(i)'
          BY <2>5, <2>6, <2>7, <2>8, <2>9, <2>11 DEF InstInv
      <2> QED
          BY <1>t, <2>p, <2>2, <2>3, <2>4, <2>12, <2>g, Local DEF Checked, MainInv
  <1>3. CASE SumOk(i)
      <2> DEFINE v == (kid[i].rc = SUCCESS)
      <2>p. kid[i].pc = "run ok" /\ slot[i] = i
          BY <1>a, <1>m, <1>3 DEF SumOk, Kid, StageInv, Publishing
      <2>1. /\ kid' = [kid EXCEPT ![i] = [kid[i] EXCEPT !.pc = "sum ok"]]
            /\ sum' = [sum EXCEPT ![i] = [sum[i] EXCEPT !.ok = v]]
            /\ UNCHANGED <<mainVars, mishaps, told, halted, worker, bogo, pub, hit, outlived, oomed>>
          BY <1>i, <1>a, <2>p, <1>3 DEF SumOk, Kid, StageInv, Publishing
      <2>g. v \in BOOLEAN /\ v = bogo[i].ok
          <3>1. bogo[i].ok \in BOOLEAN
              BY <1>i DEF BogoType
          <3>2. bogo[i].ok = TRUE <=> kid[i].rc = SUCCESS
              BY <1>a, <2>p DEF CopyInv
          <3> QED
              BY <3>1, <3>2
      <2> HIDE DEF v
      <2>2. /\ kid'[i].pc = "sum ok" /\ kid'[i].rc = kid[i].rc /\ kid'[i].idx = kid[i].idx
            /\ sum'[i].counter = sum[i].counter /\ sum'[i].ok = v /\ sum'[i].hash = sum[i].hash
            /\ UNCHANGED <<slot, worker, bogo, pub, hit, outlived, oomed>>
          BY <1>i, <2>1 DEF KidType, SumType
      <2>3. OnlyAt(i)
          BY <1>i, <2>1 DEF OnlyAt
      <2>4. TypeOK'
          <3>1. kid' \in [Inst -> KidType]
              BY <1>i, <2>p, <2>1, <2>g DEF KidType, KidPc
          <3>2. sum' \in [Inst -> SumType]
              BY <1>i, <2>p, <2>1, <2>g DEF SumType
          <3> QED
              BY <1>t, <2>1, <3>1, <3>2 DEF TypeOK
      <2>5. StageInv(i)'
          BY <1>a, <2>p, <2>2, <2>g DEF StageInv, Working, Publishing
      <2>6. WorkerInv(i)'
          BY <1>a, <2>p, <2>2, <2>g DEF WorkerInv
      <2>7. CountInv(i)'
          BY <1>a, <1>m, <2>p, <2>2 DEF CountInv
      <2>8. CopyInv(i)'
          BY <1>a, <1>m, <2>p, <2>2, <2>g DEF CopyInv, StageInv, Working, Publishing
      <2>9. HashInv(i)'
          BY <1>a, <1>m, <2>p, <2>2, <2>g DEF HashInv, StageInv, Working, Publishing
      <2>11. OomInv(i)'
          BY <1>a, <2>p, <2>2, <2>g DEF OomInv
      <2>12. InstInv(i)'
          BY <2>5, <2>6, <2>7, <2>8, <2>9, <2>11 DEF InstInv
      <2> QED
          BY <1>t, <2>p, <2>2, <2>3, <2>4, <2>12, <2>g, Local DEF Checked, MainInv
  <1>4. CASE Judge(i)
      <2> DEFINE r == IF ~bogo[i].ready /\ ~bogo[i].force THEN UNTRUSTWORTHY ELSE kid[i].rc
      <2>p. kid[i].pc = "sum ok"
          BY <1>a, <1>m, <1>4 DEF Judge
      <2>1. /\ kid' = [kid EXCEPT ![i] = [kid[i] EXCEPT !.pc = "judged", !.rc = r]]
            /\ UNCHANGED <<mainVars, mishaps, told, halted, worker, bogo, sum, pub, hit, outlived, oomed>>
          BY <1>i, <1>a, <2>p, <1>4 DEF Judge
      <2>g. /\ r \in {SUCCESS, FAILURE, UNTRUSTWORTHY}
            /\ bogo[i].ready \/ bogo[i].force \/ r = UNTRUSTWORTHY
          BY <1>i DEF KidType
      <2> HIDE DEF r
      <2>2. /\ kid'[i].pc = "judged" /\ kid'[i].rc = r /\ kid'[i].idx = kid[i].idx
            /\ UNCHANGED <<slot, worker, bogo, sum, pub, hit, outlived, oomed>>
          BY <1>i, <2>1 DEF KidType
      <2>3. OnlyAt(i)
          BY <1>i, <2>1 DEF OnlyAt
      <2>4. TypeOK'
          <3>1. kid' \in [Inst -> KidType]
              BY <1>i, <2>p, <2>1, <2>g DEF KidType, KidPc
          <3> QED
              BY <1>t, <2>1, <3>1 DEF TypeOK
      <2>5. StageInv(i)'
          BY <1>a, <2>p, <2>2, <2>g DEF StageInv, Working, Publishing
      <2>6. WorkerInv(i)'
          BY <1>a, <2>p, <2>2, <2>g DEF WorkerInv
      <2>7. CountInv(i)'
          BY <1>a, <1>m, <2>p, <2>2 DEF CountInv
      <2>8. CopyInv(i)'
          BY <1>a, <1>m, <2>p, <2>2, <2>g DEF CopyInv, StageInv, Working, Publishing
      <2>9. HashInv(i)'
          BY <1>a, <1>m, <2>p, <2>2, <2>g DEF HashInv, StageInv, Working, Publishing
      <2>11. OomInv(i)'
          BY <1>a, <2>p, <2>2, <2>g DEF OomInv
      <2>12. InstInv(i)'
          BY <2>5, <2>6, <2>7, <2>8, <2>9, <2>11 DEF InstInv
      <2> QED
          BY <1>t, <2>p, <2>2, <2>3, <2>4, <2>12, <2>g, Local DEF Checked, MainInv
  <1>5. CASE SumCounter(i)
      <2>p. kid[i].pc = "judged" /\ slot[i] = i /\ i \notin hit
          BY <1>a, <1>m, <1>5 DEF SumCounter, Kid, StageInv, Publishing
      <2>1. /\ kid' = [kid EXCEPT ![i] = [kid[i] EXCEPT !.pc = "sum counter"]]
            /\ sum' = [sum EXCEPT ![i] = [sum[i] EXCEPT !.counter = bogo[i].counter]]
            /\ UNCHANGED <<mainVars, mishaps, told, halted, worker, bogo, pub, hit, outlived, oomed>>
          BY <1>i, <1>a, <2>p, <1>5 DEF SumCounter, Kid, StageInv, Publishing
      <2>g. bogo[i].counter \in 0..(MaxOps + 2) /\ bogo[i].counter <= bogo[i].counter
          BY <1>i, <1>m DEF BogoType
      <2>2. /\ kid'[i].pc = "sum counter" /\ kid'[i].rc = kid[i].rc /\ kid'[i].idx = kid[i].idx
            /\ sum'[i].counter = bogo[i].counter /\ sum'[i].ok = sum[i].ok
            /\ sum'[i].hash = sum[i].hash
            /\ UNCHANGED <<slot, worker, bogo, pub, hit, outlived, oomed>>
          BY <1>i, <2>1 DEF KidType, SumType
      <2>3. OnlyAt(i)
          BY <1>i, <2>1 DEF OnlyAt
      <2>4. TypeOK'
          <3>1. kid' \in [Inst -> KidType]
              BY <1>i, <2>p, <2>1, <2>g DEF KidType, KidPc
          <3>2. sum' \in [Inst -> SumType]
              BY <1>i, <2>p, <2>1, <2>g DEF SumType
          <3> QED
              BY <1>t, <2>1, <3>1, <3>2 DEF TypeOK
      <2>5. StageInv(i)'
          BY <1>a, <2>p, <2>2, <2>g DEF StageInv, Working, Publishing
      <2>6. WorkerInv(i)'
          BY <1>a, <2>p, <2>2, <2>g DEF WorkerInv
      <2>7. CountInv(i)'
          BY <1>a, <1>m, <2>p, <2>2 DEF CountInv
      <2>8. CopyInv(i)'
          BY <1>a, <1>m, <2>p, <2>2, <2>g DEF CopyInv, StageInv, Working, Publishing
      <2>9. HashInv(i)'
          BY <1>a, <1>m, <2>p, <2>2, <2>g DEF HashInv, StageInv, Working, Publishing
      <2>11. OomInv(i)'
          BY <1>a, <2>p, <2>2, <2>g DEF OomInv
      <2>12. InstInv(i)'
          BY <2>5, <2>6, <2>7, <2>8, <2>9, <2>11 DEF InstInv
      <2> QED
          BY <1>t, <2>p, <2>2, <2>3, <2>4, <2>12, <2>g, Local DEF Checked, MainInv
  <1>6. CASE SumHash(i)
      <2> DEFINE h == Hash(sum[i].counter, sum[i].ok)
      <2>p. kid[i].pc = "sum counter" /\ slot[i] = i
          BY <1>a, <1>m, <1>6 DEF SumHash, Kid, StageInv, Publishing
      <2>1. /\ kid' = [kid EXCEPT ![i] = [kid[i] EXCEPT !.pc = "exited"]]
            /\ sum' = [sum EXCEPT ![i] = [sum[i] EXCEPT !.hash = h]]
            /\ pub' = [pub EXCEPT ![i] = "full"]
            /\ UNCHANGED <<mainVars, mishaps, told, halted, worker, bogo, hit, outlived, oomed>>
          BY <1>i, <1>a, <2>p, <1>6 DEF SumHash, Kid, StageInv, Publishing
      <2>g. /\ h \in HashType /\ h = Hash(sum[i].counter, sum[i].ok)
          BY <1>i, <1>m DEF SumType, HashType, Hash
      <2> HIDE DEF h
      <2>2. /\ kid'[i].pc = "exited" /\ kid'[i].rc = kid[i].rc /\ kid'[i].idx = kid[i].idx
            /\ sum'[i].counter = sum[i].counter /\ sum'[i].ok = sum[i].ok /\ sum'[i].hash = h
            /\ pub'[i] = "full" /\ UNCHANGED <<slot, worker, bogo, hit, outlived, oomed>>
          BY <1>i, <2>1 DEF KidType, SumType
      <2>3. OnlyAt(i)
          BY <1>i, <2>1 DEF OnlyAt
      <2>4. TypeOK'
          <3>1. kid' \in [Inst -> KidType]
              BY <1>i, <2>p, <2>1, <2>g DEF KidType, KidPc
          <3>2. sum' \in [Inst -> SumType]
              BY <1>i, <2>p, <2>1, <2>g DEF SumType
          <3>3. pub' \in [Inst -> {"no", "begun", "full"}]
              BY <1>i, <2>1
          <3> QED
              BY <1>t, <2>1, <3>1, <3>2, <3>3 DEF TypeOK
      <2>5. StageInv(i)'
          BY <1>a, <2>p, <2>2, <2>g DEF StageInv, Working, Publishing
      <2>6. WorkerInv(i)'
          BY <1>a, <2>p, <2>2, <2>g DEF WorkerInv
      <2>7. CountInv(i)'
          BY <1>a, <1>m, <2>p, <2>2 DEF CountInv
      <2>8. CopyInv(i)'
          BY <1>a, <1>m, <2>p, <2>2, <2>g DEF CopyInv, StageInv, Working, Publishing
      <2>9. HashInv(i)'
          BY <1>a, <1>m, <2>p, <2>2, <2>g DEF HashInv, StageInv, Working, Publishing
      <2>11. OomInv(i)'
          BY <1>a, <2>p, <2>2, <2>g DEF OomInv
      <2>12. InstInv(i)'
          BY <2>5, <2>6, <2>7, <2>8, <2>9, <2>11 DEF InstInv
      <2> QED
          BY <1>t, <2>p, <2>2, <2>3, <2>4, <2>12, <2>g, Local DEF Checked, MainInv
  <1> QED
      BY <1>1, <1>2, <1>3, <1>4, <1>5, <1>6

\* The steps of stress_oomable_child.
LEMMA WrapperSteps ==
    ASSUME IndInv, torn' \subseteq Inst, NEW i \in Inst, WrapperStep(i)
    PROVE  IndInv'
  <1> USE DEF other, mainVars, history
  <1>t. TypeOK /\ InstInv(i) /\ MainInv
      BY DEF IndInv
  <1>a. /\ StageInv(i) /\ WorkerInv(i) /\ CountInv(i) /\ CopyInv(i) /\ HashInv(i)
        /\ OomInv(i)
      BY <1>t DEF InstInv
  <1>i. /\ kid \in [Inst -> KidType] /\ worker \in [Inst -> WorkerType]
        /\ bogo \in [Inst -> BogoType] /\ sum \in [Inst -> SumType]
        /\ pub \in [Inst -> {"no", "begun", "full"}]
      BY <1>t DEF TypeOK
  <1>n. MaxOps \in Nat /\ MaxOps > 0
      BY OptionsAssumption
  <1>m. bogo[i].counter \in Nat /\ sum[i].counter \in Nat
      BY <1>i, <1>n DEF BogoType, SumType
  <1>1. ASSUME kid[i].pc = "again", kid' = [kid EXCEPT ![i].pc = "wait"],
               worker' = [worker EXCEPT ![i] = [NoWorker EXCEPT !.at = "run"]],
               UNCHANGED <<other, told, halted, bogo, sum, history>>
        PROVE  IndInv'
      <2>p. kid[i].pc = "again" /\ i \in Wrapped
          BY <1>a, <1>1 DEF WorkerInv
      <2>1. /\ kid' = [kid EXCEPT ![i] = [kid[i] EXCEPT !.pc = "wait"]]
            /\ worker' = [worker EXCEPT ![i] = [NoWorker EXCEPT !.at = "run"]]
            /\ UNCHANGED <<mainVars, mishaps, told, halted, bogo, sum, pub, hit, outlived, oomed>>
          BY <1>i, <1>a, <2>p, <1>1 DEF WorkerInv
      <2>g. [NoWorker EXCEPT !.at = "run"] \in WorkerType
            /\ [NoWorker EXCEPT !.at = "run"].at = "run" /\ [NoWorker EXCEPT !.at = "run"].how = "none"
          BY DEF NoWorker, WorkerType
      <2>2. /\ kid'[i].pc = "wait" /\ kid'[i].rc = kid[i].rc /\ kid'[i].idx = kid[i].idx
            /\ worker'[i] = [NoWorker EXCEPT !.at = "run"]
            /\ UNCHANGED <<slot, bogo, sum, pub, hit, outlived, oomed>>
          BY <1>i, <2>1 DEF KidType
      <2>3. OnlyAt(i)
          BY <1>i, <2>1 DEF OnlyAt
      <2>4. TypeOK'
          <3>1. kid' \in [Inst -> KidType]
              BY <1>i, <2>p, <2>1, <2>g DEF KidType, KidPc
          <3>2. worker' \in [Inst -> WorkerType]
              BY <1>i, <2>p, <2>1, <2>g DEF WorkerType
          <3> QED
              BY <1>t, <2>1, <3>1, <3>2 DEF TypeOK
      <2>5. StageInv(i)'
          BY <1>a, <2>p, <2>2, <2>g DEF StageInv, Working, Publishing
      <2>6. WorkerInv(i)'
          BY <1>a, <2>p, <2>2, <2>g DEF WorkerInv
      <2>7. CountInv(i)'
          BY <1>a, <1>m, <2>p, <2>2, <2>g DEF CountInv
      <2>8. CopyInv(i)'
          BY <1>a, <1>m, <2>p, <2>2, <2>g DEF CopyInv, StageInv, Working, Publishing
      <2>9. HashInv(i)'
          BY <1>a, <1>m, <2>p, <2>2, <2>g DEF HashInv, StageInv, Working, Publishing
      <2>11. OomInv(i)'
          BY <1>a, <2>p, <2>2, <2>g DEF OomInv
      <2>12. InstInv(i)'
          BY <2>5, <2>6, <2>7, <2>8, <2>9, <2>11 DEF InstInv
      <2> QED
          BY <1>t, <2>p, <2>2, <2>3, <2>4, <2>12, <2>g, Local DEF Checked, MainInv
  <1>2. ASSUME kid[i].pc = "again", kid' = [kid EXCEPT ![i].pc = "ended", ![i].rc = SUCCESS],
               UNCHANGED <<other, told, halted, bogo, sum, worker, history>>
        PROVE  IndInv'
      <2>p. kid[i].pc = "again"
          BY <1>a, <1>m, <1>2 DEF Again
      <2>1. /\ kid' = [kid EXCEPT ![i] = [kid[i] EXCEPT !.pc = "ended", !.rc = SUCCESS]]
            /\ UNCHANGED <<mainVars, mishaps, told, halted, worker, bogo, sum, pub, hit, outlived, oomed>>
          BY <1>i, <1>a, <2>p, <1>2 DEF Again
      <2>2. /\ kid'[i].pc = "ended" /\ kid'[i].rc = SUCCESS /\ kid'[i].idx = kid[i].idx
            /\ UNCHANGED <<slot, worker, bogo, sum, pub, hit, outlived, oomed>>
          BY <1>i, <2>1 DEF KidType
      <2>3. OnlyAt(i)
          BY <1>i, <2>1 DEF OnlyAt
      <2>4. TypeOK'
          <3>1. kid' \in [Inst -> KidType]
              BY <1>i, <2>p, <2>1 DEF KidType, KidPc
          <3> QED
              BY <1>t, <2>1, <3>1 DEF TypeOK
      <2>5. StageInv(i)'
          BY <1>a, <2>p, <2>2 DEF StageInv, Working, Publishing
      <2>6. WorkerInv(i)'
          BY <1>a, <2>p, <2>2 DEF WorkerInv
      <2>7. CountInv(i)'
          BY <1>a, <1>m, <2>p, <2>2 DEF CountInv
      <2>8. CopyInv(i)'
          BY <1>a, <1>m, <2>p, <2>2 DEF CopyInv, StageInv, Working, Publishing
      <2>9. HashInv(i)'
          BY <1>a, <1>m, <2>p, <2>2 DEF HashInv, StageInv, Working, Publishing
      <2>11. OomInv(i)'
          BY <1>a, <2>p, <2>2 DEF OomInv
      <2>12. InstInv(i)'
          BY <2>5, <2>6, <2>7, <2>8, <2>9, <2>11 DEF InstInv
      <2> QED
          BY <1>t, <2>p, <2>2, <2>3, <2>4, <2>12, Local DEF Checked, MainInv
  <1>3. ASSUME kid[i].pc = "wait", NEW q \in {"again", "ended"},
               NEW rc \in {SUCCESS, FAILURE, UNTRUSTWORTHY}, NEW o \in BOOLEAN, o => i \in oomed,
               kid' = [kid EXCEPT ![i].pc = q, ![i].rc = rc],
               worker' = [worker EXCEPT ![i] = NoWorker],
               bogo' = [bogo EXCEPT ![i].oom = o],
               UNCHANGED <<other, told, halted, sum, history>>
        PROVE  IndInv'
      <2>p. kid[i].pc = "wait"
          BY <1>a, <1>m, <1>3 DEF WaitReturns
      <2>1. /\ kid' = [kid EXCEPT ![i] = [kid[i] EXCEPT !.pc = q, !.rc = rc]]
            /\ worker' = [worker EXCEPT ![i] = NoWorker]
            /\ bogo' = [bogo EXCEPT ![i] = [bogo[i] EXCEPT !.oom = o]]
            /\ UNCHANGED <<mainVars, mishaps, told, halted, sum, pub, hit, outlived, oomed>>
          BY <1>i, <1>a, <2>p, <1>3 DEF WaitReturns
      <2>g. NoWorker \in WorkerType /\ NoWorker.at = "none" /\ NoWorker.how = "none"
          BY DEF NoWorker, WorkerType
      <2>2. /\ kid'[i].pc = q /\ kid'[i].rc = rc /\ kid'[i].idx = kid[i].idx
            /\ worker'[i] = NoWorker /\ bogo'[i].ready = bogo[i].ready
            /\ bogo'[i].counter = bogo[i].counter /\ bogo'[i].ok = bogo[i].ok
            /\ bogo'[i].force = bogo[i].force /\ bogo'[i].completed = bogo[i].completed
            /\ bogo'[i].oom = o /\ UNCHANGED <<slot, sum, pub, hit, outlived, oomed>>
          BY <1>i, <2>1 DEF KidType, BogoType
      <2>3. OnlyAt(i)
          BY <1>i, <2>1 DEF OnlyAt
      <2>4. TypeOK'
          <3>1. kid' \in [Inst -> KidType]
              BY <1>i, <2>p, <2>1, <2>g DEF KidType, KidPc
          <3>2. worker' \in [Inst -> WorkerType]
              BY <1>i, <2>p, <2>1, <2>g DEF WorkerType
          <3>3. bogo' \in [Inst -> BogoType]
              BY <1>i, <2>p, <2>1, <2>g DEF BogoType
          <3> QED
              BY <1>t, <2>1, <3>1, <3>2, <3>3 DEF TypeOK
      <2>5. StageInv(i)'
          BY <1>a, <2>p, <2>2, <2>g DEF StageInv, Working, Publishing
      <2>6. WorkerInv(i)'
          BY <1>a, <2>p, <2>2, <2>g DEF WorkerInv
      <2>7. CountInv(i)'
          BY <1>a, <1>m, <2>p, <2>2, <2>g DEF CountInv
      <2>8. CopyInv(i)'
          BY <1>a, <1>m, <2>p, <2>2, <2>g DEF CopyInv, StageInv, Working, Publishing
      <2>9. HashInv(i)'
          BY <1>a, <1>m, <2>p, <2>2, <2>g DEF HashInv, StageInv, Working, Publishing
      <2>11. OomInv(i)'
          BY <1>a, <1>3, <2>p, <2>2, <2>g DEF OomInv
      <2>12. InstInv(i)'
          BY <2>5, <2>6, <2>7, <2>8, <2>9, <2>11 DEF InstInv
      <2> QED
          BY <1>t, <2>p, <2>2, <2>3, <2>4, <2>12, <2>g, Local DEF Checked, MainInv
  <1>4. ASSUME kid[i].pc = "wait", NEW x \in 1..Len(Signals), NEW v \in WorkerType,
               v = worker[i] \/ v.at = "zombie",
               v.how = "OOM" => worker[i].how = "OOM", v.how = "KILL" => x = Len(Signals),
               kid' = [kid EXCEPT ![i].idx = x], worker' = [worker EXCEPT ![i] = v],
               UNCHANGED <<other, told, halted, bogo, sum, pub, hit, outlived, oomed>>
        PROVE  IndInv'
      <2>p. kid[i].pc = "wait"
          BY <1>a, <1>m, <1>4 DEF WaitInterrupted
      <2>1. /\ kid' = [kid EXCEPT ![i] = [kid[i] EXCEPT !.idx = x]]
            /\ worker' = [worker EXCEPT ![i] = v]
            /\ UNCHANGED <<mainVars, mishaps, told, halted, bogo, sum, pub, hit, outlived, oomed>>
          BY <1>i, <1>a, <2>p, <1>4 DEF WaitInterrupted
      <2>2. /\ kid'[i].pc = kid[i].pc /\ kid'[i].rc = kid[i].rc /\ kid'[i].idx = x
            /\ worker'[i] = v /\ UNCHANGED <<slot, bogo, sum, pub, hit, outlived, oomed>>
          BY <1>i, <2>1 DEF KidType
      <2>3. OnlyAt(i)
          BY <1>i, <2>1 DEF OnlyAt
      <2>4. TypeOK'
          <3>1. kid' \in [Inst -> KidType]
              BY <1>i, <2>p, <2>1 DEF KidType, KidPc
          <3>2. worker' \in [Inst -> WorkerType]
              BY <1>i, <2>p, <2>1 DEF WorkerType
          <3> QED
              BY <1>t, <2>1, <3>1, <3>2 DEF TypeOK
      <2>5. StageInv(i)'
          BY <1>a, <2>p, <2>2 DEF StageInv, Working, Publishing
      <2>6. WorkerInv(i)'
          BY <1>a, <1>4, <2>p, <2>2 DEF WorkerInv
      <2>7. CountInv(i)'
          BY <1>a, <1>4, <2>p, <2>2 DEF CountInv
      <2>8. CopyInv(i)'
          BY <1>a, <1>m, <2>p, <2>2 DEF CopyInv, StageInv, Working, Publishing
      <2>9. HashInv(i)'
          BY <1>a, <1>m, <2>p, <2>2 DEF HashInv, StageInv, Working, Publishing
      <2>11. OomInv(i)'
          BY <1>a, <1>4, <2>p, <2>2 DEF OomInv
      <2>12. InstInv(i)'
          BY <2>5, <2>6, <2>7, <2>8, <2>9, <2>11 DEF InstInv
      <2> QED
          BY <1>t, <2>p, <2>2, <2>3, <2>4, <2>12, Local DEF Checked, MainInv
  <1>5. CASE GiveUp(i)
      <2>p. kid[i].pc = "wait"
          BY <1>a, <1>m, <1>5 DEF GiveUp
      <2>1. /\ kid' = [kid EXCEPT ![i] = [kid[i] EXCEPT !.pc = "ended"]]
            /\ UNCHANGED <<mainVars, mishaps, told, halted, worker, bogo, sum, pub, hit, oomed>>
          BY <1>i, <1>a, <2>p, <1>5 DEF GiveUp
      <2>o. outlived' = outlived \cup {i}
          BY <1>5 DEF GiveUp
      <2>2. /\ kid'[i].pc = "ended" /\ kid'[i].rc = kid[i].rc /\ kid'[i].idx = kid[i].idx
            /\ UNCHANGED <<slot, worker, bogo, sum, pub, hit, oomed>>
          BY <1>i, <2>1 DEF KidType
      <2>3. OnlyAt(i)
          BY <1>i, <2>1, <2>o DEF OnlyAt
      <2>4. TypeOK'
          <3>1. kid' \in [Inst -> KidType]
              BY <1>i, <2>p, <2>1 DEF KidType, KidPc
          <3> QED
              BY <1>t, <2>1, <3>1, <2>o DEF TypeOK
      <2>5. StageInv(i)'
          BY <1>a, <2>p, <2>2, <2>o DEF StageInv, Working, Publishing
      <2>6. WorkerInv(i)'
          BY <1>a, <2>p, <2>2, <2>o DEF WorkerInv
      <2>7. CountInv(i)'
          BY <1>a, <1>m, <2>p, <2>2, <2>o DEF CountInv
      <2>8. CopyInv(i)'
          BY <1>a, <1>m, <2>p, <2>2, <2>o DEF CopyInv, StageInv, Working, Publishing
      <2>9. HashInv(i)'
          BY <1>a, <1>m, <2>p, <2>2, <2>o DEF HashInv, StageInv, Working, Publishing
      <2>11. OomInv(i)'
          BY <1>a, <2>p, <2>2, <2>o DEF OomInv
      <2>12. InstInv(i)'
          BY <2>5, <2>6, <2>7, <2>8, <2>9, <2>11 DEF InstInv
      <2> QED
          BY <1>t, <2>p, <2>2, <2>3, <2>4, <2>12, <2>o, Local DEF Checked, MainInv
  <1>6. CASE Again(i)
      BY <1>1, <1>2, <1>6 DEF Again
  <1>7. CASE WaitReturns(i)
      <2>1. /\ kid[i].pc = "wait" /\ kid[i].rc \in {SUCCESS, FAILURE, UNTRUSTWORTHY}
            /\ kid[i].idx \in 1..Len(Signals) /\ bogo[i].oom \in BOOLEAN /\ Oomable \in BOOLEAN
          BY <1>i, <1>7, OptionsAssumption DEF WaitReturns, KidType, BogoType
      <2>2. ASSUME OomKill(i) PROVE i \in oomed
          BY <1>a, <2>1, <2>2, OptionsAssumption DEF OomKill, OomInv
      <2>3. ASSUME NEW restart \in BOOLEAN, NEW rc \in {SUCCESS, FAILURE, UNTRUSTWORTHY},
                   NEW oom \in BOOLEAN, Waited(i, restart, rc, oom), oom => i \in oomed
            PROVE  IndInv'
          <3> DEFINE q == IF restart THEN "again" ELSE "ended"
                     o == bogo[i].oom \/ oom
          <3>1. q \in {"again", "ended"} /\ o \in BOOLEAN
              OBVIOUS
          <3>2. o => i \in oomed
              BY <1>a, <2>3 DEF OomInv
          <3>3. /\ kid' = [kid EXCEPT ![i].pc = q, ![i].rc = rc]
                /\ worker' = [worker EXCEPT ![i] = NoWorker] /\ bogo' = [bogo EXCEPT ![i].oom = o]
              BY <2>3 DEF Waited
          <3>4. UNCHANGED <<other, told, halted, sum, history>>
              BY <1>7 DEF WaitReturns
          <3> HIDE DEF q, o
          <3> QED
              BY <1>3, <2>1, <3>1, <3>2, <3>3, <3>4
      <2>4. CASE Waited(i, TRUE, kid[i].rc, FALSE)
          BY <2>1, <2>3, <2>4
      <2>5. CASE OomKill(i) /\ Waited(i, ~Oomable, IF Oomable THEN SUCCESS ELSE kid[i].rc, TRUE)
          BY <2>1, <2>2, <2>3, <2>5
      <2>6. CASE Waited(i, FALSE, IF worker[i].how = "FAILURE" THEN FAILURE ELSE SUCCESS, FALSE)
          BY <2>3, <2>6
      <2> QED
          BY <1>7, <2>4, <2>5, <2>6 DEF WaitReturns
  <1>8. CASE WaitInterrupted(i)
      <2> DEFINE x == IF kid[i].idx < Len(Signals) THEN kid[i].idx + 1 ELSE kid[i].idx
      <2>1. /\ kid[i].pc = "wait" /\ kid[i].idx \in 1..Len(Signals)
            /\ kid' = [kid EXCEPT ![i].idx = x]
            /\ UNCHANGED <<other, told, halted, bogo, sum, pub, hit, outlived, oomed>>
          BY <1>i, <1>8 DEF WaitInterrupted, KidType
      <2>2. x \in 1..Len(Signals) /\ (Signals[kid[i].idx] = "KILL" => x = Len(Signals))
          <3> DEFINE y == kid[i].idx
          <3>1. /\ y \in 1..Len(Signals) /\ Len(Signals) \in Nat
                /\ Signals[y] = "KILL" => y = Len(Signals)
              BY <2>1, OptionsAssumption
          <3> HIDE DEF y
          <3>2. /\ (IF y < Len(Signals) THEN y + 1 ELSE y) \in 1..Len(Signals)
                /\ Signals[y] = "KILL" => (IF y < Len(Signals) THEN y + 1 ELSE y) = Len(Signals)
              BY <3>1
          <3> QED
              BY <3>2 DEF y
      <2> HIDE DEF x
      <2>3. CASE worker' = worker
          <3>1. worker' = [worker EXCEPT ![i] = worker[i]] /\ worker[i] \in WorkerType
              BY <1>i, <2>3
          <3>2. worker[i].how = "KILL" => x = Len(Signals)
              <4>1. worker[i].how = "KILL" => kid[i].idx = Len(Signals)
                  BY <1>a, <2>1 DEF OomInv
              <4> QED
                  BY <2>1, <2>2, <4>1, OptionsAssumption
          <3> QED
              BY <1>4, <2>1, <2>2, <3>1, <3>2
      <2>4. CASE worker' # worker
          <3> DEFINE how == IF Signals[kid[i].idx] = "KILL" THEN "KILL" ELSE "SIGNAL"
                     v == [at |-> "zombie", stuck |-> FALSE, how |-> how]
          <3>1. worker' = [worker EXCEPT ![i] = v]
              BY <1>8, <2>1, <2>4 DEF WaitInterrupted, Gone
          <3>2. /\ v \in WorkerType /\ v.at = "zombie" /\ v.how # "OOM"
                /\ v.how = "KILL" => Signals[kid[i].idx] = "KILL"
              BY DEF WorkerType
          <3> HIDE DEF v
          <3> QED
              BY <1>4, <2>1, <2>2, <3>1, <3>2
      <2> QED
          BY <2>3, <2>4
  <1> QED
      BY <1>5, <1>6, <1>7, <1>8 DEF WrapperStep

\* The steps of the worker, those included that it makes after the stressor has ended.
LEMMA WorkerSteps ==
    ASSUME IndInv, torn' \subseteq Inst, NEW i \in Inst,
           WorkerIncs(i) \/ WorkerExits(i) \/ WorkerDies(i) \/ WorkerStuck(i) \/ WorkerWakes(i)
    PROVE  IndInv'
  <1> USE DEF other, mainVars, history
  <1>t. TypeOK /\ InstInv(i) /\ MainInv
      BY DEF IndInv
  <1>a. /\ StageInv(i) /\ WorkerInv(i) /\ CountInv(i) /\ CopyInv(i) /\ HashInv(i)
        /\ OomInv(i)
      BY <1>t DEF InstInv
  <1>i. /\ kid \in [Inst -> KidType] /\ worker \in [Inst -> WorkerType]
        /\ bogo \in [Inst -> BogoType] /\ sum \in [Inst -> SumType]
        /\ pub \in [Inst -> {"no", "begun", "full"}]
      BY <1>t DEF TypeOK
  <1>n. MaxOps \in Nat /\ MaxOps > 0
      BY OptionsAssumption
  <1>m. bogo[i].counter \in Nat /\ sum[i].counter \in Nat
      BY <1>i, <1>n DEF BogoType, SumType
  <1>1. ASSUME worker[i].at = "run",
               bogo[i].counter < MaxOps,
               bogo' = [bogo EXCEPT ![i].ready = FALSE],
               worker' = [worker EXCEPT ![i].at = "not ready"],
               UNCHANGED <<other, told, halted, sum, kid, history>>
        PROVE  IndInv'
      <2>p. worker[i].at = "run" /\ bogo[i].counter < MaxOps /\ i \in Wrapped
            /\ (kid[i].pc = "wait" \/ i \in outlived)
          BY <1>a, <1>m, <1>1 DEF WorkerInv
      <2>1. /\ worker' = [worker EXCEPT ![i] = [worker[i] EXCEPT !.at = "not ready"]]
            /\ bogo' = [bogo EXCEPT ![i] = [bogo[i] EXCEPT !.ready = FALSE]]
            /\ UNCHANGED <<mainVars, mishaps, told, halted, kid, sum, pub, hit, outlived, oomed>>
          BY <1>i, <1>a, <2>p, <1>1 DEF WorkerInv
      <2>2. /\ worker'[i].at = "not ready" /\ worker'[i].stuck = worker[i].stuck
            /\ worker'[i].how = worker[i].how /\ bogo'[i].ready = FALSE
            /\ bogo'[i].counter = bogo[i].counter /\ bogo'[i].ok = bogo[i].ok
            /\ bogo'[i].force = bogo[i].force /\ bogo'[i].completed = bogo[i].completed
            /\ bogo'[i].oom = bogo[i].oom
            /\ UNCHANGED <<slot, kid, sum, pub, hit, outlived, oomed>>
          BY <1>i, <2>1 DEF WorkerType, BogoType
      <2>3. OnlyAt(i)
          BY <1>i, <2>1 DEF OnlyAt
      <2>4. TypeOK'
          <3>1. worker' \in [Inst -> WorkerType]
              BY <1>i, <2>p, <2>1 DEF WorkerType
          <3>2. bogo' \in [Inst -> BogoType]
              BY <1>i, <2>p, <2>1 DEF BogoType
          <3> QED
              BY <1>t, <2>1, <3>1, <3>2 DEF TypeOK
      <2>5. StageInv(i)'
          BY <1>a, <2>p, <2>2 DEF StageInv, Working, Publishing
      <2>6. WorkerInv(i)'
          BY <1>a, <2>p, <2>2 DEF WorkerInv
      <2>7. CountInv(i)'
          <3> DEFINE c == bogo[i].counter
          <3>1. c \in Nat /\ c < MaxOps
              BY <1>a, <1>m, <2>p, <2>2 DEF CountInv, WorkerInv, StageInv, Working
          <3>2. bogo'[i].counter = c
              BY <1>a, <2>p, <2>2 DEF WorkerInv
          <3> HIDE DEF c
          <3>3. c <= MaxOps /\ c <= MaxOps + 1
              BY <1>n, <3>1
          <3> QED
              BY <1>a, <2>p, <2>2, <3>2, <3>3 DEF CountInv
      <2>8. CopyInv(i)'
          BY <1>a, <1>m, <2>p, <2>2 DEF CopyInv, StageInv, Working, Publishing
      <2>9. HashInv(i)'
          BY <1>a, <1>m, <2>p, <2>2 DEF HashInv, StageInv, Working, Publishing
      <2>11. OomInv(i)'
          BY <1>a, <2>p, <2>2 DEF OomInv
      <2>12. InstInv(i)'
          BY <2>5, <2>6, <2>7, <2>8, <2>9, <2>11 DEF InstInv
      <2> QED
          BY <1>t, <2>p, <2>2, <2>3, <2>4, <2>12, Local DEF Checked, MainInv
  <1>2. ASSUME worker[i].at = "not ready",
               bogo' = [bogo EXCEPT ![i].counter = @ + 1],
               worker' = [worker EXCEPT ![i].at = "counted"],
               UNCHANGED <<other, told, halted, sum, kid, history>>
        PROVE  IndInv'
      <2> DEFINE d == bogo[i].counter + 1
      <2>p. /\ worker[i].at = "not ready" /\ i \in Wrapped
            /\ bogo[i].counter <= MaxOps /\ (i \notin hit => bogo[i].counter < MaxOps)
            /\ (kid[i].pc = "wait" \/ i \in outlived)
          BY <1>a, <1>m, <1>2 DEF WorkerInv, CountInv
      <2>1. /\ worker' = [worker EXCEPT ![i] = [worker[i] EXCEPT !.at = "counted"]]
            /\ bogo' = [bogo EXCEPT ![i] = [bogo[i] EXCEPT !.counter = d]]
            /\ UNCHANGED <<mainVars, mishaps, told, halted, kid, sum, pub, hit, outlived, oomed>>
          BY <1>i, <1>a, <2>p, <1>2 DEF WorkerInv, CountInv
      <2>g. /\ d \in 0..(MaxOps + 2) /\ d <= MaxOps + 1 /\ (i \notin hit => d <= MaxOps)
            /\ \A s \in Nat : s <= bogo[i].counter => s < d /\ s <= d
          <3> DEFINE c == bogo[i].counter
          <3>1. c \in Nat /\ c <= MaxOps /\ (i \notin hit => c < MaxOps)
              BY <1>m, <2>p
          <3> HIDE DEF c
          <3>2. /\ c + 1 \in 0..(MaxOps + 2) /\ c + 1 <= MaxOps + 1 /\ (i \notin hit => c + 1 <= MaxOps)
                /\ \A s \in Nat : s <= c => s < c + 1 /\ s <= c + 1
              BY <1>n, <3>1
          <3> QED
              BY <3>2 DEF c
      <2> HIDE DEF d
      <2>2. /\ worker'[i].at = "counted" /\ worker'[i].stuck = worker[i].stuck
            /\ worker'[i].how = worker[i].how /\ bogo'[i].ready = bogo[i].ready
            /\ bogo'[i].counter = d /\ bogo'[i].ok = bogo[i].ok /\ bogo'[i].force = bogo[i].force
            /\ bogo'[i].completed = bogo[i].completed /\ bogo'[i].oom = bogo[i].oom
            /\ UNCHANGED <<slot, kid, sum, pub, hit, outlived, oomed>>
          BY <1>i, <2>1 DEF WorkerType, BogoType
      <2>3. OnlyAt(i)
          BY <1>i, <2>1 DEF OnlyAt
      <2>4. TypeOK'
          <3>1. worker' \in [Inst -> WorkerType]
              BY <1>i, <2>p, <2>1, <2>g DEF WorkerType
          <3>2. bogo' \in [Inst -> BogoType]
              BY <1>i, <2>p, <2>1, <2>g DEF BogoType
          <3> QED
              BY <1>t, <2>1, <3>1, <3>2 DEF TypeOK
      <2>5. StageInv(i)'
          BY <1>a, <2>p, <2>2, <2>g DEF StageInv, Working, Publishing
      <2>6. WorkerInv(i)'
          BY <1>a, <2>p, <2>2, <2>g DEF WorkerInv
      <2>7. CountInv(i)'
          BY <1>a, <1>m, <2>p, <2>2, <2>g DEF CountInv, WorkerInv
      <2>8. CopyInv(i)'
          <3>1. kid[i].pc = "sum counter" \/ (pub[i] = "full" /\ i \notin hit) => i \in outlived
              BY <1>a, <2>p DEF StageInv, Working
          <3>2. kid[i].pc = "sum counter" \/ (pub[i] = "full" /\ i \notin hit) => sum[i].counter <= d
              BY <1>a, <1>m, <2>g DEF CopyInv
          <3> QED
              BY <1>a, <2>2, <3>1, <3>2 DEF CopyInv
      <2>9. HashInv(i)'
          <3>1. sum[i].counter < bogo[i].counter => sum[i].counter < d
              BY <1>m, <2>g
          <3> QED
              BY <1>a, <2>2, <3>1 DEF HashInv
      <2>11. OomInv(i)'
          BY <1>a, <2>p, <2>2, <2>g DEF OomInv
      <2>12. InstInv(i)'
          BY <2>5, <2>6, <2>7, <2>8, <2>9, <2>11 DEF InstInv
      <2> QED
          BY <1>t, <2>p, <2>2, <2>3, <2>4, <2>12, <2>g, Local DEF Checked, MainInv
  <1>3. ASSUME worker[i].at = "counted",
               bogo' = [bogo EXCEPT ![i].ready = TRUE],
               worker' = [worker EXCEPT ![i].at = "run"],
               UNCHANGED <<other, told, halted, sum, kid, pub, hit, outlived, oomed>>
        PROVE  IndInv'
      <2>p. worker[i].at = "counted" /\ i \in Wrapped /\ (kid[i].pc = "wait" \/ i \in outlived)
          BY <1>a, <1>m, <1>3 DEF WorkerInv
      <2>1. /\ worker' = [worker EXCEPT ![i] = [worker[i] EXCEPT !.at = "run"]]
            /\ bogo' = [bogo EXCEPT ![i] = [bogo[i] EXCEPT !.ready = TRUE]]
            /\ UNCHANGED <<mainVars, mishaps, told, halted, kid, sum, pub, hit, outlived, oomed>>
          BY <1>i, <1>a, <2>p, <1>3 DEF WorkerInv
      <2>2. /\ worker'[i].at = "run" /\ worker'[i].stuck = worker[i].stuck
            /\ worker'[i].how = worker[i].how /\ bogo'[i].ready = TRUE
            /\ bogo'[i].counter = bogo[i].counter /\ bogo'[i].ok = bogo[i].ok
            /\ bogo'[i].force = bogo[i].force /\ bogo'[i].completed = bogo[i].completed
            /\ bogo'[i].oom = bogo[i].oom
            /\ UNCHANGED <<slot, kid, sum, pub, hit, outlived, oomed>>
          BY <1>i, <2>1 DEF WorkerType, BogoType
      <2>3. OnlyAt(i)
          BY <1>i, <2>1 DEF OnlyAt
      <2>4. TypeOK'
          <3>1. worker' \in [Inst -> WorkerType]
              BY <1>i, <2>p, <2>1 DEF WorkerType
          <3>2. bogo' \in [Inst -> BogoType]
              BY <1>i, <2>p, <2>1 DEF BogoType
          <3> QED
              BY <1>t, <2>1, <3>1, <3>2 DEF TypeOK
      <2>5. StageInv(i)'
          BY <1>a, <2>p, <2>2 DEF StageInv, Working, Publishing
      <2>6. WorkerInv(i)'
          BY <1>a, <2>p, <2>2 DEF WorkerInv
      <2>7. CountInv(i)'
          BY <1>a, <1>m, <2>p, <2>2 DEF CountInv
      <2>8. CopyInv(i)'
          BY <1>a, <1>m, <2>p, <2>2 DEF CopyInv, StageInv, Working, Publishing
      <2>9. HashInv(i)'
          BY <1>a, <1>m, <2>p, <2>2 DEF HashInv, StageInv, Working, Publishing
      <2>11. OomInv(i)'
          BY <1>a, <2>p, <2>2 DEF OomInv
      <2>12. InstInv(i)'
          BY <2>5, <2>6, <2>7, <2>8, <2>9, <2>11 DEF InstInv
      <2> QED
          BY <1>t, <2>p, <2>2, <2>3, <2>4, <2>12, Local DEF Checked, MainInv
  <1>4. ASSUME NEW v \in WorkerType,
               NEW om \in {oomed, oomed \cup {i}},
               worker[i].at # "none",
               v.at \in {"none", "zombie"},
               v.how # "KILL",
               v.how = "OOM" => i \in om,
               Mishap \/ mishaps' = mishaps,
               worker' = [worker EXCEPT ![i] = v],
               oomed' = om,
               UNCHANGED <<mainVars, told, halted, bogo, sum, kid, pub, hit, outlived>>
        PROVE  IndInv'
      <2>p. i \in Wrapped
          BY <1>a, <1>m, <1>4 DEF WorkerInv
      <2>1. /\ worker' = [worker EXCEPT ![i] = v]
            /\ UNCHANGED <<mainVars, told, halted, kid, bogo, sum, pub, hit, outlived>>
          BY <1>i, <1>a, <2>p, <1>4 DEF WorkerInv
      <2>o. oomed' = om
          BY <1>4 DEF WorkerDies
      <2>g. om \subseteq Inst /\ oomed \subseteq om /\ (\A j \in Inst \ {i} : j \in om <=> j \in oomed)
          BY <1>t, <1>4 DEF TypeOK
      <2>2. /\ worker'[i] = v /\ UNCHANGED <<slot, kid, bogo, sum, pub, hit, outlived>>
          BY <1>i, <2>1
      <2>3. OnlyAt(i)
          BY <1>i, <2>1, <2>o, <2>g DEF OnlyAt
      <2>4. TypeOK'
          <3>1. mishaps' \in 0..MaxMishaps
              BY <1>t, <1>4, MishapType DEF WorkerDies, MishapIf, Mishap
          <3>2. worker' \in [Inst -> WorkerType]
              BY <1>i, <2>p, <2>1, <2>g DEF WorkerType
          <3> QED
              BY <1>t, <2>1, <3>1, <3>2, <2>o, <2>g DEF TypeOK
      <2>5. StageInv(i)'
          BY <1>a, <2>p, <2>2, <2>o, <2>g DEF StageInv, Working, Publishing
      <2>6. WorkerInv(i)'
          BY <1>a, <1>4, <2>p, <2>2 DEF WorkerInv
      <2>7. CountInv(i)'
          BY <1>a, <1>4, <2>2 DEF CountInv
      <2>8. CopyInv(i)'
          BY <1>a, <1>m, <2>p, <2>2, <2>o, <2>g DEF CopyInv, StageInv, Working, Publishing
      <2>9. HashInv(i)'
          BY <1>a, <1>m, <2>p, <2>2, <2>o, <2>g DEF HashInv, StageInv, Working, Publishing
      <2>11. OomInv(i)'
          BY <1>a, <1>4, <2>2, <2>o, <2>g DEF OomInv
      <2>12. InstInv(i)'
          BY <2>5, <2>6, <2>7, <2>8, <2>9, <2>11 DEF InstInv
      <2> QED
          BY <1>t, <2>p, <2>2, <2>3, <2>4, <2>12, <2>g, <2>o, Local DEF Checked, MainInv
  <1>5. ASSUME NEW b \in BOOLEAN,
               Mishap \/ mishaps' = mishaps,
               worker' = [worker EXCEPT ![i].stuck = b],
               UNCHANGED <<mainVars, told, halted, bogo, sum, kid, history>>
        PROVE  IndInv'
      <2>p. Mishap \/ mishaps' = mishaps
          BY <1>a, <1>m, <1>5 DEF WorkerStuck
      <2>1. /\ worker' = [worker EXCEPT ![i] = [worker[i] EXCEPT !.stuck = b]]
            /\ UNCHANGED <<mainVars, told, halted, kid, bogo, sum, pub, hit, outlived, oomed>>
          BY <1>i, <1>a, <2>p, <1>5 DEF WorkerStuck
      <2>2. /\ worker'[i].at = worker[i].at /\ worker'[i].stuck = b
            /\ worker'[i].how = worker[i].how
            /\ UNCHANGED <<slot, kid, bogo, sum, pub, hit, outlived, oomed>>
          BY <1>i, <2>1 DEF WorkerType
      <2>3. OnlyAt(i)
          BY <1>i, <2>1 DEF OnlyAt
      <2>4. TypeOK'
          <3>1. mishaps' \in 0..MaxMishaps
              BY <1>t, <1>5, MishapType DEF WorkerStuck, MishapIf, Mishap
          <3>2. worker' \in [Inst -> WorkerType]
              BY <1>i, <2>p, <2>1 DEF WorkerType
          <3> QED
              BY <1>t, <2>1, <3>1, <3>2 DEF TypeOK
      <2>5. StageInv(i)'
          BY <1>a, <2>p, <2>2 DEF StageInv, Working, Publishing
      <2>6. WorkerInv(i)'
          BY <1>a, <2>p, <2>2 DEF WorkerInv
      <2>7. CountInv(i)'
          BY <1>a, <1>m, <2>p, <2>2 DEF CountInv
      <2>8. CopyInv(i)'
          BY <1>a, <1>m, <2>p, <2>2 DEF CopyInv, StageInv, Working, Publishing
      <2>9. HashInv(i)'
          BY <1>a, <1>m, <2>p, <2>2 DEF HashInv, StageInv, Working, Publishing
      <2>11. OomInv(i)'
          BY <1>a, <2>p, <2>2 DEF OomInv
      <2>12. InstInv(i)'
          BY <2>5, <2>6, <2>7, <2>8, <2>9, <2>11 DEF InstInv
      <2> QED
          BY <1>t, <2>p, <2>2, <2>3, <2>4, <2>12, Local DEF Checked, MainInv
  <1>6. CASE WorkerIncs(i)
      BY <1>1, <1>2, <1>3, <1>6 DEF WorkerIncs, stress_continue
  <1>7. CASE WorkerExits(i)
      <2>1. PICK how \in {"SUCCESS", "FAILURE"} :
               worker' = [worker EXCEPT ![i] = Gone(i, how)] /\ MishapIf(how # "SUCCESS")
          BY <1>7 DEF WorkerExits
      <2>2. Mishap \/ mishaps' = mishaps
          BY <2>1 DEF MishapIf
      <2> DEFINE v == Gone(i, how)
      <2>3. v \in WorkerType /\ v.at \in {"none", "zombie"} /\ v.how # "KILL" /\ v.how # "OOM"
          BY DEF Gone, NoWorker, WorkerType
      <2>4. /\ worker' = [worker EXCEPT ![i] = v] /\ worker[i].at # "none" /\ oomed' = oomed
            /\ UNCHANGED <<mainVars, told, halted, bogo, sum, kid, pub, hit, outlived>>
          BY <1>7, <2>1 DEF WorkerExits, Runs
      <2> HIDE DEF v
      <2> QED
          BY <1>4, <2>2, <2>3, <2>4
  <1>8. CASE WorkerDies(i)
      <2>1. PICK how \in {"OOM", "CRASH"} :
               /\ worker' = [worker EXCEPT ![i] = Gone(i, how)]
               /\ oomed' = IF how = "OOM" THEN oomed \cup {i} ELSE oomed
          BY <1>8 DEF WorkerDies
      <2> DEFINE v == Gone(i, how)
      <2>2. v \in WorkerType /\ v.at \in {"none", "zombie"} /\ v.how # "KILL"
          BY DEF Gone, NoWorker, WorkerType
      <2>3. v.how = "OOM" => how = "OOM"
          BY DEF Gone, NoWorker
      <2>4. oomed' \in {oomed, oomed \cup {i}} /\ (v.how = "OOM" => i \in oomed')
          BY <2>1, <2>3
      <2>5. /\ worker' = [worker EXCEPT ![i] = v] /\ worker[i].at # "none" /\ Mishap
            /\ UNCHANGED <<mainVars, told, halted, bogo, sum, kid, pub, hit, outlived>>
          BY <1>8, <2>1 DEF WorkerDies, Runs
      <2> HIDE DEF v
      <2> QED
          BY <1>4, <2>2, <2>4, <2>5
  <1>9. CASE WorkerStuck(i) \/ WorkerWakes(i)
      BY <1>5, <1>9 DEF WorkerStuck, WorkerWakes
  <1> QED
      BY <1>6, <1>7, <1>8, <1>9

\* A process is killed, bits flip, or a timer fires.
LEMMA DisturbanceSteps ==
    ASSUME IndInv, torn' \subseteq Inst, NEW i \in Inst, ChildKilled(i) \/ Fault(i) \/ Alarm(i)
    PROVE  IndInv'
  <1> USE DEF other, mainVars, history
  <1>t. TypeOK /\ InstInv(i) /\ MainInv
      BY DEF IndInv
  <1>a. /\ StageInv(i) /\ WorkerInv(i) /\ CountInv(i) /\ CopyInv(i) /\ HashInv(i)
        /\ OomInv(i)
      BY <1>t DEF InstInv
  <1>i. /\ kid \in [Inst -> KidType] /\ worker \in [Inst -> WorkerType]
        /\ bogo \in [Inst -> BogoType] /\ sum \in [Inst -> SumType]
        /\ pub \in [Inst -> {"no", "begun", "full"}]
      BY <1>t DEF TypeOK
  <1>n. MaxOps \in Nat /\ MaxOps > 0
      BY OptionsAssumption
  <1>m. bogo[i].counter \in Nat /\ sum[i].counter \in Nat
      BY <1>i, <1>n DEF BogoType, SumType
  <1>1. CASE ChildKilled(i)
      <2> DEFINE ol == IF worker[i].at \in {"run", "not ready", "counted"} THEN outlived \cup {i} ELSE outlived
      <2>p. kid[i].pc \notin {"none", "exited", "dead"}
          BY <1>a, <1>m, <1>1 DEF ChildKilled, Alive
      <2>1. /\ kid' = [kid EXCEPT ![i] = [kid[i] EXCEPT !.pc = "dead"]]
            /\ UNCHANGED <<mainVars, told, halted, worker, bogo, sum, pub, hit, oomed>>
          BY <1>i, <1>a, <2>p, <1>1 DEF ChildKilled, Alive
      <2>o. outlived' = ol
          BY <1>1 DEF ChildKilled
      <2>g. /\ ol \subseteq Inst /\ outlived \subseteq ol /\ (\A j \in Inst \ {i} : j \in ol <=> j \in outlived)
            /\ worker[i].at \in {"none", "zombie"} \/ i \in ol
          BY <1>i, <1>t DEF TypeOK, WorkerType
      <2> HIDE DEF ol
      <2>2. /\ kid'[i].pc = "dead" /\ kid'[i].rc = kid[i].rc /\ kid'[i].idx = kid[i].idx
            /\ UNCHANGED <<slot, worker, bogo, sum, pub, hit, oomed>>
          BY <1>i, <2>1 DEF KidType
      <2>3. OnlyAt(i)
          BY <1>i, <2>1, <2>o, <2>g DEF OnlyAt
      <2>4. TypeOK'
          <3>1. mishaps' \in 0..MaxMishaps
              BY <1>t, <1>1, MishapType DEF ChildKilled, MishapIf, Mishap
          <3>2. kid' \in [Inst -> KidType]
              BY <1>i, <2>p, <2>1, <2>g DEF KidType, KidPc
          <3> QED
              BY <1>t, <2>1, <3>1, <3>2, <2>o, <2>g DEF TypeOK
      <2>5. StageInv(i)'
          BY <1>a, <2>p, <2>2 DEF StageInv, Working, Publishing
      <2>6. WorkerInv(i)'
          BY <1>a, <2>p, <2>2, <2>o, <2>g DEF WorkerInv
      <2>7. CountInv(i)'
          BY <1>a, <1>m, <2>p, <2>2, <2>o DEF CountInv
      <2>8. CopyInv(i)'
          <3>1. pub[i] # "full" \/ i \in hit
              BY <1>i, <1>a, <2>p DEF StageInv, Working, Publishing, KidType, KidPc
          <3> QED
              BY <2>2, <3>1 DEF CopyInv
      <2>9. HashInv(i)'
          BY <1>a, <1>m, <2>p, <2>2, <2>o, <2>g DEF HashInv, StageInv, Working, Publishing
      <2>11. OomInv(i)'
          BY <1>a, <2>p, <2>2, <2>o, <2>g DEF OomInv
      <2>12. InstInv(i)'
          BY <2>5, <2>6, <2>7, <2>8, <2>9, <2>11 DEF InstInv
      <2> QED
          BY <1>t, <2>p, <2>2, <2>3, <2>4, <2>12, <2>g, <2>o, Local DEF Checked, MainInv
  <1>2. ASSUME mpc \in {"start", "forked", "wait", "check"},
               Mishap,
               kid[i].pc \in {"none", "exited"},
               pub[i] = "full",
               i \notin hit,
               hit' = hit \cup {i},
               bogo' = [bogo EXCEPT ![i].counter = @ + 1],
               UNCHANGED sum,
               UNCHANGED <<mainVars, told, halted, kid, worker, pub, outlived, oomed>>
        PROVE  IndInv'
      <2> DEFINE d == bogo[i].counter + 1
      <2>p. /\ kid[i].pc \in {"none", "exited"} /\ pub[i] = "full" /\ i \notin hit /\ slot[i] = i
            /\ mpc \in {"start", "forked", "wait", "check"}
          BY <1>a, <1>m, <1>2 DEF StageInv
      <2>1. /\ bogo' = [bogo EXCEPT ![i] = [bogo[i] EXCEPT !.counter = d]]
            /\ UNCHANGED <<mainVars, told, halted, kid, worker, sum, pub, outlived, oomed>>
          BY <1>i, <1>a, <2>p, <1>2 DEF StageInv
      <2>o. hit' = hit \cup {i}
          BY <1>2 DEF Fault
      <2>g. /\ d \in 0..(MaxOps + 2) /\ d <= MaxOps + 1 /\ sum[i].counter < d
            /\ (worker[i].at = "not ready" => d <= MaxOps)
          <3> DEFINE c == bogo[i].counter
                     s == sum[i].counter
          <3>1. c \in Nat /\ s \in Nat /\ c <= MaxOps /\ s <= c
              BY <1>a, <1>m, <2>p DEF CountInv, CopyInv
          <3>0. worker[i].at = "not ready" => c < MaxOps
              BY <1>a, <2>p DEF CountInv
          <3> HIDE DEF c, s
          <3>2. /\ c + 1 \in 0..(MaxOps + 2) /\ c + 1 <= MaxOps + 1 /\ s < c + 1
                /\ (c < MaxOps => c + 1 <= MaxOps)
              BY <1>n, <3>1
          <3> QED
              BY <3>0, <3>2 DEF c, s
      <2> HIDE DEF d
      <2>2. /\ bogo'[i].ready = bogo[i].ready /\ bogo'[i].counter = d /\ bogo'[i].ok = bogo[i].ok
            /\ bogo'[i].force = bogo[i].force /\ bogo'[i].completed = bogo[i].completed
            /\ bogo'[i].oom = bogo[i].oom
            /\ UNCHANGED <<slot, kid, worker, sum, pub, outlived, oomed>>
          BY <1>i, <2>1 DEF BogoType
      <2>3. OnlyAt(i)
          BY <1>i, <2>1, <2>o, <2>g DEF OnlyAt
      <2>4. TypeOK'
          <3>1. mishaps' \in 0..MaxMishaps
              BY <1>t, <1>2, MishapType DEF Fault, MishapIf, Mishap
          <3>2. bogo' \in [Inst -> BogoType]
              BY <1>i, <2>p, <2>1, <2>g DEF BogoType
          <3> QED
              BY <1>t, <2>1, <3>1, <3>2, <2>o, <2>g DEF TypeOK
      <2>5. StageInv(i)'
          BY <1>a, <2>p, <2>2, <2>o, <2>g DEF StageInv, Working, Publishing
      <2>6. WorkerInv(i)'
          BY <1>a, <2>p, <2>2, <2>o, <2>g DEF WorkerInv
      <2>7. CountInv(i)'
          BY <1>a, <2>p, <2>2, <2>o, <2>g DEF CountInv
      <2>8. CopyInv(i)'
          BY <1>a, <1>m, <2>p, <2>2, <2>o, <2>g DEF CopyInv, StageInv, Working, Publishing
      <2>9. HashInv(i)'
          BY <1>a, <1>m, <2>p, <2>2, <2>o, <2>g DEF HashInv, StageInv, Working, Publishing
      <2>11. OomInv(i)'
          BY <1>a, <2>p, <2>2, <2>o, <2>g DEF OomInv
      <2>12. InstInv(i)'
          BY <2>5, <2>6, <2>7, <2>8, <2>9, <2>11 DEF InstInv
      <2> QED
          BY <1>t, <2>p, <2>2, <2>3, <2>4, <2>12, <2>g, <2>o, Local DEF Checked, MainInv
  <1>3. ASSUME mpc \in {"start", "forked", "wait", "check"},
               Mishap,
               kid[i].pc \in {"none", "exited"},
               pub[i] = "full",
               i \notin hit,
               hit' = hit \cup {i},
               bogo' = [bogo EXCEPT ![i].ok = ~@],
               UNCHANGED sum,
               UNCHANGED <<mainVars, told, halted, kid, worker, pub, outlived, oomed>>
        PROVE  IndInv'
      <2> DEFINE v == ~bogo[i].ok
      <2>p. /\ kid[i].pc \in {"none", "exited"} /\ pub[i] = "full" /\ i \notin hit /\ slot[i] = i
            /\ mpc \in {"start", "forked", "wait", "check"}
          BY <1>a, <1>m, <1>3 DEF StageInv
      <2>1. /\ bogo' = [bogo EXCEPT ![i] = [bogo[i] EXCEPT !.ok = v]]
            /\ UNCHANGED <<mainVars, told, halted, kid, worker, sum, pub, outlived, oomed>>
          BY <1>i, <1>a, <2>p, <1>3 DEF StageInv
      <2>o. hit' = hit \cup {i}
          BY <1>3 DEF Fault
      <2>g. v \in BOOLEAN /\ sum[i].ok # v
          <3>1. sum[i].ok = bogo[i].ok /\ bogo[i].ok \in BOOLEAN
              BY <1>i, <1>a, <2>p DEF CopyInv, BogoType
          <3> QED
              BY <3>1
      <2> HIDE DEF v
      <2>2. /\ bogo'[i].ready = bogo[i].ready /\ bogo'[i].counter = bogo[i].counter
            /\ bogo'[i].ok = v /\ bogo'[i].force = bogo[i].force
            /\ bogo'[i].completed = bogo[i].completed /\ bogo'[i].oom = bogo[i].oom
            /\ UNCHANGED <<slot, kid, worker, sum, pub, outlived, oomed>>
          BY <1>i, <2>1 DEF BogoType
      <2>3. OnlyAt(i)
          BY <1>i, <2>1, <2>o, <2>g DEF OnlyAt
      <2>4. TypeOK'
          <3>1. mishaps' \in 0..MaxMishaps
              BY <1>t, <1>3, MishapType DEF Fault, MishapIf, Mishap
          <3>2. bogo' \in [Inst -> BogoType]
              BY <1>i, <2>p, <2>1, <2>g DEF BogoType
          <3> QED
              BY <1>t, <2>1, <3>1, <3>2, <2>o, <2>g DEF TypeOK
      <2>5. StageInv(i)'
          BY <1>a, <2>p, <2>2, <2>o, <2>g DEF StageInv, Working, Publishing
      <2>6. WorkerInv(i)'
          BY <1>a, <2>p, <2>2, <2>o, <2>g DEF WorkerInv
      <2>7. CountInv(i)'
          BY <1>a, <1>m, <2>p, <2>2, <2>o DEF CountInv
      <2>8. CopyInv(i)'
          BY <1>a, <1>m, <2>p, <2>2, <2>o, <2>g DEF CopyInv, StageInv, Working, Publishing
      <2>9. HashInv(i)'
          BY <1>a, <1>m, <2>p, <2>2, <2>o, <2>g DEF HashInv, StageInv, Working, Publishing
      <2>11. OomInv(i)'
          BY <1>a, <2>p, <2>2, <2>o, <2>g DEF OomInv
      <2>12. InstInv(i)'
          BY <2>5, <2>6, <2>7, <2>8, <2>9, <2>11 DEF InstInv
      <2> QED
          BY <1>t, <2>p, <2>2, <2>3, <2>4, <2>12, <2>g, <2>o, Local DEF Checked, MainInv
  <1>4. ASSUME mpc \in {"start", "forked", "wait", "check"},
               Mishap,
               kid[i].pc \in {"none", "exited"},
               pub[i] = "full",
               i \notin hit,
               hit' = hit \cup {i},
               sum' = [sum EXCEPT ![slot[i]].counter = @ + 1],
               UNCHANGED bogo,
               UNCHANGED <<mainVars, told, halted, kid, worker, pub, outlived, oomed>>
        PROVE  IndInv'
      <2> DEFINE d == sum[i].counter + 1
      <2>p. /\ kid[i].pc \in {"none", "exited"} /\ pub[i] = "full" /\ i \notin hit /\ slot[i] = i
            /\ mpc \in {"start", "forked", "wait", "check"}
          BY <1>a, <1>m, <1>4 DEF StageInv
      <2>1. /\ sum' = [sum EXCEPT ![i] = [sum[i] EXCEPT !.counter = d]]
            /\ UNCHANGED <<mainVars, told, halted, kid, worker, bogo, pub, outlived, oomed>>
          BY <1>i, <1>a, <2>p, <1>4 DEF StageInv
      <2>o. hit' = hit \cup {i}
          BY <1>4 DEF Fault
      <2>g. /\ d \in 0..(MaxOps + 2) /\ d <= MaxOps + 1 /\ sum[i].counter # d
          <3> DEFINE c == bogo[i].counter
                     s == sum[i].counter
          <3>1. c \in Nat /\ s \in Nat /\ c <= MaxOps /\ s <= c
              BY <1>a, <1>m, <2>p DEF CountInv, CopyInv
          <3> HIDE DEF c, s
          <3>2. /\ s + 1 \in 0..(MaxOps + 2) /\ s + 1 <= MaxOps + 1 /\ s # s + 1
              BY <1>n, <3>1
          <3> QED
              BY <3>2 DEF s
      <2> HIDE DEF d
      <2>2. /\ sum'[i].counter = d /\ sum'[i].ok = sum[i].ok /\ sum'[i].hash = sum[i].hash
            /\ UNCHANGED <<slot, kid, worker, bogo, pub, outlived, oomed>>
          BY <1>i, <2>1 DEF SumType
      <2>3. OnlyAt(i)
          BY <1>i, <2>1, <2>o, <2>g DEF OnlyAt
      <2>4. TypeOK'
          <3>1. mishaps' \in 0..MaxMishaps
              BY <1>t, <1>4, MishapType DEF Fault, MishapIf, Mishap
          <3>2. sum' \in [Inst -> SumType]
              BY <1>i, <2>p, <2>1, <2>g DEF SumType
          <3> QED
              BY <1>t, <2>1, <3>1, <3>2, <2>o, <2>g DEF TypeOK
      <2>5. StageInv(i)'
          BY <1>a, <2>p, <2>2, <2>o, <2>g DEF StageInv, Working, Publishing
      <2>6. WorkerInv(i)'
          BY <1>a, <2>p, <2>2, <2>o, <2>g DEF WorkerInv
      <2>7. CountInv(i)'
          BY <1>a, <1>m, <2>p, <2>2, <2>o, <2>g DEF CountInv
      <2>8. CopyInv(i)'
          BY <1>a, <1>m, <2>p, <2>2, <2>o, <2>g DEF CopyInv, StageInv, Working, Publishing
      <2>9. HashInv(i)'
          <3>1. sum[i].hash = Hash(sum[i].counter, sum[i].ok)
              BY <1>a, <2>p DEF HashInv
          <3>2. sum[i].hash # Hash(d, sum[i].ok)
              BY <2>g, <3>1 DEF Hash
          <3> QED
              BY <2>2, <2>o, <3>2 DEF HashInv
      <2>11. OomInv(i)'
          BY <1>a, <2>p, <2>2, <2>o, <2>g DEF OomInv
      <2>12. InstInv(i)'
          BY <2>5, <2>6, <2>7, <2>8, <2>9, <2>11 DEF InstInv
      <2> QED
          BY <1>t, <2>p, <2>2, <2>3, <2>4, <2>12, <2>g, <2>o, Local DEF Checked, MainInv
  <1>5. ASSUME mpc \in {"start", "forked", "wait", "check"},
               Mishap,
               kid[i].pc \in {"none", "exited"},
               pub[i] = "full",
               i \notin hit,
               hit' = hit \cup {i},
               sum' = [sum EXCEPT ![slot[i]].hash = <<>>],
               UNCHANGED bogo,
               UNCHANGED <<mainVars, told, halted, kid, worker, pub, outlived, oomed>>
        PROVE  IndInv'
      <2> DEFINE h == <<>>
      <2>p. /\ kid[i].pc \in {"none", "exited"} /\ pub[i] = "full" /\ i \notin hit /\ slot[i] = i
            /\ mpc \in {"start", "forked", "wait", "check"}
          BY <1>a, <1>m, <1>5 DEF StageInv
      <2>1. /\ sum' = [sum EXCEPT ![i] = [sum[i] EXCEPT !.hash = h]]
            /\ UNCHANGED <<mainVars, told, halted, kid, worker, bogo, pub, outlived, oomed>>
          BY <1>i, <1>a, <2>p, <1>5 DEF StageInv
      <2>o. hit' = hit \cup {i}
          BY <1>5 DEF Fault
      <2>g. h \in HashType /\ h # Hash(sum[i].counter, sum[i].ok)
          BY DEF HashType, Hash
      <2> HIDE DEF h
      <2>2. /\ sum'[i].counter = sum[i].counter /\ sum'[i].ok = sum[i].ok /\ sum'[i].hash = h
            /\ UNCHANGED <<slot, kid, worker, bogo, pub, outlived, oomed>>
          BY <1>i, <2>1 DEF SumType
      <2>3. OnlyAt(i)
          BY <1>i, <2>1, <2>o, <2>g DEF OnlyAt
      <2>4. TypeOK'
          <3>1. mishaps' \in 0..MaxMishaps
              BY <1>t, <1>5, MishapType DEF Fault, MishapIf, Mishap
          <3>2. sum' \in [Inst -> SumType]
              BY <1>i, <2>p, <2>1, <2>g DEF SumType
          <3> QED
              BY <1>t, <2>1, <3>1, <3>2, <2>o, <2>g DEF TypeOK
      <2>5. StageInv(i)'
          BY <1>a, <2>p, <2>2, <2>o, <2>g DEF StageInv, Working, Publishing
      <2>6. WorkerInv(i)'
          BY <1>a, <2>p, <2>2, <2>o, <2>g DEF WorkerInv
      <2>7. CountInv(i)'
          BY <1>a, <1>m, <2>p, <2>2, <2>o DEF CountInv
      <2>8. CopyInv(i)'
          BY <1>a, <1>m, <2>p, <2>2, <2>o, <2>g DEF CopyInv, StageInv, Working, Publishing
      <2>9. HashInv(i)'
          BY <1>a, <1>m, <2>p, <2>2, <2>o, <2>g DEF HashInv, StageInv, Working, Publishing
      <2>11. OomInv(i)'
          BY <1>a, <2>p, <2>2, <2>o, <2>g DEF OomInv
      <2>12. InstInv(i)'
          BY <2>5, <2>6, <2>7, <2>8, <2>9, <2>11 DEF InstInv
      <2> QED
          BY <1>t, <2>p, <2>2, <2>3, <2>4, <2>12, <2>g, <2>o, Local DEF Checked, MainInv
  <1>6. CASE Fault(i)
      BY <1>2, <1>3, <1>4, <1>5, <1>6 DEF Fault
  <1>7. CASE Alarm(i)
      <2>1. UNCHANGED <<mainVars, mishaps, bogo, sum, kid, worker, pub, hit, outlived, oomed>>
          BY <1>7 DEF Alarm
      <2>2. OnlyAt(i)
          BY <2>1 DEF OnlyAt
      <2>3. InstInv(i)'
          BY <1>t, <2>1, Untouched
      <2>4. TypeOK'
          BY <1>t, <1>7, <2>1 DEF TypeOK, Alarm
      <2> QED
          BY <2>1, <2>2, <2>3, <2>4, Local
  <1> QED
      BY <1>1, <1>6, <1>7

\* A step of main that touches no instance.
LEMMA Quiet ==
    ASSUME IndInv, UNCHANGED <<slot, bogo, sum, kid, worker, history>>
    PROVE  \A j \in Inst : InstInv(j)'
  <1> SUFFICES ASSUME NEW j \in Inst PROVE InstInv(j)'
      OBVIOUS
  <1>1. InstInv(j)
      BY DEF IndInv
  <1> QED
      BY <1>1, Untouched DEF history

\* The head of the loop of stress_run for the stressor it has come to: a slot is
\* written only into an instance whose process is gone.
LEMMA ResetSteps ==
    ASSUME IndInv, mpc = "start", next <= N, Reset,
           UNCHANGED <<sum, worker, outlived, oomed>>,
           kid' \in [Inst -> KidType], \A j \in Inst \ {next} : kid'[j] = kid[j],
           kid'[next].pc = "none" \/ (kid'[next].pc = "born" /\ pos = next)
    PROVE  /\ \A j \in Inst : InstInv(j)'
           /\ \A j \in Inst : j > next => kid'[j].pc = "none"
           /\ next + 1 \in 1..(N + 1) /\ pos \in 1..N
           /\ bogo' \in [Inst -> BogoType] /\ slot' \in [Inst -> 0..N]
           /\ pub' \in [Inst -> {"no", "begun", "full"}] /\ hit' \subseteq Inst
  <1>1. TypeOK /\ MainInv /\ \A j \in Inst : InstInv(j)
      BY DEF IndInv
  <1>0. next \in Inst /\ N \in Nat /\ pos \in 1..N
      BY <1>1, PlanAssumption DEF TypeOK, MainInv, Inst
  <1>p. PICK n \in Inst : n = next
      BY <1>0
  <1>2. N \in Nat /\ n \in 1..N /\ pos \in 1..N
      BY <1>0 DEF Inst
  <1>3. MaxOps \in Nat /\ MaxOps > 0
      BY OptionsAssumption
  <1>4. /\ bogo' = [bogo EXCEPT ![n] = [bogo[n] EXCEPT !.ready = TRUE, !.counter = 0]]
        /\ slot' = [slot EXCEPT ![n] = pos] /\ pub' = [pub EXCEPT ![n] = "no"]
        /\ hit' = hit \ {n}
      BY <1>1, <1>p DEF Reset, TypeOK, BogoType
  <1>5. /\ bogo \in [Inst -> BogoType] /\ slot \in [Inst -> 0..N] /\ hit \subseteq Inst
        /\ pub \in [Inst -> {"no", "begun", "full"}] /\ kid \in [Inst -> KidType]
      BY <1>1 DEF TypeOK
  <1>6. kid[n].pc = "none"
      BY <1>1, <1>2, <1>p DEF MainInv
  <1>7. /\ bogo'[n].counter = 0 /\ bogo'[n].completed = bogo[n].completed
        /\ bogo'[n].oom = bogo[n].oom /\ pub'[n] = "no" /\ n \notin hit' /\ slot'[n] = pos
      BY <1>2, <1>4, <1>5 DEF BogoType
  <1>8. kid'[n].pc = "none" \/ (kid'[n].pc = "born" /\ slot'[n] = n)
      BY <1>7, <1>p
  <1>9. InstInv(n)'
      <2>1. /\ StageInv(n) /\ WorkerInv(n) /\ CountInv(n) /\ OomInv(n)
          BY <1>1, <1>2 DEF InstInv
      <2>2. StageInv(n)'
          BY <1>7, <1>8 DEF StageInv, Working, Publishing
      <2>3. WorkerInv(n)'
          BY <1>6, <1>8, <2>1 DEF WorkerInv
      <2>4. CountInv(n)'
          <3>1. 0 <= MaxOps /\ 0 <= MaxOps + 1 /\ 0 < MaxOps
              BY <1>3
          <3> QED
              BY <1>7, <2>1, <3>1 DEF CountInv
      <2>5. CopyInv(n)' /\ HashInv(n)'
          BY <1>7, <1>8 DEF CopyInv, HashInv
      <2>6. OomInv(n)'
          BY <1>7, <1>8, <2>1 DEF OomInv
      <2> QED
          BY <2>2, <2>3, <2>4, <2>5, <2>6 DEF InstInv
  <1>10. \A j \in Inst : InstInv(j)'
      <2>1. ASSUME NEW j \in Inst, j # n PROVE InstInv(j)'
          <3>1. /\ kid'[j] = kid[j] /\ bogo'[j] = bogo[j] /\ slot'[j] = slot[j] /\ pub'[j] = pub[j]
                /\ (j \in hit' <=> j \in hit)
              BY <1>4, <1>5, <1>p, <2>1
          <3> QED
              BY <1>1, <3>1, Untouched
      <2> QED
          BY <1>9, <2>1
  <1>11. \A j \in Inst : j > next => kid'[j].pc = "none"
      <2> SUFFICES ASSUME NEW j \in Inst, j > next PROVE kid'[j].pc = "none"
          OBVIOUS
      <2>1. j # n /\ j >= n
          BY <1>2, <1>p DEF Inst
      <2> QED
          BY <1>1, <1>p, <2>1 DEF MainInv
  <1>12. bogo' \in [Inst -> BogoType]
      <2>1. 0 \in 0..(MaxOps + 2)
          BY <1>3
      <2> QED
          BY <1>2, <1>4, <1>5, <2>1 DEF BogoType
  <1> QED
      BY <1>2, <1>4, <1>5, <1>10, <1>11, <1>12, <1>p

\* What stress_metrics_check finds is what the invariant says of each instance.
LEMMA CheckSteps ==
    ASSUME IndInv, torn' \subseteq Inst, stress_metrics_check
    PROVE  IndInv'
  <1> USE DEF history, mainVars
  <1>1. TypeOK /\ MainInv /\ mpc = "check" /\ mpc' = "next run"
      BY DEF IndInv, stress_metrics_check
  <1>2. \A j \in Inst : InstInv(j)'
      BY Quiet DEF stress_metrics_check
  <1>3. \A i \in Inst : i \in reported' <=> bogo[i].completed /\ Corrupted(i)
      BY DEF stress_metrics_check
  <1>4. \A i \in hit : i \in reported'
      <2> SUFFICES ASSUME NEW i \in hit PROVE i \in reported'
          OBVIOUS
      <2>1. i \in Inst
          BY <1>1 DEF TypeOK
      <2>2. StageInv(i) /\ HashInv(i)
          BY <2>1 DEF IndInv, InstInv
      <2>3. slot[i] = i /\ bogo[i].completed
          BY <2>2 DEF StageInv
      <2>4. bogo[i].counter \in Int /\ sum[i].counter \in Int
          <3>1. MaxOps \in Nat /\ bogo \in [Inst -> BogoType] /\ sum \in [Inst -> SumType]
              BY <1>1, OptionsAssumption DEF TypeOK
          <3> QED
              BY <2>1, <3>1 DEF BogoType, SumType
      <2>5. Corrupted(i)
          BY <2>2, <2>3, <2>4 DEF HashInv, Corrupted
      <2> QED
          BY <1>3, <2>1, <2>3, <2>5
  <1>5. \A i \in reported' : i \in hit \/ pub[i] # "full" \/ i \in outlived
      <2> SUFFICES ASSUME NEW i \in reported', i \notin hit, pub[i] = "full", i \notin outlived
                   PROVE  FALSE
          OBVIOUS
      <2>1. i \in Inst /\ Corrupted(i)
          BY DEF stress_metrics_check
      <2>2. StageInv(i) /\ CopyInv(i) /\ HashInv(i)
          BY <2>1 DEF IndInv, InstInv
      <2>3. /\ slot[i] = i /\ sum[i].ok = bogo[i].ok /\ sum[i].counter = bogo[i].counter
            /\ sum[i].hash = Hash(sum[i].counter, sum[i].ok)
          BY <2>2 DEF StageInv, CopyInv, HashInv
      <2> QED
          BY <2>1, <2>3 DEF Corrupted
  <1>6. CorruptionReported' /\ AlarmsExplained'
      BY <1>4, <1>5 DEF CorruptionReported, AlarmsExplained, stress_metrics_check
  <1>7. TypeOK' /\ MainInv'
      BY <1>1 DEF TypeOK, MainInv, stress_metrics_check
  <1> QED
      BY <1>2, <1>6, <1>7 DEF IndInv

\* The other steps of main.
LEMMA MainSteps ==
    ASSUME IndInv, torn' \subseteq Inst,
           \/ Skip \/ Fork \/ ForkedGoOn \/ ForkedStopped \/ StopSeen \/ ForkFails \/ AllStarted
           \/ AllReaped \/ NextRun \/ Stop \/ Ended
    PROVE  IndInv'
  <1> USE DEF history, mainVars
  <1>1. TypeOK /\ MainInv /\ \A j \in Inst : InstInv(j)
      BY DEF IndInv
  <1>2. N \in Nat /\ run \in 1..(Len(Plan) + 1) /\ Len(Plan) \in Nat
        /\ next \in 1..(N + 1) /\ pos \in 1..(N + 1)
      <2>1. N \in Nat /\ Len(Plan) \in Nat
          BY PlanAssumption
      <2> QED
          BY <1>1, <2>1 DEF TypeOK
  <1>3. CASE Skip
      <2>1. \A j \in Inst : InstInv(j)'
          BY <1>3, Quiet DEF Skip
      <2>2. next' \in 1..(N + 1) /\ pos' \in 1..(N + 1) /\ pos' <= next' /\ (contin => pos' = next')
          BY <1>1, <1>2, <1>3 DEF Skip, MainInv
      <2>3. TypeOK'
          BY <1>1, <1>3, <2>2 DEF Skip, TypeOK
      <2>4. \A j \in Inst : j >= next' => j >= next
          BY <1>2, <1>3 DEF Skip, Inst
      <2>5. MainInv' /\ CorruptionReported' /\ AlarmsExplained'
          BY <1>1, <1>3, <2>2, <2>4 DEF Skip, MainInv, CorruptionReported, AlarmsExplained, Checked
      <2> QED
          BY <2>1, <2>3, <2>5 DEF IndInv
  <1>4. CASE Fork
      <2> DEFINE newborn == [pc |-> "born", rc |-> SUCCESS, idx |-> 1]
      <2>1. mpc = "start" /\ next <= N /\ Reset /\ contin /\ pos = next /\ next \in Inst
          BY <1>1, <1>2, <1>4 DEF Fork, MainInv, Inst
      <2>2. newborn \in KidType /\ newborn.pc = "born"
          BY OptionsAssumption DEF KidType, KidPc
      <2>3. kid' = [kid EXCEPT ![next] = newborn] /\ kid \in [Inst -> KidType]
          BY <1>1, <1>4 DEF Fork, TypeOK
      <2> HIDE DEF newborn
      <2>4. /\ kid' \in [Inst -> KidType] /\ (\A j \in Inst \ {next} : kid'[j] = kid[j])
            /\ kid'[next].pc = "born"
          BY <2>1, <2>2, <2>3
      <2>5. UNCHANGED <<sum, worker, outlived, oomed>>
          BY <1>4 DEF Fork
      <2>6. /\ \A j \in Inst : InstInv(j)'
            /\ \A j \in Inst : j > next => kid'[j].pc = "none"
            /\ bogo' \in [Inst -> BogoType] /\ slot' \in [Inst -> 0..N]
            /\ pub' \in [Inst -> {"no", "begun", "full"}] /\ hit' \subseteq Inst
          BY <2>1, <2>4, <2>5, ResetSteps
      <2>7. mpc' = "forked" /\ next' = next /\ pos' = pos /\ next' <= N
          BY <1>4 DEF Fork
      <2>8. TypeOK'
          BY <1>1, <1>4, <2>4, <2>6, <2>7 DEF Fork, TypeOK
      <2>9. MainInv' /\ CorruptionReported' /\ AlarmsExplained'
          BY <2>1, <2>6, <2>7 DEF MainInv, CorruptionReported, AlarmsExplained, Checked
      <2> QED
          BY <2>6, <2>8, <2>9 DEF IndInv
  <1>5. CASE StopSeen \/ ForkFails
      <2>1. /\ mpc = "start" /\ next <= N /\ Reset /\ next \in Inst
            /\ UNCHANGED <<run, contin, pos, reported, halted, sum, kid, worker, outlived, oomed>>
          BY <1>2, <1>5 DEF StopSeen, ForkFails, Inst
      <2>2. kid' \in [Inst -> KidType] /\ kid'[next].pc = "none"
          BY <1>1, <2>1 DEF TypeOK, MainInv, Inst
      <2>3. /\ \A j \in Inst : InstInv(j)'
            /\ \A j \in Inst : j > next => kid'[j].pc = "none"
            /\ next + 1 \in 1..(N + 1)
            /\ bogo' \in [Inst -> BogoType] /\ slot' \in [Inst -> 0..N]
            /\ pub' \in [Inst -> {"no", "begun", "full"}] /\ hit' \subseteq Inst
          BY <2>1, <2>2, ResetSteps
      <2>4. mishaps' \in 0..MaxMishaps
          BY <1>1, <1>5, MishapType DEF StopSeen, ForkFails
      <2>5. /\ told' \subseteq Inst
            /\ (mpc' = "start" /\ next' = next + 1 /\ ~contin') \/ (mpc' = "wait" /\ next' = next)
          <3>1. told \subseteq Inst
              BY <1>1 DEF TypeOK
          <3>2. CASE StopSeen
              BY <3>1, <3>2 DEF StopSeen
          <3>3. CASE ForkFails
              BY <3>1, <3>3 DEF ForkFails
          <3> QED
              BY <1>5, <3>2, <3>3
      <2>6. TypeOK'
          BY <1>1, <2>1, <2>2, <2>3, <2>4, <2>5 DEF TypeOK
      <2>7. pos <= next
          BY <1>1, <2>1 DEF MainInv
      <2>8. pos' <= next'
          BY <1>2, <2>1, <2>5, <2>7
      <2>9. mpc' = "start" => \A j \in Inst : j >= next' => kid'[j].pc = "none"
          <3>1. next' = next + 1 => \A j \in Inst : j >= next' => j > next
              BY <1>2 DEF Inst
          <3> QED
              BY <2>3, <2>5, <3>1
      <2>10. MainInv' /\ CorruptionReported' /\ AlarmsExplained'
          BY <2>5, <2>8, <2>9 DEF MainInv, CorruptionReported, AlarmsExplained, Checked
      <2> QED
          BY <2>3, <2>6, <2>10 DEF IndInv
  <1>11. CASE ForkedGoOn
      <2>1. \A j \in Inst : InstInv(j)'
          BY <1>11, Quiet DEF ForkedGoOn
      <2>2. /\ mpc = "forked" /\ mpc' = "start" /\ next' = next + 1 /\ pos' = pos + 1
            /\ pos = next /\ next <= N
            /\ \A j \in Inst : j > next => kid'[j].pc = "none"
          BY <1>1, <1>11 DEF ForkedGoOn, MainInv
      <2>3. next' \in 1..(N + 1) /\ pos' = next' /\ pos' <= next'
          BY <1>1, <1>2, <2>2 DEF MainInv
      <2>4. TypeOK'
          BY <1>1, <1>11, <2>3 DEF ForkedGoOn, TypeOK
      <2>5. \A j \in Inst : j >= next' => j > next
          BY <1>2, <2>2 DEF Inst
      <2>6. MainInv' /\ CorruptionReported' /\ AlarmsExplained'
          BY <2>2, <2>3, <2>5 DEF MainInv, CorruptionReported, AlarmsExplained, Checked
      <2> QED
          BY <2>1, <2>4, <2>6 DEF IndInv
  <1>12. CASE ForkedStopped
      <2>1. \A j \in Inst : InstInv(j)'
          BY <1>12, Quiet DEF ForkedStopped
      <2>2. TypeOK' /\ MainInv' /\ CorruptionReported' /\ AlarmsExplained'
          BY <1>1, <1>12 DEF ForkedStopped, TypeOK, MainInv, CorruptionReported, AlarmsExplained,
                             Checked
      <2> QED
          BY <2>1, <2>2 DEF IndInv
  <1>6. CASE AllStarted
      <2>1. \A j \in Inst : InstInv(j)'
          BY <1>6, Quiet DEF AllStarted
      <2>2. TypeOK' /\ MainInv' /\ CorruptionReported' /\ AlarmsExplained'
          BY <1>1, <1>6 DEF AllStarted, TypeOK, MainInv, CorruptionReported, AlarmsExplained, Checked
      <2> QED
          BY <2>1, <2>2 DEF IndInv
  <1>7. CASE AllReaped
      <2>1. /\ kid \in [Inst -> KidType] /\ mpc' = "check"
            /\ kid' = [i \in Inst |-> [kid[i] EXCEPT !.pc = "none"]]
          BY <1>1, <1>7 DEF AllReaped, TypeOK
      <2>2. kid' \in [Inst -> KidType] /\ \A i \in Inst : kid'[i].pc = "none"
          BY <2>1 DEF KidType, KidPc
      <2>3. ASSUME NEW i \in Inst PROVE InstInv(i)'
          <3>1. kid'[i].pc = "none" /\ kid[i].pc # "wait"
              BY <1>7, <2>2 DEF AllReaped, Alive
          <3>2. UNCHANGED <<slot, bogo, sum, worker, pub, hit, outlived, oomed>>
              BY <1>7 DEF AllReaped
          <3>3. StageInv(i)' /\ WorkerInv(i)'
              BY <1>1, <3>1, <3>2 DEF InstInv, StageInv, WorkerInv, Working, Publishing
          <3>4. CountInv(i)'
              BY <1>1, <3>1, <3>2 DEF InstInv, CountInv
          <3>5. CopyInv(i)'
              BY <1>1, <3>1, <3>2 DEF InstInv, CopyInv
          <3>6. HashInv(i)'
              BY <1>1, <3>1, <3>2 DEF InstInv, HashInv
          <3>7. OomInv(i)'
              BY <1>1, <3>1, <3>2 DEF InstInv, OomInv
          <3> QED
              BY <3>3, <3>4, <3>5, <3>6, <3>7 DEF InstInv
      <2>4. TypeOK'
          BY <1>1, <1>7, <2>2 DEF AllReaped, TypeOK
      <2>5. MainInv' /\ CorruptionReported' /\ AlarmsExplained'
          BY <2>1, <2>2 DEF MainInv, CorruptionReported, AlarmsExplained, Checked
      <2> QED
          BY <2>3, <2>4, <2>5 DEF IndInv
  <1>8. CASE NextRun
      <2>1. \A j \in Inst : InstInv(j)'
          BY <1>8, Quiet DEF NextRun
      <2>2. \A j \in Inst : kid'[j].pc = "none"
          BY <1>1, <1>8 DEF NextRun, MainInv
      <2>3. CASE mpc' = "start"
          <3>0. next' = 1 /\ pos' = 1 /\ run' = run + 1 /\ run < Len(Plan)
              BY <1>8, <2>3 DEF NextRun
          <3>1. next' = 1 /\ pos' = 1 /\ run' \in 1..(Len(Plan) + 1)
              BY <1>2, <3>0
          <3>2. 1 \in 1..(N + 1) /\ 1 <= 1
              BY <1>2
          <3>3. TypeOK'
              BY <1>1, <1>8, <2>3, <3>1, <3>2 DEF NextRun, TypeOK
          <3>4. MainInv' /\ CorruptionReported' /\ AlarmsExplained'
              BY <2>2, <2>3, <3>1, <3>2 DEF MainInv, CorruptionReported, AlarmsExplained, Checked
          <3> QED
              BY <2>1, <3>3, <3>4 DEF IndInv
      <2>4. CASE mpc' = "done"
          <3>1. UNCHANGED <<run, next, pos>>
              BY <1>8, <2>4 DEF NextRun
          <3>2. TypeOK' /\ MainInv'
              BY <1>1, <1>8, <2>2, <2>4, <3>1 DEF NextRun, TypeOK, MainInv
          <3>3. CorruptionReported' /\ AlarmsExplained'
              BY <1>8 DEF IndInv, NextRun, CorruptionReported, AlarmsExplained, Checked
          <3> QED
              BY <2>1, <3>2, <3>3 DEF IndInv
      <2> QED
          BY <1>8, <2>3, <2>4 DEF NextRun
  <1>9. CASE Stop
      <2>1. \A j \in Inst : InstInv(j)'
          BY <1>9, Quiet DEF Stop
      <2>2. TypeOK' /\ MainInv' /\ CorruptionReported' /\ AlarmsExplained'
          BY <1>1, <1>9 DEF Stop, TypeOK, MainInv, CorruptionReported, AlarmsExplained, Checked
      <2> QED
          BY <2>1, <2>2 DEF IndInv
  <1>10. CASE Ended
      <2>1. \A j \in Inst : InstInv(j)'
          BY <1>10, Quiet DEF Ended, vars
      <2>2. TypeOK' /\ MainInv' /\ CorruptionReported' /\ AlarmsExplained'
          BY <1>1, <1>10 DEF IndInv, Ended, vars, TypeOK, MainInv, CorruptionReported,
                             AlarmsExplained, Checked
      <2> QED
          BY <2>1, <2>2 DEF IndInv
  <1> QED
      BY <1>3, <1>4, <1>5, <1>6, <1>7, <1>8, <1>9, <1>10, <1>11, <1>12

LEMMA InitInv == Init => IndInv
  <1> SUFFICES ASSUME Init PROVE IndInv
      OBVIOUS
  <1>1. /\ N \in Nat /\ Len(Plan) \in Nat /\ MaxOps \in Nat /\ MaxOps > 0 /\ MaxMishaps \in Nat
        /\ Len(Signals) \in Nat /\ Len(Signals) > 0
      BY PlanAssumption, OptionsAssumption
  <1>2. /\ 1 \in 1..(Len(Plan) + 1) /\ 1 \in 1..(N + 1) /\ 0 \in 0..(MaxOps + 2) /\ 0 \in 0..N
        /\ 1 \in 1..Len(Signals) /\ 0 \in 0..MaxMishaps /\ 0 <= MaxOps /\ 0 <= MaxOps + 1 /\ 1 <= 1
      BY <1>1
  <1>3. kid \in [Inst -> KidType] /\ \A i \in Inst : kid[i].pc = "none"
      BY <1>2 DEF Init, KidType, KidPc
  <1>4. worker \in [Inst -> WorkerType] /\ \A i \in Inst : worker[i].at = "none" /\ worker[i].how = "none"
      BY DEF Init, WorkerType, NoWorker
  <1>5. bogo \in [Inst -> BogoType] /\ \A i \in Inst : bogo[i].counter = 0 /\ bogo[i].oom = FALSE
      BY <1>2 DEF Init, BogoType
  <1>6. sum \in [Inst -> SumType] /\ \A i \in Inst : sum[i].counter = 0
      BY <1>2 DEF Init, SumType, HashType, NoSum
  <1>7. /\ slot \in [Inst -> 0..N] /\ pub \in [Inst -> {"no", "begun", "full"}]
        /\ \A i \in Inst : pub[i] = "no"
      BY <1>2 DEF Init
  <1>8. TypeOK
      BY <1>2, <1>3, <1>4, <1>5, <1>6, <1>7 DEF Init, TypeOK
  <1>9. MainInv /\ CorruptionReported /\ AlarmsExplained
      BY <1>2, <1>3 DEF Init, MainInv, CorruptionReported, AlarmsExplained, Checked
  <1>10. ASSUME NEW i \in Inst PROVE InstInv(i)
      <2>1. StageInv(i) /\ WorkerInv(i)
          BY <1>3, <1>4, <1>7 DEF Init, StageInv, WorkerInv, Working, Publishing
      <2>2. CountInv(i)
          BY <1>2, <1>3, <1>4, <1>5, <1>6 DEF CountInv
      <2>3. CopyInv(i) /\ HashInv(i) /\ OomInv(i)
          BY <1>3, <1>4, <1>5, <1>7 DEF Init, CopyInv, HashInv, OomInv
      <2> QED
          BY <2>1, <2>2, <2>3 DEF InstInv
  <1> QED
      BY <1>8, <1>9, <1>10 DEF IndInv

LEMMA NextInv == IndInv /\ [Next]_vars => IndInv'
  <1> SUFFICES ASSUME IndInv, [Next]_vars PROVE IndInv'
      OBVIOUS
  <1>1. CASE UNCHANGED vars
      <2>1. \A j \in Inst : InstInv(j)'
          BY <1>1, Quiet DEF vars, mainVars, history
      <2>2. TypeOK' /\ MainInv' /\ CorruptionReported' /\ AlarmsExplained'
          BY <1>1 DEF IndInv, vars, mainVars, history, TypeOK, MainInv, CorruptionReported,
                      AlarmsExplained, Checked
      <2> QED
          BY <2>1, <2>2 DEF IndInv
  <1>0. CASE Next
      <2>1. torn' \subseteq Inst
          BY <1>0, TornType DEF IndInv
      <2>2. CASE MainStep \/ ForkFails \/ Stop \/ Ended
          BY <2>1, <2>2, MainSteps, CheckSteps DEF MainStep
      <2>3. ASSUME NEW i \in Inst,
                   \/ ChildStep(i) \/ Alarm(i) \/ ChildSkips(i) \/ IncNotReady(i)
                   \/ StressorInterrupted(i) \/ ChildKilled(i) \/ Fault(i) \/ WrapperStep(i)
                   \/ WorkerIncs(i) \/ WorkerExits(i) \/ WorkerDies(i) \/ WorkerStuck(i)
                   \/ WorkerWakes(i)
            PROVE  IndInv'
          BY <2>1, <2>3, CountingSteps, PublishSteps, WrapperSteps, WorkerSteps, DisturbanceSteps
             DEF ChildStep
      <2> QED
          BY <1>0, <2>2, <2>3 DEF Next
  <1> QED
      BY <1>0, <1>1

\* The stages of publishing hold in every run: where main is and what each
\* instance has written agree.
THEOREM Inductive == Spec => []IndInv
  <1> QED
      BY InitInv, NextInv, PTL DEF Spec

\* Every counter stays within the bogo-ops asked for, but for one flipped bit, and
\* every position of main within its list.
THEOREM TypeCorrect == Spec => []TypeOK
  <1>1. IndInv => TypeOK
      BY DEF IndInv
  <1> QED
      BY Inductive, <1>1, PTL

\* stress_metrics_check misses no corruption of what an instance has published.
THEOREM CorruptionIsReported == Spec => []CorruptionReported
  <1>1. IndInv => CorruptionReported
      BY DEF IndInv
  <1> QED
      BY Inductive, <1>1, PTL

\* stress_metrics_check reports an instance that no fault has hit only if it was
\* killed while it published, has not come to publish in this run, or has left a
\* worker behind that goes on counting.
THEOREM AlarmsAreExplained == Spec => []AlarmsExplained
  <1>1. IndInv => AlarmsExplained
      BY DEF IndInv
  <1> QED
      BY Inductive, <1>1, PTL

\* stress_oomable_child counts a kill as the out of memory killer's only if it was.
THEOREM OomIsHonest == Spec => []OomHonest
  <1>1. IndInv => OomHonest
      BY DEF IndInv, InstInv, OomInv, OomHonest
  <1> QED
      BY Inductive, <1>1, PTL

-----------------------------------------------------------------------------
(* The verdict of an instance on its own increments. *)

\* What the verdict on instance j rests on.
Verdict(j) ==
    <<kid[j], worker[j].at, bogo[j].ready, bogo[j].force, pub[j], j \in torn, j \in outlived>>

\* A step that leaves all of it alone leaves the verdict alone.
LEMMA SameVerdict ==
    ASSUME NEW j \in Inst, ReadyInv(j), JudgedInv(j), UNCHANGED Verdict(j)
    PROVE  ReadyInv(j)' /\ JudgedInv(j)'
  <1>1. /\ kid'[j] = kid[j] /\ worker'[j].at = worker[j].at /\ bogo'[j].ready = bogo[j].ready
        /\ bogo'[j].force = bogo[j].force /\ pub'[j] = pub[j]
      BY DEF Verdict
  <1>2. (j \in torn' <=> j \in torn) /\ (j \in outlived' <=> j \in outlived)
      BY DEF Verdict
  <1>3. ReadyInv(j)'
      BY <1>1, <1>2 DEF ReadyInv, Counts
  <1>4. JudgedInv(j)'
      BY <1>1, <1>2 DEF JudgedInv, Judged
  <1> QED
      BY <1>3, <1>4

\* A step of one instance, of which only its own part is left to show.
LEMMA OneVerdict ==
    ASSUME TornInv, NEW i \in Inst, \A j \in Inst \ {i} : UNCHANGED Verdict(j),
           ReadyInv(i)', JudgedInv(i)'
    PROVE  TornInv'
  <1>1. ASSUME NEW j \in Inst, j # i PROVE ReadyInv(j)' /\ JudgedInv(j)'
      <2>1. UNCHANGED Verdict(j) /\ ReadyInv(j) /\ JudgedInv(j)
          BY <1>1 DEF TornInv
      <2> QED
          BY <2>1, SameVerdict
  <1> QED
      BY <1>1 DEF TornInv

\* The steps of the stressor process up to the return of the stressor.
LEMMA CountingVerdict ==
    ASSUME IndInv, TornInv, NEW i \in Inst,
           \/ ChildBegin(i) \/ IncNotReady(i) \/ IncCount(i) \/ IncReady(i)
           \/ StressorInterrupted(i) \/ ChildSkips(i) \/ StressorReturns(i)
    PROVE  TornInv'
  <1> USE DEF other, mainVars, history
  <1>a. ReadyInv(i) /\ JudgedInv(i) /\ StageInv(i) /\ WorkerInv(i)
      BY DEF TornInv, IndInv, InstInv
  <1>i. /\ kid \in [Inst -> KidType] /\ worker \in [Inst -> WorkerType]
        /\ bogo \in [Inst -> BogoType] /\ pub \in [Inst -> {"no", "begun", "full"}]
      BY DEF IndInv, TypeOK
  <1>1. CASE ChildBegin(i)
      <2> DEFINE q == IF i \in Wrapped THEN "again" ELSE "stress"
      <2>1. /\ kid[i].pc = "born" /\ q \in {"again", "stress"}
            /\ kid' = [kid EXCEPT ![i] = [kid[i] EXCEPT !.pc = q]]
            /\ bogo' = [bogo EXCEPT ![i] = [bogo[i] EXCEPT !.counter = 0, !.oom = FALSE]]
            /\ UNCHANGED <<worker, pub, torn, outlived>>
          BY <1>i, <1>1 DEF ChildBegin, Kid
      <2> HIDE DEF q
      <2>2. kid'[i].pc = q /\ kid'[i].rc = kid[i].rc
          BY <1>i, <2>1 DEF KidType
      <2>r. bogo'[i].ready = bogo[i].ready
          BY <1>i, <2>1 DEF BogoType
      <2>f. bogo'[i].force = bogo[i].force
          BY <1>i, <2>1 DEF BogoType
      <2>3. \A j \in Inst \ {i} : UNCHANGED Verdict(j)
          BY <1>i, <2>1 DEF Verdict
      <2>4. ReadyInv(i)'
          BY <1>a, <2>1, <2>2, <2>r, <2>f DEF ReadyInv, Counts, WorkerInv
      <2>5. JudgedInv(i)'
          BY <1>a, <2>1, <2>2, <2>r, <2>f DEF JudgedInv, Judged, Working, StageInv
      <2> QED
          BY <2>3, <2>4, <2>5, OneVerdict
  <1>2. CASE IncNotReady(i)
      <2>1. /\ kid[i].pc = "stress"
            /\ kid' = [kid EXCEPT ![i] = [kid[i] EXCEPT !.pc = "not ready"]]
            /\ bogo' = [bogo EXCEPT ![i] = [bogo[i] EXCEPT !.ready = FALSE]]
            /\ UNCHANGED <<worker, pub, torn, outlived>>
          BY <1>i, <1>2 DEF IncNotReady, Kid
      <2>2. /\ kid'[i].pc = "not ready" /\ kid'[i].rc = kid[i].rc
          BY <1>i, <2>1 DEF KidType
      <2>r. bogo'[i].ready = FALSE
          BY <1>i, <2>1 DEF BogoType
      <2>f. bogo'[i].force = bogo[i].force
          BY <1>i, <2>1 DEF BogoType
      <2>3. \A j \in Inst \ {i} : UNCHANGED Verdict(j)
          BY <1>i, <2>1 DEF Verdict
      <2>4. ReadyInv(i)'
          BY <1>a, <2>1, <2>2, <2>r, <2>f DEF ReadyInv, Counts, WorkerInv
      <2>5. JudgedInv(i)'
          BY <1>a, <2>1, <2>2, <2>r, <2>f DEF JudgedInv, Judged, Working, StageInv
      <2> QED
          BY <2>3, <2>4, <2>5, OneVerdict
  <1>3. CASE IncCount(i)
      <2>1. /\ kid[i].pc = "not ready"
            /\ kid' = [kid EXCEPT ![i] = [kid[i] EXCEPT !.pc = "counted"]]
            /\ bogo' = [bogo EXCEPT ![i] = [bogo[i] EXCEPT !.counter = bogo[i].counter + 1]]
            /\ UNCHANGED <<worker, pub, torn, outlived>>
          BY <1>i, <1>3 DEF IncCount, Kid
      <2>2. /\ kid'[i].pc = "counted" /\ kid'[i].rc = kid[i].rc
          BY <1>i, <2>1 DEF KidType
      <2>r. bogo'[i].ready = bogo[i].ready
          BY <1>i, <2>1 DEF BogoType
      <2>f. bogo'[i].force = bogo[i].force
          BY <1>i, <2>1 DEF BogoType
      <2>3. \A j \in Inst \ {i} : UNCHANGED Verdict(j)
          BY <1>i, <2>1 DEF Verdict
      <2>4. ReadyInv(i)'
          BY <1>a, <2>1, <2>2, <2>r, <2>f DEF ReadyInv, Counts, WorkerInv
      <2>5. JudgedInv(i)'
          BY <1>a, <2>1, <2>2, <2>r, <2>f DEF JudgedInv, Judged, Working, StageInv
      <2> QED
          BY <2>3, <2>4, <2>5, OneVerdict
  <1>4. CASE IncReady(i)
      <2>1. /\ kid[i].pc = "counted"
            /\ kid' = [kid EXCEPT ![i] = [kid[i] EXCEPT !.pc = "stress"]]
            /\ bogo' = [bogo EXCEPT ![i] = [bogo[i] EXCEPT !.ready = TRUE]]
            /\ torn' = torn \ {i}
            /\ UNCHANGED <<worker, pub, outlived>>
          BY <1>i, <1>4 DEF IncReady, Kid
      <2>2. /\ kid'[i].pc = "stress" /\ kid'[i].rc = kid[i].rc
          BY <1>i, <2>1 DEF KidType
      <2>r. bogo'[i].ready = TRUE
          BY <1>i, <2>1 DEF BogoType
      <2>f. bogo'[i].force = bogo[i].force
          BY <1>i, <2>1 DEF BogoType
      <2>3. \A j \in Inst \ {i} : UNCHANGED Verdict(j)
          BY <1>i, <2>1 DEF Verdict
      <2>4. ReadyInv(i)'
          BY <1>a, <2>1, <2>2, <2>r, <2>f DEF ReadyInv, Counts, WorkerInv
      <2>5. JudgedInv(i)'
          BY <1>a, <2>1, <2>2, <2>r, <2>f DEF JudgedInv, Judged, Working, StageInv
      <2> QED
          BY <2>3, <2>4, <2>5, OneVerdict
  <1>5. ASSUME NEW g \in BOOLEAN, kid[i].pc \in {"not ready", "counted"},
               kid' = [kid EXCEPT ![i].pc = "ended"], bogo' = [bogo EXCEPT ![i].force = g],
               torn' = torn \cup {i}, UNCHANGED <<worker, pub, outlived>>
        PROVE  TornInv'
      <2>1. /\ kid' = [kid EXCEPT ![i] = [kid[i] EXCEPT !.pc = "ended"]]
            /\ bogo' = [bogo EXCEPT ![i] = [bogo[i] EXCEPT !.force = g]]
          BY <1>i, <1>5
      <2>2. kid'[i].pc = "ended" /\ kid'[i].rc = kid[i].rc
          BY <1>i, <2>1 DEF KidType
      <2>r. bogo'[i].ready = bogo[i].ready
          BY <1>i, <2>1 DEF BogoType
      <2>t. i \in torn'
          BY <1>5
      <2>3. \A j \in Inst \ {i} : UNCHANGED Verdict(j)
          <3>1. ASSUME NEW j \in Inst \ {i} PROVE UNCHANGED Verdict(j)
              <4>1. kid'[j] = kid[j] /\ bogo'[j] = bogo[j] /\ worker' = worker /\ pub' = pub
                  BY <1>i, <1>5, <2>1
              <4>2. (j \in torn' <=> j \in torn) /\ (j \in outlived' <=> j \in outlived)
                  BY <1>5
              <4> QED
                  BY <4>1, <4>2 DEF Verdict
          <3> QED
              BY <3>1
      <2>4. ReadyInv(i)'
          BY <1>a, <1>5, <2>2, <2>r, <2>t DEF ReadyInv, Counts, WorkerInv
      <2>5. JudgedInv(i)'
          BY <1>a, <1>5, <2>2 DEF JudgedInv, Judged, Working, StageInv
      <2> QED
          BY <2>3, <2>4, <2>5, OneVerdict
  <1>6. CASE StressorInterrupted(i)
      <2>1. PICK f \in BOOLEAN : bogo' = [bogo EXCEPT ![i].force = @ \/ f]
          BY <1>6 DEF StressorInterrupted
      <2>2. bogo[i].force \/ f \in BOOLEAN
          OBVIOUS
      <2> QED
          BY <1>5, <1>6, <2>1, <2>2 DEF StressorInterrupted
  <1>7. CASE ChildSkips(i)
      <2>1. PICK rc \in {SUCCESS, FAILURE} : kid' = [kid EXCEPT ![i].pc = "exited", ![i].rc = rc]
          BY <1>7 DEF ChildSkips
      <2>2. kid[i].pc = "born" /\ UNCHANGED <<bogo, worker, pub, torn, outlived>>
          BY <1>7 DEF ChildSkips
      <2>3. kid' = [kid EXCEPT ![i] = [kid[i] EXCEPT !.pc = "exited", !.rc = rc]]
          BY <1>i, <2>1
      <2>4. kid'[i].pc = "exited" /\ kid'[i].rc = rc /\ rc # UNTRUSTWORTHY
          BY <1>i, <2>3 DEF KidType, SUCCESS, FAILURE, UNTRUSTWORTHY
      <2>5. \A j \in Inst \ {i} : UNCHANGED Verdict(j)
          BY <1>i, <2>2, <2>3 DEF Verdict
      <2>6. ReadyInv(i)'
          BY <1>a, <2>2, <2>4 DEF ReadyInv, Counts, WorkerInv
      <2>7. JudgedInv(i)'
          BY <1>a, <2>2, <2>4 DEF JudgedInv, Judged, Working, StageInv
      <2> QED
          BY <2>5, <2>6, <2>7, OneVerdict
  <1>8. CASE StressorReturns(i)
      <2>1. PICK rc \in {SUCCESS, FAILURE} : kid' = [kid EXCEPT ![i].pc = "ended", ![i].rc = rc]
          BY <1>8 DEF StressorReturns
      <2>2. kid[i].pc = "stress" /\ UNCHANGED <<bogo, worker, pub, torn, outlived>>
          BY <1>8 DEF StressorReturns
      <2>3. kid' = [kid EXCEPT ![i] = [kid[i] EXCEPT !.pc = "ended", !.rc = rc]]
          BY <1>i, <2>1
      <2>4. kid'[i].pc = "ended" /\ kid'[i].rc = rc /\ rc # UNTRUSTWORTHY
          BY <1>i, <2>3 DEF KidType, SUCCESS, FAILURE, UNTRUSTWORTHY
      <2>5. \A j \in Inst \ {i} : UNCHANGED Verdict(j)
          BY <1>i, <2>2, <2>3 DEF Verdict
      <2>6. ReadyInv(i)'
          BY <1>a, <2>2, <2>4 DEF ReadyInv, Counts, WorkerInv
      <2>7. JudgedInv(i)'
          BY <1>a, <2>2, <2>4 DEF JudgedInv, Judged, Working, StageInv
      <2> QED
          BY <2>5, <2>6, <2>7, OneVerdict
  <1> QED
      BY <1>1, <1>2, <1>3, <1>4, <1>6, <1>7, <1>8

\* The steps of the stressor process after the return of the stressor.
LEMMA PublishVerdict ==
    ASSUME IndInv, TornInv, NEW i \in Inst,
           Completed(i) \/ RunOk(i) \/ SumOk(i) \/ Judge(i) \/ SumCounter(i) \/ SumHash(i)
    PROVE  TornInv'
  <1> USE DEF other, mainVars, history
  <1>a. ReadyInv(i) /\ JudgedInv(i) /\ StageInv(i) /\ WorkerInv(i)
      BY DEF TornInv, IndInv, InstInv
  <1>i. /\ kid \in [Inst -> KidType] /\ worker \in [Inst -> WorkerType]
        /\ bogo \in [Inst -> BogoType] /\ pub \in [Inst -> {"no", "begun", "full"}]
      BY DEF IndInv, TypeOK
  <1>1. CASE Completed(i)
      <2>1. /\ kid[i].pc = "ended"
            /\ kid' = [kid EXCEPT ![i] = [kid[i] EXCEPT !.pc = "completed"]]
            /\ bogo' = [bogo EXCEPT ![i] = [bogo[i] EXCEPT !.completed = TRUE]]
            /\ pub' = [pub EXCEPT ![i] = "begun"]
            /\ UNCHANGED <<worker, torn, outlived>>
          BY <1>i, <1>1 DEF Completed, Kid
      <2>2. /\ kid'[i].pc = "completed" /\ kid'[i].rc = kid[i].rc
          BY <1>i, <2>1 DEF KidType
      <2>r. bogo'[i].ready = bogo[i].ready
          BY <1>i, <2>1 DEF BogoType
      <2>f. bogo'[i].force = bogo[i].force
          BY <1>i, <2>1 DEF BogoType
      <2>3. \A j \in Inst \ {i} : UNCHANGED Verdict(j)
          BY <1>i, <2>1 DEF Verdict
      <2>4. ReadyInv(i)'
          BY <1>a, <2>1, <2>2, <2>r, <2>f DEF ReadyInv, Counts, WorkerInv
      <2>5. JudgedInv(i)'
          BY <1>a, <2>1, <2>2, <2>r, <2>f DEF JudgedInv, Judged, Working, StageInv
      <2> QED
          BY <2>3, <2>4, <2>5, OneVerdict
  <1>2. CASE RunOk(i)
      <2>1. /\ kid[i].pc = "completed"
            /\ kid' = [kid EXCEPT ![i] = [kid[i] EXCEPT !.pc = "run ok"]]
            /\ bogo' = [bogo EXCEPT ![i] = [bogo[i] EXCEPT !.ok = (kid[i].rc = SUCCESS)]]
            /\ UNCHANGED <<worker, pub, torn, outlived>>
          BY <1>i, <1>2 DEF RunOk, Kid
      <2>2. /\ kid'[i].pc = "run ok" /\ kid'[i].rc = kid[i].rc
          BY <1>i, <2>1 DEF KidType
      <2>r. bogo'[i].ready = bogo[i].ready
          BY <1>i, <2>1 DEF BogoType
      <2>f. bogo'[i].force = bogo[i].force
          BY <1>i, <2>1 DEF BogoType
      <2>3. \A j \in Inst \ {i} : UNCHANGED Verdict(j)
          BY <1>i, <2>1 DEF Verdict
      <2>4. ReadyInv(i)'
          BY <1>a, <2>1, <2>2, <2>r, <2>f DEF ReadyInv, Counts, WorkerInv
      <2>5. JudgedInv(i)'
          BY <1>a, <2>1, <2>2, <2>r, <2>f DEF JudgedInv, Judged, Working, StageInv
      <2> QED
          BY <2>3, <2>4, <2>5, OneVerdict
  <1>3. CASE SumOk(i)
      <2>1. /\ kid[i].pc = "run ok"
            /\ kid' = [kid EXCEPT ![i] = [kid[i] EXCEPT !.pc = "sum ok"]]
            /\ UNCHANGED <<bogo, worker, pub, torn, outlived>>
          BY <1>i, <1>3 DEF SumOk, Kid
      <2>2. /\ kid'[i].pc = "sum ok" /\ kid'[i].rc = kid[i].rc
          BY <1>i, <2>1 DEF KidType
      <2>3. \A j \in Inst \ {i} : UNCHANGED Verdict(j)
          BY <1>i, <2>1 DEF Verdict
      <2>4. ReadyInv(i)'
          BY <1>a, <2>1, <2>2 DEF ReadyInv, Counts, WorkerInv
      <2>5. JudgedInv(i)'
          BY <1>a, <2>1, <2>2 DEF JudgedInv, Judged, Working, StageInv
      <2> QED
          BY <2>3, <2>4, <2>5, OneVerdict
  <1>4. CASE Judge(i)
      <2> DEFINE v == IF ~bogo[i].ready /\ ~bogo[i].force THEN UNTRUSTWORTHY ELSE kid[i].rc
      <2>1. /\ kid[i].pc = "sum ok" /\ kid' = [kid EXCEPT ![i] = [kid[i] EXCEPT !.pc = "judged", !.rc = v]]
            /\ UNCHANGED <<bogo, worker, pub, torn, outlived>>
          BY <1>i, <1>4 DEF Judge
      <2>2. v = UNTRUSTWORTHY <=> ~bogo[i].ready /\ ~bogo[i].force
          BY <1>a, <2>1 DEF JudgedInv
      <2> HIDE DEF v
      <2>3. kid'[i].pc = "judged" /\ kid'[i].rc = v
          BY <1>i, <2>1 DEF KidType
      <2>4. \A j \in Inst \ {i} : UNCHANGED Verdict(j)
          BY <1>i, <2>1 DEF Verdict
      <2>5. ReadyInv(i)'
          BY <1>a, <2>1, <2>3 DEF ReadyInv, Counts
      <2>6. i \notin outlived => (~bogo[i].ready <=> i \in torn)
          BY <1>a, <2>1 DEF ReadyInv, Counts, WorkerInv
      <2>7. JudgedInv(i)'
          BY <2>1, <2>2, <2>3, <2>6 DEF JudgedInv, Working
      <2> QED
          BY <2>4, <2>5, <2>7, OneVerdict
  <1>5. CASE SumCounter(i)
      <2>1. /\ kid[i].pc = "judged"
            /\ kid' = [kid EXCEPT ![i] = [kid[i] EXCEPT !.pc = "sum counter"]]
            /\ UNCHANGED <<bogo, worker, pub, torn, outlived>>
          BY <1>i, <1>5 DEF SumCounter, Kid
      <2>2. /\ kid'[i].pc = "sum counter" /\ kid'[i].rc = kid[i].rc
          BY <1>i, <2>1 DEF KidType
      <2>3. \A j \in Inst \ {i} : UNCHANGED Verdict(j)
          BY <1>i, <2>1 DEF Verdict
      <2>4. ReadyInv(i)'
          BY <1>a, <2>1, <2>2 DEF ReadyInv, Counts, WorkerInv
      <2>5. JudgedInv(i)'
          BY <1>a, <2>1, <2>2 DEF JudgedInv, Judged, Working, StageInv
      <2> QED
          BY <2>3, <2>4, <2>5, OneVerdict
  <1>6. CASE SumHash(i)
      <2>1. /\ kid[i].pc = "sum counter"
            /\ kid' = [kid EXCEPT ![i] = [kid[i] EXCEPT !.pc = "exited"]]
            /\ pub' = [pub EXCEPT ![i] = "full"]
            /\ UNCHANGED <<bogo, worker, torn, outlived>>
          BY <1>i, <1>6 DEF SumHash, Kid
      <2>2. /\ kid'[i].pc = "exited" /\ kid'[i].rc = kid[i].rc
          BY <1>i, <2>1 DEF KidType
      <2>3. \A j \in Inst \ {i} : UNCHANGED Verdict(j)
          BY <1>i, <2>1 DEF Verdict
      <2>4. ReadyInv(i)'
          BY <1>a, <2>1, <2>2 DEF ReadyInv, Counts, WorkerInv
      <2>5. JudgedInv(i)'
          BY <1>a, <2>1, <2>2 DEF JudgedInv, Judged, Working, StageInv
      <2> QED
          BY <2>3, <2>4, <2>5, OneVerdict
  <1> QED
      BY <1>1, <1>2, <1>3, <1>4, <1>5, <1>6

\* The steps of stress_oomable_child.
LEMMA WrapperVerdict ==
    ASSUME IndInv, TornInv, NEW i \in Inst, WrapperStep(i)
    PROVE  TornInv'
  <1> USE DEF other, mainVars, history
  <1>a. ReadyInv(i) /\ JudgedInv(i) /\ StageInv(i) /\ WorkerInv(i)
      BY DEF TornInv, IndInv, InstInv
  <1>i. /\ kid \in [Inst -> KidType] /\ worker \in [Inst -> WorkerType]
        /\ bogo \in [Inst -> BogoType] /\ pub \in [Inst -> {"no", "begun", "full"}]
      BY DEF IndInv, TypeOK
  <1>r. kid[i].pc \in {"again", "wait"} => kid[i].rc \in {SUCCESS, FAILURE}
      BY <1>a, <1>i DEF JudgedInv, Working, KidType
  <1>1. ASSUME NEW q \in {"wait", "again", "ended"}, NEW rc \in {SUCCESS, FAILURE},
               NEW v \in WorkerType, v.at \in {"none", "run", "zombie"},
               kid[i].pc \in {"again", "wait"}, worker[i].at \in {"none", "zombie"} \/ i \in outlived,
               kid' = [kid EXCEPT ![i] = [kid[i] EXCEPT !.pc = q, !.rc = rc]],
               worker' = [worker EXCEPT ![i] = v],
               \A j \in Inst \ {i} : bogo'[j] = bogo[j],
               bogo'[i].ready = bogo[i].ready, bogo'[i].force = bogo[i].force,
               UNCHANGED <<pub, torn, outlived>>
        PROVE  TornInv'
      <2>1. kid'[i].pc = q /\ kid'[i].rc = rc
          BY <1>i, <1>1 DEF KidType
      <2>2. worker'[i].at = v.at
          BY <1>i, <1>1
      <2>3. \A j \in Inst \ {i} : UNCHANGED Verdict(j)
          BY <1>i, <1>1 DEF Verdict
      <2>4. rc # UNTRUSTWORTHY
          BY DEF SUCCESS, FAILURE, UNTRUSTWORTHY
      <2>5. ReadyInv(i)'
          BY <1>a, <1>1, <2>1, <2>2 DEF ReadyInv, Counts
      <2>6. JudgedInv(i)'
          BY <1>1, <2>1, <2>4 DEF JudgedInv, Judged
      <2> QED
          BY <2>3, <2>5, <2>6, OneVerdict
  <1>2. CASE Again(i)
      <2>1. /\ kid[i].pc = "again" /\ UNCHANGED <<bogo, pub, torn, outlived>>
            /\ worker[i].at \in {"none", "zombie"} \/ i \in outlived
          BY <1>a, <1>2 DEF Again, WorkerInv
      <2>2. CASE stress_continue(i)
          <3> DEFINE v == [NoWorker EXCEPT !.at = "run"]
          <3>1. /\ kid' = [kid EXCEPT ![i] = [kid[i] EXCEPT !.pc = "wait", !.rc = kid[i].rc]]
                /\ worker' = [worker EXCEPT ![i] = v]
              BY <1>i, <1>2, <2>2 DEF Again, KidType
          <3>2. v.at = "run" /\ v \in WorkerType
              BY DEF NoWorker, WorkerType
          <3> HIDE DEF v
          <3> QED
              BY <1>1, <1>r, <2>1, <3>1, <3>2
      <2>3. CASE ~stress_continue(i)
          <3>1. /\ kid' = [kid EXCEPT ![i].pc = "ended", ![i].rc = SUCCESS] /\ worker' = worker
              BY <1>2, <2>3 DEF Again
          <3>2. kid' = [kid EXCEPT ![i] = [kid[i] EXCEPT !.pc = "ended", !.rc = SUCCESS]]
              BY <1>i, <3>1
          <3>3. kid'[i].pc = "ended" /\ kid'[i].rc = SUCCESS
              BY <1>i, <3>2 DEF KidType
          <3>4. \A j \in Inst \ {i} : UNCHANGED Verdict(j)
              BY <1>i, <2>1, <3>1, <3>2 DEF Verdict
          <3>5. ReadyInv(i)'
              BY <1>a, <2>1, <3>1, <3>3 DEF ReadyInv, Counts
          <3>6. JudgedInv(i)'
              BY <3>3 DEF JudgedInv, Judged, SUCCESS, UNTRUSTWORTHY
          <3> QED
              BY <3>4, <3>5, <3>6, OneVerdict
      <2> QED
          BY <2>2, <2>3
  <1>3. CASE WaitReturns(i)
      <2>1. /\ kid[i].pc = "wait" /\ worker[i].at = "zombie" /\ UNCHANGED <<pub, torn, outlived>>
          BY <1>3 DEF WaitReturns
      <2>2. ASSUME NEW restart \in BOOLEAN, NEW rc \in {SUCCESS, FAILURE},
                   NEW oom \in BOOLEAN, Waited(i, restart, rc, oom)
            PROVE  TornInv'
          <3> DEFINE q == IF restart THEN "again" ELSE "ended"
                     o == bogo[i].oom \/ oom
          <3>1. q \in {"wait", "again", "ended"} /\ NoWorker.at = "none" /\ NoWorker \in WorkerType
              BY DEF NoWorker, WorkerType
          <3>2. /\ kid' = [kid EXCEPT ![i] = [kid[i] EXCEPT !.pc = q, !.rc = rc]]
                /\ worker' = [worker EXCEPT ![i] = NoWorker]
                /\ bogo' = [bogo EXCEPT ![i] = [bogo[i] EXCEPT !.oom = o]]
              BY <1>i, <2>2 DEF Waited
          <3> HIDE DEF q, o
          <3>3. \A j \in Inst \ {i} : bogo'[j] = bogo[j]
              BY <1>i, <3>2
          <3>4. bogo'[i].ready = bogo[i].ready
              BY <1>i, <3>2 DEF BogoType
          <3>5. bogo'[i].force = bogo[i].force
              BY <1>i, <3>2 DEF BogoType
          <3> QED
              BY <1>1, <2>1, <2>2, <3>1, <3>2, <3>3, <3>4, <3>5
      <2>3. Oomable \in BOOLEAN
          BY OptionsAssumption
      <2>4. CASE Waited(i, TRUE, kid[i].rc, FALSE)
          BY <1>r, <2>1, <2>2, <2>4
      <2>5. CASE Waited(i, ~Oomable, IF Oomable THEN SUCCESS ELSE kid[i].rc, TRUE)
          BY <1>r, <2>1, <2>2, <2>3, <2>5
      <2>6. CASE Waited(i, FALSE, IF worker[i].how = "FAILURE" THEN FAILURE ELSE SUCCESS, FALSE)
          BY <2>2, <2>6
      <2> QED
          BY <1>3, <2>4, <2>5, <2>6 DEF WaitReturns
  <1>4. CASE WaitInterrupted(i)
      <2>1. PICK dies \in {FALSE, ~worker[i].stuck} :
               /\ worker' = IF dies
                             THEN [worker EXCEPT ![i] = Gone(i, IF Signals[kid[i].idx] = "KILL"
                                                                THEN "KILL" ELSE "SIGNAL")]
                             ELSE worker
               /\ torn' = IF dies THEN torn \cup Torn(i) ELSE torn
          BY <1>4 DEF WaitInterrupted
      <2> DEFINE x == IF kid[i].idx < Len(Signals) THEN kid[i].idx + 1 ELSE kid[i].idx
      <2>2. /\ kid[i].pc = "wait" /\ UNCHANGED <<bogo, pub, outlived>>
            /\ kid' = [kid EXCEPT ![i] = [kid[i] EXCEPT !.idx = x]]
          BY <1>i, <1>4 DEF WaitInterrupted
      <2> HIDE DEF x
      <2>3. kid'[i].pc = "wait" /\ kid'[i].rc = kid[i].rc
          BY <1>i, <2>2 DEF KidType
      <2>4. JudgedInv(i)'
          <3>1. kid'[i].rc # UNTRUSTWORTHY
              BY <1>r, <2>2, <2>3 DEF SUCCESS, FAILURE, UNTRUSTWORTHY
          <3>2. ~Judged(i)'
              BY <2>3 DEF Judged
          <3> QED
              BY <3>1, <3>2 DEF JudgedInv
      <2>5. CASE worker' = worker /\ torn' = torn
          <3>1. \A j \in Inst \ {i} : UNCHANGED Verdict(j)
              BY <1>i, <2>2, <2>5 DEF Verdict
          <3>2. ReadyInv(i)'
              BY <1>a, <2>2, <2>3, <2>5 DEF ReadyInv, Counts
          <3> QED
              BY <2>4, <3>1, <3>2, OneVerdict
      <2>6. ASSUME NEW how, worker' = [worker EXCEPT ![i] = Gone(i, how)], torn' = torn \cup Torn(i)
            PROVE  TornInv'
          <3>1. worker'[i].at = "zombie"
              BY <1>i, <2>2, <2>6 DEF Gone
          <3>2. i \in torn' <=> i \in torn \/ worker[i].at \in {"not ready", "counted"}
              BY <2>6 DEF Torn
          <3>3. \A j \in Inst \ {i} : j \in torn' <=> j \in torn
              BY <2>6 DEF Torn
          <3>4. \A j \in Inst \ {i} : kid'[j] = kid[j] /\ worker'[j] = worker[j]
              BY <1>i, <2>2, <2>6
          <3>5. \A j \in Inst \ {i} : UNCHANGED Verdict(j)
              BY <2>2, <3>3, <3>4 DEF Verdict
          <3>6. ReadyInv(i)'
              BY <1>a, <2>2, <2>3, <3>1, <3>2 DEF ReadyInv, Counts
          <3> QED
              BY <2>4, <3>5, <3>6, OneVerdict
      <2> QED
          BY <2>1, <2>5, <2>6
  <1>5. CASE GiveUp(i)
      <2>1. /\ kid[i].pc = "wait" /\ outlived' = outlived \cup {i}
            /\ kid' = [kid EXCEPT ![i] = [kid[i] EXCEPT !.pc = "ended"]]
            /\ UNCHANGED <<bogo, worker, pub, torn>>
          BY <1>i, <1>5 DEF GiveUp
      <2>2. kid'[i].pc = "ended" /\ kid'[i].rc = kid[i].rc /\ i \in outlived'
          BY <1>i, <2>1 DEF KidType
      <2>3. \A j \in Inst \ {i} : (j \in outlived' <=> j \in outlived) /\ kid'[j] = kid[j]
          BY <1>i, <2>1
      <2>4. \A j \in Inst \ {i} : UNCHANGED Verdict(j)
          BY <2>1, <2>3 DEF Verdict
      <2>5. ReadyInv(i)' /\ JudgedInv(i)'
          BY <1>a, <2>1, <2>2 DEF ReadyInv, JudgedInv, Judged, Working
      <2> QED
          BY <2>4, <2>5, OneVerdict
  <1> QED
      BY <1>2, <1>3, <1>4, <1>5 DEF WrapperStep

\* The steps of the worker.
LEMMA WorkerVerdict ==
    ASSUME IndInv, TornInv, NEW i \in Inst,
           WorkerIncs(i) \/ WorkerExits(i) \/ WorkerDies(i) \/ WorkerStuck(i) \/ WorkerWakes(i)
    PROVE  TornInv'
  <1> USE DEF other, mainVars, history
  <1>a. ReadyInv(i) /\ JudgedInv(i) /\ StageInv(i) /\ WorkerInv(i)
      BY DEF TornInv, IndInv, InstInv
  <1>i. /\ kid \in [Inst -> KidType] /\ worker \in [Inst -> WorkerType]
        /\ bogo \in [Inst -> BogoType] /\ pub \in [Inst -> {"no", "begun", "full"}]
      BY DEF IndInv, TypeOK
  <1>w. worker[i].at # "none" => kid[i].pc = "wait" \/ i \in outlived \/ worker[i].at = "zombie"
      BY <1>a DEF WorkerInv
  <1>1. ASSUME worker[i].at = "run", worker' = [worker EXCEPT ![i].at = "not ready"],
               bogo' = [bogo EXCEPT ![i] = [bogo[i] EXCEPT !.ready = FALSE]],
               torn' = torn, UNCHANGED <<kid, pub, outlived>>
        PROVE  TornInv'
      <2>1. worker' = [worker EXCEPT ![i] = [worker[i] EXCEPT !.at = "not ready"]] /\ worker'[i].at = "not ready"
          BY <1>i, <1>1 DEF WorkerType
      <2>2. bogo'[i].ready = FALSE
          BY <1>i, <1>1 DEF BogoType
      <2>3. bogo'[i].force = bogo[i].force
          BY <1>i, <1>1 DEF BogoType
      <2>4. \A j \in Inst \ {i} : worker'[j] = worker[j] /\ bogo'[j] = bogo[j] /\ (j \in torn' <=> j \in torn)
          BY <1>i, <1>1, <2>1
      <2>5. \A j \in Inst \ {i} : UNCHANGED Verdict(j)
          BY <1>1, <2>4 DEF Verdict
      <2>6. ReadyInv(i)'
          BY <1>a, <1>w, <1>1, <2>1, <2>2, <2>3 DEF ReadyInv, Counts, WorkerInv
      <2>7. JudgedInv(i)'
          BY <1>a, <1>w, <1>1, <2>3 DEF JudgedInv, Judged, Working, StageInv
      <2> QED
          BY <2>5, <2>6, <2>7, OneVerdict
  <1>2. ASSUME worker[i].at = "not ready", worker' = [worker EXCEPT ![i].at = "counted"],
               bogo' = [bogo EXCEPT ![i] = [bogo[i] EXCEPT !.counter = bogo[i].counter + 1]],
               torn' = torn, UNCHANGED <<kid, pub, outlived>>
        PROVE  TornInv'
      <2>1. worker' = [worker EXCEPT ![i] = [worker[i] EXCEPT !.at = "counted"]] /\ worker'[i].at = "counted"
          BY <1>i, <1>2 DEF WorkerType
      <2>2. bogo'[i].ready = bogo[i].ready
          BY <1>i, <1>2 DEF BogoType
      <2>3. bogo'[i].force = bogo[i].force
          BY <1>i, <1>2 DEF BogoType
      <2>4. \A j \in Inst \ {i} : worker'[j] = worker[j] /\ bogo'[j] = bogo[j] /\ (j \in torn' <=> j \in torn)
          BY <1>i, <1>2, <2>1
      <2>5. \A j \in Inst \ {i} : UNCHANGED Verdict(j)
          BY <1>2, <2>4 DEF Verdict
      <2>6. ReadyInv(i)'
          BY <1>a, <1>w, <1>2, <2>1, <2>2, <2>3 DEF ReadyInv, Counts, WorkerInv
      <2>7. JudgedInv(i)'
          BY <1>a, <1>w, <1>2, <2>3 DEF JudgedInv, Judged, Working, StageInv
      <2> QED
          BY <2>5, <2>6, <2>7, OneVerdict
  <1>3. ASSUME worker[i].at = "counted", worker' = [worker EXCEPT ![i].at = "run"],
               bogo' = [bogo EXCEPT ![i] = [bogo[i] EXCEPT !.ready = TRUE]],
               torn' = torn \ {i}, UNCHANGED <<kid, pub, outlived>>
        PROVE  TornInv'
      <2>1. worker' = [worker EXCEPT ![i] = [worker[i] EXCEPT !.at = "run"]] /\ worker'[i].at = "run"
          BY <1>i, <1>3 DEF WorkerType
      <2>2. bogo'[i].ready = TRUE
          BY <1>i, <1>3 DEF BogoType
      <2>3. bogo'[i].force = bogo[i].force
          BY <1>i, <1>3 DEF BogoType
      <2>4. \A j \in Inst \ {i} : worker'[j] = worker[j] /\ bogo'[j] = bogo[j] /\ (j \in torn' <=> j \in torn)
          BY <1>i, <1>3, <2>1
      <2>5. \A j \in Inst \ {i} : UNCHANGED Verdict(j)
          BY <1>3, <2>4 DEF Verdict
      <2>6. ReadyInv(i)'
          BY <1>a, <1>w, <1>3, <2>1, <2>2, <2>3 DEF ReadyInv, Counts, WorkerInv
      <2>7. JudgedInv(i)'
          BY <1>a, <1>w, <1>3, <2>3 DEF JudgedInv, Judged, Working, StageInv
      <2> QED
          BY <2>5, <2>6, <2>7, OneVerdict
  <1>4. CASE WorkerIncs(i)
      <2>1. UNCHANGED <<kid, pub, outlived>>
          BY <1>4 DEF WorkerIncs
      <2>2. CASE /\ worker[i].at = "run" /\ bogo' = [bogo EXCEPT ![i].ready = FALSE]
                 /\ worker' = [worker EXCEPT ![i].at = "not ready"] /\ torn' = torn
          BY <1>1, <1>i, <2>1, <2>2
      <2>3. CASE /\ worker[i].at = "not ready" /\ bogo' = [bogo EXCEPT ![i].counter = @ + 1]
                 /\ worker' = [worker EXCEPT ![i].at = "counted"] /\ torn' = torn
          BY <1>2, <1>i, <2>1, <2>3
      <2>4. CASE /\ worker[i].at = "counted" /\ bogo' = [bogo EXCEPT ![i].ready = TRUE]
                 /\ worker' = [worker EXCEPT ![i].at = "run"] /\ torn' = torn \ {i}
          BY <1>3, <1>i, <2>1, <2>4
      <2> QED
          BY <1>4, <2>2, <2>3, <2>4 DEF WorkerIncs
  <1>5. ASSUME NEW how \in {"SUCCESS", "FAILURE", "OOM", "CRASH"}, worker[i].at \in {"run", "not ready", "counted"},
               worker' = [worker EXCEPT ![i] = Gone(i, how)], UNCHANGED <<bogo, kid, pub, outlived>>,
               torn' = torn \cup Torn(i)
        PROVE  TornInv'
      <2>1. worker'[i].at \in {"none", "zombie"}
          BY <1>i, <1>5 DEF Gone, NoWorker
      <2>2. i \in torn' <=> i \in torn \/ worker[i].at \in {"not ready", "counted"}
          BY <1>5 DEF Torn
      <2>3. \A j \in Inst \ {i} : (j \in torn' <=> j \in torn) /\ worker'[j] = worker[j]
          BY <1>i, <1>5 DEF Torn
      <2>4. \A j \in Inst \ {i} : UNCHANGED Verdict(j)
          <3>1. UNCHANGED <<bogo, kid, pub, outlived>>
              BY <1>5
          <3> QED
              BY <2>3, <3>1 DEF Verdict
      <2>5. ReadyInv(i)'
          BY <1>a, <1>w, <1>5, <2>1, <2>2 DEF ReadyInv, Counts
      <2>6. JudgedInv(i)'
          BY <1>a, <1>w, <1>5 DEF JudgedInv, Judged, Working
      <2> QED
          BY <2>4, <2>5, <2>6, OneVerdict
  <1>6. CASE WorkerExits(i)
      <2>1. PICK how \in {"SUCCESS", "FAILURE"} : worker' = [worker EXCEPT ![i] = Gone(i, how)]
          BY <1>6 DEF WorkerExits
      <2>2. worker[i].at = "run" /\ UNCHANGED <<bogo, kid, pub, outlived, torn>>
          BY <1>6 DEF WorkerExits
      <2>3. torn' = torn \cup Torn(i)
          BY <2>2 DEF Torn
      <2> QED
          BY <1>5, <2>1, <2>2, <2>3
  <1>7. CASE WorkerDies(i)
      <2>1. PICK how \in {"OOM", "CRASH"} : worker' = [worker EXCEPT ![i] = Gone(i, how)]
          BY <1>7 DEF WorkerDies
      <2>2. /\ worker[i].at \in {"run", "not ready", "counted"} /\ torn' = torn \cup Torn(i)
            /\ UNCHANGED <<bogo, kid, pub, outlived>>
          BY <1>7 DEF WorkerDies, Runs
      <2> QED
          BY <1>5, <2>1, <2>2
  <1>8. CASE WorkerStuck(i) \/ WorkerWakes(i)
      <2>1. PICK b \in BOOLEAN : worker' = [worker EXCEPT ![i].stuck = b]
          BY <1>8 DEF WorkerStuck, WorkerWakes
      <2>2. worker' = [worker EXCEPT ![i] = [worker[i] EXCEPT !.stuck = b]]
          BY <1>i, <2>1
      <2>3. worker'[i].at = worker[i].at /\ \A j \in Inst \ {i} : worker'[j] = worker[j]
          BY <1>i, <2>2 DEF WorkerType
      <2>4. UNCHANGED <<bogo, kid, pub, outlived, torn>>
          BY <1>8 DEF WorkerStuck, WorkerWakes
      <2>5. \A j \in Inst : UNCHANGED Verdict(j)
          BY <2>3, <2>4 DEF Verdict
      <2> QED
          BY <2>5, SameVerdict DEF TornInv
  <1> QED
      BY <1>4, <1>6, <1>7, <1>8

\* A process is killed, bits flip, or a timer fires.
LEMMA DisturbanceVerdict ==
    ASSUME IndInv, TornInv, NEW i \in Inst, ChildKilled(i) \/ Fault(i) \/ Alarm(i)
    PROVE  TornInv'
  <1> USE DEF other, mainVars, history
  <1>i. kid \in [Inst -> KidType] /\ bogo \in [Inst -> BogoType]
      BY DEF IndInv, TypeOK
  <1>1. CASE ChildKilled(i)
      <2>1. /\ kid' = [kid EXCEPT ![i] = [kid[i] EXCEPT !.pc = "dead"]]
            /\ UNCHANGED <<bogo, worker, pub, torn>>
          BY <1>i, <1>1 DEF ChildKilled
      <2>2. \A j \in Inst \ {i} : (j \in outlived' <=> j \in outlived) /\ kid'[j] = kid[j]
          BY <1>i, <1>1, <2>1 DEF ChildKilled
      <2>3. \A j \in Inst \ {i} : UNCHANGED Verdict(j)
          BY <2>1, <2>2 DEF Verdict
      <2>4. kid'[i].pc = "dead"
          BY <1>i, <2>1 DEF KidType
      <2>5. ReadyInv(i)' /\ JudgedInv(i)'
          BY <2>4 DEF ReadyInv, JudgedInv, Judged, Working
      <2> QED
          BY <2>3, <2>5, OneVerdict
  <1>2. CASE Fault(i)
      <2>1. UNCHANGED <<kid, worker, pub, torn, outlived>>
          BY <1>2 DEF Fault
      <2>2. \/ bogo' = bogo
            \/ bogo' = [bogo EXCEPT ![i].counter = @ + 1]
            \/ bogo' = [bogo EXCEPT ![i].ok = ~@]
          BY <1>2 DEF Fault
      <2>3. ASSUME NEW j \in Inst
            PROVE  bogo'[j].ready = bogo[j].ready /\ bogo'[j].force = bogo[j].force
          <3>1. CASE bogo' = bogo
              BY <3>1
          <3>2. CASE bogo' = [bogo EXCEPT ![i].counter = @ + 1]
              <4>1. bogo'[j].ready = bogo[j].ready
                  BY <1>i, <3>2 DEF BogoType
              <4>2. bogo'[j].force = bogo[j].force
                  BY <1>i, <3>2 DEF BogoType
              <4> QED
                  BY <4>1, <4>2
          <3>3. CASE bogo' = [bogo EXCEPT ![i].ok = ~@]
              <4>1. bogo'[j].ready = bogo[j].ready
                  BY <1>i, <3>3 DEF BogoType
              <4>2. bogo'[j].force = bogo[j].force
                  BY <1>i, <3>3 DEF BogoType
              <4> QED
                  BY <4>1, <4>2
          <3> QED
              BY <2>2, <3>1, <3>2, <3>3
      <2>4. \A j \in Inst : UNCHANGED Verdict(j)
          BY <2>1, <2>3 DEF Verdict
      <2> QED
          BY <2>4, SameVerdict DEF TornInv
  <1>3. CASE Alarm(i)
      <2>1. \A j \in Inst : UNCHANGED Verdict(j)
          BY <1>3 DEF Alarm, Verdict
      <2> QED
          BY <2>1, SameVerdict DEF TornInv
  <1> QED
      BY <1>1, <1>2, <1>3

\* The steps of main: an instance is judged on nothing that an earlier run has left.
LEMMA MainVerdict ==
    ASSUME IndInv, TornInv, MainStep \/ ForkFails \/ Stop \/ Ended
    PROVE  TornInv'
  <1> USE DEF history, mainVars
  <1>i. kid \in [Inst -> KidType] /\ bogo \in [Inst -> BogoType] /\ MainInv
      BY DEF IndInv, TypeOK
  <1>1. CASE \/ Skip \/ ForkedGoOn \/ ForkedStopped \/ AllStarted \/ stress_metrics_check \/ NextRun
             \/ Stop \/ Ended
      <2>1. UNCHANGED <<kid, worker, bogo, history>>
          BY <1>1 DEF Skip, ForkedGoOn, ForkedStopped, AllStarted, stress_metrics_check, NextRun,
                      Stop, Ended, vars
      <2>2. \A j \in Inst : UNCHANGED Verdict(j)
          BY <2>1 DEF Verdict
      <2> QED
          BY <2>2, SameVerdict DEF TornInv
  <1>2. CASE AllReaped
      <2>1. ASSUME NEW j \in Inst PROVE ReadyInv(j)' /\ JudgedInv(j)'
          <3>1. kid'[j].pc = "none"
              BY <1>i, <1>2 DEF AllReaped, KidType
          <3> QED
              BY <3>1 DEF ReadyInv, JudgedInv, Judged, Working
      <2> QED
          BY <2>1 DEF TornInv
  <1>3. CASE Fork \/ StopSeen \/ ForkFails
      <2>1. /\ mpc = "start" /\ next \in 1..(N + 1) /\ next <= N /\ Reset /\ N \in Nat
            /\ UNCHANGED <<worker, outlived>>
          BY <1>3, PlanAssumption DEF Fork, StopSeen, ForkFails, IndInv, TypeOK
      <2>2. next \in Inst
          BY <2>1 DEF Inst
      <2>3. PICK n \in Inst : n = next
          BY <2>2
      <2>4. kid[n].pc = "none"
          BY <1>i, <2>1, <2>3 DEF MainInv, Inst
      <2>5. /\ bogo' = [bogo EXCEPT ![n] = [bogo[n] EXCEPT !.ready = TRUE, !.counter = 0]]
            /\ torn' = torn \ {n} /\ pub' = [pub EXCEPT ![n] = "no"] /\ pub \in [Inst -> {"no", "begun", "full"}]
          BY <1>i, <2>1, <2>3 DEF Reset, IndInv, TypeOK
      <2>6. kid' = kid \/ kid' = [kid EXCEPT ![n] = [pc |-> "born", rc |-> SUCCESS, idx |-> 1]]
          BY <1>3, <2>3 DEF Fork, StopSeen, ForkFails
      <2>7. kid'[n].pc = "none" \/ (kid'[n].pc = "born" /\ kid'[n].rc = SUCCESS)
          BY <1>i, <2>4, <2>6
      <2>8. \A j \in Inst \ {n} : /\ kid'[j] = kid[j] /\ bogo'[j] = bogo[j] /\ pub'[j] = pub[j]
                                  /\ (j \in torn' <=> j \in torn)
          BY <1>i, <2>5, <2>6
      <2>9. \A j \in Inst \ {n} : UNCHANGED Verdict(j)
          BY <2>1, <2>8 DEF Verdict
      <2>10. bogo'[n].ready = TRUE
          BY <1>i, <2>5 DEF BogoType
      <2>11. worker'[n].at \in {"none", "zombie"} \/ n \in outlived'
          BY <2>1, <2>4 DEF IndInv, InstInv, WorkerInv
      <2>12. ReadyInv(n)'
          BY <2>5, <2>7, <2>10, <2>11 DEF ReadyInv, Counts
      <2>13. JudgedInv(n)'
          <3>1. ~Judged(n)'
              BY <2>7 DEF Judged
          <3>2. kid'[n].pc \in Working \cup {"completed", "run ok", "sum ok"} => kid'[n].rc # UNTRUSTWORTHY
              <4>1. CASE kid'[n].pc = "none"
                  BY <4>1 DEF Working
              <4>2. CASE kid'[n].rc = SUCCESS
                  <5>1. SUCCESS # UNTRUSTWORTHY
                      BY DEF SUCCESS, UNTRUSTWORTHY
                  <5> QED
                      BY <4>2, <5>1
              <4> QED
                  BY <2>7, <4>1, <4>2
          <3> QED
              BY <3>1, <3>2 DEF JudgedInv
      <2> QED
          BY <2>9, <2>12, <2>13, OneVerdict
  <1> QED
      BY <1>1, <1>2, <1>3 DEF MainStep

LEMMA InitVerdict == Init => TornInv
  <1> SUFFICES ASSUME Init, NEW i \in Inst PROVE ReadyInv(i) /\ JudgedInv(i)
      BY DEF TornInv
  <1>1. kid[i].pc = "none"
      BY DEF Init
  <1> QED
      BY <1>1 DEF ReadyInv, JudgedInv, Judged, Working

LEMMA NextVerdict == IndInv /\ TornInv /\ [Next]_vars => TornInv'
  <1> SUFFICES ASSUME IndInv, TornInv, [Next]_vars PROVE TornInv'
      OBVIOUS
  <1>1. CASE UNCHANGED vars
      <2>1. \A j \in Inst : UNCHANGED Verdict(j)
          BY <1>1 DEF vars, history, Verdict
      <2> QED
          BY <2>1, SameVerdict DEF TornInv
  <1>2. CASE MainStep \/ ForkFails \/ Stop \/ Ended
      BY <1>2, MainVerdict
  <1>3. ASSUME NEW i \in Inst,
               \/ ChildStep(i) \/ Alarm(i) \/ ChildSkips(i) \/ IncNotReady(i)
               \/ StressorInterrupted(i) \/ ChildKilled(i) \/ Fault(i) \/ WrapperStep(i)
               \/ WorkerIncs(i) \/ WorkerExits(i) \/ WorkerDies(i) \/ WorkerStuck(i)
               \/ WorkerWakes(i)
        PROVE  TornInv'
      BY <1>3, CountingVerdict, PublishVerdict, WrapperVerdict, WorkerVerdict, DisturbanceVerdict
         DEF ChildStep
  <1> QED
      BY <1>1, <1>2, <1>3 DEF Next

\* An instance that publishes is called untrustworthy exactly when the latest increment
\* of its counter in this run, by itself or by one of its workers, was begun and not
\* finished, unless the stressor has said that it forced it or has left a worker behind.
THEOREM TornIsJudged == Spec => []TornIsUntrustworthy
  <1>1. TornInv => TornIsUntrustworthy
      BY DEF TornInv, JudgedInv, Judged, TornIsUntrustworthy
  <1>2. Spec => []TornInv
      BY InitVerdict, NextVerdict, Inductive, PTL DEF Spec
  <1> QED
      BY <1>1, <1>2, PTL
=============================================================================
