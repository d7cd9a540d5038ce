-------------------------- MODULE StatsHashProofs --------------------------
(***************************************************************************)
(* Proofs about StatsHash for any number of instances, any table size, any  *)
(* set of pids and any plan of runs, in particular every --permute plan.    *)
(***************************************************************************)
EXTENDS StatsHash, TLAPS

USE StatsAssumption, PidsAssumption, PlanAssumption, UsersAssumption

\* stress_stats_pid_to_hash yields an index of the bucket array.
LEMMA HashIsBucket ==
    ASSUME NEW p \in Pids PROVE stress_stats_pid_to_hash(p) \in Buckets
  BY DEF stress_stats_pid_to_hash, Buckets

\* The table as calloc leaves it satisfies the inductive invariant.
LEMMA InitInv == Init => IndInv
  <1> SUFFICES ASSUME Init PROVE IndInv
      OBVIOUS
  <1>1. TypeOK
      BY DEF Init, TypeOK, Buckets, Stats, NULL, FREE, HELPER
  <1>2. PidInv
      BY DEF Init, PidInv, Stats, FREE, HELPER
  <1>3. RunInv /\ FindInv
      BY DEF Init, RunInv, FindInv
  <1>4. ChainInv
      BY DEF Init, ChainInv, Added, Buckets, Stats
  <1> QED
      BY <1>1, <1>2, <1>3, <1>4 DEF IndInv

\* Adding an instance that this run has not added yet keeps the chains intact
\* (stress_stats_hash_table_add after fork).
LEMMA StartStep ==
    ASSUME IndInv, NEW s \in Stats, NEW p \in Pids, Start(s, p)
    PROVE  IndInv'
  <1> DEFINE h == stress_stats_pid_to_hash(p)
  <1>a. h \in Buckets
      BY HashIsBucket
  <1>b. bucket[s] = -1 /\ s \in todo
      BY DEF IndInv, RunInv, Start, IsNext
  <1>1. TypeOK'
      BY <1>a DEF IndInv, TypeOK, Start, stress_stats_hash_table_add, Added, Stats
  <1>2. PidInv'
      <2>1. ASSUME NEW t \in Stats, pid'[t] \in Pids
            PROVE  owner'[pid'[t]] = t /\ bucket'[t] = stress_stats_pid_to_hash(pid'[t])
          <3>1. CASE t = s
              BY <1>a, <3>1 DEF IndInv, TypeOK, Start, stress_stats_hash_table_add
          <3>2. CASE t # s
              <4>1. pid[t] \in Pids /\ pid'[t] = pid[t] /\ bucket'[t] = bucket[t]
                  BY <2>1, <3>2 DEF IndInv, TypeOK, Start, stress_stats_hash_table_add
              <4>2. owner[pid[t]] = t /\ pid[t] # p
                  BY <4>1 DEF IndInv, PidInv, Start, FREE, Stats
              <4> QED
                  BY <4>1, <4>2 DEF IndInv, TypeOK, PidInv, Start
          <3> QED
              BY <3>1, <3>2
      <2>2. ASSUME NEW q \in Pids, owner'[q] \in Stats
            PROVE  pid'[owner'[q]] = q
          <3>1. CASE q = p
              BY <3>1 DEF IndInv, TypeOK, Start
          <3>2. CASE q # p
              <4>1. owner'[q] = owner[q] /\ pid[owner[q]] = q
                  BY <2>2, <3>2 DEF IndInv, TypeOK, PidInv, Start
              <4>2. owner[q] # s
                  <5> SUFFICES ASSUME owner[q] = s PROVE FALSE
                      OBVIOUS
                  <5>1. bucket[s] = stress_stats_pid_to_hash(q)
                      BY <4>1 DEF IndInv, PidInv
                  <5>2. stress_stats_pid_to_hash(q) \in Buckets
                      BY HashIsBucket
                  <5> QED
                      BY <5>1, <5>2, <1>b DEF Buckets
              <4> QED
                  BY <4>1, <4>2, <2>2 DEF IndInv, TypeOK, Start
          <3> QED
              BY <3>1, <3>2
      <2>3. \A q \in dead' : owner'[q] # FREE
          BY DEF IndInv, TypeOK, PidInv, Start, FREE, Stats
      <2> QED
          BY <2>1, <2>2, <2>3 DEF PidInv
  <1>3. RunInv' /\ FindInv'
      BY <1>b DEF IndInv, TypeOK, RunInv, FindInv, Start, IsNext,
             stress_stats_hash_table_add
  <1>4. \A g \in Buckets : Added(g)' = IF g = h THEN Added(h) \cup {s} ELSE Added(g)
      BY <1>a, <1>b DEF IndInv, TypeOK, Start, stress_stats_hash_table_add, Added,
             Buckets
  <1>5. s \notin Added(h)
      BY <1>a, <1>b DEF Added, Buckets
  <1>6. \A t \in Stats : older[t] \subseteq Stats \ {s}
      BY <1>b DEF IndInv, TypeOK, ChainInv, Added
  <1>7. ChainInv'
      <2>0. /\ older' = [older EXCEPT ![s] = Added(h)]
            /\ next' = [next EXCEPT ![s] = table[h]]
            /\ table' = [table EXCEPT ![h] = s]
            /\ bucket' = [bucket EXCEPT ![s] = h]
          BY DEF Start, stress_stats_hash_table_add
      <2>t. /\ older \in [Stats -> SUBSET Stats] /\ next \in [Stats -> Stats \cup {NULL}]
            /\ table \in [Buckets -> Stats \cup {NULL}]
            /\ bucket \in [Stats -> Buckets \cup {-1}]
          BY DEF IndInv, TypeOK
      <2>1. ASSUME NEW t \in Stats
            PROVE  /\ older'[t] \subseteq Added(bucket[t])' \ {t}
                   /\ bucket'[t] = -1 => older'[t] = {}
          <3>1. CASE t = s
              BY <1>a, <1>4, <1>5, <2>0, <2>t, <3>1 DEF Buckets
          <3>2. CASE t # s
              <4>1. bucket'[t] = bucket[t] /\ older'[t] = older[t]
                  BY <2>0, <2>t, <3>2
              <4>2. older[t] \subseteq Added(bucket[t]) \ {t}
                    /\ (bucket[t] = -1 => older[t] = {})
                  BY DEF IndInv, ChainInv
              <4>3. CASE bucket[t] = -1
                  BY <4>1, <4>2, <4>3
              <4>4. CASE bucket[t] \in Buckets
                  <5>1. Added(bucket[t]) \subseteq Added(bucket[t])'
                      BY <1>b, <2>0, <2>t, <3>2, <4>4 DEF Added, Buckets
                  <5> QED
                      BY <4>1, <4>2, <4>4, <5>1 DEF Buckets
              <4> QED
                  BY <2>t, <4>3, <4>4
          <3> QED
              BY <3>1, <3>2
      <2>2. ASSUME NEW g \in Buckets, Added(g)' # {}
            PROVE  /\ table'[g] \in Added(g)'
                   /\ older'[table'[g]] = Added(g)' \ {table'[g]}
          <3>1. CASE g = h
              BY <1>a, <1>4, <1>5, <2>0, <2>t, <3>1
          <3>2. CASE g # h
              <4>1. Added(g)' = Added(g) /\ table'[g] = table[g]
                  BY <1>4, <2>0, <2>t, <3>2
              <4>2. table[g] \in Added(g) /\ older[table[g]] = Added(g) \ {table[g]}
                  BY <2>2, <4>1 DEF IndInv, ChainInv
              <4>3. table[g] # s
                  BY <4>2, <1>b DEF Added, Buckets
              <4> QED
                  BY <4>1, <4>2, <4>3, <2>0, <2>t DEF Added
          <3> QED
              BY <3>1, <3>2
      <2>3. ASSUME NEW t \in Stats, older'[t] # {}
            PROVE  /\ next'[t] \in older'[t]
                   /\ older'[next'[t]] = older'[t] \ {next'[t]}
          <3>1. CASE t = s
              <4>1. table[h] \in Added(h) /\ older[table[h]] = Added(h) \ {table[h]}
                  BY <1>a, <2>0, <2>t, <2>3, <3>1 DEF IndInv, ChainInv
              <4> QED
                  BY <1>5, <2>0, <2>t, <3>1, <4>1 DEF Added
          <3>2. CASE t # s
              <4>1. next[t] \in older[t] /\ older[next[t]] = older[t] \ {next[t]}
                  BY <2>0, <2>t, <2>3, <3>2 DEF IndInv, ChainInv
              <4> QED
                  BY <1>6, <2>0, <2>t, <3>2, <4>1
          <3> QED
              BY <3>1, <3>2
      <2> QED
          BY <2>1, <2>2, <2>3 DEF ChainInv
  <1> QED
      BY <1>1, <1>2, <1>3, <1>7 DEF IndInv

\* A new run forgets what earlier runs added: none of it is live any more.
LEMMA BeginRunStep == ASSUME IndInv, BeginRun PROVE IndInv'
  <1>1. todo' \in SUBSET Stats
      BY DEF IndInv, TypeOK, BeginRun
  <1>2. TypeOK'
      BY <1>1 DEF IndInv, TypeOK, BeginRun, kidVars, Stats
  <1>3. PidInv'
      BY DEF IndInv, TypeOK, PidInv, RunInv, BeginRun
  <1>4. RunInv' /\ FindInv'
      BY <1>1 DEF IndInv, TypeOK, RunInv, FindInv, BeginRun
  <1>5. ChainInv'
      BY DEF ChainInv, BeginRun, Added, Buckets
  <1> QED
      BY <1>2, <1>3, <1>4, <1>5 DEF IndInv

\* The look-up that follows waitpid starts in front of the entry it needs.
LEMMA WaitReturnsStep ==
    ASSUME IndInv, NEW p \in Pids, WaitReturns(p) PROVE IndInv'
  <1> DEFINE h == stress_stats_pid_to_hash(p)
  <1>1. h \in Buckets
      BY HashIsBucket
  <1>2. TypeOK'
      BY <1>1 DEF IndInv, TypeOK, WaitReturns, kidVars
  <1>3. PidInv' /\ RunInv' /\ ChainInv'
      BY DEF IndInv, TypeOK, PidInv, RunInv, ChainInv, WaitReturns, Added
  <1>4. ASSUME owner[p] \in Stats
        PROVE  table[h] \in Added(h) /\ owner[p] \in older[table[h]] \cup {table[h]}
      <2>1. owner[p] \in Added(h)
          BY <1>4 DEF IndInv, PidInv, Added
      <2> QED
          BY <1>1, <2>1 DEF IndInv, ChainInv
  <1>5. FindInv'
      BY <1>4 DEF IndInv, FindInv, WaitReturns, Added
  <1> QED
      BY <1>2, <1>3, <1>5 DEF IndInv

\* Each link brings the look-up closer to the entry it needs.
LEMMA FindNextStep == ASSUME IndInv, FindNext PROVE IndInv'
  <1>1. TypeOK'
      BY DEF IndInv, TypeOK, FindNext, kidVars, NULL
  <1>2. PidInv' /\ RunInv' /\ ChainInv'
      BY DEF IndInv, TypeOK, PidInv, RunInv, ChainInv, FindNext, Added
  <1>3. ASSUME owner[target] \in Stats
        PROVE  /\ next[cursor] \in Added(stress_stats_pid_to_hash(target))
               /\ owner[target] \in older[next[cursor]] \cup {next[cursor]}
      <2>1. /\ cursor \in Stats
            /\ bucket[cursor] = stress_stats_pid_to_hash(target)
            /\ owner[target] \in older[cursor] \cup {cursor}
          BY <1>3 DEF IndInv, FindInv, FindNext, Added
      <2>2. owner[target] # cursor
          BY <1>3, <2>1 DEF IndInv, TypeOK, PidInv, FindInv, FindNext
      <2>3. next[cursor] \in older[cursor]
            /\ older[next[cursor]] = older[cursor] \ {next[cursor]}
          BY <2>1, <2>2 DEF IndInv, ChainInv
      <2> QED
          BY <2>1, <2>2, <2>3 DEF IndInv, ChainInv
  <1>4. FindInv'
      BY <1>3 DEF IndInv, FindInv, FindNext, Added
  <1> QED
      BY <1>1, <1>2, <1>4 DEF IndInv

\* A hit finishes the instance whose process was waited for, and no other.
LEMMA FindHitStep == ASSUME IndInv, FindHit PROVE IndInv'
  <1>0. cursor \in Stats /\ target \in Pids /\ owner[target] = cursor
      BY DEF IndInv, TypeOK, PidInv, FindInv, FindHit, NULL
  <1>1. TypeOK'
      BY <1>0 DEF IndInv, TypeOK, FindHit, Release, kidVars
  <1>2. PidInv'
      <2>1. ASSUME NEW t \in Stats, pid'[t] \in Pids
            PROVE  owner'[pid'[t]] = t /\ bucket'[t] = stress_stats_pid_to_hash(pid'[t])
          <3>1. t # cursor /\ pid'[t] = pid[t]
              BY <1>0, <2>1 DEF IndInv, TypeOK, FindHit
          <3>2. pid[t] # target
              BY <1>0, <2>1, <3>1 DEF IndInv, PidInv
          <3> QED
              BY <1>0, <2>1, <3>1, <3>2 DEF IndInv, TypeOK, PidInv, FindHit, Release
      <2>2. ASSUME NEW q \in Pids, owner'[q] \in Stats
            PROVE  pid'[owner'[q]] = q
          <3>1. q # target /\ owner'[q] = owner[q]
              BY <1>0, <2>2 DEF IndInv, TypeOK, FindHit, Release, FREE, Stats
          <3>2. pid[owner[q]] = q /\ owner[q] # cursor
              BY <2>2, <3>1 DEF IndInv, PidInv, FindHit
          <3> QED
              BY <2>2, <3>1, <3>2 DEF IndInv, TypeOK, FindHit
      <2>3. \A q \in dead' : owner'[q] # FREE
          BY DEF IndInv, TypeOK, PidInv, FindHit, Release
      <2> QED
          BY <2>1, <2>2, <2>3 DEF PidInv
  <1>3. RunInv' /\ FindInv'
      BY <1>0 DEF IndInv, TypeOK, RunInv, FindInv, FindHit
  <1>4. ChainInv'
      BY DEF IndInv, ChainInv, FindHit, Added
  <1> QED
      BY <1>1, <1>2, <1>3, <1>4 DEF IndInv

\* Only the pid of a helper child is ever missed.
LEMMA FindNullStep == ASSUME IndInv, FindNull PROVE IndInv'
  <1>0. target \in Pids /\ owner[target] \notin Stats
      BY DEF IndInv, TypeOK, PidInv, FindInv, FindNull, Added, NULL, Stats
  <1>1. TypeOK'
      BY <1>0 DEF IndInv, TypeOK, FindNull, Release, kidVars
  <1>2. PidInv'
      BY <1>0 DEF IndInv, TypeOK, PidInv, FindNull, Release, FREE, Stats
  <1>3. RunInv' /\ FindInv'
      BY DEF IndInv, TypeOK, RunInv, FindInv, FindNull
  <1>4. ChainInv'
      BY DEF IndInv, ChainInv, FindNull, Added
  <1> QED
      BY <1>1, <1>2, <1>3, <1>4 DEF IndInv

\* The remaining steps leave the table and the pids in use alone.
LEMMA OtherSteps ==
    ASSUME IndInv,
           \/ AllStarted \/ PollNothing \/ EndRun \/ AllRunsDone
           \/ \E s \in Stats : ForkFails(s)
           \/ \E p \in Pids : Exit(p)
           \/ \E s \in SigchldUsers : Sigchld(s) \/ SigchldStep(s)
           \/ UNCHANGED vars
    PROVE  IndInv'
  <1>1. CASE AllStarted \/ PollNothing \/ EndRun
      <2>1. TypeOK'
          BY <1>1 DEF IndInv, TypeOK, AllStarted, PollNothing, EndRun, kidVars
      <2>2. PidInv' /\ RunInv' /\ ChainInv' /\ FindInv'
          BY <1>1 DEF IndInv, PidInv, RunInv, ChainInv, FindInv, Added, AllStarted,
                 PollNothing, EndRun
      <2> QED
          BY <2>1, <2>2 DEF IndInv
  <1>2. ASSUME NEW s \in Stats, ForkFails(s) PROVE IndInv'
      <2>1. TypeOK'
          BY <1>2 DEF IndInv, TypeOK, ForkFails, kidVars
      <2>2. pid[s] \notin Pids
          <3> SUFFICES ASSUME pid[s] \in Pids PROVE FALSE
              OBVIOUS
          <3>1. bucket[s] = stress_stats_pid_to_hash(pid[s]) /\ bucket[s] = -1
              BY <1>2 DEF IndInv, PidInv, RunInv, ForkFails, IsNext
          <3>2. stress_stats_pid_to_hash(pid[s]) \in Buckets
              BY HashIsBucket
          <3> QED
              BY <3>1, <3>2 DEF Buckets
      <2>3. PidInv'
          BY <1>2, <2>2 DEF IndInv, TypeOK, PidInv, ForkFails
      <2>4. RunInv' /\ ChainInv' /\ FindInv'
          BY <1>2 DEF IndInv, RunInv, ChainInv, FindInv, Added, ForkFails
      <2> QED
          BY <2>1, <2>3, <2>4 DEF IndInv
  <1>3. ASSUME NEW p \in Pids, Exit(p) PROVE IndInv'
      <2>1. TypeOK'
          BY <1>3 DEF IndInv, TypeOK, Exit, kidVars
      <2>2. PidInv' /\ RunInv'
          BY <1>3 DEF IndInv, PidInv, RunInv, Exit, Running
      <2>3. ChainInv' /\ FindInv'
          BY <1>3 DEF IndInv, ChainInv, FindInv, Added, Exit
      <2> QED
          BY <2>1, <2>2, <2>3 DEF IndInv
  <1>4. ASSUME NEW s \in SigchldUsers, Sigchld(s) \/ SigchldStep(s) PROVE IndInv'
      <2>1. TypeOK'
          <3>1. s \in Stats /\ (Sigchld(s) => stress_stats_pid_to_hash(pid[s]) \in Buckets)
              BY HashIsBucket DEF Sigchld, Alive, Running
          <3>2. CASE Sigchld(s)
              BY <3>1, <3>2 DEF IndInv, TypeOK, Sigchld, mainVars
          <3>3. CASE SigchldStep(s)
              BY <3>1, <3>3 DEF IndInv, TypeOK, SigchldStep, mainVars, NULL
          <3> QED
              BY <1>4, <3>2, <3>3
      <2>2. PidInv' /\ RunInv' /\ ChainInv' /\ FindInv'
          BY <1>4 DEF IndInv, PidInv, RunInv, ChainInv, FindInv, Added, Sigchld,
                 SigchldStep, mainVars
      <2> QED
          BY <2>1, <2>2 DEF IndInv
  <1>5. CASE AllRunsDone \/ UNCHANGED vars
      <2>1. TypeOK'
          BY <1>5 DEF IndInv, TypeOK, AllRunsDone, vars, mainVars, kidVars
      <2>2. PidInv' /\ RunInv'
          BY <1>5 DEF IndInv, PidInv, RunInv, AllRunsDone, vars, mainVars
      <2>3. ChainInv' /\ FindInv'
          BY <1>5 DEF IndInv, ChainInv, FindInv, Added, AllRunsDone, vars, mainVars
      <2> QED
          BY <2>1, <2>2, <2>3 DEF IndInv
  <1> QED
      BY <1>1, <1>2, <1>3, <1>4, <1>5

\* The chain prefix of the current run stays intact in every execution.
THEOREM Inductive == Spec => []IndInv
  <1>1. Init => IndInv
      BY InitInv
  <1>2. IndInv /\ [Next]_vars => IndInv'
      BY StartStep, BeginRunStep, WaitReturnsStep, FindNextStep, FindHitStep,
         FindNullStep, OtherSteps DEF Next, Supervisor
  <1> QED
      BY <1>1, <1>2, PTL DEF Spec

\* Every state of the table and of the look-ups is well typed.
THEOREM TypeCorrect == Spec => []TypeOK
  <1>1. IndInv => TypeOK
      BY DEF IndInv
  <1> QED
      BY <1>1, Inductive, PTL

\* The exit status of a stressor is never dropped by stress_stats_pid_find.
THEOREM NeverMisses == Spec => []LiveLookupNeverMisses
  <1>1. IndInv => LiveLookupNeverMisses
      BY DEF IndInv, FindInv, LiveLookupNeverMisses, Added, NULL, Stats
  <1> QED
      BY <1>1, Inductive, PTL

\* It is charged to the instance whose process it is, whatever stale pids and
\* links earlier runs have left in the table.
THEOREM ChargedToOwner == Spec => StatusGoesToOwner
  <1> DEFINE Charged == \A s \in Stats : (pid[s] \in Pids /\ pid'[s] \notin Pids)
                            => owner[pid[s]] = s /\ owner'[pid[s]] = FREE
  <1>1. ASSUME IndInv, [Next]_vars PROVE Charged
      <2>1. CASE FindHit
          BY <1>1, <2>1 DEF IndInv, TypeOK, PidInv, FindInv, FindHit, Release, NULL
      <2>2. ASSUME NEW s \in Stats, NEW p \in Pids, Start(s, p) PROVE Charged
          BY <1>1, <2>2 DEF IndInv, TypeOK, Start
      <2>3. ASSUME NEW s \in Stats, ForkFails(s) PROVE Charged
          <3>1. pid[s] \in Pids => stress_stats_pid_to_hash(pid[s]) \in Buckets
              BY HashIsBucket
          <3>2. pid[s] \notin Pids
              BY <1>1, <2>3, <3>1 DEF IndInv, PidInv, RunInv, ForkFails, IsNext, Buckets
          <3> QED
              BY <1>1, <2>3, <3>2 DEF IndInv, TypeOK, ForkFails
      <2>4. ASSUME pid' = pid PROVE Charged
          BY <2>4
      <2>5. CASE Next
          BY <2>1, <2>2, <2>3, <2>4, <2>5 DEF Next, Supervisor, BeginRun, AllStarted,
             PollNothing, FindNext, FindNull, EndRun, WaitReturns, AllRunsDone, Exit,
             Sigchld, SigchldStep, vars, mainVars
      <2>6. CASE UNCHANGED vars
          BY <2>4, <2>6 DEF vars, mainVars
      <2> QED
          BY <1>1, <2>5, <2>6
  <1> QED
      BY <1>1, Inductive, PTL DEF Spec, StatusGoesToOwner

\* stress_run returns only when none of its processes is left.
THEOREM RunsLeaveNothing == Spec => []NoneLeftBehind
  <1>1. IndInv => NoneLeftBehind
      BY DEF IndInv, TypeOK, PidInv, RunInv, NoneLeftBehind
  <1> QED
      BY <1>1, Inductive, PTL
=============================================================================
