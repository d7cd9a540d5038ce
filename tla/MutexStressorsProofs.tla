------------------------ MODULE MutexStressorsProofs ------------------------
(***************************************************************************)
(* Proofs about MutexStressors: the entry protocols of the dekker and the   *)
(* peterson stressor are locks on a processor with store buffers, for any   *)
(* number of rounds, kills and faults.                                      *)
(***************************************************************************)
EXTENDS MutexStressors, TLAPS, SequenceTheorems

LEMMA TwoProcs ==
    ASSUME NEW p \in Proc
    PROVE  /\ Other(p) \in Proc /\ Other(p) # p /\ Other(Other(p)) = p
           /\ \A q \in Proc : q = p \/ q = Other(p)
           /\ Want(p) \in Location /\ Want(p) # "turn" /\ Want(p) # "check"
           /\ Want(Other(p)) # Want(p)
           /\ p \in Int /\ p \in {0, 1}
  BY DEF Proc, Other, Want, Location

LEMMA CheckValues ==
    /\ 0 \in CheckType /\ 1 \in CheckType
    /\ \A p \in Proc, v \in CheckType : Counted(p, v) \in CheckType
  <1>1. Modulus \in Nat /\ Modulus > 2
      BY ModulusAssumption
  <1>2. \A x \in Int : x % Modulus \in 0..(Modulus - 1)
      BY <1>1
  <1>3. \A v \in CheckType : v + 1 \in Int /\ v - 1 \in Int
      BY <1>1 DEF CheckType
  <1>4. \A v \in CheckType : (v + 1) % Modulus \in CheckType /\ (v - 1) % Modulus \in CheckType
      BY <1>2, <1>3 DEF CheckType
  <1> QED
      BY <1>1, <1>4 DEF CheckType, Counted

\* The four stores of the protocols fit the memory and are told apart.
LEMMA Stores ==
    ASSUME NEW p \in Proc
    PROVE  /\ Asks(p).loc = Want(p) /\ Asks(p).val = 1
           /\ Drops(p).loc = Want(p) /\ Drops(p).val = 0
           /\ Gives(p).loc = "turn" /\ Gives(p).val = Other(p)
           /\ Counts(p).loc = "check" /\ Counts(p).val = Counted(p, tmp[p])
           /\ Asks(p) # Gives(p)
  BY TwoProcs DEF Asks, Drops, Gives, Counts

LEMMA Tuples ==
    ASSUME NEW a, NEW b
    PROVE  /\ Head(<<a>>) = a /\ Tail(<<a>>) = <<>>
           /\ Head(<<a, b>>) = a /\ Tail(<<a, b>>) = <<b>>
           /\ Append(<<>>, a) = <<a>> /\ Append(<<a>>, b) = <<a, b>>
           /\ <<a>> # <<>> /\ <<a, b>> # <<>> /\ \A c : <<a, b>> # <<c>>
           /\ <<a>> = <<b>> => a = b
  <1>1. Head(<<a>>) = a /\ Tail(<<a>>) = <<>>
      OBVIOUS
  <1>2. Head(<<a, b>>) = a
      OBVIOUS
  <1>3. Tail(<<a, b>>) = <<b>>
      OBVIOUS
  <1>4. Append(<<>>, a) = <<a>>
      OBVIOUS
  <1>5. Append(<<a>>, b) = <<a, b>>
      <2>1. <<a>> \in Seq({a, b}) /\ <<a, b>> \in Seq({a, b}) /\ Len(<<a>>) = 1
          OBVIOUS
      <2>2. /\ Append(<<a>>, b) \in Seq({a, b}) /\ Len(Append(<<a>>, b)) = 2
            /\ Append(<<a>>, b)[1] = a /\ Append(<<a>>, b)[2] = b
          BY <2>1
      <2>3. Len(<<a, b>>) = 2 /\ <<a, b>>[1] = a /\ <<a, b>>[2] = b
          OBVIOUS
      <2>4. \A i \in 1..2 : i = 1 \/ i = 2
          OBVIOUS
      <2> QED
          BY <2>1, <2>2, <2>3, <2>4, SeqEqual
  <1>6. <<a>> # <<>> /\ <<a, b>> # <<>>
      OBVIOUS
  <1>7. \A c : <<a, b>> # <<c>>
      OBVIOUS
  <1>8. <<a>> = <<b>> => a = b
      OBVIOUS
  <1> QED
      BY <1>1, <1>2, <1>3, <1>4, <1>5, <1>6, <1>7, <1>8

LEMMA LoadEmpty ==
    ASSUME NEW p \in Proc, buf[p] = <<>>
    PROVE  \A l : Load(p, l) = mem[l]
  BY DEF Load

LEMMA LoadOwn ==
    ASSUME NEW p \in Proc, NEW l, NEW v, buf[p] = <<[loc |-> l, val |-> v]>>
    PROVE  Load(p, l) = v
  <1>1. Len(buf[p]) = 1 /\ buf[p][1].loc = l /\ buf[p][1].val = v
      OBVIOUS
  <1>2. {i \in 1..Len(buf[p]) : buf[p][i].loc = l} = {1}
      BY <1>1
  <1>3. (CHOOSE i \in {1} : \A j \in {1} : j <= i) = 1
      OBVIOUS
  <1> QED
      BY <1>1, <1>2, <1>3 DEF Load

\* A step of p leaves the memory and the other process alone.
Only(p) ==
    /\ UNCHANGED <<alg, mem, faults>>
    /\ \A q \in Proc \ {p} :
          /\ pc'[q] = pc[q] /\ buf'[q] = buf[q] /\ check0'[q] = check0[q]
          /\ check1'[q] = check1[q] /\ tmp'[q] = tmp[q] /\ fails'[q] = fails[q]

\* What p has to show when its step leaves the memory alone: that it enters, if it
\* does, while the other is out, and has the turn if the other waits.
LEMMA LocalStep ==
    ASSUME IndInv, NEW p \in Proc, TypeOK', Only(p),
           PlaceInv(p)', BufInv(p)', FlagInv(p)', CountInv(p)',
           Waiting(p)' => Waiting(p),
           Holding(p)' => \/ Holding(p)
                          \/ /\ ~Holding(Other(p))
                             /\ alg = "peterson" /\ Waiting(Other(p)) => mem["turn"] = p
    PROVE  IndInv'
  <1> DEFINE q == Other(p)
  <1>1. q \in Proc /\ q # p /\ Other(q) = p /\ \A r \in Proc : r = p \/ r = q
      BY TwoProcs
  <1> HIDE DEF q
  <1>2. ProcInv(p) /\ ProcInv(q)
      BY <1>1 DEF IndInv
  <1>3. /\ pc'[q] = pc[q] /\ buf'[q] = buf[q] /\ check0'[q] = check0[q] /\ check1'[q] = check1[q]
        /\ tmp'[q] = tmp[q] /\ fails'[q] = fails[q] /\ UNCHANGED <<alg, mem, faults>>
      BY <1>1 DEF Only
  <1>4. (Holding(q)' <=> Holding(q)) /\ (Waiting(q)' <=> Waiting(q))
      BY <1>3 DEF Holding, Waiting, InCS
  <1>5. Child \in {p, q} /\ Parent \in {p, q} /\ Child # Parent
      BY <1>1 DEF Proc, Child, Parent
  <1>6. ~(Holding(p) /\ Holding(q))
      BY <1>1, <1>5 DEF IndInv, Exclusive, Proc, Child, Parent
  <1>7. Exclusive'
      BY <1>1, <1>4, <1>5, <1>6 DEF Exclusive, Proc, Child, Parent, q
  <1>8. PlaceInv(q)' /\ FlagInv(q)'
      BY <1>2, <1>3, <1>4 DEF ProcInv, PlaceInv, FlagInv, Gives
  <1>9. BufInv(q)'
      BY <1>2, <1>3 DEF ProcInv, BufInv, FinalStore, Asks, Drops, Gives, Counts
  <1>10. CountInv(q)'
      BY <1>2, <1>3 DEF ProcInv, CountInv
  <1>11. TurnInv(p)'
      BY <1>2, <1>3, <1>4 DEF ProcInv, TurnInv, q
  <1>12. TurnInv(q)'
      BY <1>1, <1>2, <1>3, <1>4 DEF ProcInv, TurnInv
  <1>13. ProcInv(p)' /\ ProcInv(q)'
      BY <1>8, <1>9, <1>10, <1>11, <1>12 DEF ProcInv
  <1> QED
      BY <1>1, <1>7, <1>13 DEF IndInv
\* Steps that change nothing but the place of p, and steps that store.
LEMMA MoveStep ==
    ASSUME IndInv, NEW p \in Proc, NEW from, NEW to \in Place, Goto(p, from, to),
           UNCHANGED <<mem, buf, locals>>
    PROVE  /\ TypeOK' /\ Only(p) /\ pc[p] = from /\ pc'[p] = to /\ buf'[p] = buf[p] /\ mem' = mem
           /\ UNCHANGED <<alg, check0, check1, tmp, fails, faults>>
  <1>1. TypeOK /\ pc \in [Proc -> Place] /\ pc' = [pc EXCEPT ![p] = to] /\ pc[p] = from
      BY DEF IndInv, TypeOK, Goto
  <1>2. pc' \in [Proc -> Place] /\ pc'[p] = to /\ \A q \in Proc \ {p} : pc'[q] = pc[q]
      BY <1>1
  <1>3. TypeOK'
      BY <1>1, <1>2 DEF TypeOK, locals
  <1> QED
      BY <1>1, <1>2, <1>3 DEF Only, locals

LEMMA StoreStep ==
    ASSUME IndInv, NEW p \in Proc, NEW from, NEW to \in Place, Goto(p, from, to),
           NEW l \in Location, NEW v \in CheckType, Store(p, l, v), UNCHANGED locals
    PROVE  /\ TypeOK' /\ Only(p) /\ pc[p] = from /\ pc'[p] = to
           /\ buf'[p] = Append(buf[p], [loc |-> l, val |-> v]) /\ mem' = mem
           /\ UNCHANGED <<alg, check0, check1, tmp, fails, faults>>
  <1> DEFINE Entry == [loc : Location, val : CheckType]
             e == [loc |-> l, val |-> v]
  <1>1. TypeOK /\ pc \in [Proc -> Place] /\ pc' = [pc EXCEPT ![p] = to] /\ pc[p] = from
      BY DEF IndInv, TypeOK, Goto
  <1>2. pc' \in [Proc -> Place] /\ pc'[p] = to /\ \A q \in Proc \ {p} : pc'[q] = pc[q]
      BY <1>1
  <1>3. /\ buf \in [Proc -> Seq(Entry)] /\ buf' = [buf EXCEPT ![p] = Append(buf[p], e)]
        /\ mem' = mem
      BY <1>1 DEF TypeOK, Store
  <1>4. e \in Entry
      OBVIOUS
  <1> HIDE DEF Entry, e
  <1>5. /\ buf' \in [Proc -> Seq(Entry)] /\ buf'[p] = Append(buf[p], e)
        /\ \A q \in Proc \ {p} : buf'[q] = buf[q]
      BY <1>3, <1>4
  <1>6. TypeOK'
      BY <1>1, <1>2, <1>3, <1>5 DEF TypeOK, locals, Entry
  <1> QED
      BY <1>1, <1>2, <1>3, <1>5, <1>6 DEF Only, locals, e

\* The entry protocols.
LEMMA EntrySteps ==
    ASSUME IndInv, NEW p \in Proc,
           \/ Loop(p) \/ Enter(p) \/ Give(p) \/ Test(p) \/ TestTurn(p) \/ Back(p) \/ Spin(p)
           \/ Again(p)
    PROVE  IndInv'
  <1>p. PICK q \in Proc : q = Other(p)
      BY TwoProcs
  <1>q. /\ q # p /\ Other(q) = p /\ Want(p) \in Location /\ Want(q) \in Location
        /\ Want(q) # Want(p) /\ (\A r \in Proc : r = p \/ r = q) /\ q \in CheckType
        /\ 0 \in CheckType /\ 1 \in CheckType /\ "turn" \in Location
      BY <1>p, TwoProcs, CheckValues DEF Proc, Location
  <1>a. /\ PlaceInv(p) /\ BufInv(p) /\ FlagInv(p) /\ TurnInv(p) /\ CountInv(p)
        /\ FlagInv(q) /\ TurnInv(q) /\ alg \in {"dekker", "peterson"} /\ mem["turn"] \in {p, q}
      BY <1>q DEF IndInv, ProcInv, TypeOK
  <1>1. CASE Loop(p)
      <2> DEFINE to == IF stopped THEN AfterLoop(p) ELSE "want"
      <2>1. to \in Place /\ to \in {"exited", "kill", "want"}
          BY DEF Place, AfterLoop
      <2> HIDE DEF to
      <2>2. Goto(p, "loop", to) /\ UNCHANGED <<mem, buf, locals>>
          BY <1>1 DEF Loop, to
      <2>3. /\ TypeOK' /\ Only(p) /\ pc[p] = "loop" /\ pc'[p] = to /\ buf'[p] = buf[p]
            /\ UNCHANGED <<alg, check0, check1, tmp, fails, faults>>
          BY <2>1, <2>2, MoveStep
      <2>4. buf'[p] = <<>>
          BY <1>a, <2>3 DEF BufInv
      <2>5. /\ PlaceInv(p)' /\ BufInv(p)' /\ ~Holding(p)' /\ ~Waiting(p)'
          BY <2>1, <2>3, <2>4 DEF PlaceInv, BufInv, Holding, Waiting, InCS
      <2>6. FlagInv(p)'
          BY <2>1, <2>3, <2>5 DEF FlagInv
      <2>7. CountInv(p)'
          BY <1>a, <2>1, <2>3 DEF CountInv
      <2> QED
          BY <2>3, <2>5, <2>6, <2>7, LocalStep
  <1>2. CASE Enter(p)
      <2> DEFINE to == IF alg = "dekker" THEN "test" ELSE "give"
      <2>1. to \in Place
          BY DEF Place
      <2>2. Goto(p, "want", to) /\ Store(p, Want(p), 1) /\ UNCHANGED locals
          BY <1>2 DEF Enter
      <2>3. /\ TypeOK' /\ Only(p) /\ pc[p] = "want" /\ pc'[p] = to
            /\ buf'[p] = Append(buf[p], Asks(p))
            /\ UNCHANGED <<alg, check0, check1, tmp, fails, faults>>
          BY <1>q, <2>1, <2>2, StoreStep DEF Asks
      <2>4. buf[p] = <<>>
          BY <1>a, <2>3 DEF BufInv
      <2>5. buf'[p] = <<Asks(p)>> /\ buf'[p] # <<>> /\ buf'[p] # <<Gives(p)>>
          BY <2>3, <2>4, Tuples, Stores
      <2>6. /\ PlaceInv(p)' /\ ~Holding(p)' /\ ~Waiting(p)'
          BY <1>a, <2>3, <2>5 DEF PlaceInv, Holding, Waiting, InCS
      <2>7. BufInv(p)'
          BY <2>3, <2>5 DEF BufInv, Asks
      <2>8. FlagInv(p)'
          BY <2>3, <2>5, <2>6 DEF FlagInv, Gives
      <2>9. CountInv(p)'
          BY <1>a, <2>3 DEF CountInv
      <2> QED
          BY <2>3, <2>6, <2>7, <2>8, <2>9, LocalStep
  <1>3. CASE Give(p)
      <2>1. Goto(p, "give", "test") /\ Store(p, "turn", q) /\ UNCHANGED locals /\ "test" \in Place
          BY <1>3, <1>p DEF Give, Place
      <2>2. /\ TypeOK' /\ Only(p) /\ pc[p] = "give" /\ pc'[p] = "test" /\ mem' = mem
            /\ buf'[p] = Append(buf[p], Gives(p))
            /\ UNCHANGED <<alg, check0, check1, tmp, fails, faults>>
          BY <1>p, <1>q, <2>1, StoreStep DEF Gives
      <2>3. alg = "peterson" /\ (buf[p] = <<>> \/ buf[p] = <<Asks(p)>>)
          BY <1>a, <2>2 DEF BufInv, PlaceInv
      <2>4. /\ \/ buf[p] = <<>> /\ buf'[p] = <<Gives(p)>>
               \/ buf'[p] = <<Asks(p), Gives(p)>> /\ buf'[p] # <<Gives(p)>>
            /\ buf'[p] # <<>>
          <3>1. CASE buf[p] = <<>>
              BY <2>2, <3>1, Tuples
          <3>2. CASE buf[p] = <<Asks(p)>>
              <4>1. Append(<<Asks(p)>>, Gives(p)) = <<Asks(p), Gives(p)>>
                  BY Tuples, Zenon
              <4>2. buf'[p] = <<Asks(p), Gives(p)>>
                  BY <2>2, <3>2, <4>1, Zenon
              <4>3. <<Asks(p), Gives(p)>> # <<>> /\ <<Asks(p), Gives(p)>> # <<Gives(p)>>
                  OBVIOUS
              <4> QED
                  BY <4>2, <4>3, Zenon
          <3> QED
              BY <2>3, <3>1, <3>2
      <2>5. /\ PlaceInv(p)' /\ ~Holding(p)' /\ ~Waiting(p)'
          BY <2>2, <2>4 DEF PlaceInv, Holding, Waiting, InCS
      <2>6. BufInv(p)'
          BY <2>2, <2>3, <2>4 DEF BufInv, Asks, Gives
      <2>7. FlagInv(p)'
          BY <1>a, <2>2, <2>4, <2>5 DEF FlagInv, Gives
      <2>8. CountInv(p)'
          BY <1>a, <2>2 DEF CountInv
      <2> QED
          BY <2>2, <2>5, <2>6, <2>7, <2>8, LocalStep
  <1>4. CASE Test(p)
      <2> DEFINE to == IF Load(p, Want(q)) = 1 THEN "test turn" ELSE "check0"
      <2>1. to \in Place /\ buf[p] = <<>>
          BY <1>4 DEF Place, Test, mfence
      <2>2. Goto(p, "test", to) /\ UNCHANGED <<mem, buf, locals>>
          BY <1>4, <1>p DEF Test
      <2>3. to \in {"test turn", "check0"} /\ (to = "check0" => mem[Want(q)] # 1)
          BY <2>1, LoadEmpty
      <2> HIDE DEF to
      <2>4. /\ TypeOK' /\ Only(p) /\ pc[p] = "test" /\ pc'[p] = to /\ buf'[p] = <<>> /\ mem' = mem
            /\ UNCHANGED <<alg, check0, check1, tmp, fails, faults>>
          BY <2>1, <2>2, MoveStep
      <2>5. /\ PlaceInv(p)' /\ BufInv(p)' /\ Waiting(p)
          BY <2>1, <2>3, <2>4 DEF PlaceInv, BufInv, Waiting
      <2>6. FlagInv(p)'
          BY <1>a, <2>4, <2>5 DEF FlagInv
      <2>7. CountInv(p)'
          BY <1>a, <2>3, <2>4 DEF CountInv
      <2>8. Holding(p)' => ~Holding(q) /\ ~Waiting(q)
          BY <1>a, <2>3, <2>4 DEF FlagInv, Holding, InCS
      <2> QED
          BY <1>p, <2>4, <2>5, <2>6, <2>7, <2>8, LocalStep
  <1>5. CASE TestTurn(p)
      <2> DEFINE to == IF alg = "dekker"
                       THEN IF Load(p, "turn") # p THEN "back" ELSE "test"
                       ELSE IF Load(p, "turn") = Other(p) THEN "test" ELSE "check0"
      <2>1. Goto(p, "test turn", to) /\ UNCHANGED <<mem, buf, locals>> /\ to \in Place
          BY <1>5 DEF TestTurn, Place
      <2>2. pc[p] = "test turn" /\ buf[p] = <<>> /\ Waiting(p)
          BY <1>a, <2>1 DEF Goto, BufInv, Waiting
      <2>3. /\ to \in {"back", "test", "check0"} /\ (to = "back" => alg = "dekker")
            /\ to = "check0" => alg = "peterson" /\ mem["turn"] = p
          BY <1>a, <1>p, <2>2, LoadEmpty
      <2> HIDE DEF to
      <2>4. /\ TypeOK' /\ Only(p) /\ pc'[p] = to /\ buf'[p] = <<>> /\ mem' = mem
            /\ UNCHANGED <<alg, check0, check1, tmp, fails, faults>>
          BY <2>1, <2>2, MoveStep
      <2>5. PlaceInv(p)' /\ BufInv(p)'
          BY <2>3, <2>4 DEF PlaceInv, BufInv
      <2>6. FlagInv(p)'
          BY <1>a, <2>2, <2>4 DEF FlagInv
      <2>7. CountInv(p)'
          BY <1>a, <2>3, <2>4 DEF CountInv
      <2>8. Holding(p)' => alg = "peterson" /\ mem["turn"] = p
          BY <2>3, <2>4 DEF Holding, InCS
      <2>9. alg = "peterson" /\ mem["turn"] = p => ~Holding(q)
          BY <1>a, <1>q, <2>2 DEF TurnInv
      <2> QED
          BY <1>p, <2>2, <2>4, <2>5, <2>6, <2>7, <2>8, <2>9, LocalStep
  <1>6. CASE Back(p)
      <2>1. Goto(p, "back", "spin") /\ Store(p, Want(p), 0) /\ UNCHANGED locals /\ "spin" \in Place
          BY <1>6 DEF Back, Place
      <2>2. /\ TypeOK' /\ Only(p) /\ pc[p] = "back" /\ pc'[p] = "spin"
            /\ buf'[p] = Append(buf[p], Drops(p))
            /\ UNCHANGED <<alg, check0, check1, tmp, fails, faults>>
          BY <1>q, <2>1, StoreStep DEF Drops
      <2>3. buf[p] = <<>>
          BY <1>a, <2>2 DEF BufInv
      <2>4. buf'[p] = <<Drops(p)>>
          BY <2>2, <2>3, Tuples
      <2>5. PlaceInv(p)' /\ BufInv(p)' /\ ~Holding(p)' /\ ~Waiting(p)'
          BY <1>a, <2>2, <2>4 DEF PlaceInv, BufInv, Drops, Holding, Waiting, InCS
      <2>6. FlagInv(p)' /\ CountInv(p)'
          BY <1>a, <2>2, <2>5 DEF FlagInv, CountInv
      <2> QED
          BY <2>2, <2>5, <2>6, LocalStep
  <1>7. CASE Spin(p)
      <2> DEFINE to == IF Load(p, "turn") # p THEN "spin" ELSE "again"
      <2>1. /\ Goto(p, "spin", to) /\ UNCHANGED <<mem, buf, locals>> /\ buf[p] = <<>>
            /\ to \in Place /\ to \in {"spin", "again"}
          BY <1>7 DEF Spin, mfence, Place
      <2> HIDE DEF to
      <2>2. /\ TypeOK' /\ Only(p) /\ pc[p] = "spin" /\ pc'[p] = to /\ buf'[p] = <<>>
            /\ UNCHANGED <<alg, check0, check1, tmp, fails, faults>>
          BY <2>1, MoveStep
      <2>3. PlaceInv(p)' /\ BufInv(p)' /\ ~Holding(p)' /\ ~Waiting(p)'
          BY <1>a, <2>1, <2>2 DEF PlaceInv, BufInv, Holding, Waiting, InCS
      <2>4. FlagInv(p)' /\ CountInv(p)'
          BY <1>a, <2>1, <2>2, <2>3 DEF FlagInv, CountInv
      <2> QED
          BY <2>2, <2>3, <2>4, LocalStep
  <1>8. CASE Again(p)
      <2>1. Goto(p, "again", "test") /\ Store(p, Want(p), 1) /\ UNCHANGED locals /\ "test" \in Place
          BY <1>8 DEF Again, Place
      <2>2. /\ TypeOK' /\ Only(p) /\ pc[p] = "again" /\ pc'[p] = "test"
            /\ buf'[p] = Append(buf[p], Asks(p))
            /\ UNCHANGED <<alg, check0, check1, tmp, fails, faults>>
          BY <1>q, <2>1, StoreStep DEF Asks
      <2>3. buf[p] = <<>> /\ alg = "dekker"
          BY <1>a, <2>2 DEF BufInv, PlaceInv
      <2>4. buf'[p] = <<Asks(p)>> /\ buf'[p] # <<>> /\ buf'[p] # <<Gives(p)>>
          BY <2>2, <2>3, Tuples, Stores
      <2>5. PlaceInv(p)' /\ BufInv(p)' /\ ~Holding(p)' /\ ~Waiting(p)'
          BY <2>2, <2>3, <2>4 DEF PlaceInv, BufInv, Asks, Holding, Waiting, InCS
      <2>6. FlagInv(p)' /\ CountInv(p)'
          BY <1>a, <2>2, <2>4, <2>5 DEF FlagInv, CountInv, Gives
      <2> QED
          BY <2>2, <2>5, <2>6, LocalStep
  <1> QED
      BY <1>1, <1>2, <1>3, <1>4, <1>5, <1>6, <1>7, <1>8
\* The critical section and the verdict.
LEMMA SectionSteps ==
    ASSUME IndInv, NEW p \in Proc,
           \/ ReadCheck0(p) \/ LoadCheck(p) \/ StoreCheck(p) \/ ReadCheck1(p) \/ PassTurn(p)
           \/ Leave(p) \/ Verdict(p)
    PROVE  IndInv'
  <1>q. /\ Other(p) \in CheckType /\ 0 \in CheckType /\ Want(p) \in Location
        /\ "turn" \in Location /\ "check" \in Location
      BY TwoProcs, CheckValues DEF Proc, Location
  <1>t. TypeOK /\ alg \in {"dekker", "peterson"} /\ pc \in [Proc -> Place] /\ mem["check"] \in CheckType
      BY DEF IndInv, TypeOK, Location
  <1>a. PlaceInv(p) /\ BufInv(p) /\ FlagInv(p) /\ CountInv(p)
      BY DEF IndInv, ProcInv
  <1>1. CASE ReadCheck0(p)
      <2>1. /\ pc[p] = "check0" /\ pc' = [pc EXCEPT ![p] = "load"] /\ "load" \in Place
            /\ check0' = [check0 EXCEPT ![p] = Load(p, "check")]
            /\ UNCHANGED <<mem, buf, alg, check1, tmp, fails, rc, status, result, stopped, kills,
                           faults, life>>
          BY <1>1 DEF ReadCheck0, Goto, Place
      <2>2. buf[p] = <<>> /\ Load(p, "check") = mem["check"]
          BY <1>a, <2>1, LoadEmpty DEF BufInv
      <2>3. check0 \in [Proc -> CheckType]
          BY <1>t DEF TypeOK
      <2>4. /\ pc' \in [Proc -> Place] /\ pc'[p] = "load" /\ (\A q \in Proc \ {p} : pc'[q] = pc[q])
            /\ check0' \in [Proc -> CheckType] /\ check0'[p] = mem["check"]
            /\ \A q \in Proc \ {p} : check0'[q] = check0[q]
          BY <1>t, <2>1, <2>2, <2>3
      <2>5. TypeOK'
          BY <1>t, <2>1, <2>4 DEF TypeOK
      <2>6. Only(p)
          BY <2>1, <2>4 DEF Only
      <2>7. PlaceInv(p)' /\ BufInv(p)' /\ Holding(p) /\ ~Waiting(p)'
          BY <2>1, <2>2, <2>4 DEF PlaceInv, BufInv, Holding, Waiting, InCS
      <2>8. FlagInv(p)' /\ CountInv(p)'
          BY <1>a, <2>1, <2>4, <2>7 DEF FlagInv, CountInv
      <2> QED
          BY <2>5, <2>6, <2>7, <2>8, LocalStep
  <1>2. CASE LoadCheck(p)
      <2>1. /\ pc[p] = "load" /\ pc' = [pc EXCEPT ![p] = "store"] /\ "store" \in Place
            /\ tmp' = [tmp EXCEPT ![p] = Load(p, "check")]
            /\ UNCHANGED <<mem, buf, alg, check0, check1, fails, rc, status, result, stopped,
                           kills, faults, life>>
          BY <1>2 DEF LoadCheck, Goto, Place
      <2>2. buf[p] = <<>> /\ Load(p, "check") = mem["check"]
          BY <1>a, <2>1, LoadEmpty DEF BufInv
      <2>3. tmp \in [Proc -> CheckType]
          BY <1>t DEF TypeOK
      <2>4. /\ pc' \in [Proc -> Place] /\ pc'[p] = "store" /\ (\A q \in Proc \ {p} : pc'[q] = pc[q])
            /\ tmp' \in [Proc -> CheckType] /\ tmp'[p] = mem["check"]
            /\ \A q \in Proc \ {p} : tmp'[q] = tmp[q]
          BY <1>t, <2>1, <2>2, <2>3
      <2>5. TypeOK'
          BY <1>t, <2>1, <2>4 DEF TypeOK
      <2>6. Only(p)
          BY <2>1, <2>4 DEF Only
      <2>7. PlaceInv(p)' /\ BufInv(p)' /\ Holding(p) /\ ~Waiting(p)'
          BY <2>1, <2>2, <2>4 DEF PlaceInv, BufInv, Holding, Waiting, InCS
      <2>8. FlagInv(p)' /\ CountInv(p)'
          BY <1>a, <2>1, <2>4, <2>7 DEF FlagInv, CountInv
      <2> QED
          BY <2>5, <2>6, <2>7, <2>8, LocalStep
  <1>3. CASE StoreCheck(p)
      <2>1. /\ Goto(p, "store", "check1") /\ Store(p, "check", Counted(p, tmp[p]))
            /\ UNCHANGED locals /\ "check1" \in Place
          BY <1>3 DEF StoreCheck, Place
      <2>2. Counted(p, tmp[p]) \in CheckType
          BY <1>t, CheckValues DEF TypeOK
      <2>3. /\ TypeOK' /\ Only(p) /\ pc[p] = "store" /\ pc'[p] = "check1" /\ mem' = mem
            /\ buf'[p] = Append(buf[p], Counts(p))
            /\ UNCHANGED <<alg, check0, check1, tmp, fails, faults>>
          BY <1>q, <2>1, <2>2, StoreStep DEF Counts
      <2>4. buf[p] = <<>>
          BY <1>a, <2>3 DEF BufInv
      <2>5. buf'[p] = <<Counts(p)>> /\ buf'[p] # <<>>
          BY <2>3, <2>4, Tuples
      <2>6. PlaceInv(p)' /\ BufInv(p)' /\ Holding(p) /\ ~Waiting(p)'
          BY <2>3, <2>5 DEF PlaceInv, BufInv, Counts, Holding, Waiting, InCS
      <2>7. FlagInv(p)' /\ CountInv(p)'
          BY <1>a, <2>3, <2>5, <2>6 DEF FlagInv, CountInv
      <2> QED
          BY <2>3, <2>6, <2>7, LocalStep
  <1>4. CASE ReadCheck1(p)
      <2> DEFINE to == IF alg = "dekker" THEN "pass turn" ELSE "leave"
      <2>1. /\ pc[p] = "check1" /\ pc' = [pc EXCEPT ![p] = to] /\ to \in Place
            /\ check1' = [check1 EXCEPT ![p] = Load(p, "check")]
            /\ UNCHANGED <<mem, buf, alg, check0, tmp, fails, rc, status, result, stopped, kills,
                           faults, life>>
          BY <1>4 DEF ReadCheck1, Goto, Place
      <2>2. buf[p] = <<>> \/ buf[p] = <<Counts(p)>>
          BY <1>a, <2>1 DEF BufInv
      <2>3. check1 \in [Proc -> CheckType] /\ Counted(p, tmp[p]) \in CheckType
          BY <1>t, CheckValues DEF TypeOK
      <2>4. /\ Load(p, "check") \in CheckType
            /\ faults = 0 => Load(p, "check") = Counted(p, tmp[p]) /\ tmp[p] = check0[p]
          <3>1. CASE buf[p] = <<>>
              BY <1>a, <1>t, <2>1, <3>1, LoadEmpty DEF CountInv
          <3>2. CASE buf[p] = <<Counts(p)>>
              <4>1. Load(p, "check") = Counted(p, tmp[p])
                  BY <3>2, LoadOwn DEF Counts
              <4> QED
                  BY <1>a, <2>1, <2>3, <4>1 DEF CountInv
          <3> QED
              BY <2>2, <3>1, <3>2
      <2>5. /\ pc' \in [Proc -> Place] /\ pc'[p] = to /\ (\A q \in Proc \ {p} : pc'[q] = pc[q])
            /\ check1' \in [Proc -> CheckType] /\ check1'[p] = Load(p, "check")
            /\ \A q \in Proc \ {p} : check1'[q] = check1[q]
          BY <1>t, <2>1, <2>3, <2>4
      <2>6. TypeOK'
          BY <1>t, <2>1, <2>5 DEF TypeOK
      <2>7. Only(p)
          BY <2>1, <2>5 DEF Only
      <2>8. PlaceInv(p)' /\ BufInv(p)' /\ Holding(p) /\ ~Waiting(p)'
          BY <1>t, <2>1, <2>2, <2>5 DEF PlaceInv, BufInv, FinalStore, Counts, Holding, Waiting, InCS
      <2>9. FlagInv(p)'
          BY <1>a, <2>1, <2>5, <2>8 DEF FlagInv
      <2>10. CountInv(p)'
          BY <1>a, <2>1, <2>4, <2>5 DEF CountInv
      <2> QED
          BY <2>6, <2>7, <2>8, <2>9, <2>10, LocalStep
  <1>5. CASE PassTurn(p)
      <2>1. /\ Goto(p, "pass turn", "leave") /\ Store(p, "turn", Other(p))
            /\ UNCHANGED locals /\ "leave" \in Place /\ buf[p] = <<>>
          BY <1>5 DEF PassTurn, mfence, Place
      <2>2. /\ TypeOK' /\ Only(p) /\ pc[p] = "pass turn" /\ pc'[p] = "leave" /\ mem' = mem
            /\ buf'[p] = Append(buf[p], Gives(p))
            /\ UNCHANGED <<alg, check0, check1, tmp, fails, faults>>
          BY <1>q, <2>1, StoreStep DEF Gives
      <2>3. alg = "dekker" /\ buf'[p] = <<Gives(p)>>
          BY <1>a, <2>1, <2>2, Tuples DEF PlaceInv
      <2>4. PlaceInv(p)' /\ BufInv(p)' /\ Holding(p) /\ ~Waiting(p)'
          BY <2>2, <2>3 DEF PlaceInv, BufInv, FinalStore, Gives, Holding, Waiting, InCS
      <2>5. FlagInv(p)' /\ CountInv(p)'
          BY <1>a, <2>2, <2>4 DEF FlagInv, CountInv
      <2> QED
          BY <2>2, <2>4, <2>5, LocalStep
  <1>6. CASE Leave(p)
      <2>1. /\ Goto(p, "leave", "verdict") /\ Store(p, Want(p), 0) /\ UNCHANGED locals
            /\ "verdict" \in Place
          BY <1>6 DEF Leave, Place
      <2>2. /\ TypeOK' /\ Only(p) /\ pc[p] = "leave" /\ pc'[p] = "verdict" /\ mem' = mem
            /\ buf'[p] = Append(buf[p], Drops(p))
            /\ UNCHANGED <<alg, check0, check1, tmp, fails, faults>>
          BY <1>q, <2>1, StoreStep DEF Drops
      <2>3. buf[p] = <<>> \/ buf[p] = <<FinalStore(p)>>
          BY <1>a, <2>2 DEF BufInv
      <2>4. buf'[p] = <<Drops(p)>> \/ buf'[p] = <<FinalStore(p), Drops(p)>>
          <3>1. /\ Append(<<>>, Drops(p)) = <<Drops(p)>>
                /\ Append(<<FinalStore(p)>>, Drops(p)) = <<FinalStore(p), Drops(p)>>
              BY Tuples, Zenon
          <3> QED
              BY <2>2, <2>3, <3>1, Zenon
      <2>5. PlaceInv(p)' /\ BufInv(p)' /\ Holding(p) /\ ~Waiting(p)'
          BY <2>2, <2>4 DEF PlaceInv, BufInv, FinalStore, Gives, Counts, Drops, Holding, Waiting,
                            InCS
      <2>6. FlagInv(p)' /\ CountInv(p)'
          BY <1>a, <2>2, <2>5 DEF FlagInv, CountInv
      <2> QED
          BY <2>2, <2>5, <2>6, LocalStep
  <1>7. CASE Verdict(p)
      <2> DEFINE ok == check1[p] = Counted(p, check0[p])
                 to == IF ok THEN "loop" ELSE AfterLoop(p)
      <2>1. /\ pc[p] = "verdict" /\ pc' = [pc EXCEPT ![p] = to] /\ buf[p] = <<>>
            /\ check0' = [check0 EXCEPT ![p] = 0] /\ check1' = [check1 EXCEPT ![p] = 0]
            /\ tmp' = [tmp EXCEPT ![p] = 0]
            /\ UNCHANGED <<mem, buf, alg, status, result, stopped, kills, faults, life>>
          BY <1>7 DEF Verdict, Goto, mfence
      <2>2. /\ rc' = [rc EXCEPT ![p] = IF ok THEN EXIT_SUCCESS ELSE EXIT_FAILURE]
            /\ fails' = [fails EXCEPT ![p] = IF ok THEN fails[p] ELSE fails[p] + 1]
          <3>1. fails \in [Proc -> Nat]
              BY <1>t DEF TypeOK
          <3> QED
              BY <1>7, <3>1 DEF Verdict
      <2>3. to \in Place /\ to \in {"loop", "exited", "kill"}
          BY DEF Place, AfterLoop
      <2>4. /\ check0 \in [Proc -> CheckType] /\ check1 \in [Proc -> CheckType]
            /\ tmp \in [Proc -> CheckType] /\ fails \in [Proc -> Nat]
            /\ rc \in [Proc -> {EXIT_SUCCESS, EXIT_FAILURE}]
          BY <1>t DEF TypeOK
      <2>5. faults = 0 => ok /\ fails[p] = 0
          BY <1>a, <2>1 DEF CountInv
      <2> HIDE DEF ok, to
      <2>6. /\ pc' \in [Proc -> Place] /\ pc'[p] = to /\ (\A q \in Proc \ {p} : pc'[q] = pc[q])
            /\ check0' \in [Proc -> CheckType] /\ (\A q \in Proc \ {p} : check0'[q] = check0[q])
            /\ check1' \in [Proc -> CheckType] /\ (\A q \in Proc \ {p} : check1'[q] = check1[q])
            /\ tmp' \in [Proc -> CheckType] /\ (\A q \in Proc \ {p} : tmp'[q] = tmp[q])
          BY <1>q, <1>t, <2>1, <2>3, <2>4
      <2>7. /\ rc' \in [Proc -> {EXIT_SUCCESS, EXIT_FAILURE}]
            /\ fails' \in [Proc -> Nat] /\ (\A q \in Proc \ {p} : fails'[q] = fails[q])
          BY <2>2, <2>4
      <2>8. faults = 0 => fails'[p] = 0
          BY <2>2, <2>4, <2>5
      <2>9. TypeOK'
          BY <1>t, <2>1, <2>6, <2>7 DEF TypeOK
      <2>10. Only(p)
          BY <2>1, <2>6, <2>7 DEF Only
      <2>11. PlaceInv(p)' /\ BufInv(p)' /\ ~Holding(p)' /\ ~Waiting(p)'
          BY <2>1, <2>3, <2>6 DEF PlaceInv, BufInv, Holding, Waiting, InCS
      <2>12. FlagInv(p)' /\ CountInv(p)'
          BY <2>1, <2>3, <2>6, <2>8, <2>11 DEF FlagInv, CountInv
      <2> QED
          BY <2>9, <2>10, <2>11, <2>12, LocalStep
  <1> QED
      BY <1>1, <1>2, <1>3, <1>4, <1>5, <1>6, <1>7

\* A store of p reaches the memory.
LEMMA FlushSteps ==
    ASSUME IndInv, NEW p \in Proc, Flush(p)
    PROVE  IndInv'
  <1> DEFINE e == Head(buf[p])
             Entry == [loc : Location, val : CheckType]
  <1>p. PICK q \in Proc : q = Other(p)
      BY TwoProcs
  <1>q. /\ q # p /\ Other(q) = p /\ (\A r \in Proc : r = p \/ r = q)
        /\ Want(p) \in Location /\ Want(q) \in Location /\ Want(q) # Want(p)
        /\ Want(p) \notin {"turn", "check"} /\ Want(q) \notin {"turn", "check"}
        /\ "turn" \in Location /\ "check" \in Location
      BY <1>p, TwoProcs DEF Location
  <1>t. /\ TypeOK /\ alg \in {"dekker", "peterson"} /\ mem \in [Location -> CheckType]
        /\ mem["turn"] \in Proc /\ buf \in [Proc -> Seq(Entry)]
      BY DEF IndInv, TypeOK
  <1>a. /\ PlaceInv(p) /\ BufInv(p) /\ FlagInv(p) /\ TurnInv(p) /\ CountInv(p)
        /\ PlaceInv(q) /\ BufInv(q) /\ FlagInv(q) /\ TurnInv(q) /\ CountInv(q)
      BY DEF IndInv, ProcInv
  <1>x. ~(Holding(p) /\ Holding(q))
      BY <1>q DEF IndInv, Exclusive, Proc, Child, Parent
  <1>1. /\ buf[p] # <<>> /\ mem' = [mem EXCEPT ![e.loc] = e.val]
        /\ buf' = [buf EXCEPT ![p] = Tail(buf[p])]
        /\ UNCHANGED <<alg, pc, check0, check1, tmp, fails, rc, status, result, stopped, kills,
                       faults, life>>
      BY DEF Flush
  <1>2. e \in Entry /\ Tail(buf[p]) \in Seq(Entry)
      <2>1. buf[p] \in Seq(Entry) /\ buf[p] # <<>>
          BY <1>1, <1>t
      <2> QED
          BY <2>1, HeadTailProperties, Zenon
  <1>3. /\ e.loc \in Location /\ e.val \in CheckType
      BY <1>2
  <1> HIDE DEF e, Entry
  <1>4. /\ mem' \in [Location -> CheckType] /\ mem'[e.loc] = e.val
        /\ (\A l \in Location \ {e.loc} : mem'[l] = mem[l])
        /\ buf' \in [Proc -> Seq(Entry)] /\ buf'[p] = Tail(buf[p]) /\ buf'[q] = buf[q]
      BY <1>1, <1>2, <1>3, <1>q, <1>t
  \* Which store it is, and what is left.
  <1>5. \/ /\ e = Asks(p) /\ pc[p] = "give" /\ buf'[p] = <<>>
        \/ /\ e = Asks(p) /\ pc[p] = "test" /\ alg = "dekker" /\ buf'[p] = <<>>
        \/ /\ e = Asks(p) /\ pc[p] = "test" /\ alg = "peterson" /\ buf'[p] = <<Gives(p)>>
        \/ /\ e = Gives(p) /\ pc[p] = "test" /\ alg = "peterson" /\ buf'[p] = <<>>
           /\ buf[p] = <<Gives(p)>>
        \/ /\ e = Drops(p) /\ pc[p] \in {"spin", "verdict"} /\ buf'[p] = <<>>
        \/ /\ e = Counts(p) /\ pc[p] \in {"check1", "pass turn"} /\ buf'[p] = <<>>
        \/ /\ e = FinalStore(p) /\ pc[p] = "leave" /\ buf'[p] = <<>>
        \/ /\ e = FinalStore(p) /\ pc[p] = "verdict" /\ buf'[p] = <<Drops(p)>>
      <2>1. \A a, b : /\ buf[p] = <<a>> => e = a /\ buf'[p] = <<>>
                      /\ buf[p] = <<a, b>> => e = a /\ buf'[p] = <<b>>
          <3>1. ASSUME NEW a, buf[p] = <<a>> PROVE e = a /\ buf'[p] = <<>>
              <4>1. Head(<<a>>) = a /\ Tail(<<a>>) = <<>>
                  OBVIOUS
              <4> QED
                  BY <1>4, <3>1, <4>1, Zenon DEF e
          <3>2. ASSUME NEW a, NEW b, buf[p] = <<a, b>> PROVE e = a /\ buf'[p] = <<b>>
              <4>1. Head(<<a, b>>) = a
                  OBVIOUS
              <4>2. Tail(<<a, b>>) = <<b>>
                  OBVIOUS
              <4> QED
                  BY <1>4, <3>2, <4>1, <4>2, Zenon DEF e
          <3> QED
              BY <3>1, <3>2
      <2> QED
          BY <1>1, <1>a, <2>1 DEF BufInv
  <1>6. (Holding(q)' <=> Holding(q)) /\ (Waiting(q)' <=> Waiting(q))
      BY <1>1, <1>4 DEF Holding, Waiting, InCS
  <1>7. Holding(p)' => Holding(p)
      BY <1>1 DEF Holding, InCS
  <1>8. Exclusive'
      BY <1>6, <1>7, <1>q, <1>x DEF Exclusive, Proc, Child, Parent
  <1>9. /\ mem'[Want(q)] = mem[Want(q)]
        /\ \/ e = Asks(p) /\ mem'[Want(p)] = 1
           \/ e = Drops(p)
           \/ e \notin {Asks(p), Drops(p)} /\ mem'[Want(p)] = mem[Want(p)]
        /\ \/ e = Gives(p) /\ mem'["turn"] = q
           \/ mem'["turn"] = mem["turn"]
        /\ \/ e = Counts(p) /\ mem'["check"] = Counted(p, tmp[p])
           \/ mem'["check"] = mem["check"]
      <2>1. e \in {Asks(p), Drops(p), Gives(p), Counts(p)}
          BY <1>5 DEF FinalStore
      <2>2. CASE e \in {Asks(p), Drops(p)}
          BY <1>4, <1>q, <2>2, Stores
      <2>3. CASE e \in {Gives(p), Counts(p)}
          BY <1>4, <1>p, <1>q, <2>3, Stores
      <2> QED
          BY <2>1, <2>2, <2>3
  <1>10. TypeOK'
      <2>1. mem'["turn"] \in Proc
          BY <1>9, <1>t
      <2> QED
          BY <1>1, <1>4, <1>t, <2>1 DEF TypeOK, Entry
  <1>11. alg = "peterson" /\ pc[p] # "test" => e # Gives(p)
      <2>1. Gives(p) \notin {Asks(p), Drops(p), Counts(p)}
          BY <1>q, Stores
      <2> QED
          BY <1>5, <2>1 DEF FinalStore
  <1>12. PlaceInv(p)' /\ PlaceInv(q)'
      BY <1>1, <1>a DEF PlaceInv
  <1>13. BufInv(p)'
      BY <1>1, <1>5 DEF BufInv, Gives, Drops
  <1>14. BufInv(q)'
      BY <1>1, <1>4, <1>a DEF BufInv, FinalStore, Asks, Drops, Gives, Counts
  <1>15. FlagInv(q)'
      BY <1>1, <1>4, <1>6, <1>9, <1>a DEF FlagInv, Gives
  <1>16. FlagInv(p)'
      <2>1. CASE e = Asks(p)
          <3>1. mem'[Want(p)] = 1
              BY <1>4, <2>1, Stores
          <3> QED
              BY <3>1 DEF FlagInv
      <2>2. CASE e = Drops(p)
          <3>1. pc[p] \in {"spin", "verdict"} /\ buf'[p] = <<>>
              <4>1. Drops(p) \notin {Asks(p), Gives(p), Counts(p)}
                  BY <1>q, Stores
              <4> QED
                  BY <1>5, <2>2, <4>1 DEF FinalStore
          <3> QED
              BY <1>1, <3>1 DEF FlagInv, Holding, Waiting, InCS
      <2>3. CASE e \notin {Asks(p), Drops(p)}
          <3>1. mem'[Want(p)] = mem[Want(p)]
              BY <1>9, <2>3
          <3>2. \/ pc[p] = "test" /\ buf[p] = <<Gives(p)>>
                \/ Holding(p)
              BY <1>1, <1>5, <2>3 DEF Holding, InCS
          <3> QED
              BY <1>a, <3>1, <3>2 DEF FlagInv
      <2> QED
          BY <2>1, <2>2, <2>3
  <1>17. TurnInv(p)'
      <2>1. alg = "peterson" /\ Holding(p)' => mem'["turn"] = mem["turn"]
          BY <1>1, <1>9, <1>11 DEF Holding, InCS
      <2> QED
          BY <1>1, <1>6, <1>7, <1>a, <1>p, <2>1 DEF TurnInv
  <1>18. TurnInv(q)'
      <2>1. alg = "peterson" /\ Waiting(p)' => e = Gives(p) /\ pc[p] = "test"
          BY <1>1, <1>5, Tuples DEF Waiting
      <2>2. e = Gives(p) => mem'["turn"] = q
          BY <1>4, <1>p, Stores
      <2> QED
          BY <1>1, <1>q, <2>1, <2>2 DEF TurnInv
  <1>19. CountInv(p)'
      <2>1. pc[p] \notin {"load", "store"}
          BY <1>5
      <2>2. pc[p] = "check1" => mem'["check"] = Counted(p, tmp[p])
          BY <1>4, <1>5, Stores
      <2> QED
          BY <1>1, <1>a, <2>1, <2>2 DEF CountInv
  <1>20. CountInv(q)'
      <2>1. mem'["check"] = mem["check"] \/ Holding(p)
          <3>1. Counts(p) \notin {Asks(p), Drops(p), Gives(p)}
              BY <1>q, Stores
          <3>2. e = Counts(p) => pc[p] \in {"check1", "pass turn", "leave", "verdict"}
              BY <1>5, <3>1
          <3> QED
              BY <1>1, <1>9, <3>2 DEF Holding, InCS
      <2>2. Holding(p) => pc[q] \notin {"load", "store", "check1"}
          BY <1>x DEF Holding, InCS
      <2> QED
          BY <1>1, <1>4, <1>a, <2>1, <2>2 DEF CountInv
  <1>21. ProcInv(p)' /\ ProcInv(q)'
      BY <1>12, <1>13, <1>14, <1>15, <1>16, <1>17, <1>18, <1>19, <1>20 DEF ProcInv
  <1> QED
      BY <1>8, <1>10, <1>21, <1>q DEF IndInv

\* Steps that touch neither memory nor buffers, and the places of the protocols only
\* where no one holds or waits.
LEMMA QuietStep ==
    ASSUME IndInv, TypeOK', UNCHANGED <<alg, buf, tmp, check0, check1, fails>>,
           \A l \in Location \ {"check"} : mem'[l] = mem[l],
           (mem' = mem /\ faults' = faults) \/ faults' # 0,
           \A p \in Proc : pc'[p] = pc[p] \/ (pc[p] \in {"kill", "wait"} /\ pc'[p] \in {"wait", "done"})
    PROVE  IndInv'
  <1>1. ASSUME NEW p \in Proc
        PROVE  /\ Holding(p)' <=> Holding(p)
               /\ Waiting(p)' <=> Waiting(p)
      BY DEF Holding, Waiting, InCS
  <1>2. Exclusive'
      BY <1>1 DEF IndInv, Exclusive, Proc, Child, Parent
  <1>3. ASSUME NEW p \in Proc PROVE ProcInv(p)'
      <2>1. ProcInv(p)
          BY DEF IndInv
      <2>2. /\ mem'[Want(p)] = mem[Want(p)] /\ mem'["turn"] = mem["turn"] /\ Other(p) \in Proc
          BY TwoProcs DEF Location
      <2>3. PlaceInv(p)' /\ FlagInv(p)'
          BY <1>1, <2>1, <2>2 DEF ProcInv, PlaceInv, FlagInv, Gives
      <2>4. BufInv(p)'
          BY <2>1 DEF ProcInv, BufInv, FinalStore, Asks, Drops, Gives, Counts
      <2>5. TurnInv(p)'
          BY <1>1, <2>1, <2>2 DEF ProcInv, TurnInv
      <2>6. CountInv(p)'
          BY <2>1 DEF ProcInv, CountInv
      <2> QED
          BY <2>3, <2>4, <2>5, <2>6 DEF ProcInv
  <1> QED
      BY <1>2, <1>3 DEF IndInv

\* The end of the child, the stop and the fault.
LEMMA OtherSteps ==
    ASSUME IndInv,
           \/ stress_kill_pid \/ ChildDies \/ ChildKilled \/ shim_waitpid \/ Stop \/ Fault
           \/ UNCHANGED vars
    PROVE  IndInv'
  <1>1. /\ TypeOK /\ pc \in [Proc -> Place] /\ Parent \in Proc /\ Child \in Proc
        /\ "wait" \in Place /\ "done" \in Place
      BY DEF IndInv, TypeOK, Parent, Child, Proc, Place
  <1>2. CASE stress_kill_pid
      <2>1. pc[Parent] = "kill" /\ pc' = [pc EXCEPT ![Parent] = "wait"]
          BY <1>2 DEF stress_kill_pid, Goto
      <2>2. /\ pc' \in [Proc -> Place] /\ pc'[Parent] = "wait"
            /\ \A p \in Proc \ {Parent} : pc'[p] = pc[p]
          BY <1>1, <2>1
      <2>3. TypeOK'
          BY <1>1, <1>2, <2>2 DEF stress_kill_pid, TypeOK
      <2> QED
          BY <1>2, <2>1, <2>2, <2>3, QuietStep DEF stress_kill_pid
  <1>3. CASE shim_waitpid
      <2>1. pc[Parent] = "wait" /\ pc' = [pc EXCEPT ![Parent] = "done"]
          BY <1>3 DEF shim_waitpid, Goto
      <2>2. /\ pc' \in [Proc -> Place] /\ pc'[Parent] = "done"
            /\ \A p \in Proc \ {Parent} : pc'[p] = pc[p]
          BY <1>1, <2>1
      <2>3. result' \in {EXIT_SUCCESS, EXIT_FAILURE}
          BY <1>1, <1>3 DEF shim_waitpid, Result, pr_fail_check, TypeOK
      <2>4. TypeOK'
          BY <1>1, <1>3, <2>2, <2>3 DEF shim_waitpid, TypeOK
      <2> QED
          BY <1>3, <2>1, <2>2, <2>4, QuietStep DEF shim_waitpid
  <1>4. CASE ChildDies \/ Stop
      <2>1. TypeOK'
          BY <1>1, <1>4 DEF ChildDies, Stop, TypeOK
      <2> QED
          BY <1>4, <2>1, QuietStep DEF ChildDies, Stop
  <1>5. CASE ChildKilled
      <2>1. kills' \in 0..MaxKills
          BY <1>1, <1>5, FaultsAssumption DEF ChildKilled, TypeOK
      <2>2. TypeOK'
          BY <1>1, <1>5, <2>1 DEF ChildKilled, TypeOK
      <2> QED
          BY <1>5, <2>2, QuietStep DEF ChildKilled
  <1>6. CASE Fault
      <2>1. faults' \in 0..MaxFaults /\ faults' # 0
          BY <1>1, <1>6, FaultsAssumption DEF Fault, TypeOK
      <2>2. PICK v \in CheckType : mem' = [mem EXCEPT !["check"] = v]
          BY <1>6 DEF Fault, CheckType
      <2>3. /\ mem' \in [Location -> CheckType] /\ mem'["turn"] \in Proc
            /\ \A l \in Location \ {"check"} : mem'[l] = mem[l]
          BY <1>1, <2>2 DEF TypeOK, Location
      <2>4. TypeOK'
          BY <1>1, <1>6, <2>1, <2>3 DEF Fault, TypeOK
      <2> QED
          BY <1>6, <2>1, <2>3, <2>4, QuietStep DEF Fault
  <1>7. CASE UNCHANGED vars
      <2>1. TypeOK'
          BY <1>1, <1>7 DEF vars, TypeOK
      <2> QED
          BY <1>7, <2>1, QuietStep DEF vars
  <1> QED
      BY <1>2, <1>3, <1>4, <1>5, <1>6, <1>7

LEMMA InitInv == Init => IndInv
  <1> SUFFICES ASSUME Init PROVE IndInv
      OBVIOUS
  <1>1. 0 \in CheckType /\ 0 \in 0..MaxKills /\ 0 \in 0..MaxFaults /\ 0 \in Nat
      BY CheckValues, FaultsAssumption
  <1>2. /\ pc \in [Proc -> Place] /\ mem \in [Location -> CheckType] /\ mem["turn"] \in Proc
        /\ buf \in [Proc -> Seq([loc : Location, val : CheckType])]
      BY <1>1 DEF Init, Place, Location, Proc
  <1>3. /\ check0 \in [Proc -> CheckType] /\ check1 \in [Proc -> CheckType]
        /\ tmp \in [Proc -> CheckType] /\ fails \in [Proc -> Nat]
        /\ rc \in [Proc -> {EXIT_SUCCESS, EXIT_FAILURE}]
      BY <1>1 DEF Init
  <1>4. TypeOK
      BY <1>1, <1>2, <1>3, AlgorithmsAssumption DEF Init, TypeOK
  <1>5. \A p \in Proc : pc[p] = "loop" /\ buf[p] = <<>> /\ fails[p] = 0
      BY DEF Init
  <1>6. \A p \in Proc : ~Holding(p) /\ ~Waiting(p)
      BY <1>5 DEF Holding, Waiting, InCS
  <1>7. Exclusive
      BY <1>6 DEF Exclusive, Proc, Child, Parent
  <1>8. ASSUME NEW p \in Proc PROVE ProcInv(p)
      BY <1>5, <1>6 DEF ProcInv, PlaceInv, BufInv, FlagInv, TurnInv, CountInv
  <1> QED
      BY <1>4, <1>7, <1>8 DEF IndInv

LEMMA NextInv == IndInv /\ [Next]_vars => IndInv'
  BY EntrySteps, SectionSteps, FlushSteps, OtherSteps DEF Next, Step, Ended

\* Whatever the order in which the stores of the two processes reach the memory, what
\* each has in its buffer fits the place it has come to, and only one of them is in
\* the critical section.
THEOREM Inductive == Spec => []IndInv
  BY InitInv, NextInv, PTL DEF Spec

\* stress_dekker and stress_peterson report no mutex failure on working hardware.
THEOREM NoFalseAlarm == Spec => []NoFalseFailure
  <1>1. IndInv => NoFalseFailure
      BY DEF IndInv, ProcInv, CountInv, NoFalseFailure
  <1> QED
      BY Inductive, <1>1, PTL

\* The entry protocols of stress_dekker and stress_peterson are locks: a process
\* enters only while the other is out, and no one enters any more once the child has
\* been killed inside.
THEOREM EntryIsLock == Spec => ImplementsLock
  <1>1. Init => CS!Init
      BY DEF Init, CS!Init, Owner, InCS, FreeCS, Proc, Parent, Child
  <1>2. IndInv /\ IndInv' /\ [Next]_vars => [CS!Next]_Owner
      <2> SUFFICES ASSUME IndInv, IndInv', [Next]_vars, Owner' # Owner
                   PROVE  CS!Next
          OBVIOUS
      <2>1. ~(InCS(Child) /\ InCS(Parent)) /\ ~(InCS(Child)' /\ InCS(Parent)')
          BY DEF IndInv, Exclusive, Holding
      <2>2. Child \in Proc /\ Parent \in Proc /\ Child = 0 /\ Parent = 1 /\ pc \in [Proc -> Place]
          BY DEF Proc, Child, Parent, IndInv, TypeOK
      <2>3. CASE \E p \in Proc : Step(p)
          <3>1. PICK p \in Proc : Step(p)
              BY <2>3
          <3>2. /\ life' = life /\ (p = Child => life # "dead")
                /\ \E to : pc' = [pc EXCEPT ![p] = to]
              BY <3>1 DEF Step, Loop, Enter, Give, Test, TestTurn, Back, Spin, Again, ReadCheck0,
                          LoadCheck, StoreCheck, ReadCheck1, PassTurn, Leave, Verdict, Goto, locals
          <3>3. \A q \in Proc \ {p} : InCS(q)' <=> InCS(q)
              BY <2>2, <3>2 DEF InCS
          <3>4. \/ Owner = FreeCS /\ Owner' = p
                \/ Owner = p /\ Owner' = FreeCS
              <4>1. CASE p = Child
                  BY <2>1, <2>2, <3>2, <3>3, <4>1 DEF Owner, FreeCS, GoneOwner
              <4>2. CASE p = Parent
                  BY <2>1, <2>2, <3>2, <3>3, <4>2 DEF Owner, FreeCS, GoneOwner
              <4> QED
                  BY <4>1, <4>2 DEF Proc, Child, Parent
          <3> QED
              BY <3>4 DEF CS!Next, CS!Acquire, CS!Release
      <2>4. CASE ChildDies \/ ChildKilled
          <3>1. pc' = pc /\ life # "dead" /\ life' = "dead"
              BY <2>4 DEF ChildDies, ChildKilled
          <3>2. Owner = Child /\ Owner' = GoneOwner
              BY <3>1 DEF Owner, InCS
          <3> QED
              BY <2>2, <3>2 DEF CS!Next, CS!Die
      <2>5. CASE stress_kill_pid \/ shim_waitpid
          <3>1. /\ (life' = "dead" <=> life = "dead")
                /\ pc[Parent] \in {"kill", "wait"}
                /\ pc' = [pc EXCEPT ![Parent] = "wait"] \/ pc' = [pc EXCEPT ![Parent] = "done"]
              BY <2>5 DEF stress_kill_pid, shim_waitpid, Goto
          <3>2. ~InCS(Parent) /\ ~InCS(Parent)' /\ (InCS(Child)' <=> InCS(Child))
              BY <2>2, <3>1 DEF InCS
          <3> QED
              BY <3>1, <3>2 DEF Owner
      <2>6. CASE (\E p \in Proc : Flush(p)) \/ Stop \/ Fault \/ UNCHANGED vars
          BY <2>6 DEF Flush, Stop, Fault, vars, Owner, InCS
      <2> QED
          BY <2>3, <2>4, <2>5, <2>6 DEF Next, Ended
  <1> QED
      BY <1>1, <1>2, Inductive, PTL DEF Spec, ImplementsLock, CS!Spec
=============================================================================
