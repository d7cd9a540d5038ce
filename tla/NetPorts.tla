------------------------------ MODULE NetPorts ------------------------------
(***************************************************************************)
(* Port reservation of core-net.c: network stressors share a bitmap of       *)
(* reserved ports under one spin lock.  The scan gives the lock up from time *)
(* to time, stress_net_release_ports does not take it at all, and the        *)
(* bitmap is written by plain loads and stores of its bytes (all ports of     *)
(* the model are in one byte).                                               *)
(***************************************************************************)
EXTENDS Lock

CONSTANTS
    Proc,        \* network stressors
    Start,       \* Start[p]: start_port of p's request
    Quantity,    \* Quantity[p]: end_port - start_port + 1
    EndPort,     \* bound: stands for 65536
    Bound,       \* ports other programs may have bound
    YieldAfter,  \* yield_count limit, 16 in the code
    Releases     \* do stressors release their ports (not all of them do)

Port == 0..(EndPort - 1)

VARIABLES
    allocated,   \* g_shared->net_port_map.allocated
    pc,          \* where each process is
    loc,         \* its locals: i, j, yield_count, port, bind_ports
    reg,         \* the byte it has loaded
    held,        \* ports it has been given
    stopped      \* the continue flag has been cleared

vars == <<lockVars, allocated, pc, loc, reg, held, stopped>>

PortLock == 1
Single(p) == Quantity[p] = 1

Init ==
    /\ magic = {Big, PortLock} /\ flag = {}
    /\ allocated = {}
    /\ pc = [p \in Proc |-> "call"]
    /\ loc \in [Proc -> {[i |-> 0, j |-> 0, yield |-> 0, port |-> -1, bind |-> b] :
                         b \in SUBSET Bound}]
    /\ reg = [p \in Proc |-> {}]
    /\ held = [p \in Proc |-> {}]
    /\ stopped = FALSE

\* A SIGALRM or SIGINT; every stressor is told.
Stop ==
    /\ ~stopped /\ stopped' = TRUE
    /\ UNCHANGED <<lockVars, allocated, pc, loc, reg, held>>

Goto(p, from, to) == pc[p] = from /\ pc' = [pc EXCEPT ![p] = to]

\* The first acquire, and those after a yield.
Take(p) ==
    \/ /\ Goto(p, "call", "test")
       /\ AcquireLock(PortLock)
       /\ loc' = [loc EXCEPT ![p].i = Start[p]]
       /\ UNCHANGED <<allocated, reg, held, stopped>>
    \/ /\ Goto(p, "retake", "test")
       /\ AcquireLock(PortLock)
       /\ UNCHANGED <<allocated, loc, reg, held, stopped>>

\* stress_lock_acquire_relax fails: return -1.
TakeFails(p) ==
    /\ Goto(p, "call", "use") \/ Goto(p, "retake", "use")
    /\ AcquireFails(PortLock, stopped)
    /\ UNCHANGED <<allocated, loc, reg, held, stopped>>

IsFree(p, byte) == loc[p].i \notin byte \cup loc[p].bind

\* i++, yield_count++ and the test for a yield.
Advance(p, j, port) ==
    LET yield == loc[p].yield + 1 > YieldAfter
    IN  /\ loc' = [loc EXCEPT ![p].i = @ + 1, ![p].j = j, ![p].port = port,
                              ![p].yield = IF yield THEN 0 ELSE @ + 1]
        /\ pc' = [pc EXCEPT ![p] = IF yield THEN "yield" ELSE "test"]

\* One round of the loop for a single port up to the store.
TestSingle(p) ==
    /\ pc[p] = "test" /\ Single(p) /\ loc[p].i < EndPort
    /\ IF IsFree(p, allocated)
       THEN /\ reg' = [reg EXCEPT ![p] = allocated]
            /\ pc' = [pc EXCEPT ![p] = "store"]
            /\ UNCHANGED loc
       ELSE Advance(p, 0, -1) /\ UNCHANGED reg
    /\ UNCHANGED <<lockVars, allocated, held, stopped>>

\* STRESS_SETBIT
StoreSingle(p) ==
    /\ Goto(p, "store", "first release")
    /\ allocated' = reg[p] \cup {loc[p].i}
    /\ loc' = [loc EXCEPT ![p].port = loc[p].i]
    /\ UNCHANGED <<lockVars, reg, held, stopped>>

\* The release inside the loop, before the break.
FirstRelease(p) ==
    /\ Goto(p, "first release", "release")
    /\ ReleaseLock(PortLock)
    /\ UNCHANGED <<allocated, loc, reg, held, stopped>>

\* One round of the loop for a range.
TestRange(p) ==
    /\ pc[p] = "test" /\ ~Single(p) /\ loc[p].i < EndPort
    /\ IF ~IsFree(p, allocated)
       THEN Advance(p, 0, -1)
       ELSE IF loc[p].j + 1 = Quantity[p]
       THEN /\ loc' = [loc EXCEPT ![p].port = loc[p].i + 1 - Quantity[p]]
            /\ pc' = [pc EXCEPT ![p] = "store all"]
       ELSE Advance(p, loc[p].j + 1, loc[p].port)
    /\ reg' = [reg EXCEPT ![p] = allocated]
    /\ UNCHANGED <<lockVars, allocated, held, stopped>>

Given(p) == loc[p].port .. (loc[p].port + Quantity[p] - 1)

StoreRange(p) ==
    /\ Goto(p, "store all", "release")
    /\ allocated' = reg[p] \cup Given(p)
    /\ UNCHANGED <<lockVars, loc, reg, held, stopped>>

\* The loop runs out of ports.
NotFound(p) ==
    /\ Goto(p, "test", "release") /\ loc[p].i >= EndPort
    /\ UNCHANGED <<lockVars, allocated, loc, reg, held, stopped>>

Yield(p) ==
    /\ Goto(p, "yield", "retake")
    /\ ReleaseLock(PortLock)
    /\ UNCHANGED <<allocated, loc, reg, held, stopped>>

\* The release after the loop, and the return.
Return(p) ==
    /\ Goto(p, "release", "use")
    /\ ReleaseLock(PortLock)
    /\ held' = [held EXCEPT ![p] = IF loc[p].port = -1 THEN {} ELSE Given(p)]
    /\ UNCHANGED <<allocated, loc, reg, stopped>>

\* stress_net_release_ports: load and store, with no lock.
ReleaseLoad(p) ==
    /\ Releases /\ held[p] # {} /\ Goto(p, "use", "clear")
    /\ reg' = [reg EXCEPT ![p] = allocated]
    /\ held' = [held EXCEPT ![p] = {}]
    /\ UNCHANGED <<lockVars, allocated, loc, stopped>>

ReleaseStore(p) ==
    /\ Goto(p, "clear", "done")
    /\ allocated' = reg[p] \ Given(p)
    /\ UNCHANGED <<lockVars, loc, reg, held, stopped>>

Next ==
    \/ Stop
    \/ \E p \in Proc :
        \/ Take(p) \/ TakeFails(p) \/ TestSingle(p) \/ StoreSingle(p) \/ FirstRelease(p) \/ TestRange(p)
        \/ StoreRange(p) \/ NotFound(p) \/ Yield(p) \/ Return(p) \/ ReleaseLoad(p)
        \/ ReleaseStore(p)

Spec == Init /\ [][Next]_vars
-----------------------------------------------------------------------------
\* "attempt to reserve ports, returns nearest available contiguous ports that
\* are available": no port is given to two stressors at the same time.
PortsExclusive == \A p, q \in Proc : p # q => held[p] \cap held[q] = {}
=============================================================================
