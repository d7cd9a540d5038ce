---------------------------- MODULE AbstractLock ----------------------------
(***************************************************************************)
(* What one lock promises: a process gets it only when it is free, only the *)
(* process that has it gives it back, and a process that is killed while it *)
(* has the lock keeps it for ever.  The spin lock of core-lock.c and the     *)
(* entry protocols of the dekker and peterson stressors implement this.      *)
(***************************************************************************)
CONSTANTS Proc, Free, Gone
VARIABLE owner

Init == owner = Free

Acquire(p) == owner = Free /\ owner' = p

Release(p) == owner = p /\ owner' = Free

Die(p) == owner = p /\ owner' = Gone

Next == \E p \in Proc : Acquire(p) \/ Release(p) \/ Die(p)

Spec == Init /\ [][Next]_owner
=============================================================================
