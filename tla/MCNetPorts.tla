----------------------------- MODULE MCNetPorts -----------------------------
EXTENDS NetPorts
\* Three instances that ask for the same single port.
StartSame == [p \in Proc |-> 1]
One == [p \in Proc |-> 1]
=============================================================================
