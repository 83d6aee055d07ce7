-------------------------- MODULE MC_MacReassembly --------------------------
\* Two nodes in range: one sends three packets, so that the third has the id
\* of the first, and the other one packet of two parts beside them.
EXTENDS MacReassembly

CONSTANTS n1, n2

BothNodes == {n1, n2}
OnlyN1    == {n1}
Lengths   == [n \in Nodes |-> IF n = n1 THEN <<2, 1, 2>> ELSE <<2>>]
=============================================================================
