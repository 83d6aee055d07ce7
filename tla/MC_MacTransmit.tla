--------------------------- MODULE MC_MacTransmit ---------------------------
\* Three data requests of different urgency, size and reliability.
EXTENDS MacTransmit

CONSTANTS p1, p2, p3

McPriority  == [p \in Packets |-> IF p = p1 THEN 1 ELSE 3]
McLength    == [p \in Packets |-> IF p = p2 THEN 2 ELSE 1]
McRetries   == [p \in Packets |-> IF p = p2 THEN 1 ELSE 0]
=============================================================================
