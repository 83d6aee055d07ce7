------------------------------ MODULE LossyLink ------------------------------
(***************************************************************************)
(* What the receiving MAC promises the layer above it: of the packets each  *)
(* node sends some are delivered, whole, at most once and in the order they *)
(* were sent; the others are lost.                                          *)
(***************************************************************************)
EXTENDS Integers, Sequences

CONSTANTS Nodes,    \* the nodes in range
          Length    \* Length[n][k]: the parts of the k-th packet of node n

VARIABLES sent,       \* node |-> the number of its newest packet
          delivered   \* node |-> the packets delivered, each as the packets
                      \* its parts are of

vars == <<sent, delivered>>

Whole(n, k) == [part \in 1 .. Length[n][k] |-> k]

LinkInit == /\ sent = [n \in Nodes |-> 0]
            /\ delivered = [n \in Nodes |-> <<>>]

Begin(n) == /\ sent[n] < Len(Length[n])
            /\ sent' = [sent EXCEPT ![n] = @ + 1]
            /\ UNCHANGED delivered

\* A packet newer than what was delivered arrives.
Deliver(n, k) ==
  /\ k <= sent[n]
  /\ \A i \in DOMAIN delivered[n] : delivered[n][i][1] < k
  /\ delivered' = [delivered EXCEPT ![n] = Append(@, Whole(n, k))]
  /\ UNCHANGED sent

LinkNext == \E n \in Nodes : Begin(n) \/ \E k \in DOMAIN Length[n] : Deliver(n, k)

LinkSpec == LinkInit /\ [][LinkNext]_vars
=============================================================================
