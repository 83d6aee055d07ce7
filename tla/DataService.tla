---------------------------- MODULE DataService ----------------------------
(***************************************************************************)
(* What the MAC promises whoever sends data through it: a request is        *)
(* refused at once or accepted, an accepted one is answered at most once,   *)
(* and the answer is success only if every part of it was transmitted.      *)
(***************************************************************************)
EXTENDS Integers

CONSTANTS Packets,   \* data requests
          Length     \* Length[p]: the parts packet p is sent in

VARIABLES outcome,   \* what became of each request
          onAir      \* the parts of each packet the radio has transmitted

vars == <<outcome, onAir>>

Parts(p) == 1 .. Length[p]

ServiceInit == /\ outcome = [p \in Packets |-> "unasked"]
               /\ onAir = [p \in Packets |-> {}]

Request(p) == /\ outcome[p] = "unasked"
              /\ outcome' \in {[outcome EXCEPT ![p] = o] : o \in {"accepted", "refused"}}
              /\ UNCHANGED onAir

\* The radio transmits a part of an accepted packet, and the packet may be
\* answered in the same step.
Transmit(p, part) ==
  /\ outcome[p] = "accepted"
  /\ onAir' = [onAir EXCEPT ![p] = @ \union {part}]
  /\ outcome' \in {outcome} \union {[outcome EXCEPT ![p] = o] : o \in {"success", "failed"}}
  /\ outcome'[p] = "success" => onAir'[p] = Parts(p)

Answer(p, answer) ==
  /\ outcome[p] = "accepted"
  /\ answer = "success" => onAir[p] = Parts(p)
  /\ outcome' = [outcome EXCEPT ![p] = answer]
  /\ UNCHANGED onAir

\* An accepted request is withdrawn: it gets no answer.
Withdraw(P) ==
  /\ \A p \in P : outcome[p] = "accepted"
  /\ outcome' = [p \in Packets |-> IF p \in P THEN "withdrawn" ELSE outcome[p]]
  /\ UNCHANGED onAir

ServiceNext == \/ \E p \in Packets :
                    \/ Request(p)
                    \/ \E part \in Parts(p) : Transmit(p, part)
                    \/ \E answer \in {"success", "failed"} : Answer(p, answer)
               \/ \E P \in SUBSET Packets : Withdraw(P)

ServiceSpec == ServiceInit /\ [][ServiceNext]_vars
=============================================================================
