--------------------------- MODULE BufferExchange ---------------------------
(***************************************************************************)
(* What buffer.c and MessageQ.c promise the tasks together: a buffer is     *)
(* free, in the hands of one task, or in one queue; a queue hands buffers   *)
(* on in the order they were posted, each once.                             *)
(***************************************************************************)
EXTENDS Sequences

CONSTANTS Buffers, Holders, Channels

VARIABLES free,   \* the buffers nobody has
          held,   \* holder |-> the buffers in its hands
          mail    \* channel |-> the buffers on their way

vars == <<free, held, mail>>

Init == /\ free = Buffers
        /\ held = [h \in Holders |-> {}]
        /\ mail = [c \in Channels |-> <<>>]

Get(h, b) == /\ b \in free
             /\ free' = free \ {b}
             /\ held' = [held EXCEPT ![h] = @ \union {b}]
             /\ UNCHANGED mail

Release(h, b) == /\ b \in held[h]
                 /\ held' = [held EXCEPT ![h] = @ \ {b}]
                 /\ free' = free \union {b}
                 /\ UNCHANGED mail

Send(h, c, b) == /\ b \in held[h]
                 /\ held' = [held EXCEPT ![h] = @ \ {b}]
                 /\ mail' = [mail EXCEPT ![c] = Append(@, b)]
                 /\ UNCHANGED free

Receive(h, c) == /\ mail[c] # <<>>
                 /\ held' = [held EXCEPT ![h] = @ \union {Head(mail[c])}]
                 /\ mail' = [mail EXCEPT ![c] = Tail(@)]
                 /\ UNCHANGED free

Next == \E h \in Holders :
           \/ \E b \in Buffers : Get(h, b) \/ Release(h, b)
           \/ \E c \in Channels, b \in Buffers : Send(h, c, b)
           \/ \E c \in Channels : Receive(h, c)

Spec == Init /\ [][Next]_vars
=============================================================================
