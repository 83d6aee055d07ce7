---------------------------- MODULE MacReassembly ----------------------------
(***************************************************************************)
(* The receive side of the MAC, src/Common/NET/MAC/MAC_FrameManagement.c:   *)
(* the frames of each packet are collected in an rx buffer until all parts  *)
(* are there; a packet id and address pair remembers what was delivered, so *)
(* that repeats are dropped; timers give up on what stays incomplete.       *)
(*                                                                          *)
(* The MAC task takes a frame from its queue, finds the buffer or the pair  *)
(* it belongs to (one step) and handles it (a second step): between the two *)
(* the timer task, which has the higher priority, may run a callback.  It   *)
(* marks an expired buffer stale and queues it for the MAC task to empty.   *)
(*                                                                          *)
(* The nodes in range send their packets as MacTransmit does: part by part, *)
(* under one packet id, and all over again as often as Repeats allows.  The *)
(* air loses frames.  A payload is counted in parts, one per frame; packet  *)
(* ids are the numbers of the packets modulo IdModulus.                     *)
(***************************************************************************)
EXTENDS Integers, FiniteSets, SequencesExt

CONSTANTS Nodes,       \* the nodes in range
          Nobody,      \* the source address of a buffer or pair never used
          Length,      \* Length[n][k]: the parts of the k-th packet of node n
          Unicast,     \* the nodes that send to this one alone
          IdModulus,   \* 4: a packet id has two bits
          Repeats,     \* how often a packet is sent again
          NumBuffers,  \* NUM_CONCURRENT_RX_BUFFERS
          NumPairs,    \* NUM_NODES_TRACKED
          NumSegments, \* SEGMENT_STORAGE_POOL_SIZE
          MaxSegments, \* MAX_MAC_FRAME_BUFFERS
          QueueSize,   \* bounds the frames waiting for the MAC task
          PacketTimeout, \* ms; 0: a pair is not kept
          Mishaps      \* what may go wrong: see MishapKinds

Counter     == 0 .. 65535  \* uint16_t
Unknown     == 65535       \* totalExpectedBytes before the first part
MishapKinds == {"expiry",  \* a timer expires while its frame is handled
                "noTimer", \* TMR_AddTimer finds no free timer
                "noBuffer"} \* BM_allocStack finds no free buffer

ASSUME NodesAssumption ==
  /\ IsFiniteSet(Nodes) /\ Nobody \notin Nodes /\ Unicast \subseteq Nodes
  /\ \A n \in Nodes : Length[n] \in Seq(1 .. MaxSegments)
ASSUME SizesAssumption ==
  /\ {NumBuffers, NumPairs, NumSegments, MaxSegments} \subseteq Nat \ {0}
  /\ IdModulus \in Nat \ {0, 1} /\ Repeats \in Nat /\ QueueSize \in Nat \ {0}
  /\ PacketTimeout \in Nat
ASSUME MishapsAssumption == Mishaps \subseteq MishapKinds

VARIABLES sender,   \* node |-> the packet it sends, the try, the next part
          inbox,    \* the frames waiting in MAC_msgQueue
          found,    \* the buffer and the pair found for the frame at the head
          pc,       \* what the MAC task does next
          rx        \* the state of MAC_FrameManagement.c, and the deliveries

vars == <<sender, inbox, found, pc, rx>>

Buffers  == 1 .. NumBuffers
Pairs    == 1 .. NumPairs
Segments == 0 .. MaxSegments - 1
None     == 0               \* no buffer, no pair, no packet
Id(packet) == packet % IdModulus

Frame == UNION {[src : {n}, packet : DOMAIN Length[n], segment : Segments,
                 count : Segments, unicast : BOOLEAN] : n \in Nodes}

\* A one-shot timer of a buffer or pair.  "running" counts the timers whose
\* pData points to it, "own" tells if one of them is the one timerId names.
NoTimer  == [running |-> 0, own |-> FALSE]
Start(t) == [running |-> t.running + 1, own |-> TRUE]
Cancel(t) == IF t.own THEN [running |-> t.running - 1, own |-> FALSE] ELSE t
Fired(t) == [running |-> t.running - 1, own |-> t.own /\ t.running > 1]

NewBuffer == [state |-> "unused", src |-> Nobody, packet |-> None, unicast |-> FALSE,
              count |-> 0, parts |-> [s \in Segments |-> None], expected |-> Unknown,
              received |-> 0, held |-> 0, timer |-> NoTimer]
NewPair   == [inUse |-> FALSE, src |-> Nobody, packet |-> None, timer |-> NoTimer]

Init == /\ sender = [n \in Nodes |-> [packet |-> 0, try |-> 0, segment |-> 0]]
        /\ inbox = <<>>
        /\ found = [buffer |-> None, pair |-> None]
        /\ pc = "idle"
        /\ rx = [buffers |-> [b \in Buffers |-> NewBuffer],
                 pairs |-> [p \in Pairs |-> NewPair],
                 free |-> NumSegments, inUse |-> 0, unicast |-> 0,
                 expired |-> <<>>,
                 delivered |-> [n \in Nodes |-> <<>>]]

First(S) == IF S = {} THEN None ELSE CHOOSE x \in S : \A y \in S : x <= y

FindRxBuffer(n) == First({b \in Buffers : /\ rx.buffers[b].state = "inUse"
                                          /\ rx.buffers[b].src = n})
FindPacketIdPair(n) == First({p \in Pairs : rx.pairs[p].inUse /\ rx.pairs[p].src = n})

-----------------------------------------------------------------------------
(* The functions of MAC_FrameManagement.c, as what they make of the state r *)

Decremented(c) == (c - 1) % 65536

\* Mutants: the segment blocks are not put back; the parts count on.
EmptyKeepingBlocks(r, b) ==
  [r EXCEPT !.inUse = Decremented(@),
            !.unicast = IF r.buffers[b].unicast THEN Decremented(@) ELSE @,
            !.buffers[b] = [@ EXCEPT !.state = "unused", !.expected = Unknown, !.received = 0,
                                     !.parts = [s \in Segments |-> None], !.held = 0]]
EmptyKeepingCount(r, b) ==
  [r EXCEPT !.free = @ + r.buffers[b].held,
            !.inUse = Decremented(@),
            !.unicast = IF r.buffers[b].unicast THEN Decremented(@) ELSE @,
            !.buffers[b] = [@ EXCEPT !.state = "unused", !.expected = Unknown,
                                     !.parts = [s \in Segments |-> None], !.held = 0]]

EmptyRxBuffer(r, b) ==
  [r EXCEPT !.free = @ + r.buffers[b].held,
            !.inUse = Decremented(@),
            !.unicast = IF r.buffers[b].unicast THEN Decremented(@) ELSE @,
            !.buffers[b] = [@ EXCEPT !.state = "unused", !.expected = Unknown, !.received = 0,
                                     !.parts = [s \in Segments |-> None], !.held = 0]]

\* Mutant: the buffer is marked, and not queued.
ExpiredUnqueued(r, b) == [r EXCEPT !.buffers[b].state = "stale"]

\* The callback of a buffer's timer, also called when there is no timer.
RxAssemblyExpired(r, b) ==
  [r EXCEPT !.buffers[b].state = "stale", !.expired = Append(@, b)]

AddRxAssemblyTimer(r, b, mishap) ==
  IF mishap = "noTimer" THEN RxAssemblyExpired(r, b)
  ELSE [r EXCEPT !.buffers[b].timer = Start(@)]

DeleteRxTimer(r, b) == [r EXCEPT !.buffers[b].timer = Cancel(@)]

AddPairTimeout(r, p, mishap) ==
  IF PacketTimeout = 0 \/ mishap = "noTimer" THEN [r EXCEPT !.pairs[p].inUse = FALSE]
  ELSE [r EXCEPT !.pairs[p].timer = Start(@)]

\* Mutant: what was delivered is not remembered.
RememberNothing(r, b, mishap) == r

\* The delivered packet's id and source are kept, if a pair is unused.
Remember(r, b, mishap) ==
  LET p == First({q \in Pairs : ~ r.pairs[q].inUse}) IN
  IF p = None THEN r
  ELSE AddPairTimeout([r EXCEPT !.pairs[p].inUse = TRUE,
                                !.pairs[p].packet = r.buffers[b].packet,
                                !.pairs[p].src = r.buffers[b].src], p, mishap)

\* Mutant: the timer of a complete packet goes on.
AssembleKeepingTimer(r, b, mishap) ==
  LET buff  == r.buffers[b]
      whole == [i \in 1 .. buff.count + 1 |-> buff.parts[i - 1]]
  IN EmptyRxBuffer(IF mishap = "noBuffer" THEN r
                   ELSE Remember([r EXCEPT !.delivered[buff.src] = Append(@, whole)], b, mishap),
                   b)

AssemblePacket(r, b, mishap) ==
  LET buff  == r.buffers[b]
      whole == [i \in 1 .. buff.count + 1 |-> buff.parts[i - 1]]
      d     == DeleteRxTimer(r, b)
  IN EmptyRxBuffer(IF mishap = "noBuffer" THEN d
                   ELSE Remember([d EXCEPT !.delivered[buff.src] = Append(@, whole)], b, mishap),
                   b)

\* The part is stored; when as much as expected is there and nothing is
\* missing, the packet is complete.
Accept(r, b, f, mishap) ==
  LET s    == [r EXCEPT !.buffers[b].parts[f.segment] = f.packet,
                        !.buffers[b].received = @ + 1,
                        !.buffers[b].expected = IF f.segment = 0 THEN f.count + 1 ELSE @]
      buff == s.buffers[b]
  IN IF /\ buff.received >= buff.expected
        /\ \A i \in 0 .. buff.count : buff.parts[i] # None
     THEN AssemblePacket(s, b, mishap) ELSE s

\* The first frame of a packet: it needs a buffer and a block per segment.
NewPacket(r, f, mishap) ==
  LET b == First({c \in Buffers : r.buffers[c].state = "unused"}) IN
  IF b = None THEN r
  ELSE LET got   == IF r.free < f.count + 1 THEN r.free ELSE f.count + 1
           taken == [r EXCEPT !.free = @ - got,
                              !.inUse = @ + 1,
                              !.unicast = IF f.unicast THEN @ + 1 ELSE @,
                              !.buffers[b] = [@ EXCEPT !.state = "inUse", !.src = f.src,
                                                       !.packet = f.packet, !.count = f.count,
                                                       !.unicast = f.unicast, !.held = got]]
       IN IF got < f.count + 1 THEN EmptyRxBuffer(taken, b)
          ELSE Accept(AddRxAssemblyTimer(taken, b, mishap), b, f, mishap)

\* A frame of the packet in buffer b.
SamePacket(r, b, f, mishap) ==
  LET t    == AddRxAssemblyTimer(DeleteRxTimer(r, b), b, mishap)
      buff == t.buffers[b]
  IN IF buff.parts[f.segment] # None \/ buff.unicast # f.unicast \/ buff.count # f.count
     THEN t ELSE Accept(t, b, f, mishap)

\* The source moved on to another packet id.
DropPair(r, p) == [r EXCEPT !.pairs[p].timer = Cancel(@), !.pairs[p].inUse = FALSE]

\* IsDuplicate and the rest of DataIndHandler, for a frame whose source has
\* buffer b, or else pair p, or neither.
DataInd(r, b, p, f, mishap) ==
  CASE b # None /\ Id(r.buffers[b].packet) = Id(f.packet) -> SamePacket(r, b, f, mishap)
    [] b # None /\ Id(r.buffers[b].packet) # Id(f.packet) ->
         NewPacket(EmptyRxBuffer(DeleteRxTimer(r, b), b), f, mishap)
    [] b = None /\ p # None /\ Id(r.pairs[p].packet) = Id(f.packet) ->
         AddPairTimeout([r EXCEPT !.pairs[p].timer = Cancel(@)], p, mishap)
    [] b = None /\ p # None /\ Id(r.pairs[p].packet) # Id(f.packet) ->
         NewPacket(DropPair(r, p), f, mishap)
    [] OTHER -> NewPacket(r, f, mishap)

-----------------------------------------------------------------------------
(* The MAC task                                                             *)

Find ==
  /\ pc = "idle" /\ inbox # <<>>
  /\ LET b == FindRxBuffer(Head(inbox).src) IN
     found' = [buffer |-> b,
               pair |-> IF b = None THEN FindPacketIdPair(Head(inbox).src) ELSE None]
  /\ pc' = "found"
  /\ UNCHANGED <<sender, inbox, rx>>

Handle ==
  /\ pc = "found"
  /\ \E mishap \in (Mishaps \ {"expiry"}) \union {"none"} :
       rx' = DataInd(rx, found.buffer, found.pair, Head(inbox), mishap)
  /\ inbox' = Tail(inbox)
  /\ found' = [buffer |-> None, pair |-> None]
  /\ pc' = "timeouts"
  /\ UNCHANGED sender

\* After each message, and every 500 ms, the stale buffers are emptied.
CheckTimeouts ==
  /\ pc = "timeouts" \/ (pc = "idle" /\ rx.expired # <<>>)
  /\ rx' = [FoldLeft(EmptyRxBuffer, rx, rx.expired) EXCEPT !.expired = <<>>]
  /\ pc' = "idle"
  /\ UNCHANGED <<sender, inbox, found>>

-----------------------------------------------------------------------------
(* The timer task                                                           *)

MayExpire == pc = "found" => "expiry" \in Mishaps

RxTimerExpires(b) ==
  /\ MayExpire /\ rx.buffers[b].timer.running > 0
  /\ rx' = RxAssemblyExpired([rx EXCEPT !.buffers[b].timer = Fired(@)], b)
  /\ UNCHANGED <<sender, inbox, found, pc>>

\* A pair is remembered for as long as its packet may be repeated.
Repeated(p) ==
  LET n == rx.pairs[p].src IN
  /\ rx.pairs[p].inUse
  /\ sender[n].packet = rx.pairs[p].packet
  /\ sender[n].try < Repeats \/ sender[n].segment < Length[n][sender[n].packet]

PairTimerExpires(p) ==
  /\ MayExpire /\ rx.pairs[p].timer.running > 0
  /\ ~ Repeated(p) /\ \A i \in DOMAIN inbox : inbox[i].src # rx.pairs[p].src
  /\ rx' = [rx EXCEPT !.pairs[p].timer = Fired(@), !.pairs[p].inUse = FALSE]
  /\ UNCHANGED <<sender, inbox, found, pc>>

-----------------------------------------------------------------------------
(* The nodes and the air                                                    *)

Sending(n) == sender[n].packet > 0 /\ sender[n].segment < Length[n][sender[n].packet]

\* A node sends the next part of its packet, which is heard or lost.
SendFrame(n) ==
  /\ Sending(n)
  /\ sender' = [sender EXCEPT ![n].segment = @ + 1]
  /\ \/ /\ Len(inbox) < QueueSize
        /\ inbox' = Append(inbox, [src |-> n, packet |-> sender[n].packet,
                                   segment |-> sender[n].segment,
                                   count |-> Length[n][sender[n].packet] - 1,
                                   unicast |-> n \in Unicast])
     \/ UNCHANGED inbox
  /\ UNCHANGED <<found, pc, rx>>

SendAgain(n) ==
  /\ sender[n].packet > 0 /\ ~ Sending(n) /\ sender[n].try < Repeats
  /\ sender' = [sender EXCEPT ![n].segment = 0, ![n].try = @ + 1]
  /\ UNCHANGED <<inbox, found, pc, rx>>

\* What is still remembered of node n when it sends packet k is not as old
\* as the last packet with the same id: the timeouts are short enough.
Timely(n, k) ==
  /\ \A b \in Buffers : rx.buffers[b].state # "unused" /\ rx.buffers[b].src = n
                          => rx.buffers[b].packet > k - IdModulus
  /\ \A p \in Pairs : rx.pairs[p].inUse /\ rx.pairs[p].src = n
                          => rx.pairs[p].packet > k - IdModulus
  /\ \A i \in DOMAIN inbox : inbox[i].src = n => inbox[i].packet > k - IdModulus

\* A node begins its next packet; the one before may have been given up.
BeginPacket(n) ==
  /\ sender[n].packet < Len(Length[n])
  /\ Timely(n, sender[n].packet + 1)
  /\ sender' = [sender EXCEPT ![n] = [packet |-> @.packet + 1, try |-> 0, segment |-> 0]]
  /\ UNCHANGED <<inbox, found, pc, rx>>

Next == \/ Find \/ Handle \/ CheckTimeouts
        \/ \E b \in Buffers : RxTimerExpires(b)
        \/ \E p \in Pairs : PairTimerExpires(p)
        \/ \E n \in Nodes : SendFrame(n) \/ SendAgain(n) \/ BeginPacket(n)

Spec == Init /\ [][Next]_vars

\* The MAC task is scheduled and every timer that is left alone expires.
FairSpec == /\ Spec
            /\ WF_vars(Find) /\ WF_vars(Handle) /\ WF_vars(CheckTimeouts)
            /\ \A b \in Buffers : SF_vars(RxTimerExpires(b))
-----------------------------------------------------------------------------
Timer  == [running : Nat, own : BOOLEAN]
Packet == (UNION {DOMAIN Length[n] : n \in Nodes}) \union {None}
Buffer == [state : {"unused", "inUse", "stale"}, src : Nodes \union {Nobody}, packet : Packet,
           unicast : BOOLEAN, count : Segments, parts : [Segments -> Packet],
           expected : (1 .. MaxSegments) \union {Unknown}, received : 0 .. MaxSegments,
           held : 0 .. MaxSegments, timer : Timer]
Pair   == [inUse : BOOLEAN, src : Nodes \union {Nobody}, packet : Packet, timer : Timer]

\* Every variable keeps to the values the code can give it.
TypeOK == /\ sender \in [Nodes -> [packet : Packet, try : 0 .. Repeats, segment : 0 .. MaxSegments]]
          /\ inbox \in Seq(Frame) /\ Len(inbox) <= QueueSize
          /\ found \in [buffer : Buffers \union {None}, pair : Pairs \union {None}]
          /\ pc \in {"idle", "found", "timeouts"}
          /\ rx.buffers \in [Buffers -> Buffer] /\ rx.pairs \in [Pairs -> Pair]
          /\ rx.free \in 0 .. NumSegments
          /\ rx.inUse \in Counter /\ rx.unicast \in Counter
          /\ rx.expired \in Seq(Buffers)

UsedBuffers == {b \in Buffers : rx.buffers[b].state # "unused"}

\* "Total number of buffers in use", "Total number of Unicast in use"
\* (MAC_FrameManagement.c:123-124): the transmit side waits for as long as the
\* second is not zero.
CountsAreBuffers ==
  /\ rx.inUse = Cardinality(UsedBuffers)
  /\ rx.unicast = Cardinality({b \in UsedBuffers : rx.buffers[b].unicast})

\* No segment block is lost: each is in the pool or held by a buffer in use,
\* and a buffer collecting a packet has one for every part.
SegmentsConserved ==
  /\ rx.free + SumFunction([b \in Buffers |-> rx.buffers[b].held]) = NumSegments
  /\ \A b \in Buffers : rx.buffers[b].held =
       IF b \in UsedBuffers THEN rx.buffers[b].count + 1 ELSE 0

\* Every buffer in use will be given back: it has its timer running, or is
\* queued, once, to be emptied.  No timer runs for a buffer given back.
Reclaimable ==
  \A b \in Buffers :
    LET buff == rx.buffers[b] IN
    /\ buff.timer = IF buff.state = "inUse" THEN Start(NoTimer) ELSE NoTimer
    /\ Cardinality({i \in DOMAIN rx.expired : rx.expired[i] = b})
         = IF buff.state = "stale" THEN 1 ELSE 0

\* A node's newest packet is known in one place: one buffer collects it, or
\* one pair remembers it, so that IsDuplicate finds all there is to know.
OnePlacePerNode ==
  \A n \in Nodes :
    Cardinality({b \in Buffers : rx.buffers[b].state = "inUse" /\ rx.buffers[b].src = n})
      + Cardinality({p \in Pairs : rx.pairs[p].inUse /\ rx.pairs[p].src = n}) <= 1

\* Every buffer taken is given back, whatever is lost on the air.
BuffersReturn ==
  \A b \in Buffers : rx.buffers[b].state # "unused" ~> rx.buffers[b].state = "unused"

Link == INSTANCE LossyLink WITH
  sent <- [n \in Nodes |-> sender[n].packet],
  delivered <- rx.delivered

\* The receiver implements the link the layer above it relies on.
LossyLink == Link!LinkSpec
=============================================================================
