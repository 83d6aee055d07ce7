---------------------------- MODULE MacTransmit ----------------------------
(***************************************************************************)
(* The transmit side of the MAC: the packet queue and its segmentation and  *)
(* retries (src/Common/NET/MAC/MAC_PacketManagement.c), the frame queue     *)
(* (MAC_FrameManagement.c) and the transmit state machine of MAC_Task and   *)
(* its requests (MAC.c), all run by the MAC task.  The PHY task answers     *)
(* every data request with a confirm, which may be lost, or come after the  *)
(* MAC stopped waiting for it.                                              *)
(*                                                                          *)
(* A packet's payload is counted in parts, one per frame.  The channel      *)
(* assessment with its back-offs is one phase, "cca", that ends with a      *)
(* transmission or with none.  The packets are those one run submits, each  *)
(* once: they bound the model.                                              *)
(***************************************************************************)
EXTENDS BufferPool, SequencesExt

CONSTANTS Packets,      \* the data requests, by handle
          NoPacket,     \* what a block never used holds
          Priority,     \* Priority[p] in 0 .. 7
          Length,       \* Length[p]: the parts of packet p
          Retries,      \* MAC_ReliabilityRetryCount_Get of the packet's reliability
          MaxSegments,  \* MAX_MAC_FRAME_BUFFERS
          Withdrawable, \* the packets in the queue that may be purged: "none", "waiting", "any"
          FlushLimit,   \* the longest queue that is flushed
          MaxLate       \* bound: the PHY's confirms on their way after a timeout

GiveUp   == 255         \* retryCount of a transmission that was aborted

ASSUME PacketsAssumption ==
  /\ NoPacket \notin Packets
  /\ Priority \in [Packets -> 0 .. 7]
  /\ MaxSegments \in Nat \ {0}
  /\ Length \in [Packets -> 1 .. MaxSegments] /\ Retries \in [Packets -> 0 .. GiveUp - 1]
ASSUME SwitchesAssumption ==
  /\ Withdrawable \in {"none", "waiting", "any"} /\ FlushLimit \in Nat /\ MaxLate \in Nat

VARIABLES queue,       \* MAC_PacketTxQueue
          packet,      \* block |-> the request it holds
          inProgress,  \* the blocks with txInProgress
          pool,        \* MAC_PacketTxBufObj
          tracking,    \* CurrentPacketTracking
          frames,      \* MAC_FrameTxQueue
          phy,         \* phy.eState
          paused,      \* MAC_txPaused
          late,        \* the PHY's confirms still to come after their timeout, and whether
                       \* one that the MAC made up is in its message queue
          outcome,     \* history: what became of each request
          onAir,       \* history: the parts of each packet transmitted
          idsOnAir,    \* history: the packet ids they were transmitted under
          misled       \* history: the packets a late confirm was taken for

sent    == <<onAir, idsOnAir>>
history == <<outcome, sent, misled>>
vars == <<queue, packet, inProgress, pool, tracking, frames, phy, paused, late, history>>

Segments == 0 .. MaxSegments - 1
Frame    == [of : Packets, part : 1 .. MaxSegments, segment : Segments,
             count : Segments, id : 0 .. 3]

Init == /\ queue = <<>>
        /\ packet = [b \in Blocks |-> NoPacket]
        /\ inProgress = {}
        /\ pool = NewPool
        /\ tracking = [bytes |-> 0, segment |-> 0, retry |-> 0,
                       txd |-> [s \in Segments |-> FALSE], id |-> 0, count |-> 0]
        /\ frames = <<>>
        /\ phy = "ready" /\ paused = FALSE /\ late = [own |-> 0, madeUp |-> FALSE]
        /\ outcome = [p \in Packets |-> "unasked"]
        /\ onAir = [p \in Packets |-> {}]
        /\ idsOnAir = [p \in Packets |-> {}]
        /\ misled = {}

\* The task's loop handles one message, then makes and starts a frame: no
\* message is handled between the two.
Receiving == phy = "ready" => frames = <<>>

-----------------------------------------------------------------------------
(* PrioritizeAndInsert                                                      *)

Before(a, b) == Priority[a] > Priority[b]

\* Mutant: a packet being transmitted may be overtaken.
PlaceOvertaking(p) ==
  IF \E i \in DOMAIN queue : Before(p, packet[queue[i]])
  THEN CHOOSE i \in DOMAIN queue :
         /\ Before(p, packet[queue[i]])
         /\ \A j \in 1 .. i - 1 : ~ Before(p, packet[queue[j]])
  ELSE Len(queue) + 1

\* Mutant: first come, first served.
PlaceLast(p) == Len(queue) + 1

\* Where packet p is inserted: before the first packet of lower priority,
\* but never before the head if the head is in progress.
Place(p) ==
  LET passable == {i \in DOMAIN queue :
                     /\ Before(p, packet[queue[i]])
                     /\ i = 1 => queue[1] \notin inProgress}
  IN IF passable = {} THEN Len(queue) + 1
     ELSE CHOOSE i \in passable : \A j \in passable : i <= j

\* A data request.  MAC_Transaction_Create needs a free block first, and every
\* block is free or queued: PrioritizeAndInsert never meets a full queue, and
\* its search for a packet to drop never runs.
DataReq(p) ==
  /\ Receiving
  /\ outcome[p] = "unasked"
  /\ IF CanGet(pool)
     THEN LET b == pool.freeList IN
          /\ pool' = AfterGet(pool)
          /\ packet' = [packet EXCEPT ![b] = p]
          /\ inProgress' = inProgress \ {b}
          /\ queue' = InsertAt(queue, Place(p), b)
          /\ outcome' = [outcome EXCEPT ![p] = "accepted"]
     ELSE /\ outcome' = [outcome EXCEPT ![p] = "refused"]
          /\ UNCHANGED <<pool, packet, inProgress, queue>>
  /\ UNCHANGED <<tracking, frames, phy, paused, late, sent, misled>>

-----------------------------------------------------------------------------
(* MAC_PacketManag_GetNextTxMsg                                             *)

Head1   == packet[queue[1]]
Starting == tracking.bytes = 0

\* Mutant: the count sent is the number of segments, not that of the last one.
BeginCountingFromOne ==
  LET count == Length[Head1] IN
  IF Starting /\ tracking.retry = 0
  THEN [tracking EXCEPT !.id = (@ + 1) % 4, !.count = count,
                        !.txd = [s \in Segments |-> s > count \/ @[s]]]
  ELSE tracking

\* A packet not yet begun gets its id and its number of segments; a retry
\* keeps them.
Begin ==
  LET count == Length[Head1] - 1 IN
  IF Starting /\ tracking.retry = 0
  THEN [tracking EXCEPT !.id = (@ + 1) % 4, !.count = count,
                        !.txd = [s \in Segments |-> s > count \/ @[s]]]
  ELSE tracking

NewFrame(t) == [of |-> Head1, part |-> t.bytes + 1, segment |-> t.segment,
                count |-> t.count, id |-> t.id]

GetNextTxMsg ==
  /\ phy = "ready" /\ ~ paused /\ queue # <<>>
  /\ inProgress' = IF Starting THEN inProgress \union {queue[1]} ELSE inProgress
  /\ IF frames = <<>> /\ tracking.bytes < Length[Head1]
     THEN /\ frames' = <<NewFrame(Begin)>>
          /\ tracking' = [Begin EXCEPT !.bytes = @ + 1]
     ELSE /\ tracking' = Begin
          /\ UNCHANGED frames
  /\ UNCHANGED <<queue, packet, pool, phy, paused, late, history>>

-----------------------------------------------------------------------------
(* MAC_PacketManag_Acknowledge, of the packet at the head                   *)

\* Mutants: a field of the finished packet's tracking is not reset.
ForgetAllButMarks(t) == [t EXCEPT !.bytes = 0, !.segment = 0, !.retry = 0]
ForgetAllButBytes(t) == [t EXCEPT !.segment = 0, !.retry = 0, !.txd = [s \in Segments |-> FALSE]]

Forget(t) == [t EXCEPT !.bytes = 0, !.segment = 0, !.retry = 0,
                       !.txd = [s \in Segments |-> FALSE]]

AllSent(t) == \A s \in 0 .. t.count : t.txd[s]

\* The segment just tried is marked if it went out; when the last try of a
\* segment fails the whole transmission is given up.
Marked(success) ==
  LET t == IF success THEN [tracking EXCEPT !.txd[tracking.segment] = TRUE] ELSE tracking
  IN IF Retries[Head1] <= t.retry /\ ~ t.txd[t.segment]
     THEN [t EXCEPT !.bytes = Length[Head1], !.retry = GiveUp] ELSE t

\* What Acknowledge does: next segment, next try, or the end of the packet.
Acknowledge(success) ==
  IF queue = <<>> THEN UNCHANGED <<queue, pool, tracking, outcome>>
  ELSE LET t == Marked(success) IN
       \/ /\ t.bytes < Length[Head1]
          /\ tracking' = [t EXCEPT !.segment = @ + 1]
          /\ UNCHANGED <<queue, pool, outcome>>
       \/ /\ t.bytes >= Length[Head1] /\ Retries[Head1] > t.retry
          /\ tracking' = [t EXCEPT !.bytes = 0, !.segment = 0, !.retry = @ + 1]
          /\ UNCHANGED <<queue, pool, outcome>>
       \/ /\ t.bytes >= Length[Head1] /\ Retries[Head1] <= t.retry
          /\ outcome' = [outcome EXCEPT ![Head1] = IF AllSent(t) THEN "success" ELSE "failed"]
          /\ tracking' = Forget(t)
          /\ pool' = Put(pool, queue[1])
          /\ queue' = Tail(queue)

\* MAC_FrameManag_PhyDataConfirm: whichever frame is newest was confirmed.
PhyDataConfirm(success) ==
  IF frames = <<>> THEN UNCHANGED <<frames, queue, pool, tracking, outcome>>
  ELSE frames' = Front(frames) /\ Acknowledge(success)

\* The radio transmits the frame the MAC gave it, or does not.
Silent == UNCHANGED sent

Radiate ==
  IF frames = <<>> THEN Silent
  ELSE LET f == Last(frames) IN
       /\ onAir' = [onAir EXCEPT ![f.of] = @ \union {f.part}]
       /\ idsOnAir' = [idsOnAir EXCEPT ![f.of] = @ \union {f.id}]

-----------------------------------------------------------------------------
(* The transmit state machine of MAC_Task                                   *)

\* A frame is there and the PHY is ready.  Without a packet to take the
\* channel from, the frame fails.
StartFrame ==
  /\ phy = "ready" /\ frames # <<>>
  /\ IF ~ paused /\ queue # <<>>
     THEN /\ phy' = "cca"
          /\ UNCHANGED <<frames, queue, pool, tracking, outcome>>
     ELSE PhyDataConfirm(FALSE) /\ UNCHANGED phy
  /\ Silent
  /\ UNCHANGED <<packet, inProgress, paused, late, misled>>

\* The channel is clear and the PHY takes the frame.
Transmit ==
  /\ phy = "cca"
  /\ phy' = "transmitting"
  /\ UNCHANGED <<queue, packet, inProgress, pool, tracking, frames, paused, late, history>>

\* The channel stays busy, or the PHY refuses the request.
NoTransmit ==
  /\ phy = "cca"
  /\ phy' = "ready"
  /\ PhyDataConfirm(FALSE) /\ Silent
  /\ UNCHANGED <<packet, inProgress, paused, late, misled>>

\* Mutant: a failed transmission is confirmed like any other.
ConfirmAnyway ==
  /\ phy = "transmitting"
  /\ phy' = "ready"
  /\ PhyDataConfirm(TRUE) /\ (Radiate \/ Silent)
  /\ UNCHANGED <<packet, inProgress, paused, late, misled>>

\* The PHY confirms the frame: transmitted, or failed.
Confirm ==
  /\ phy = "transmitting"
  /\ phy' = "ready"
  /\ \/ PhyDataConfirm(TRUE) /\ Radiate
     \/ PhyDataConfirm(FALSE) /\ Silent
  /\ UNCHANGED <<packet, inProgress, paused, late, misled>>

\* The PHY is busy or too hot: the frame is offered again.
ConfirmBusy ==
  /\ phy = "transmitting"
  /\ phy' = "ready"
  /\ UNCHANGED <<queue, packet, inProgress, pool, tracking, frames, paused, late, history>>

\* No confirm came: GenerateFailedConfirm makes one up and queues it, once.
CheckPHYTimeout ==
  /\ phy = "transmitting" /\ ~ late.madeUp
  /\ late' = [late EXCEPT !.madeUp = TRUE]
  /\ UNCHANGED <<queue, packet, inProgress, pool, tracking, frames, phy, paused, history>>

\* The MAC no longer waits for the frame at the PHY.  It may be transmitted all
\* the same, and the PHY's confirm of it may be lost or still to come.
Abandon(own, madeUp) ==
  IF phy = "transmitting"
  THEN /\ Radiate \/ Silent
       /\ late' \in [own : {own, own + 1} \intersect 0 .. MaxLate, madeUp : {madeUp}]
  ELSE Silent /\ late' = [own |-> own, madeUp |-> madeUp]

\* The made-up confirm is handled, for the frame that is there by then: the one
\* that timed out, or the next if the PHY's confirm was queued before.
ConfirmTimeout ==
  /\ Receiving /\ late.madeUp
  /\ phy' = "ready"
  /\ PhyDataConfirm(FALSE) /\ Abandon(late.own, FALSE)
  /\ UNCHANGED <<packet, inProgress, paused, misled>>

\* The PHY's confirm after all, of a frame that is gone: transmitted, failed or
\* busy, it is taken for the confirm of the frame that is there by now.
ConfirmLate ==
  /\ Receiving /\ late.own > 0
  /\ phy' = "ready"
  /\ Abandon(late.own - 1, late.madeUp)
  /\ \/ /\ PhyDataConfirm(TRUE)
        /\ misled' = misled \union {f.of : f \in ToSet(frames)}
     \/ PhyDataConfirm(FALSE) /\ UNCHANGED misled
     \/ UNCHANGED <<frames, queue, pool, tracking, outcome, misled>>
  /\ UNCHANGED <<packet, inProgress, paused>>

-----------------------------------------------------------------------------
(* MAC_PauseTx, and the purge and flush requests                            *)

PauseTx ==
  /\ paused' = ~ paused
  /\ UNCHANGED <<queue, packet, inProgress, pool, tracking, frames, phy, late, history>>

MayWithdraw(b) == \/ Withdrawable = "any"
                  \/ Withdrawable = "waiting" /\ b \notin inProgress

\* Mutant: the block goes back to the pool but stays in the queue.
PurgeKeeping(i) ==
  /\ Receiving /\ MayWithdraw(queue[i])
  /\ pool' = Put(pool, queue[i])
  /\ outcome' = [outcome EXCEPT ![packet[queue[i]]] = "withdrawn"]
  /\ UNCHANGED <<queue, packet, inProgress, tracking, frames, phy, paused, late, sent, misled>>

\* MAC_PacketManag_Purge: the packet leaves the queue; its tracking and its
\* frame, if it is in progress, stay.
Purge(i) ==
  /\ Receiving /\ MayWithdraw(queue[i])
  /\ queue' = RemoveAt(queue, i)
  /\ pool' = Put(pool, queue[i])
  /\ outcome' = [outcome EXCEPT ![packet[queue[i]]] = "withdrawn"]
  /\ UNCHANGED <<packet, inProgress, tracking, frames, phy, paused, late, sent, misled>>

\* MAC_PacketManag_Flush: for as many steps as there were packets, remove the
\* block, put it back, and go on to what its first word links to by then.
Flushed ==
  LET walk[i \in 0 .. Len(queue)] ==
        IF i = 0 THEN [queue |-> queue, pool |-> pool, at |-> queue[1]]
        ELSE LET w == walk[i - 1]
                 back == Put(w.pool, w.at)
             IN IF w.at = Null THEN w
                ELSE [queue |-> RemoveFirst(w.queue, w.at), pool |-> back, at |-> back.link[w.at]]
  IN walk[Len(queue)]

Flush ==
  /\ Receiving
  /\ queue # <<>> /\ Len(queue) <= FlushLimit
  /\ \A b \in ToSet(queue) : MayWithdraw(b)
  /\ queue' = Flushed.queue
  /\ pool' = Flushed.pool
  /\ outcome' = [p \in Packets |->
                   IF p \in {packet[b] : b \in ToSet(queue) \ ToSet(queue')}
                   THEN "withdrawn" ELSE outcome[p]]
  /\ UNCHANGED <<packet, inProgress, tracking, frames, phy, paused, late, sent, misled>>

-----------------------------------------------------------------------------
Next == \/ \E p \in Packets : DataReq(p)
        \/ GetNextTxMsg \/ StartFrame \/ Transmit \/ NoTransmit
        \/ Confirm \/ ConfirmBusy \/ CheckPHYTimeout \/ ConfirmTimeout \/ ConfirmLate
        \/ PauseTx \/ Flush
        \/ \E i \in DOMAIN queue : Purge(i)

Spec == Init /\ [][Next]_vars

\* The MAC task keeps running, the PHY does not stay busy for ever, and a
\* pause is followed by a resume.
FairSpec == /\ Spec
            /\ WF_vars(paused /\ PauseTx)
            /\ SF_vars(GetNextTxMsg)
            /\ SF_vars(StartFrame)
            /\ WF_vars(Transmit \/ NoTransmit)
            /\ SF_vars(Confirm \/ ConfirmTimeout)
-----------------------------------------------------------------------------
Outcomes == {"unasked", "accepted", "refused", "success", "failed", "withdrawn"}

\* Every variable keeps to the values the code can give it.
TypeOK == /\ queue \in Seq(Blocks)
          /\ packet \in [Blocks -> Packets \union {NoPacket}]
          /\ inProgress \subseteq Blocks
          /\ pool \in Pools
          /\ tracking \in [bytes : 0 .. MaxSegments, segment : Segments, retry : 0 .. GiveUp,
                           txd : [Segments -> BOOLEAN], id : 0 .. 3, count : Segments]
          /\ frames \in Seq(Frame) /\ Len(frames) <= 1
          /\ phy \in {"ready", "cca", "transmitting"}
          /\ paused \in BOOLEAN /\ late \in [own : 0 .. MaxLate, madeUp : BOOLEAN]
          /\ outcome \in [Packets -> Outcomes] /\ misled \subseteq Packets

\* Every block is either free or queued, once, and the pool's count is right:
\* no sequence of requests, answers, purges and flushes leaks or doubles one.
BlocksConserved ==
  /\ FreeBlocks(pool) = Blocks \ ToSet(queue)
  /\ pool.numFree + Len(queue) = NumBlocks

\* The packets that wait are in order of priority, and so is the head until
\* its transmission begins.
QueueByPriority ==
  \A i, j \in DOMAIN queue :
    i < j /\ queue[i] \notin inProgress => ~ Before(packet[queue[j]], packet[queue[i]])

\* Nothing overtakes the packet being transmitted, and what is queued keeps
\* its order: equals stay first come, first served.
NoOvertaking ==
  [][/\ queue # <<>> /\ queue[1] \in inProgress /\ queue' # <<>>
        => queue'[1] = queue[1] \/ outcome'[Head1] # "accepted"
     /\ \A p, q \in Packets :
          LET at(s, r) == {i \in DOMAIN s : packet'[s[i]] = r} IN
          outcome[p] = "accepted" /\ outcome'[p] = "accepted"
            /\ outcome[q] = "unasked" /\ outcome'[q] = "accepted" /\ Priority[p] = Priority[q]
            => \A i \in at(queue', p), j \in at(queue', q) : i < j]_vars

\* "if each segment made it out at least once successfully, send success"
\* (MAC_PacketManagement.c:454): no other packet is reported a success, unless a
\* confirm that came after its timeout was taken for one of this packet.
SuccessMeansSent ==
  \A p \in Packets \ misled : outcome[p] = "success" => onAir[p] = 1 .. Length[p]

\* A receiver can put the frames together: each says which part it carries and
\* of how many, and every try of a packet is sent under one packet id.
FramesFitTogether ==
  /\ \A i \in DOMAIN frames : LET f == frames[i] IN
       f.part = f.segment + 1 /\ f.count = Length[f.of] - 1
  /\ \A p \in Packets : \A a, b \in idsOnAir[p] : a = b

\* Every accepted packet is answered, or withdrawn.
AcceptedIsAnswered ==
  \A p \in Packets : outcome[p] = "accepted" ~> outcome[p] # "accepted"

\* What a success is worth that rests on a confirm of another frame.
Honest(p) == IF outcome[p] = "success" /\ p \in misled THEN "failed" ELSE outcome[p]

Service == INSTANCE DataService WITH outcome <- [p \in Packets |-> Honest(p)]

\* The MAC implements the data service its users rely on, for every packet no
\* late confirm was taken for.
DataService == Service!ServiceSpec
=============================================================================
