---------------------------- MODULE BufferManager ----------------------------
(***************************************************************************)
(* The buffer manager, src/Common/buffer.c, on the message queues of the    *)
(* FreeRTOS port (OS_AL/MessageQ.c), with its most entangled user: the      *)
(* debug log (DBG_log of DBG_SerialDebug.c), which takes its own mutex,     *)
(* allocates a buffer and posts it, and which the buffer manager calls      *)
(* while it holds bufMutex_.                                                *)
(*                                                                          *)
(* A message queue is a FreeRTOS queue and a semaphore: a post enqueues and *)
(* then gives, a pend takes and then dequeues.  Pools are message queues.   *)
(* Tasks are preempted anywhere; a step below is one access to what tasks   *)
(* share, with what only its own task can see and the release of a mutex.   *)
(* Neither mutex is recursive.                                              *)
(***************************************************************************)
EXTENDS Integers, Sequences, FiniteSets, Functions

CONSTANTS Workers,     \* the tasks that use buffers
          Printer,     \* the task of DBG_TxTask
          NumPools,    \* pools of application buffers, in ascending size
          PoolBuffers, \* pool |-> its buffers by address; pool 0 is for debug
          InboxRoom,   \* NumMessages of a task's message queue
          LogRoom,     \* SERIAL_DBG_NUM_MSGQ_ITEMS
          None         \* neither a buffer nor a task

DebugPool == 0
Pools     == 0 .. NumPools
Inbox     == NumPools + 1      \* the message queue between the workers
LogQueue  == NumPools + 2      \* mQueueHandle_ of the debug task
Queues    == 0 .. LogQueue
Buffers   == UNION {Range(PoolBuffers[p]) : p \in Pools}
Tasks     == Workers \union {Printer}

\* A task is in its own code ("own") or in a call of DBG_log ("log"), which
\* has a buffer of its own to handle.
Threads == Tasks \X {"own", "log"}

ASSUME PoolsAssumption ==
  /\ NumPools \in Nat \ {0}
  /\ DOMAIN PoolBuffers = Pools
  /\ \A p \in Pools : PoolBuffers[p] \in Seq(Buffers) /\ IsInjective(PoolBuffers[p])
  /\ \A p, q \in Pools : p # q => Range(PoolBuffers[p]) \cap Range(PoolBuffers[q]) = {}
ASSUME RoomAssumption == InboxRoom \in Nat /\ LogRoom \in Nat
ASSUME WorkersAssumption == IsFiniteSet(Workers)
ASSUME NoneAssumption ==
  None \notin Buffers /\ None \notin Tasks /\ Printer \notin Workers

VARIABLES queue,     \* queue |-> its buffers: MSGQ_QueueObj
          sem,       \* queue |-> the count of its semaphore: MSGQ_SemObj
          isFree,    \* buffer |-> flag.isFree
          inQueue,   \* buffer |-> flag.inQueue
          currAlloc, \* pool |-> BM_bufferStats.pool[].currAlloc
          bufMutex,  \* the task that holds bufMutex_
          logMutex,  \* the task that holds logPrintf_mutex_
          pc,        \* thread |-> where it is
          at,        \* thread |-> the queue it posts to or pends on
          hand,      \* thread |-> the buffer it has
          loaded,    \* thread |-> currAlloc as BM_Free read it
          back       \* task |-> where its own code goes on after DBG_log

messages == <<queue, sem, isFree, inQueue>>
mutexes  == <<bufMutex, logMutex>>
vars     == <<messages, currAlloc, mutexes, pc, at, hand, loaded, back>>

\* "stopped" is the end of EVL_FirmwareError and of a NULL dereference.
Stages == {"rest", "pend", "dequeue", "post", "give", "lockFree", "load",
           "store", "unlockBuf", "report", "lockLog", "stopped"}

TaskOf(th) == th[1]
IsLog(th)  == th[2] = "log"
Own(t)     == <<t, "own">>
Log(t)     == <<t, "log">>

Room(q)   == CASE q = Inbox -> InboxRoom [] q = LogQueue -> LogRoom
               [] OTHER -> Len(PoolBuffers[q])
PoolOf(b) == CHOOSE p \in Pools : b \in Range(PoolBuffers[p])

\* A task that has nothing to do: the printer waits for a message.
Resting(t) == IF t = Printer THEN "pend" ELSE "rest"

GoTo(th, stage) == pc' = [pc EXCEPT ![th] = stage]

\* ... to work on queue q next.
GoOn(th, stage, q) == GoTo(th, stage) /\ at' = [at EXCEPT ![th] = q]

\* The call of BM_Alloc, BM_Free or a post in thread th is over.  In DBG_log
\* its mutex is then released and it returns to its caller.
Finish(th) ==
  LET t == TaskOf(th)
  IN /\ at' = [at EXCEPT ![th] = LogQueue]
     /\ IF IsLog(th)
        THEN /\ pc' = [pc EXCEPT ![th] = "rest", ![Own(t)] = back[t]]
             /\ back' = [back EXCEPT ![t] = "rest"]
             /\ logMutex' = None
        ELSE GoTo(th, Resting(t)) /\ UNCHANGED <<back, logMutex>>

\* DBG_log is called by thread th, whose task then goes on at stage next.  A
\* call from within DBG_log waits for the mutex its own task holds.
CallLog(th, next) ==
  IF IsLog(th)
  THEN GoTo(th, "lockLog") /\ UNCHANGED back
  ELSE /\ pc' = [pc EXCEPT ![th] = "report", ![Log(TaskOf(th))] = "lockLog"]
       /\ back' = [back EXCEPT ![TaskOf(th)] = next]

-----------------------------------------------------------------------------
\* After BM_init: every buffer was posted to its pool, where it is not marked
\* as free.
Init ==
  /\ queue = [q \in Queues |-> IF q \in Pools THEN PoolBuffers[q] ELSE <<>>]
  /\ sem = [q \in Queues |-> Len(queue[q])]
  /\ isFree = [b \in Buffers |-> FALSE]
  /\ inQueue = [b \in Buffers |-> 1]
  /\ currAlloc = [p \in Pools |-> 0]
  /\ bufMutex = None /\ logMutex = None
  /\ pc = [th \in Threads |-> IF IsLog(th) THEN "rest" ELSE Resting(TaskOf(th))]
  /\ at = [th \in Threads |-> LogQueue]
  /\ hand = [th \in Threads |-> None]
  /\ loaded = [th \in Threads |-> 0]
  /\ back = [t \in Tasks |-> "rest"]

-----------------------------------------------------------------------------
\* Mutant: the mutex does not exclude.
Entered == TRUE

Excluded == bufMutex = None

\* Mutant: a look at the queue instead of the semaphore.
Filled(q) == Len(queue[q]) > 0

Available(q) == sem[q] > 0

(* What a worker may call when it is in no call.                            *)

\* BM_Alloc, of a size that pool p is the first to offer.
Alloc(w, p) ==
  /\ pc[Own(w)] = "rest" /\ hand[Own(w)] = None
  /\ GoOn(Own(w), "pend", p)
  /\ UNCHANGED <<messages, currAlloc, mutexes, hand, loaded, back>>

\* OS_MSGQ_Pend on a task's own message queue.
Pend(w) ==
  /\ pc[Own(w)] = "rest" /\ hand[Own(w)] = None
  /\ Available(Inbox)
  /\ sem' = [sem EXCEPT ![Inbox] = @ - 1]
  /\ GoOn(Own(w), "dequeue", Inbox)
  /\ UNCHANGED <<queue, isFree, inQueue, currAlloc, mutexes, hand, loaded, back>>

\* OS_MSGQ_Post to another task's message queue.
Send(w) ==
  /\ pc[Own(w)] = "rest" /\ hand[Own(w)] # None
  /\ GoOn(Own(w), "post", Inbox)
  /\ UNCHANGED <<messages, currAlloc, mutexes, hand, loaded, back>>

\* BM_free.
Free(w) ==
  /\ pc[Own(w)] = "rest" /\ hand[Own(w)] # None
  /\ GoTo(Own(w), "lockFree")
  /\ UNCHANGED <<messages, currAlloc, mutexes, at, hand, loaded, back>>

\* DBG_printf.
DebugPrint(w) ==
  /\ pc[Own(w)] = "rest"
  /\ CallLog(Own(w), "rest")
  /\ UNCHANGED <<messages, currAlloc, mutexes, at, hand, loaded>>

\* BM_showAlloc( true ) prints while it holds bufMutex_.
ShowAlloc(w) ==
  /\ pc[Own(w)] = "rest" /\ Excluded
  /\ bufMutex' = w
  /\ CallLog(Own(w), "unlockBuf")
  /\ UNCHANGED <<messages, currAlloc, logMutex, at, hand, loaded>>

-----------------------------------------------------------------------------
(* bufAlloc and OS_MSGQ_Pend.                                               *)

\* The semaphore.  bufAlloc does not wait for it: it tries the next larger
\* pool of the type, and gives up after the last.
Take(th) ==
  LET q == at[th]
  IN /\ pc[th] = "pend"
     /\ \/ /\ Available(q)
           /\ sem' = [sem EXCEPT ![q] = @ - 1]
           /\ GoTo(th, "dequeue")
           /\ UNCHANGED <<at, back, logMutex>>
        \/ /\ ~ Available(q) /\ q \in Pools
           /\ IF q \in 1 .. NumPools - 1
              THEN GoOn(th, "pend", q + 1) /\ UNCHANGED <<back, logMutex>>
              ELSE Finish(th)
           /\ UNCHANGED sem
     /\ UNCHANGED <<queue, isFree, inQueue, currAlloc, bufMutex, hand, loaded>>

\* The queue, and for an allocation the marks of the new buffer and, with
\* interrupts disabled, the statistics; DBG_log then posts the buffer.  What
\* OS_QUEUE_Dequeue returns for an empty queue is dereferenced.
Dequeue(th) ==
  LET q == at[th]
      b == Head(queue[q])
      next == CASE IsLog(th) -> "post"
                [] q = LogQueue -> "lockFree"
                [] OTHER -> "rest"
  IN /\ pc[th] = "dequeue"
     /\ IF queue[q] = <<>>
        THEN GoOn(th, "stopped", q) /\ UNCHANGED <<queue, isFree, inQueue, hand, currAlloc>>
        ELSE /\ queue' = [queue EXCEPT ![q] = Tail(@)]
             /\ hand' = [hand EXCEPT ![th] = b]
             /\ GoOn(th, next, LogQueue)
             /\ IF q \in Pools
                THEN /\ inQueue' = [inQueue EXCEPT ![b] = 0]
                     /\ isFree' = [isFree EXCEPT ![b] = FALSE]
                     /\ currAlloc' = [currAlloc EXCEPT ![q] = @ + 1]
                ELSE /\ inQueue' = [inQueue EXCEPT ![b] = IF @ = 0 THEN 0 ELSE @ - 1]
                     /\ UNCHANGED <<isFree, currAlloc>>
     /\ UNCHANGED <<sem, mutexes, loaded, back>>

-----------------------------------------------------------------------------
(* OS_MSGQ_Post, and for DBG_log OS_MSGQ_Post_RetStatus.                    *)

\* Mutant: the message goes to the front, xQueueSendToFront.
InFront(s, b) == <<b>> \o s

Enqueued(s, b) == Append(s, b)

\* A full queue is a firmware error, except to DBG_log, which frees the
\* buffer: it is counted as queued all the same.  A buffer marked as free or
\* queued, which OS_MSGQ_Post_RetStatus returns to it at once, never gets
\* here: see OnePlace.
Enqueue(th) ==
  LET q == at[th]
      b == hand[th]
  IN /\ pc[th] = "post"
     /\ IF Len(queue[q]) < Room(q)
        THEN /\ inQueue' = [inQueue EXCEPT ![b] = @ + 1]
             /\ queue' = [queue EXCEPT ![q] = Enqueued(@, b)]
             /\ hand' = [hand EXCEPT ![th] = None]
             /\ GoTo(th, "give")
        ELSE /\ inQueue' = [inQueue EXCEPT ![b] = @ + 1]
             /\ GoTo(th, IF q = LogQueue THEN "lockFree" ELSE "stopped")
             /\ UNCHANGED <<queue, hand>>
     /\ UNCHANGED <<sem, isFree, currAlloc, mutexes, at, loaded, back>>

Give(th) ==
  LET q == at[th]
  IN /\ pc[th] = "give"
     /\ sem' = [sem EXCEPT ![q] = @ + 1]
     /\ IF q \in Pools
        THEN GoTo(th, "load") /\ UNCHANGED <<at, back, logMutex>>
        ELSE Finish(th)
     /\ UNCHANGED <<queue, isFree, inQueue, currAlloc, bufMutex, hand, loaded>>

-----------------------------------------------------------------------------
(* BM_Free.                                                                 *)

\* The mutex, and the checks of the buffer's marks.
LockFree(th) ==
  LET b == hand[th]
  IN /\ pc[th] = "lockFree" /\ Excluded
     /\ bufMutex' = TaskOf(th)
     /\ at' = [at EXCEPT ![th] = PoolOf(b)]
     /\ IF isFree[b]
        THEN /\ CallLog(th, "unlockBuf")
             /\ hand' = [hand EXCEPT ![th] = None]
             /\ UNCHANGED isFree
        ELSE /\ isFree' = [isFree EXCEPT ![b] = TRUE]
             /\ IF inQueue[b] # 0 THEN CallLog(th, "post")
                ELSE GoTo(th, "post") /\ UNCHANGED back
             /\ UNCHANGED hand
     /\ UNCHANGED <<queue, sem, inQueue, currAlloc, logMutex, loaded>>

\* Mutant: the count is decremented even if it is zero.
Always(n) == TRUE

Positive(n) == n # 0

\* currAlloc is read, decremented and written back under the mutex, which
\* bufAlloc does not take.  If it is zero that is printed.
Load(th) ==
  LET n == currAlloc[at[th]]
  IN /\ pc[th] = "load"
     /\ IF Positive(n)
        THEN GoTo(th, "store") /\ loaded' = [loaded EXCEPT ![th] = n] /\ UNCHANGED back
        ELSE CallLog(th, "unlockBuf") /\ UNCHANGED loaded
     /\ UNCHANGED <<messages, currAlloc, mutexes, at, hand>>

Store(th) ==
  /\ pc[th] = "store"
  /\ currAlloc' = [currAlloc EXCEPT ![at[th]] = loaded[th] - 1]
  /\ loaded' = [loaded EXCEPT ![th] = 0]
  /\ bufMutex' = None
  /\ Finish(th)
  /\ UNCHANGED <<messages, hand>>

UnlockBuf(th) ==
  /\ pc[th] = "unlockBuf"
  /\ bufMutex' = None
  /\ Finish(th)
  /\ UNCHANGED <<messages, currAlloc, hand, loaded>>

-----------------------------------------------------------------------------
(* DBG_log.                                                                 *)

\* Mutant: no check, as the code for MQX has it.
RoomUnchecked == TRUE

RoomForTwo == LogRoom - Len(queue[LogQueue]) >= 2

\* Mutant: the mutex is kept when the line is lost.
Forgotten(t) == /\ pc' = [pc EXCEPT ![Log(t)] = "rest", ![Own(t)] = back[t]]
                /\ back' = [back EXCEPT ![t] = "rest"]
                /\ logMutex' = t /\ UNCHANGED at

Lost(t) == Finish(Log(t))

\* The mutex; with fewer than two places in the queue it is released again
\* and the line is lost.
LockLog(t) ==
  /\ pc[Log(t)] = "lockLog" /\ logMutex = None
  /\ IF RoomForTwo
     THEN logMutex' = t /\ GoOn(Log(t), "pend", DebugPool) /\ UNCHANGED back
     ELSE Lost(t)
  /\ UNCHANGED <<messages, currAlloc, bufMutex, hand, loaded>>

-----------------------------------------------------------------------------
Step(th) == Take(th) \/ Dequeue(th) \/ Enqueue(th) \/ Give(th)
            \/ Load(th) \/ Store(th) \/ UnlockBuf(th)

Call(w) == \/ \E p \in 1 .. NumPools : Alloc(w, p)
           \/ Pend(w) \/ Send(w) \/ Free(w) \/ DebugPrint(w) \/ ShowAlloc(w)

Next == \/ \E w \in Workers : Call(w)
        \/ \E th \in Threads : Step(th) \/ LockFree(th)
        \/ \E t \in Tasks : LockLog(t)

Spec == Init /\ [][Next]_vars

\* FreeRTOS runs a ready task in the end and gives a mutex to a waiter when
\* its holder, which inherits the waiter's priority, releases it.
Fairness ==
  \A t \in Tasks : /\ WF_vars(\E th \in {Own(t), Log(t)} : Step(th))
                   /\ SF_vars(LockLog(t) \/ \E th \in {Own(t), Log(t)} : LockFree(th))

FairSpec == Spec /\ Fairness
-----------------------------------------------------------------------------
\* Every variable keeps its type: no count falls below zero, no buffer is
\* counted in two queues, nobody posts to a full queue or pends on an empty
\* one.
TypeOK ==
  /\ queue \in [Queues -> Seq(Buffers)]
  /\ sem \in [Queues -> Nat]
  /\ isFree \in [Buffers -> BOOLEAN] /\ inQueue \in [Buffers -> 0 .. 1]
  /\ currAlloc \in [Pools -> Nat]
  /\ bufMutex \in Tasks \union {None} /\ logMutex \in Tasks \union {None}
  /\ pc \in [Threads -> Stages \ {"stopped"}]
  /\ at \in [Threads -> Queues]
  /\ hand \in [Threads -> Buffers \union {None}]
  /\ loaded \in [Threads -> Nat]
  /\ back \in [Tasks -> {"rest", "post", "unlockBuf"}]

\* Every buffer is in exactly one place, a position of one queue or the hands
\* of one task, and its marks say which.  So DBG_log never posts a buffer that
\* OS_MSGQ_Post_RetStatus would refuse, and lose.
OnePlace ==
  \A b \in Buffers :
     LET inQueues == UNION {{q} \X {i \in DOMAIN queue[q] : queue[q][i] = b} : q \in Queues}
         inHands  == {th \in Threads : hand[th] = b}
     IN /\ Cardinality(inQueues) + Cardinality(inHands) = 1
        /\ inQueue[b] = Cardinality(inQueues)
        /\ isFree[b] => \A th \in inHands :
                          pc[th] = "post" /\ at[th] \in Pools /\ bufMutex = TaskOf(th)

\* A queue's semaphore never runs ahead of the queue: whoever has taken it
\* finds a buffer, whatever posts and pends are half done.
SemaphoreBacked ==
  \A q \in Queues :
     sem[q] + Cardinality({th \in Threads : pc[th] = "dequeue" /\ at[th] = q})
       = Len(queue[q]) - Cardinality({th \in Threads : pc[th] = "give" /\ at[th] = q})

\* currAlloc errs on one side only: it is never above the number of buffers
\* taken from the pool and not yet wholly given back.
NeverOvercounted ==
  \A p \in Pools :
     currAlloc[p] <= Cardinality({b \in Buffers : b \in Range(PoolBuffers[p]) /\ b \notin Range(queue[p])})
                     + Cardinality({th \in Threads : pc[th] \in {"give", "load", "store"} /\ at[th] = p})

\* BM_Free logs while it holds bufMutex_, so DBG_log must not need bufMutex_
\* while it holds its own: the task that holds logPrintf_mutex_ is in
\* DBG_log and does not wait for a mutex.
LogNeedsNoLock ==
  logMutex # None => pc[Log(logMutex)] \in {"pend", "dequeue", "post", "give"}

\* Every call of BM_Alloc, BM_Free, DBG_log and OS_MSGQ_Post returns.
CallsReturn == \A w \in Workers : pc[Own(w)] # "rest" ~> pc[Own(w)] = "rest"

\* Together they hand buffers on as an exchange of messages does.
Exchange == INSTANCE BufferExchange WITH
  Holders  <- Threads,
  Channels <- {Inbox, LogQueue},
  free     <- UNION {Range(queue[p]) : p \in Pools},
  held     <- [th \in Threads |-> {hand[th]} \ {None}],
  mail     <- [c \in {Inbox, LogQueue} |-> queue[c]]

BufferExchange == Exchange!Spec
=============================================================================
