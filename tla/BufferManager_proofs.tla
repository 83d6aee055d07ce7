------------------------ MODULE BufferManager_proofs ------------------------
(***************************************************************************)
(* No message queue runs behind its semaphore, and DBG_log needs no other   *)
(* mutex while it holds its own, for any number of tasks, pools and buffers; *)
(* in the second part, the tasks implement the exchange of buffers; and in   *)
(* the third, the statistics and the marks are right, and the program ends   *)
(* in an error only where a task's message queue is full.                    *)
(***************************************************************************)
EXTENDS BufferManager, FiniteSetTheorems, TLAPS

-----------------------------------------------------------------------------
(* Threads.                                                                 *)

\* Every thread is the own code or the log call of one task.
LEMMA ThreadFacts ==
  /\ \A t \in Tasks : /\ Own(t) \in Threads /\ Log(t) \in Threads
                      /\ TaskOf(Own(t)) = t /\ TaskOf(Log(t)) = t
                      /\ ~ IsLog(Own(t)) /\ IsLog(Log(t))
  /\ \A t, u \in Tasks : /\ Own(t) # Log(u)
                         /\ Own(t) = Own(u) => t = u
                         /\ Log(t) = Log(u) => t = u
  /\ \A th \in Threads : /\ TaskOf(th) \in Tasks
                         /\ th = IF IsLog(th) THEN Log(TaskOf(th)) ELSE Own(TaskOf(th))
BY DEF Threads, Own, Log, TaskOf, IsLog

LEMMA ThreadsFinite == IsFiniteSet(Threads)
<1>1. IsFiniteSet(Tasks)
  BY WorkersAssumption, FS_AddElement DEF Tasks
<1>2. IsFiniteSet({"own"} \union {"log"})
  <2>1. IsFiniteSet({"own"})
    BY FS_Singleton
  <2>. QED
    BY <2>1, FS_AddElement
<1>3. {"own", "log"} = {"own"} \union {"log"}
  OBVIOUS
<1>. QED
  BY <1>1, <1>2, <1>3, FS_Product DEF Threads

-----------------------------------------------------------------------------
(* The invariant.                                                           *)

\* The types the argument needs.
Shape ==
  /\ queue \in [Queues -> Seq(Buffers)] /\ sem \in [Queues -> Nat]
  /\ pc \in [Threads -> Stages] /\ at \in [Threads -> Queues]
  /\ hand \in [Threads -> Buffers \union {None}]
  /\ back \in [Tasks -> {"rest", "post", "unlockBuf"}]
  /\ logMutex \in Tasks \union {None}

Logging == {"pend", "dequeue", "post", "give"}

\* Thread th posts its buffer next, or will when its call of DBG_log is over.
WillPost(th) == \/ pc[th] = "post"
                \/ ~ IsLog(th) /\ pc[th] = "report" /\ back[TaskOf(th)] = "post"

\* Where task t is in its own code and in DBG_log, which it is in when its own
\* code is at "report" and inside of whose mutex it only allocates and posts.
Calling(t) ==
  /\ pc[Own(t)] = "report" <=> pc[Log(t)] # "rest"
  /\ pc[Log(t)] \in Logging \union {"rest", "lockLog"}
  /\ logMutex = t <=> pc[Log(t)] \in Logging
  /\ pc[Log(t)] \in {"pend", "dequeue"} => at[Log(t)] = DebugPool
  /\ pc[Log(t)] \in {"post", "give"} => at[Log(t)] = LogQueue
  /\ WillPost(Own(t)) => at[Own(t)] # LogQueue
  /\ pc[Log(t)] \in {"pend", "dequeue", "post"} => Len(queue[LogQueue]) < LogRoom

Holding == \A th \in Threads : WillPost(th) \/ pc[th] = "lockFree" => hand[th] \in Buffers

Inv == Shape /\ (\A t \in Tasks : Calling(t)) /\ Holding /\ SemaphoreBacked

-----------------------------------------------------------------------------
(* The balance of semaphore and queue.                                      *)

Takers(q) == {th \in Threads : pc[th] = "dequeue" /\ at[th] = q}
Givers(q) == {th \in Threads : pc[th] = "give" /\ at[th] = q}

LEMMA TakersGivers ==
  /\ \A q \in Queues : IsFiniteSet(Takers(q)) /\ IsFiniteSet(Givers(q))
  /\ \A q \in Queues : Cardinality(Takers(q)) \in Nat /\ Cardinality(Givers(q)) \in Nat
  /\ SemaphoreBacked <=>
       \A q \in Queues : sem[q] + Cardinality(Takers(q)) = Len(queue[q]) - Cardinality(Givers(q))
<1>1. \A q \in Queues : Takers(q) \subseteq Threads /\ Givers(q) \subseteq Threads
  BY DEF Takers, Givers
<1>2. \A q \in Queues : IsFiniteSet(Takers(q)) /\ IsFiniteSet(Givers(q))
  BY <1>1, ThreadsFinite, FS_Subset
<1>. QED
  BY <1>2, FS_CardinalityType DEF SemaphoreBacked, Takers, Givers

\* A step of one thread th, after which it is at a stage that does not count,
\* that moves queue q's length and semaphore along with what th was about to do.
LEMMA Balanced ==
  ASSUME Shape, SemaphoreBacked, NEW th \in Threads, NEW q \in Queues,
         sem' \in [Queues -> Nat], queue' \in [Queues -> Seq(Buffers)],
         \A r \in Queues : r # q => sem'[r] = sem[r] /\ Len(queue'[r]) = Len(queue[r]),
         \A r \in Queues : r # q => Takers(r)' = Takers(r) /\ Givers(r)' = Givers(r),
         \/ /\ sem'[q] = sem[q] /\ Len(queue'[q]) = Len(queue[q])
            /\ Takers(q)' = Takers(q) /\ Givers(q)' = Givers(q)
         \/ /\ sem'[q] = sem[q] - 1 /\ Len(queue'[q]) = Len(queue[q])
            /\ th \notin Takers(q) /\ Takers(q)' = Takers(q) \union {th} /\ Givers(q)' = Givers(q)
         \/ /\ sem'[q] = sem[q] /\ Len(queue'[q]) = Len(queue[q]) - 1
            /\ th \in Takers(q) /\ Takers(q)' = Takers(q) \ {th} /\ Givers(q)' = Givers(q)
         \/ /\ sem'[q] = sem[q] /\ Len(queue'[q]) = Len(queue[q]) + 1
            /\ th \notin Givers(q) /\ Givers(q)' = Givers(q) \union {th} /\ Takers(q)' = Takers(q)
         \/ /\ sem'[q] = sem[q] + 1 /\ Len(queue'[q]) = Len(queue[q])
            /\ th \in Givers(q) /\ Givers(q)' = Givers(q) \ {th} /\ Takers(q)' = Takers(q)
  PROVE  SemaphoreBacked'
<1>1. /\ Cardinality(Takers(q) \union {th}) =
           IF th \in Takers(q) THEN Cardinality(Takers(q)) ELSE Cardinality(Takers(q)) + 1
      /\ Cardinality(Givers(q) \union {th}) =
           IF th \in Givers(q) THEN Cardinality(Givers(q)) ELSE Cardinality(Givers(q)) + 1
  BY TakersGivers, FS_AddElement
<1>2. /\ Cardinality(Takers(q) \ {th}) =
           IF th \in Takers(q) THEN Cardinality(Takers(q)) - 1 ELSE Cardinality(Takers(q))
      /\ Cardinality(Givers(q) \ {th}) =
           IF th \in Givers(q) THEN Cardinality(Givers(q)) - 1 ELSE Cardinality(Givers(q))
  BY TakersGivers, FS_RemoveElement
<1>3. \A r \in Queues : Len(queue[r]) \in Nat /\ Len(queue'[r]) \in Nat /\ sem[r] \in Nat /\ sem'[r] \in Nat
  BY DEF Shape
<1>4. \A r \in Queues : sem'[r] + Cardinality(Takers(r)') = Len(queue'[r]) - Cardinality(Givers(r)')
  <2>1. \A r \in Queues : r # q =>
          sem'[r] + Cardinality(Takers(r)') = Len(queue'[r]) - Cardinality(Givers(r)')
    BY TakersGivers
  <2>2. sem'[q] + Cardinality(Takers(q)') = Len(queue'[q]) - Cardinality(Givers(q)')
    <3>. DEFINE s == sem[q]  t == Cardinality(Takers(q))
                l == Len(queue[q])  g == Cardinality(Givers(q))
                s1 == sem'[q]  t1 == Cardinality(Takers(q)')
                l1 == Len(queue'[q])  g1 == Cardinality(Givers(q)')
    <3>1. s + t = l - g /\ t \in Nat /\ g \in Nat
      BY TakersGivers
    <3>2. t1 \in Nat /\ g1 \in Nat
      <4>1. IsFiniteSet(Takers(q)') /\ IsFiniteSet(Givers(q)')
        BY TakersGivers, FS_AddElement, FS_RemoveElement
      <4>. QED
        BY <4>1, FS_CardinalityType
    <3>3. s \in Nat /\ l \in Nat /\ s1 \in Nat /\ l1 \in Nat
      BY <1>3
    <3>4. \/ s1 = s - 1 /\ t1 = t + 1 /\ l1 = l /\ g1 = g
          \/ s1 = s /\ t1 = t - 1 /\ l1 = l - 1 /\ g1 = g
          \/ s1 = s /\ t1 = t /\ l1 = l + 1 /\ g1 = g + 1
          \/ s1 = s + 1 /\ t1 = t /\ l1 = l /\ g1 = g - 1
          \/ s1 = s /\ t1 = t /\ l1 = l /\ g1 = g
      BY <1>1, <1>2
    <3>5. s1 + t1 = l1 - g1
      <4>. HIDE DEF s, t, l, g, s1, t1, l1, g1
      <4>. QED
        BY ONLY <3>1, <3>2, <3>3, <3>4
    <3>. QED
      BY <3>5
  <2>. QED
    BY <2>1, <2>2
<1>. QED
  BY <1>4 DEF SemaphoreBacked, Takers, Givers

\* What a step leaves alone of a thread's part in the balance.
Stable(x) == pc[x] \in {"dequeue", "give"} \/ pc'[x] \in {"dequeue", "give"}
               => pc'[x] = pc[x] /\ at'[x] = at[x]

LEMMA Undisturbed ==
  ASSUME Shape, SemaphoreBacked, UNCHANGED <<sem, queue>>, \A x \in Threads : Stable(x)
  PROVE  SemaphoreBacked'
<1>1. \A q \in Queues : Takers(q)' = Takers(q) /\ Givers(q)' = Givers(q)
  BY DEF Stable, Takers, Givers
<1>. QED
  BY <1>1 DEF SemaphoreBacked, Takers, Givers

\* The four steps that change the balance's terms.
LEMMA Moved ==
  ASSUME Shape, SemaphoreBacked, NEW th \in Threads, NEW q \in Queues, Shape',
         \A x \in Threads : x # th => Stable(x),
         \/ /\ sem[q] > 0 /\ sem' = [sem EXCEPT ![q] = @ - 1] /\ queue' = queue
            /\ pc[th] \notin {"dequeue", "give"} /\ pc'[th] = "dequeue" /\ at'[th] = q
         \/ /\ sem' = sem /\ queue[q] # <<>> /\ queue' = [queue EXCEPT ![q] = Tail(@)]
            /\ pc[th] = "dequeue" /\ at[th] = q /\ pc'[th] \notin {"dequeue", "give"}
         \/ /\ sem' = sem /\ \E b \in Buffers : queue' = [queue EXCEPT ![q] = Append(@, b)]
            /\ pc[th] \notin {"dequeue", "give"} /\ pc'[th] = "give" /\ at'[th] = q
         \/ /\ sem' = [sem EXCEPT ![q] = @ + 1] /\ queue' = queue
            /\ pc[th] = "give" /\ at[th] = q /\ pc'[th] \notin {"dequeue", "give"}
  PROVE  SemaphoreBacked'
<1>1. \A r \in Queues : r # q => /\ sem'[r] = sem[r] /\ Len(queue'[r]) = Len(queue[r])
                                 /\ Takers(r)' = Takers(r) /\ Givers(r)' = Givers(r)
  <2>. SUFFICES ASSUME NEW r \in Queues, r # q
                PROVE  /\ sem'[r] = sem[r] /\ Len(queue'[r]) = Len(queue[r])
                       /\ Takers(r)' = Takers(r) /\ Givers(r)' = Givers(r)
    OBVIOUS
  <2>1. sem'[r] = sem[r] /\ queue'[r] = queue[r]
    BY DEF Shape
  <2>2. /\ th \notin Takers(r) /\ th \notin Givers(r)
        /\ th \notin Takers(r)' /\ th \notin Givers(r)'
    BY DEF Takers, Givers
  <2>3. \A x \in Threads : x # th => /\ x \in Takers(r) <=> x \in Takers(r)'
                                     /\ x \in Givers(r) <=> x \in Givers(r)'
    BY DEF Stable, Takers, Givers
  <2>4. Takers(r) \subseteq Threads /\ Givers(r) \subseteq Threads
        /\ Takers(r)' \subseteq Threads /\ Givers(r)' \subseteq Threads
    BY DEF Takers, Givers
  <2>5. \A x : /\ x \in Takers(r)' <=> x \in Takers(r)
               /\ x \in Givers(r)' <=> x \in Givers(r)
    BY ONLY <2>2, <2>3, <2>4
  <2>6. Takers(r)' = Takers(r) /\ Givers(r)' = Givers(r)
    BY ONLY <2>5
  <2>. QED
    BY <2>1, <2>6
<1>2. sem' \in [Queues -> Nat] /\ queue' \in [Queues -> Seq(Buffers)]
  BY DEF Shape
<1>3. queue[q] \in Seq(Buffers) /\ sem[q] \in Nat
  BY DEF Shape
<1>4. CASE /\ sem[q] > 0 /\ sem' = [sem EXCEPT ![q] = @ - 1] /\ queue' = queue
           /\ pc[th] \notin {"dequeue", "give"} /\ pc'[th] = "dequeue" /\ at'[th] = q
  <2>1. th \notin Takers(q) /\ Takers(q)' = Takers(q) \union {th} /\ Givers(q)' = Givers(q)
    BY <1>4 DEF Stable, Takers, Givers
  <2>2. sem'[q] = sem[q] - 1 /\ Len(queue'[q]) = Len(queue[q])
    BY <1>4 DEF Shape
  <2>. QED
    BY <1>1, <1>2, <2>1, <2>2, Balanced
<1>5. CASE /\ sem' = sem /\ queue[q] # <<>> /\ queue' = [queue EXCEPT ![q] = Tail(@)]
           /\ pc[th] = "dequeue" /\ at[th] = q /\ pc'[th] \notin {"dequeue", "give"}
  <2>1. th \in Takers(q) /\ Takers(q)' = Takers(q) \ {th} /\ Givers(q)' = Givers(q)
    BY <1>5 DEF Stable, Takers, Givers
  <2>2. sem'[q] = sem[q] /\ Len(queue'[q]) = Len(queue[q]) - 1
    BY <1>3, <1>5 DEF Shape
  <2>. QED
    BY <1>1, <1>2, <2>1, <2>2, Balanced
<1>6. CASE /\ sem' = sem /\ \E b \in Buffers : queue' = [queue EXCEPT ![q] = Append(@, b)]
           /\ pc[th] \notin {"dequeue", "give"} /\ pc'[th] = "give" /\ at'[th] = q
  <2>1. th \notin Givers(q) /\ Givers(q)' = Givers(q) \union {th} /\ Takers(q)' = Takers(q)
    BY <1>6 DEF Stable, Takers, Givers
  <2>2. sem'[q] = sem[q] /\ Len(queue'[q]) = Len(queue[q]) + 1
    BY <1>3, <1>6 DEF Shape
  <2>. QED
    BY <1>1, <1>2, <2>1, <2>2, Balanced
<1>7. CASE /\ sem' = [sem EXCEPT ![q] = @ + 1] /\ queue' = queue
           /\ pc[th] = "give" /\ at[th] = q /\ pc'[th] \notin {"dequeue", "give"}
  <2>1. th \in Givers(q) /\ Givers(q)' = Givers(q) \ {th} /\ Takers(q)' = Takers(q)
    BY <1>7 DEF Stable, Takers, Givers
  <2>2. sem'[q] = sem[q] + 1 /\ Len(queue'[q]) = Len(queue[q])
    BY <1>7 DEF Shape
  <2>. QED
    BY <1>1, <1>2, <2>1, <2>2, Balanced
<1>. QED
  BY <1>4, <1>5, <1>6, <1>7

\* Whoever has taken the semaphore finds a buffer.
LEMMA TakerFinds ==
  ASSUME Shape, SemaphoreBacked, NEW th \in Threads, pc[th] = "dequeue"
  PROVE  queue[at[th]] # <<>>
<1>. DEFINE q == at[th]
<1>1. q \in Queues /\ th \in Takers(q) /\ sem[q] \in Nat /\ Len(queue[q]) \in Nat
  BY DEF Shape, Takers
<1>2. Takers(q) # {} /\ IsFiniteSet(Takers(q))
  BY <1>1, TakersGivers
<1>3. Cardinality(Takers(q)) # 0 /\ Cardinality(Takers(q)) \in Nat /\ Cardinality(Givers(q)) \in Nat
  BY <1>1, <1>2, FS_EmptySet, TakersGivers
<1>4. sem[q] + Cardinality(Takers(q)) = Len(queue[q]) - Cardinality(Givers(q))
  BY <1>1, TakersGivers
<1>5. Len(queue[q]) # 0
  BY <1>1, <1>3, <1>4
<1>. QED
  BY <1>5

-----------------------------------------------------------------------------
(* The invariant is inductive.                                              *)

LEMMA InitInv == Init => Inv
<1>. SUFFICES ASSUME Init PROVE Inv
  OBVIOUS
<1>1. \A q \in Queues : queue[q] \in Seq(Buffers)
  BY PoolsAssumption DEF Init
<1>2. Shape
  <2>1. queue \in [Queues -> Seq(Buffers)] /\ sem \in [Queues -> Nat]
    BY <1>1 DEF Init
  <2>2. LogQueue \in Queues
    BY PoolsAssumption DEF Queues, LogQueue
  <2>3. pc \in [Threads -> Stages]
    BY DEF Init, Resting, Stages
  <2>. QED
    BY <2>1, <2>2, <2>3 DEF Init, Shape
<1>3. \A t \in Tasks : Calling(t)
  BY ThreadFacts, NoneAssumption DEF Init, Calling, WillPost, Logging, Resting
<1>4. Holding
  BY ThreadFacts DEF Init, Holding, WillPost, Resting
<1>5. SemaphoreBacked
  <2>1. \A q \in Queues : Takers(q) = {} /\ Givers(q) = {}
    BY DEF Init, Takers, Givers, Resting
  <2>2. \A q \in Queues : Cardinality(Takers(q)) = 0 /\ Cardinality(Givers(q)) = 0
    BY <2>1, FS_EmptySet
  <2>3. \A q \in Queues : sem[q] = Len(queue[q]) /\ Len(queue[q]) \in Nat
    BY <1>1 DEF Init
  <2>4. \A q \in Queues : sem[q] + Cardinality(Takers(q)) = Len(queue[q]) - Cardinality(Givers(q))
    BY <2>2, <2>3
  <2>. QED
    BY <2>4, TakersGivers
<1>. QED
  BY <1>2, <1>3, <1>4, <1>5 DEF Inv

LEMMA AllocInv ==
  ASSUME Inv, NEW w \in Workers, NEW p \in 1 .. NumPools, Alloc(w, p)
  PROVE  Inv'
<1>. USE ThreadFacts DEF Alloc, GoOn, GoTo, messages, mutexes
<1>1. Own(w) \in Threads /\ w \in Tasks /\ p \in Queues
  BY PoolsAssumption DEF Tasks, Queues, LogQueue
<1>2. Shape'
  BY <1>1 DEF Inv, Shape, Stages
<1>3. \A t \in Tasks : Calling(t)'
  BY <1>1 DEF Inv, Shape, Calling, WillPost, Logging
<1>4. Holding'
  BY <1>1 DEF Inv, Shape, Holding, WillPost
<1>5. SemaphoreBacked'
  BY <1>1, Undisturbed DEF Inv, Shape, Stable
<1>. QED
  BY <1>2, <1>3, <1>4, <1>5 DEF Inv

LEMMA PendInv ==
  ASSUME Inv, NEW w \in Workers, Pend(w)
  PROVE  Inv'
<1>. USE ThreadFacts DEF Pend, GoOn, GoTo, Available, mutexes
<1>1. Own(w) \in Threads /\ w \in Tasks /\ Inbox \in Queues /\ sem[Inbox] > 0
  BY PoolsAssumption DEF Tasks, Queues, LogQueue, Inbox
<1>2. Shape'
  BY <1>1 DEF Inv, Shape, Stages
<1>3. \A t \in Tasks : Calling(t)'
  BY <1>1 DEF Inv, Shape, Calling, WillPost, Logging
<1>4. Holding'
  BY <1>1 DEF Inv, Shape, Holding, WillPost
<1>5. SemaphoreBacked'
  BY <1>1, <1>2, Moved DEF Inv, Shape, Stable
<1>. QED
  BY <1>2, <1>3, <1>4, <1>5 DEF Inv

LEMMA SendInv ==
  ASSUME Inv, NEW w \in Workers, Send(w)
  PROVE  Inv'
<1>. USE ThreadFacts DEF Send, GoOn, GoTo, messages, mutexes
<1>1. Own(w) \in Threads /\ w \in Tasks /\ Inbox \in Queues /\ Inbox # LogQueue
  BY PoolsAssumption DEF Tasks, Queues, LogQueue, Inbox
<1>2. Shape'
  BY <1>1 DEF Inv, Shape, Stages
<1>3. \A t \in Tasks : Calling(t)'
  BY <1>1 DEF Inv, Shape, Calling, WillPost, Logging
<1>4. Holding'
  BY <1>1 DEF Inv, Shape, Holding, WillPost
<1>5. SemaphoreBacked'
  BY <1>1, Undisturbed DEF Inv, Shape, Stable
<1>. QED
  BY <1>2, <1>3, <1>4, <1>5 DEF Inv

LEMMA FreeInv ==
  ASSUME Inv, NEW w \in Workers, Free(w)
  PROVE  Inv'
<1>. USE ThreadFacts DEF Free, GoTo, messages, mutexes
<1>1. Own(w) \in Threads /\ w \in Tasks
  BY DEF Tasks
<1>2. Shape'
  BY <1>1 DEF Inv, Shape, Stages
<1>3. \A t \in Tasks : Calling(t)'
  BY <1>1 DEF Inv, Shape, Calling, WillPost, Logging
<1>4. Holding'
  BY <1>1 DEF Inv, Shape, Holding, WillPost
<1>5. SemaphoreBacked'
  BY <1>1, Undisturbed DEF Inv, Shape, Stable
<1>. QED
  BY <1>2, <1>3, <1>4, <1>5 DEF Inv

LEMMA DebugPrintInv ==
  ASSUME Inv, NEW w \in Workers, DebugPrint(w)
  PROVE  Inv'
<1>. USE ThreadFacts DEF DebugPrint, CallLog, messages, mutexes
<1>1. Own(w) \in Threads /\ w \in Tasks /\ pc[Log(w)] = "rest"
  BY DEF Inv, Calling, Tasks
<1>2. Shape'
  BY <1>1, ZenonT(30) DEF Inv, Shape, Stages
<1>3. \A t \in Tasks : Calling(t)'
  BY <1>1 DEF Inv, Shape, Calling, WillPost, Logging
<1>4. Holding'
  BY <1>1 DEF Inv, Shape, Holding, WillPost
<1>5. SemaphoreBacked'
  BY <1>1, Undisturbed DEF Inv, Shape, Stable
<1>. QED
  BY <1>2, <1>3, <1>4, <1>5 DEF Inv

LEMMA ShowAllocInv ==
  ASSUME Inv, NEW w \in Workers, ShowAlloc(w)
  PROVE  Inv'
<1>. USE ThreadFacts DEF ShowAlloc, CallLog, messages
<1>1. Own(w) \in Threads /\ w \in Tasks /\ pc[Log(w)] = "rest"
  BY DEF Inv, Calling, Tasks
<1>2. Shape'
  BY <1>1, ZenonT(30) DEF Inv, Shape, Stages
<1>3. \A t \in Tasks : Calling(t)'
  BY <1>1 DEF Inv, Shape, Calling, WillPost, Logging
<1>4. Holding'
  BY <1>1 DEF Inv, Shape, Holding, WillPost
<1>5. SemaphoreBacked'
  BY <1>1, Undisturbed DEF Inv, Shape, Stable
<1>. QED
  BY <1>2, <1>3, <1>4, <1>5 DEF Inv

\* What the threads of a task may be at.
LEMMA StageFacts ==
  ASSUME Inv, NEW th \in Threads
  PROVE  /\ pc[th] \in {"lockFree", "load", "store", "unlockBuf"} => ~ IsLog(th)
         /\ IsLog(th) => pc[Own(TaskOf(th))] = "report" \/ pc[th] = "rest"
         /\ ~ IsLog(th) => pc[th] = "report" \/ pc[Log(TaskOf(th))] = "rest"
         /\ DebugPool \in Pools /\ LogQueue \notin Pools
         /\ Pools \subseteq Queues /\ LogQueue \in Queues
<1>1. \A t \in Tasks : Calling(t)
  BY DEF Inv
<1>2. TaskOf(th) \in Tasks /\ th = IF IsLog(th) THEN Log(TaskOf(th)) ELSE Own(TaskOf(th))
  BY ThreadFacts
<1>3. /\ DebugPool \in Pools /\ LogQueue \notin Pools
      /\ Pools \subseteq Queues /\ LogQueue \in Queues
  BY PoolsAssumption DEF DebugPool, Pools, Queues, LogQueue
<1>. QED
  BY <1>1, <1>2, <1>3 DEF Calling, Logging

\* A call of thread th ends.  What is then left to show of its step is that it
\* keeps the balance.
LEMMA FinishKeeps ==
  ASSUME Inv, NEW th \in Threads, Finish(th), pc[th] \notin {"rest", "lockLog", "report"},
         queue' \in [Queues -> Seq(Buffers)], sem' \in [Queues -> Nat], UNCHANGED hand,
         Len(queue'[LogQueue]) = Len(queue[LogQueue])
  PROVE  /\ Shape' /\ (\A t \in Tasks : Calling(t)') /\ Holding'
         /\ \A x \in Threads : x # th => Stable(x)
         /\ pc'[th] \notin {"dequeue", "give"}
<1>. DEFINE t == TaskOf(th)
<1>1. t \in Tasks /\ LogQueue \in Queues /\ Calling(t) /\ Shape
  BY StageFacts, ThreadFacts DEF Inv
<1>2. CASE IsLog(th)
  <2>1. /\ th = Log(t) /\ pc[Own(t)] = "report" /\ pc[th] \in Logging /\ logMutex = t
        /\ pc' = [pc EXCEPT ![Log(t)] = "rest", ![Own(t)] = back[t]]
        /\ at' = [at EXCEPT ![Log(t)] = LogQueue]
        /\ back' = [back EXCEPT ![t] = "rest"] /\ logMutex' = None
    BY <1>1, <1>2, ThreadFacts DEF Finish, Calling
  <2>2. Own(t) \in Threads /\ Log(t) \in Threads /\ Own(t) # Log(t) /\ back[t] \in {"rest", "post", "unlockBuf"}
    BY <1>1, ThreadFacts DEF Shape
  <2>3. Shape'
    BY <1>1, <2>1, <2>2 DEF Shape, Stages
  <2>4. Calling(t)'
    BY <1>1, <2>1, <2>2, ThreadFacts, NoneAssumption DEF Shape, Calling, WillPost, Logging, Tasks
  <2>5. ASSUME NEW u \in Tasks, u # t PROVE Calling(u)'
    <3>1. /\ Own(u) \in Threads /\ Log(u) \in Threads /\ Calling(u)
          /\ {Own(u), Log(u)} \cap {Own(t), Log(t)} = {} /\ ~ IsLog(Own(u)) /\ TaskOf(Own(u)) = u
      BY <1>1, <2>5, ThreadFacts DEF Inv
    <3>2. /\ pc'[Own(u)] = pc[Own(u)] /\ pc'[Log(u)] = pc[Log(u)]
          /\ at'[Own(u)] = at[Own(u)] /\ at'[Log(u)] = at[Log(u)] /\ back'[u] = back[u]
      BY <1>1, <2>1, <2>5, <3>1 DEF Shape
    <3>3. logMutex # u /\ logMutex' # u
      BY <2>1, <2>5, NoneAssumption
    <3>. QED
      BY <3>1, <3>2, <3>3 DEF Calling, WillPost
  <2>6. Holding'
    BY <1>1, <2>1, <2>2, ThreadFacts DEF Inv, Shape, Holding, WillPost
  <2>7. \A x \in Threads : x # th => Stable(x)
    BY <1>1, <2>1, <2>2 DEF Shape, Stable
  <2>. QED
    BY <1>1, <2>1, <2>2, <2>3, <2>4, <2>5, <2>6, <2>7 DEF Shape
<1>3. CASE ~ IsLog(th)
  <2>1. /\ th = Own(t) /\ pc' = [pc EXCEPT ![th] = Resting(t)] /\ at' = [at EXCEPT ![th] = LogQueue]
        /\ UNCHANGED <<back, logMutex>>
    BY <1>1, <1>3, ThreadFacts DEF Finish, GoTo
  <2>2. Resting(t) \in {"rest", "pend"}
    BY DEF Resting
  <2>3. Shape'
    BY <1>1, <2>1, <2>2 DEF Shape, Stages
  <2>4. \A u \in Tasks : Calling(u)'
    BY <1>1, <2>1, <2>2, ThreadFacts, ZenonT(30) DEF Inv, Shape, Calling, WillPost
  <2>5. Holding'
    BY <1>1, <2>1, <2>2, ThreadFacts DEF Inv, Shape, Holding, WillPost
  <2>. QED
    BY <1>1, <2>1, <2>2, <2>3, <2>4, <2>5 DEF Shape, Stable
<1>. QED
  BY <1>2, <1>3

LEMMA TakeInv ==
  ASSUME Inv, NEW th \in Threads, Take(th)
  PROVE  Inv'
<1>. DEFINE q == at[th]
<1>1. /\ pc[th] = "pend" /\ q \in Queues /\ sem[q] \in Nat /\ Shape /\ SemaphoreBacked
      /\ UNCHANGED <<queue, hand>>
  BY DEF Take, Inv, Shape
<1>2. CASE Available(q)
  <2>1. /\ sem[q] > 0 /\ sem' = [sem EXCEPT ![q] = @ - 1] /\ pc' = [pc EXCEPT ![th] = "dequeue"]
        /\ UNCHANGED <<at, back, logMutex>>
    BY <1>2 DEF Take, Available, GoTo
  <2>2. Shape'
    BY <1>1, <2>1 DEF Shape, Stages
  <2>3. \A t \in Tasks : Calling(t)'
    BY <1>1, <2>1, ThreadFacts DEF Inv, Shape, Calling, WillPost, Logging
  <2>4. Holding'
    BY <1>1, <2>1 DEF Inv, Shape, Holding, WillPost
  <2>5. \A x \in Threads : x # th => Stable(x)
    BY <1>1, <2>1 DEF Shape, Stable
  <2>6. pc'[th] = "dequeue" /\ at'[th] = q
    BY <1>1, <2>1 DEF Shape
  <2>7. SemaphoreBacked'
    BY <1>1, <2>1, <2>2, <2>5, <2>6, Moved
  <2>. QED
    BY <2>2, <2>3, <2>4, <2>7 DEF Inv
<1>3. CASE ~ Available(q) /\ q \in 1 .. NumPools - 1
  <2>1. /\ UNCHANGED <<sem, back, logMutex>>
        /\ pc' = [pc EXCEPT ![th] = "pend"] /\ at' = [at EXCEPT ![th] = q + 1]
    BY <1>3 DEF Take, GoOn, GoTo
  <2>2. q + 1 \in Queues /\ q # DebugPool
    BY <1>3, PoolsAssumption DEF DebugPool, Queues, LogQueue
  <2>3. ~ IsLog(th)
    BY <1>1, <2>2, ThreadFacts DEF Inv, Calling
  <2>4. Shape'
    BY <1>1, <2>1, <2>2 DEF Shape, Stages
  <2>5. \A t \in Tasks : Calling(t)'
    BY <1>1, <2>1, <2>3, ThreadFacts DEF Inv, Shape, Calling, WillPost
  <2>6. Holding'
    BY <1>1, <2>1 DEF Inv, Shape, Holding, WillPost
  <2>7. SemaphoreBacked'
    BY <1>1, <2>1, Undisturbed DEF Shape, Stable
  <2>. QED
    BY <2>4, <2>5, <2>6, <2>7 DEF Inv
<1>4. CASE ~ Available(q) /\ q \notin 1 .. NumPools - 1
  <2>1. Finish(th) /\ UNCHANGED sem
    BY <1>4 DEF Take
  <2>2. /\ Shape' /\ (\A t \in Tasks : Calling(t)') /\ Holding'
        /\ \A x \in Threads : x # th => Stable(x)
        /\ pc'[th] \notin {"dequeue", "give"}
    BY <1>1, <2>1, FinishKeeps DEF Shape
  <2>3. \A x \in Threads : Stable(x)
    BY <1>1, <2>2 DEF Stable
  <2>4. SemaphoreBacked'
    BY <1>1, <2>1, <2>3, Undisturbed
  <2>. QED
    BY <2>2, <2>4 DEF Inv
<1>. QED
  BY <1>2, <1>3, <1>4

LEMMA DequeueInv ==
  ASSUME Inv, NEW th \in Threads, Dequeue(th)
  PROVE  Inv'
<1>. DEFINE q == at[th]
            next == CASE IsLog(th) -> "post" [] q = LogQueue -> "lockFree" [] OTHER -> "rest"
<1>1. /\ pc[th] = "dequeue" /\ q \in Queues /\ Shape /\ SemaphoreBacked
      /\ UNCHANGED <<sem, back, logMutex>>
  BY DEF Dequeue, Inv, Shape, mutexes
<1>2. queue[q] # <<>> /\ queue[q] \in Seq(Buffers)
  BY <1>1, TakerFinds DEF Shape
<1>3. /\ queue' = [queue EXCEPT ![q] = Tail(@)] /\ hand' = [hand EXCEPT ![th] = Head(queue[q])]
      /\ pc' = [pc EXCEPT ![th] = next] /\ at' = [at EXCEPT ![th] = LogQueue]
  BY <1>2 DEF Dequeue, GoOn, GoTo
<1>4. Tail(queue[q]) \in Seq(Buffers) /\ Head(queue[q]) \in Buffers /\ Len(Tail(queue[q])) = Len(queue[q]) - 1
  BY <1>2
<1>5. LogQueue \in Queues /\ LogRoom \in Int /\ next \in {"post", "lockFree", "rest"}
  BY StageFacts, RoomAssumption
<1>6. Shape'
  BY <1>1, <1>3, <1>4, <1>5 DEF Shape, Stages
<1>7. Len(queue'[LogQueue]) <= Len(queue[LogQueue])
      /\ Len(queue[LogQueue]) \in Nat /\ Len(queue'[LogQueue]) \in Nat
  BY <1>1, <1>3, <1>4, <1>5 DEF Shape
<1>8. ASSUME NEW t \in Tasks PROVE Calling(t)'
  <2>1. CASE th = Log(t)
    <3>1. q = DebugPool /\ DebugPool # LogQueue
      BY <1>1, <2>1, StageFacts DEF Inv, Calling
    <3>2. next = "post"
      BY <2>1, <3>1, ThreadFacts
    <3>. QED
      BY <1>1, <1>3, <1>5, <1>7, <2>1, <3>2, ThreadFacts DEF Inv, Shape, Calling, WillPost, Logging
  <2>2. CASE th = Own(t)
    BY <1>1, <1>3, <1>5, <1>7, <2>2, ThreadFacts DEF Inv, Shape, Calling, WillPost, Logging
  <2>3. CASE th # Own(t) /\ th # Log(t)
    BY <1>1, <1>3, <1>5, <1>7, <2>3, ThreadFacts DEF Inv, Shape, Calling, WillPost, Logging
  <2>. QED
    BY <2>1, <2>2, <2>3
<1>9. Holding'
  BY <1>1, <1>3, <1>4 DEF Inv, Shape, Holding, WillPost
<1>10. \A x \in Threads : x # th => Stable(x)
  BY <1>1, <1>3 DEF Shape, Stable
<1>11. pc'[th] \notin {"dequeue", "give"}
  BY <1>1, <1>3, <1>5 DEF Shape
<1>12. SemaphoreBacked'
  BY <1>1, <1>2, <1>3, <1>6, <1>10, <1>11, Moved
<1>. QED
  BY <1>6, <1>8, <1>9, <1>12 DEF Inv

LEMMA EnqueueInv ==
  ASSUME Inv, NEW th \in Threads, Enqueue(th)
  PROVE  Inv'
<1>. DEFINE q == at[th]  b == hand[th]
<1>1. /\ pc[th] = "post" /\ q \in Queues /\ Shape /\ SemaphoreBacked
      /\ UNCHANGED <<sem, at, back, logMutex>>
  BY DEF Enqueue, Inv, Shape, mutexes
<1>2. b \in Buffers /\ queue[q] \in Seq(Buffers)
  BY <1>1 DEF Inv, Shape, Holding, WillPost
<1>3. /\ q = LogQueue <=> IsLog(th)
      /\ IsLog(th) => Len(queue[q]) < Room(q)
  <2>1. Calling(TaskOf(th))
    BY ThreadFacts DEF Inv
  <2>2. q = LogQueue <=> IsLog(th)
    BY <1>1, <2>1, ThreadFacts DEF Calling, WillPost
  <2>3. Room(LogQueue) = LogRoom
    BY PoolsAssumption DEF Room, LogQueue, Inbox
  <2>. QED
    BY <1>1, <2>1, <2>2, <2>3, ThreadFacts DEF Calling
<1>4. CASE Len(queue[q]) < Room(q)
  <2>1. /\ queue' = [queue EXCEPT ![q] = Append(@, b)] /\ hand' = [hand EXCEPT ![th] = None]
        /\ pc' = [pc EXCEPT ![th] = "give"]
    BY <1>4 DEF Enqueue, Enqueued, GoTo
  <2>2. Append(queue[q], b) \in Seq(Buffers)
    BY <1>2
  <2>3. Shape'
    BY <1>1, <2>1, <2>2 DEF Shape, Stages
  <2>4. ASSUME NEW t \in Tasks PROVE Calling(t)'
    <3>1. CASE th = Log(t)
      BY <1>1, <1>3, <2>1, <3>1, ThreadFacts DEF Inv, Shape, Calling, WillPost, Logging
    <3>2. CASE th # Log(t) /\ IsLog(th)
      <4>1. pc[Log(t)] \notin Logging
        <5>1. logMutex = TaskOf(th) /\ t # TaskOf(th)
          BY <1>1, <3>2, ThreadFacts DEF Inv, Calling, Logging
        <5>. QED
          BY <5>1 DEF Inv, Calling
      <4>. QED
        BY <1>1, <2>1, <3>2, <4>1, ThreadFacts DEF Inv, Shape, Calling, WillPost, Logging
    <3>3. CASE ~ IsLog(th)
      <4>1. queue'[LogQueue] = queue[LogQueue]
        BY <1>1, <1>3, <2>1, <3>3, StageFacts DEF Shape
      <4>. QED
        BY <1>1, <2>1, <3>3, <4>1, ThreadFacts DEF Inv, Shape, Calling, WillPost
    <3>. QED
      BY <3>1, <3>2, <3>3
  <2>5. Holding'
    BY <1>1, <2>1 DEF Inv, Shape, Holding, WillPost
  <2>6. \A x \in Threads : x # th => Stable(x)
    BY <1>1, <2>1 DEF Shape, Stable
  <2>7. pc'[th] = "give" /\ at'[th] = q
    BY <1>1, <2>1 DEF Shape
  <2>8. SemaphoreBacked'
    BY <1>1, <1>2, <2>1, <2>3, <2>6, <2>7, Moved
  <2>. QED
    BY <2>3, <2>4, <2>5, <2>8 DEF Inv
<1>5. CASE ~ (Len(queue[q]) < Room(q))
  <2>1. UNCHANGED <<queue, hand>> /\ pc' = [pc EXCEPT ![th] = "stopped"] /\ ~ IsLog(th)
    BY <1>3, <1>5 DEF Enqueue, GoTo
  <2>2. Shape'
    BY <1>1, <2>1 DEF Shape, Stages
  <2>3. \A t \in Tasks : Calling(t)'
    BY <1>1, <2>1, ThreadFacts DEF Inv, Shape, Calling, WillPost
  <2>4. Holding'
    BY <1>1, <2>1 DEF Inv, Shape, Holding, WillPost
  <2>5. SemaphoreBacked'
    BY <1>1, <2>1, Undisturbed DEF Shape, Stable
  <2>. QED
    BY <2>2, <2>3, <2>4, <2>5 DEF Inv
<1>. QED
  BY <1>4, <1>5

LEMMA GiveInv ==
  ASSUME Inv, NEW th \in Threads, Give(th)
  PROVE  Inv'
<1>. DEFINE q == at[th]
<1>1. /\ pc[th] = "give" /\ q \in Queues /\ sem[q] \in Nat /\ Shape /\ SemaphoreBacked
      /\ UNCHANGED <<queue, hand>> /\ sem' = [sem EXCEPT ![q] = @ + 1]
  BY DEF Give, Inv, Shape
<1>2. CASE q \in Pools
  <2>1. pc' = [pc EXCEPT ![th] = "load"] /\ UNCHANGED <<at, back, logMutex>>
    BY <1>2 DEF Give, GoTo
  <2>2. ~ IsLog(th)
    BY <1>1, <1>2, StageFacts, ThreadFacts DEF Inv, Calling
  <2>3. Shape'
    BY <1>1, <2>1 DEF Shape, Stages
  <2>4. \A t \in Tasks : Calling(t)'
    BY <1>1, <2>1, <2>2, ThreadFacts DEF Inv, Shape, Calling, WillPost
  <2>5. Holding'
    BY <1>1, <2>1 DEF Inv, Shape, Holding, WillPost
  <2>6. \A x \in Threads : x # th => Stable(x)
    BY <1>1, <2>1 DEF Shape, Stable
  <2>7. pc'[th] \notin {"dequeue", "give"}
    BY <1>1, <2>1 DEF Shape
  <2>8. SemaphoreBacked'
    BY <1>1, <2>3, <2>6, <2>7, Moved
  <2>. QED
    BY <2>3, <2>4, <2>5, <2>8 DEF Inv
<1>3. CASE q \notin Pools
  <2>1. Finish(th)
    BY <1>3 DEF Give
  <2>2. queue' \in [Queues -> Seq(Buffers)] /\ sem' \in [Queues -> Nat]
    BY <1>1 DEF Shape
  <2>3. /\ Shape' /\ (\A t \in Tasks : Calling(t)') /\ Holding'
        /\ \A x \in Threads : x # th => Stable(x)
        /\ pc'[th] \notin {"dequeue", "give"}
    BY <1>1, <2>1, <2>2, FinishKeeps
  <2>4. SemaphoreBacked'
    BY <1>1, <2>3, Moved
  <2>. QED
    BY <2>3, <2>4 DEF Inv
<1>. QED
  BY <1>2, <1>3

\* DBG_log is called, and the caller goes on from "next".
LEMMA CallLogKeeps ==
  ASSUME Inv, NEW t \in Tasks, NEW next \in {"post", "unlockBuf"}, CallLog(Own(t), next),
         pc[Own(t)] \in {"lockFree", "load"}, UNCHANGED <<sem, queue, logMutex>>,
         at' \in [Threads -> Queues], hand' \in [Threads -> Buffers \union {None}],
         \A x \in Threads : x # Own(t) => at'[x] = at[x] /\ hand'[x] = hand[x],
         next = "post" => at'[Own(t)] # LogQueue /\ hand'[Own(t)] \in Buffers
  PROVE  Inv'
<1>1. /\ Own(t) \in Threads /\ Log(t) \in Threads /\ Own(t) # Log(t) /\ Shape /\ Calling(t)
      /\ pc[Log(t)] = "rest" /\ SemaphoreBacked
  BY ThreadFacts DEF Inv, Calling
<1>2. /\ pc' = [pc EXCEPT ![Own(t)] = "report", ![Log(t)] = "lockLog"]
      /\ back' = [back EXCEPT ![t] = next]
  BY ThreadFacts DEF CallLog
<1>3. Shape'
  BY <1>1, <1>2 DEF Shape, Stages
<1>4. Calling(t)'
  BY <1>1, <1>2, ThreadFacts DEF Shape, Calling, WillPost, Logging
<1>5. ASSUME NEW u \in Tasks, u # t PROVE Calling(u)'
  <2>1. /\ Own(u) \in Threads /\ Log(u) \in Threads /\ Calling(u)
        /\ {Own(u), Log(u)} \cap {Own(t), Log(t)} = {} /\ ~ IsLog(Own(u)) /\ TaskOf(Own(u)) = u
    BY <1>5, ThreadFacts DEF Inv
  <2>2. /\ pc'[Own(u)] = pc[Own(u)] /\ pc'[Log(u)] = pc[Log(u)]
        /\ at'[Own(u)] = at[Own(u)] /\ at'[Log(u)] = at[Log(u)] /\ back'[u] = back[u]
    BY <1>1, <1>2, <1>5, <2>1 DEF Shape
  <2>. QED
    BY <2>1, <2>2 DEF Calling, WillPost
<1>6. Holding'
  BY <1>1, <1>2, ThreadFacts DEF Inv, Shape, Holding, WillPost
<1>7. \A x \in Threads : Stable(x)
  BY <1>1, <1>2 DEF Shape, Stable
<1>8. SemaphoreBacked'
  BY <1>1, <1>7, Undisturbed
<1>. QED
  BY <1>3, <1>4, <1>5, <1>6, <1>8 DEF Inv

LEMMA LockFreeInv ==
  ASSUME Inv, NEW th \in Threads, LockFree(th)
  PROVE  Inv'
<1>. DEFINE t == TaskOf(th)  b == hand[th]
<1>1. /\ pc[th] = "lockFree" /\ Shape /\ SemaphoreBacked
      /\ UNCHANGED <<sem, queue, logMutex>> /\ at' = [at EXCEPT ![th] = PoolOf(b)]
  BY DEF LockFree, Inv
<1>2. b \in Buffers /\ t \in Tasks /\ th = Own(t) /\ ~ IsLog(th)
  BY <1>1, StageFacts, ThreadFacts DEF Inv, Holding
<1>3. PoolOf(b) \in Pools
  BY <1>2 DEF PoolOf, Buffers
<1>4. /\ at' \in [Threads -> Queues] /\ at'[th] # LogQueue
      /\ \A x \in Threads : x # th => at'[x] = at[x]
  BY <1>1, <1>3, StageFacts DEF Shape
<1>5. CASE isFree[b]
  <2>1. CallLog(th, "unlockBuf") /\ hand' = [hand EXCEPT ![th] = None]
    BY <1>5 DEF LockFree
  <2>2. /\ hand' \in [Threads -> Buffers \union {None}]
        /\ \A x \in Threads : x # th => hand'[x] = hand[x]
    BY <1>1, <2>1 DEF Shape
  <2>. QED
    BY <1>1, <1>2, <1>4, <2>1, <2>2, CallLogKeeps
<1>6. CASE ~ isFree[b] /\ inQueue[b] # 0
  <2>1. CallLog(th, "post") /\ hand' = hand
    BY <1>6 DEF LockFree
  <2>2. hand' \in [Threads -> Buffers \union {None}]
    BY <1>1, <2>1 DEF Shape
  <2>. QED
    BY <1>1, <1>2, <1>4, <2>1, <2>2, CallLogKeeps
<1>7. CASE ~ isFree[b] /\ inQueue[b] = 0
  <2>1. pc' = [pc EXCEPT ![th] = "post"] /\ UNCHANGED <<back, hand>>
    BY <1>7 DEF LockFree, GoTo
  <2>2. Shape'
    BY <1>1, <1>4, <2>1 DEF Shape, Stages
  <2>3. \A u \in Tasks : Calling(u)'
    BY <1>1, <1>2, <1>4, <2>1, ThreadFacts DEF Inv, Shape, Calling, WillPost
  <2>4. Holding'
    BY <1>1, <1>2, <2>1 DEF Inv, Shape, Holding, WillPost
  <2>5. SemaphoreBacked'
    BY <1>1, <2>1, Undisturbed DEF Shape, Stable
  <2>. QED
    BY <2>2, <2>3, <2>4, <2>5 DEF Inv
<1>. QED
  BY <1>5, <1>6, <1>7

LEMMA LoadInv ==
  ASSUME Inv, NEW th \in Threads, Load(th)
  PROVE  Inv'
<1>. DEFINE t == TaskOf(th)
<1>1. /\ pc[th] = "load" /\ Shape /\ SemaphoreBacked
      /\ UNCHANGED <<sem, queue, logMutex, at, hand>>
  BY DEF Load, Inv, messages, mutexes
<1>2. t \in Tasks /\ th = Own(t) /\ ~ IsLog(th)
  BY <1>1, StageFacts, ThreadFacts
<1>3. CASE Positive(currAlloc[at[th]])
  <2>1. pc' = [pc EXCEPT ![th] = "store"] /\ UNCHANGED back
    BY <1>3 DEF Load, GoTo
  <2>2. Shape'
    BY <1>1, <2>1 DEF Shape, Stages
  <2>3. \A u \in Tasks : Calling(u)'
    BY <1>1, <1>2, <2>1, ThreadFacts DEF Inv, Shape, Calling, WillPost
  <2>4. Holding'
    BY <1>1, <2>1 DEF Inv, Shape, Holding, WillPost
  <2>5. SemaphoreBacked'
    BY <1>1, <2>1, Undisturbed DEF Shape, Stable
  <2>. QED
    BY <2>2, <2>3, <2>4, <2>5 DEF Inv
<1>4. CASE ~ Positive(currAlloc[at[th]])
  <2>1. CallLog(th, "unlockBuf")
    BY <1>4 DEF Load
  <2>2. at' \in [Threads -> Queues] /\ hand' \in [Threads -> Buffers \union {None}]
    BY <1>1 DEF Shape
  <2>. QED
    BY <1>1, <1>2, <2>1, <2>2, CallLogKeeps
<1>. QED
  BY <1>3, <1>4

\* The end of BM_Free.
LEMMA ReleaseInv ==
  ASSUME Inv, NEW th \in Threads, Store(th) \/ UnlockBuf(th)
  PROVE  Inv'
<1>1. /\ pc[th] \in {"store", "unlockBuf"} /\ Shape /\ SemaphoreBacked
      /\ UNCHANGED <<sem, queue, hand>> /\ Finish(th)
  BY DEF Store, UnlockBuf, Inv, messages
<1>2. /\ Shape' /\ (\A t \in Tasks : Calling(t)') /\ Holding'
      /\ \A x \in Threads : x # th => Stable(x)
      /\ pc'[th] \notin {"dequeue", "give"}
  BY <1>1, FinishKeeps DEF Shape
<1>3. SemaphoreBacked'
  BY <1>1, <1>2, Undisturbed DEF Stable
<1>. QED
  BY <1>2, <1>3 DEF Inv

LEMMA LockLogInv ==
  ASSUME Inv, NEW t \in Tasks, LockLog(t)
  PROVE  Inv'
<1>1. /\ pc[Log(t)] = "lockLog" /\ logMutex = None /\ Shape /\ SemaphoreBacked /\ Calling(t)
      /\ Own(t) \in Threads /\ Log(t) \in Threads /\ Own(t) # Log(t) /\ pc[Own(t)] = "report"
      /\ UNCHANGED <<sem, queue, hand>>
  BY ThreadFacts DEF LockLog, Inv, Calling, messages
<1>2. /\ DebugPool \in Queues /\ LogQueue \in Queues /\ DebugPool # LogQueue
      /\ Len(queue[LogQueue]) \in Nat /\ LogRoom \in Nat
  <2>1. DebugPool \in Queues /\ LogQueue \in Queues /\ DebugPool # LogQueue
    BY <1>1, StageFacts
  <2>2. queue[LogQueue] \in Seq(Buffers)
    BY <1>1, <2>1 DEF Shape
  <2>. QED
    BY <2>1, <2>2, RoomAssumption
<1>3. CASE RoomForTwo
  <2>1. /\ logMutex' = t /\ UNCHANGED back
        /\ pc' = [pc EXCEPT ![Log(t)] = "pend"] /\ at' = [at EXCEPT ![Log(t)] = DebugPool]
    BY <1>3 DEF LockLog, GoOn, GoTo
  <2>2. Len(queue[LogQueue]) < LogRoom
    BY <1>2, <1>3 DEF RoomForTwo
  <2>3. Shape'
    BY <1>1, <1>2, <2>1 DEF Shape, Stages
  <2>4. Calling(t)'
    BY <1>1, <1>2, <2>1, <2>2, ThreadFacts DEF Shape, Calling, WillPost, Logging
  <2>5. ASSUME NEW u \in Tasks, u # t PROVE Calling(u)'
    <3>1. pc[Log(u)] \notin Logging
      BY <1>1, NoneAssumption DEF Inv, Calling
    <3>. QED
      BY <1>1, <2>1, <2>5, <3>1, ThreadFacts DEF Inv, Shape, Calling, WillPost
  <2>6. Holding'
    BY <1>1, <2>1, ThreadFacts DEF Inv, Shape, Holding, WillPost
  <2>7. SemaphoreBacked'
    BY <1>1, <2>1, Undisturbed DEF Shape, Stable
  <2>. QED
    BY <2>3, <2>4, <2>5, <2>6, <2>7 DEF Inv
<1>4. CASE ~ RoomForTwo
  <2>1. /\ UNCHANGED logMutex /\ at' = [at EXCEPT ![Log(t)] = LogQueue]
        /\ pc' = [pc EXCEPT ![Log(t)] = "rest", ![Own(t)] = back[t]]
        /\ back' = [back EXCEPT ![t] = "rest"]
    BY <1>1, <1>4, ThreadFacts DEF LockLog, Lost, Finish
  <2>2. Shape'
    BY <1>1, <1>2, <2>1 DEF Shape, Stages
  <2>3. Calling(t)'
    BY <1>1, <2>1, ThreadFacts DEF Shape, Calling, WillPost, Logging
  <2>4. ASSUME NEW u \in Tasks, u # t PROVE Calling(u)'
    BY <1>1, <2>1, <2>4, ThreadFacts DEF Inv, Shape, Calling, WillPost
  <2>5. Holding'
    BY <1>1, <2>1, ThreadFacts DEF Inv, Shape, Holding, WillPost
  <2>6. SemaphoreBacked'
    BY <1>1, <2>1, Undisturbed DEF Shape, Stable
  <2>. QED
    BY <2>2, <2>3, <2>4, <2>5, <2>6 DEF Inv
<1>. QED
  BY <1>3, <1>4

LEMMA StutterInv ==
  ASSUME Inv, UNCHANGED vars
  PROVE  Inv'
BY DEF Inv, Shape, Calling, WillPost, Holding, SemaphoreBacked, vars, messages, mutexes

LEMMA NextInv ==
  ASSUME Inv, [Next]_vars
  PROVE  Inv'
<1>1. CASE \E w \in Workers : Call(w)
  BY <1>1, AllocInv, PendInv, SendInv, FreeInv, DebugPrintInv, ShowAllocInv DEF Call
<1>2. CASE \E th \in Threads : Step(th) \/ LockFree(th)
  BY <1>2, TakeInv, DequeueInv, EnqueueInv, GiveInv, LoadInv, ReleaseInv, LockFreeInv DEF Step
<1>3. CASE \E t \in Tasks : LockLog(t)
  BY <1>3, LockLogInv
<1>. QED
  BY <1>1, <1>2, <1>3, StutterInv DEF Next

-----------------------------------------------------------------------------
(* The theorems.                                                            *)

\* The semaphore of a message queue or pool never runs ahead of its queue,
\* wherever the tasks are preempted in OS_MSGQ_Post, OS_MSGQ_Pend and bufAlloc:
\* what is taken is there.
THEOREM SemaphoresBacked == Spec => []SemaphoreBacked
<1>1. Inv /\ [Next]_vars => Inv'
  BY NextInv
<1>2. Inv => SemaphoreBacked
  BY DEF Inv
<1>. QED
  BY InitInv, <1>1, <1>2, PTL DEF Spec

\* The task inside DBG_log waits for no mutex, whoever called it: BM_Free may
\* log while it holds bufMutex_.
THEOREM LogIsLockFree == Spec => []LogNeedsNoLock
<1>1. Inv /\ [Next]_vars => Inv'
  BY NextInv
<1>2. Inv => LogNeedsNoLock
  BY NoneAssumption DEF Inv, Shape, Calling, Logging, LogNeedsNoLock
<1>. QED
  BY InitInv, <1>1, <1>2, PTL DEF Spec

-----------------------------------------------------------------------------
(* The tasks' interleaved posts, pends, allocations and frees implement an  *)
(* exchange of buffers: no buffer is lost, handed out twice or put in two   *)
(* queues, and every queue keeps its order.                                 *)

-----------------------------------------------------------------------------
(* Sequences without repetition.                                            *)

LEMMA TailFacts ==
  ASSUME NEW S, NEW s \in Seq(S), s # <<>>, IsInjective(s)
  PROVE  /\ IsInjective(Tail(s)) /\ Range(Tail(s)) = Range(s) \ {Head(s)}
         /\ Head(s) \in Range(s)
<1>1. /\ Len(s) \in Nat /\ Len(s) >= 1 /\ DOMAIN s = 1 .. Len(s) /\ Head(s) = s[1]
      /\ DOMAIN Tail(s) = 1 .. Len(s) - 1
      /\ \A i \in 1 .. Len(s) - 1 : Tail(s)[i] = s[i + 1]
  OBVIOUS
<1>2. IsInjective(Tail(s))
  BY <1>1 DEF IsInjective
<1>3. ASSUME NEW x PROVE x \in Range(Tail(s)) <=> x \in Range(s) \ {Head(s)}
  <2>1. ASSUME x \in Range(Tail(s)) PROVE x \in Range(s) \ {Head(s)}
    <3>1. PICK i \in 1 .. Len(s) - 1 : x = s[i + 1]
      BY <1>1, <2>1 DEF Range
    <3>2. i + 1 \in 1 .. Len(s) /\ i + 1 # 1 /\ 1 \in 1 .. Len(s)
      BY <1>1
    <3>. QED
      BY <1>1, <3>1, <3>2 DEF Range, IsInjective
  <2>2. ASSUME x \in Range(s), x # Head(s) PROVE x \in Range(Tail(s))
    <3>1. PICK j \in 1 .. Len(s) : x = s[j]
      BY <1>1, <2>2 DEF Range
    <3>2. j - 1 \in 1 .. Len(s) - 1 /\ Tail(s)[j - 1] = x
      BY <1>1, <2>2, <3>1
    <3>. QED
      BY <1>1, <3>2 DEF Range
  <2>. QED
    BY <2>1, <2>2
<1>4. Head(s) \in Range(s)
  BY <1>1 DEF Range
<1>. QED
  BY <1>2, <1>3, <1>4

LEMMA AppendFacts ==
  ASSUME NEW S, NEW s \in Seq(S), NEW b \in S, b \notin Range(s), IsInjective(s)
  PROVE  IsInjective(Append(s, b)) /\ Range(Append(s, b)) = Range(s) \union {b}
<1>1. /\ Len(s) \in Nat /\ DOMAIN s = 1 .. Len(s)
      /\ DOMAIN Append(s, b) = 1 .. Len(s) + 1
      /\ Append(s, b)[Len(s) + 1] = b
      /\ \A i \in 1 .. Len(s) : Append(s, b)[i] = s[i]
      /\ \A i \in 1 .. Len(s) : s[i] # b
  BY DEF Range
<1>2. IsInjective(Append(s, b))
  BY <1>1 DEF IsInjective
<1>3. ASSUME NEW x PROVE x \in Range(Append(s, b)) <=> x \in Range(s) \union {b}
  <2>1. 1 .. Len(s) + 1 = 1 .. Len(s) \union {Len(s) + 1}
    BY <1>1
  <2>. QED
    BY <1>1, <2>1 DEF Range
<1>. QED
  BY <1>2, <1>3

-----------------------------------------------------------------------------
(* The invariant.                                                           *)

\* Buffers in queues and hands are all different.
Apart ==
  /\ \A q \in Queues : IsInjective(queue[q])
  /\ \A q, r \in Queues : q # r => Range(queue[q]) \cap Range(queue[r]) = {}
  /\ \A x \in Threads, q \in Queues : hand[x] \notin Range(queue[q])
  /\ \A x, y \in Threads : x # y /\ hand[x] = hand[y] => hand[x] = None

\* A buffer marked as free is on its way to a pool or in one.
Marked ==
  /\ isFree \in [Buffers -> BOOLEAN]
  /\ \A q \in Queues \ Pools : \A b \in Range(queue[q]) : ~ isFree[b]
  /\ \A x \in Threads : hand[x] # None /\ isFree[hand[x]] =>
                          pc[x] = "stopped" \/ (WillPost(x) /\ at[x] \in Pools)

\* Thread x has no buffer at this stage.  The printer frees its message before
\* it waits for the next, and DBG_log returns without one.
Without(x) == \/ pc[x] \in {"pend", "dequeue", "give", "load", "store"}
              \/ IsLog(x) /\ pc[x] \in {"rest", "lockLog"}
              \/ /\ x = Own(Printer)
                 /\ pc[x] = "unlockBuf" \/ (pc[x] = "report" /\ back[Printer] = "unlockBuf")

EmptyHanded == \A x \in Threads : Without(x) => hand[x] = None

Placed == Apart /\ Marked /\ EmptyHanded

LEMMA InitPlaced == Init => Placed
<1>. SUFFICES ASSUME Init PROVE Placed
  OBVIOUS
<1>1. /\ \A q \in Pools : queue[q] = PoolBuffers[q]
      /\ \A q \in Queues \ Pools : queue[q] = <<>>
      /\ \A x \in Threads : hand[x] = None
      /\ Pools \subseteq Queues
  BY PoolsAssumption DEF Init, Pools, Queues, LogQueue
<1>2. Range(<<>>) = {} /\ IsInjective(<<>>)
  BY DEF Range, IsInjective
<1>3. \A q \in Queues : Range(queue[q]) \subseteq Buffers
  BY <1>1, <1>2 DEF Buffers
<1>4. Apart
  BY <1>1, <1>2, <1>3, PoolsAssumption, NoneAssumption DEF Apart
<1>5. Marked
  BY <1>1, <1>2 DEF Init, Marked
<1>6. EmptyHanded
  BY <1>1 DEF EmptyHanded
<1>. QED
  BY <1>4, <1>5, <1>6 DEF Placed

-----------------------------------------------------------------------------
(* The steps that move no buffer.                                           *)

\* A step leaves thread x with what it has: if that is on its way to a pool it
\* still is.
Calm(x) == /\ Without(x)' => Without(x) \/ hand[x] = None
           /\ WillPost(x) => WillPost(x)' /\ at'[x] = at[x]
           /\ pc[x] = "stopped" => pc'[x] = "stopped"

LEMMA QuietKeeps ==
  ASSUME Placed, UNCHANGED <<queue, hand, isFree>>, \A x \in Threads : Calm(x)
  PROVE  Placed'
<1>1. Apart'
  BY DEF Placed, Apart
<1>2. Marked'
  BY DEF Placed, Marked, Calm
<1>3. EmptyHanded'
  BY DEF Placed, EmptyHanded, Calm
<1>. QED
  BY <1>1, <1>2, <1>3 DEF Placed

LEMMA FinishCalm ==
  ASSUME Inv, EmptyHanded, NEW th \in Threads, Finish(th),
         pc[th] \in {"pend", "give", "store", "unlockBuf"} \/ (IsLog(th) /\ pc[th] = "lockLog")
  PROVE  \A x \in Threads : Calm(x)
<1>. DEFINE t == TaskOf(th)
<1>1. t \in Tasks /\ Calling(t) /\ Shape
  BY ThreadFacts DEF Inv
<1>2. CASE IsLog(th)
  <2>1. /\ th = Log(t) /\ pc[Own(t)] = "report" /\ hand[th] = None
        /\ pc' = [pc EXCEPT ![Log(t)] = "rest", ![Own(t)] = back[t]]
        /\ at' = [at EXCEPT ![Log(t)] = LogQueue]
        /\ back' = [back EXCEPT ![t] = "rest"]
    BY <1>1, <1>2, ThreadFacts DEF Finish, Calling, Logging, EmptyHanded, Without
  <2>2. Own(t) \in Threads /\ Log(t) \in Threads /\ Own(t) # Log(t) /\ back[t] \in {"rest", "post", "unlockBuf"}
    BY <1>1, ThreadFacts DEF Shape
  <2>3. Calm(Log(t))
    BY <1>1, <2>1, <2>2, ThreadFacts DEF Shape, Calm, WillPost
  <2>4. Calm(Own(t))
    BY <1>1, <2>1, <2>2, ThreadFacts DEF Shape, Calm, Without, WillPost, Tasks
  <2>5. ASSUME NEW x \in Threads, x # Own(t), x # Log(t) PROVE Calm(x)
    <3>1. pc'[x] = pc[x] /\ at'[x] = at[x] /\ (~ IsLog(x) => TaskOf(x) # t)
      BY <1>1, <2>1, <2>5, ThreadFacts DEF Shape
    <3>2. /\ ~ IsLog(x) => back'[TaskOf(x)] = back[TaskOf(x)]
          /\ x = Own(Printer) => back'[Printer] = back[Printer]
      BY <1>1, <2>1, <3>1, ThreadFacts DEF Shape, Tasks
    <3>. QED
      BY <3>1, <3>2 DEF Calm, Without, WillPost
  <2>. QED
    BY <2>3, <2>4, <2>5
<1>3. CASE ~ IsLog(th)
  <2>1. /\ th = Own(t) /\ pc' = [pc EXCEPT ![th] = Resting(t)] /\ at' = [at EXCEPT ![th] = LogQueue]
        /\ UNCHANGED back
    BY <1>1, <1>3, ThreadFacts DEF Finish, GoTo
  <2>2. Calm(th)
    BY <1>1, <1>3, <2>1, ThreadFacts DEF Shape, Calm, Without, WillPost, Resting
  <2>3. \A x \in Threads : x # th => Calm(x)
    BY <1>1, <2>1 DEF Shape, Calm, Without, WillPost
  <2>. QED
    BY <2>2, <2>3
<1>. QED
  BY <1>2, <1>3

LEMMA CallCalm ==
  ASSUME Inv, NEW t \in Tasks, NEW next \in {"rest", "unlockBuf"}, CallLog(Own(t), next),
         pc[Own(t)] = "load" \/ (pc[Own(t)] = "rest" /\ t # Printer), UNCHANGED <<at>>
  PROVE  \A x \in Threads : Calm(x)
<1>1. /\ Own(t) \in Threads /\ Log(t) \in Threads /\ Own(t) # Log(t) /\ Shape
      /\ pc[Log(t)] = "rest"
  BY ThreadFacts DEF Inv, Calling
<1>2. /\ pc' = [pc EXCEPT ![Own(t)] = "report", ![Log(t)] = "lockLog"]
      /\ back' = [back EXCEPT ![t] = next]
  BY ThreadFacts DEF CallLog
<1>3. Calm(Own(t))
  BY <1>1, <1>2, ThreadFacts DEF Shape, Calm, Without, WillPost, Tasks
<1>4. Calm(Log(t))
  BY <1>1, <1>2, ThreadFacts DEF Shape, Calm, Without, WillPost, Tasks
<1>5. ASSUME NEW x \in Threads, x # Own(t), x # Log(t) PROVE Calm(x)
  <2>1. pc'[x] = pc[x] /\ at'[x] = at[x] /\ (~ IsLog(x) => TaskOf(x) # t)
    BY <1>1, <1>2, <1>5, ThreadFacts DEF Shape
  <2>2. /\ ~ IsLog(x) => back'[TaskOf(x)] = back[TaskOf(x)]
        /\ x = Own(Printer) => back'[Printer] = back[Printer]
    BY <1>1, <1>2, <2>1, ThreadFacts DEF Shape, Tasks
  <2>. QED
    BY <2>1, <2>2 DEF Calm, Without, WillPost
<1>. QED
  BY <1>3, <1>4, <1>5

LEMMA CallPlaced ==
  ASSUME Inv, Placed, NEW w \in Workers, Call(w)
  PROVE  Placed' /\ UNCHANGED <<queue, hand>>
<1>1. /\ Own(w) \in Threads /\ w \in Tasks /\ w # Printer /\ Own(w) # Own(Printer) /\ ~ IsLog(Own(w))
      /\ pc[Own(w)] = "rest" /\ Shape /\ UNCHANGED <<queue, hand, isFree>>
  BY ThreadFacts, NoneAssumption
  DEF Call, Alloc, Pend, Send, Free, DebugPrint, ShowAlloc, messages, Tasks, Inv
<1>2. CASE \E p \in 1 .. NumPools : Alloc(w, p)
  BY <1>1, <1>2, QuietKeeps DEF Alloc, GoOn, GoTo, Shape, Calm, Without, WillPost
<1>3. CASE Pend(w)
  BY <1>1, <1>3, QuietKeeps DEF Pend, GoOn, GoTo, Shape, Calm, Without, WillPost
<1>4. CASE Send(w)
  BY <1>1, <1>4, QuietKeeps DEF Send, GoOn, GoTo, Shape, Calm, Without, WillPost
<1>5. CASE Free(w)
  BY <1>1, <1>5, QuietKeeps DEF Free, GoTo, Shape, Calm, Without, WillPost
<1>6. CASE DebugPrint(w) \/ ShowAlloc(w)
  BY <1>1, <1>6, CallCalm, QuietKeeps DEF DebugPrint, ShowAlloc
<1>. QED
  BY <1>1, <1>2, <1>3, <1>4, <1>5, <1>6 DEF Call

LEMMA QuietPlaced ==
  ASSUME Inv, Placed, NEW th \in Threads,
         Take(th) \/ Give(th) \/ Load(th) \/ Store(th) \/ UnlockBuf(th)
  PROVE  Placed' /\ UNCHANGED <<queue, hand>>
<1>1. Shape /\ EmptyHanded /\ UNCHANGED <<queue, hand, isFree>>
  BY DEF Take, Give, Load, Store, UnlockBuf, messages, Inv, Placed
<1>2. CASE Finish(th) /\ (Take(th) \/ Give(th) \/ Store(th) \/ UnlockBuf(th))
  BY <1>1, <1>2, FinishCalm, QuietKeeps DEF Take, Give, Store, UnlockBuf
<1>3. CASE Load(th) /\ CallLog(th, "unlockBuf")
  <2>1. th = Own(TaskOf(th)) /\ pc[th] = "load" /\ UNCHANGED at /\ TaskOf(th) \in Tasks
    BY <1>3, StageFacts, ThreadFacts DEF Load
  <2>. QED
    BY <1>1, <1>3, <2>1, CallCalm, QuietKeeps
<1>4. CASE /\ \/ Take(th) /\ ((GoTo(th, "dequeue") /\ UNCHANGED at) \/ GoOn(th, "pend", at[th] + 1))
              \/ Give(th) /\ GoTo(th, "load") /\ UNCHANGED at
              \/ Load(th) /\ GoTo(th, "store") /\ UNCHANGED at
           /\ UNCHANGED back
  <2>1. \A x \in Threads : x # th => Calm(x)
    BY <1>1, <1>4 DEF GoOn, GoTo, Shape, Calm, Without, WillPost
  <2>2. Without(th) /\ ~ WillPost(th) /\ pc[th] # "stopped"
    BY <1>4 DEF Take, Give, Load, Without, WillPost
  <2>3. Calm(th)
    BY <2>2 DEF Calm
  <2>. QED
    BY <1>1, <2>1, <2>3, QuietKeeps
<1>. QED
  BY <1>1, <1>2, <1>3, <1>4 DEF Take, Give, Load, Store, UnlockBuf

LEMMA LockLogPlaced ==
  ASSUME Inv, Placed, NEW t \in Tasks, LockLog(t)
  PROVE  Placed' /\ UNCHANGED <<queue, hand>>
<1>1. /\ Shape /\ EmptyHanded /\ UNCHANGED <<queue, hand, isFree>>
      /\ Log(t) \in Threads /\ IsLog(Log(t)) /\ pc[Log(t)] = "lockLog"
  BY ThreadFacts DEF LockLog, messages, Inv, Placed
<1>2. CASE RoomForTwo
  <2>1. /\ pc' = [pc EXCEPT ![Log(t)] = "pend"] /\ at' = [at EXCEPT ![Log(t)] = DebugPool]
        /\ UNCHANGED back
    BY <1>2 DEF LockLog, GoOn, GoTo
  <2>2. \A x \in Threads : Calm(x)
    BY <1>1, <2>1, ThreadFacts DEF Shape, Calm, Without, WillPost
  <2>. QED
    BY <1>1, <2>2, QuietKeeps
<1>3. CASE ~ RoomForTwo
  <2>1. Finish(Log(t))
    BY <1>3 DEF LockLog, Lost
  <2>. QED
    BY <1>1, <2>1, FinishCalm, QuietKeeps
<1>. QED
  BY <1>2, <1>3

LEMMA LockFreePlaced ==
  ASSUME Inv, Placed, NEW th \in Threads, LockFree(th)
  PROVE  Placed' /\ UNCHANGED <<queue, hand>>
<1>. DEFINE t == TaskOf(th)  b == hand[th]
<1>1. /\ pc[th] = "lockFree" /\ Shape /\ UNCHANGED queue /\ b \in Buffers /\ b # None
      /\ t \in Tasks /\ th = Own(t) /\ ~ IsLog(th) /\ at' = [at EXCEPT ![th] = PoolOf(b)]
  BY StageFacts, ThreadFacts, NoneAssumption DEF LockFree, Inv, Holding
<1>2. ~ isFree[b]
  BY <1>1 DEF Placed, Marked, WillPost
<1>3. /\ isFree' = [isFree EXCEPT ![b] = TRUE] /\ UNCHANGED hand
      /\ CallLog(th, "post") \/ (GoTo(th, "post") /\ UNCHANGED back)
  BY <1>2 DEF LockFree
<1>4. PoolOf(b) \in Pools
  BY <1>1 DEF PoolOf, Buffers
<1>5. Apart'
  BY <1>1, <1>3 DEF Placed, Apart
<1>6. pc[Log(t)] = "rest" /\ Log(t) \in Threads /\ Log(t) # th
  BY <1>1, ThreadFacts DEF Inv, Calling
<1>7. WillPost(th)' /\ at'[th] \in Pools
  BY <1>1, <1>3, <1>4, <1>6, ThreadFacts DEF Shape, WillPost, CallLog, GoTo
<1>8. ASSUME NEW x \in Threads, x # th
      PROVE  /\ Without(x)' => Without(x)
             /\ WillPost(x) => WillPost(x)' /\ at'[x] = at[x]
             /\ pc[x] = "stopped" => pc'[x] = "stopped"
  <2>1. at'[x] = at[x] /\ (~ IsLog(x) => TaskOf(x) # t)
    BY <1>1, <1>8, ThreadFacts DEF Shape
  <2>2. /\ ~ IsLog(x) => back'[TaskOf(x)] = back[TaskOf(x)]
        /\ x = Own(Printer) => back'[Printer] = back[Printer]
    BY <1>1, <1>3, <2>1, ThreadFacts DEF Shape, Tasks, CallLog
  <2>3. CASE x = Log(t)
    BY <1>1, <1>3, <1>6, <2>1, <2>3, ThreadFacts DEF Shape, Without, WillPost, CallLog, GoTo, Tasks
  <2>4. CASE x # Log(t)
    <3>1. pc'[x] = pc[x]
      BY <1>1, <1>3, <1>6, <1>8, <2>4 DEF Shape, CallLog, GoTo
    <3>. QED
      BY <2>1, <2>2, <3>1 DEF Without, WillPost
  <2>. QED
    BY <2>3, <2>4
<1>9. Marked'
  <2>1. \A q \in Queues : b \notin Range(queue[q])
    BY DEF Placed, Apart
  <2>2. \A x \in Threads : x # th => hand[x] # b
    BY <1>1 DEF Placed, Apart
  <2>3. isFree' \in [Buffers -> BOOLEAN]
    BY <1>3 DEF Placed, Marked
  <2>4. ASSUME NEW q \in Queues \ Pools, NEW c \in Range(queue[q]) PROVE ~ isFree'[c]
    <3>1. c # b /\ ~ isFree[c]
      BY <2>1 DEF Placed, Marked
    <3>. QED
      BY <1>3, <3>1 DEF Placed, Marked
  <2>5. ASSUME NEW x \in Threads, hand[x] # None, isFree'[hand[x]]
        PROVE  pc'[x] = "stopped" \/ (WillPost(x)' /\ at'[x] \in Pools)
    <3>1. CASE x = th
      BY <1>7, <3>1
    <3>2. CASE x # th
      <4>1. isFree[hand[x]]
        BY <1>3, <2>2, <2>5, <3>2 DEF Placed, Marked
      <4>. QED
        BY <1>8, <2>5, <3>2, <4>1 DEF Placed, Marked
    <3>. QED
      BY <3>1, <3>2
  <2>. QED
    BY <1>1, <1>3, <2>3, <2>4, <2>5 DEF Marked
<1>10. EmptyHanded'
  <2>1. ~ Without(th)'
    BY <1>1, <1>3, <1>6, ThreadFacts DEF Shape, Without, CallLog, GoTo, Tasks
  <2>. QED
    BY <1>3, <1>8, <2>1 DEF Placed, EmptyHanded
<1>. QED
  BY <1>1, <1>3, <1>5, <1>9, <1>10 DEF Placed

-----------------------------------------------------------------------------
(* The steps that move a buffer.                                            *)

LEMMA DequeuePlaced ==
  ASSUME Inv, Placed, NEW th \in Threads, Dequeue(th)
  PROVE  /\ Placed'
         /\ at[th] \in Queues /\ queue[at[th]] # <<>> /\ queue[at[th]] \in Seq(Buffers)
         /\ hand[th] = None /\ hand' = [hand EXCEPT ![th] = Head(queue[at[th]])]
         /\ queue' = [queue EXCEPT ![at[th]] = Tail(@)]
<1>. DEFINE q == at[th]  b == Head(queue[q])
            next == CASE IsLog(th) -> "post" [] q = LogQueue -> "lockFree" [] OTHER -> "rest"
<1>1. /\ pc[th] = "dequeue" /\ q \in Queues /\ Shape /\ SemaphoreBacked /\ UNCHANGED back
      /\ hand[th] = None
  BY DEF Dequeue, Inv, Shape, Placed, EmptyHanded, Without
<1>2. queue[q] # <<>> /\ queue[q] \in Seq(Buffers)
  BY <1>1, TakerFinds DEF Shape
<1>3. /\ queue' = [queue EXCEPT ![q] = Tail(@)] /\ hand' = [hand EXCEPT ![th] = b]
      /\ pc' = [pc EXCEPT ![th] = next] /\ at' = [at EXCEPT ![th] = LogQueue]
      /\ isFree' = IF q \in Pools THEN [isFree EXCEPT ![b] = FALSE] ELSE isFree
  BY <1>2 DEF Dequeue, GoOn, GoTo
<1>4. /\ IsInjective(Tail(queue[q])) /\ Range(Tail(queue[q])) = Range(queue[q]) \ {b}
      /\ b \in Range(queue[q]) /\ b \in Buffers /\ b # None
  BY <1>1, <1>2, TailFacts, NoneAssumption DEF Placed, Apart
<1>5. /\ \A r \in Queues : Range(queue'[r]) = Range(queue[r]) \ {b} /\ IsInjective(queue'[r])
      /\ \A r \in Queues : r # q => b \notin Range(queue[r])
      /\ \A x \in Threads : hand[x] # b
  BY <1>1, <1>3, <1>4 DEF Shape, Placed, Apart
<1>6. Apart'
  <2>1. \A x \in Threads : hand'[x] = IF x = th THEN b ELSE hand[x]
    BY <1>1, <1>3 DEF Shape
  <2>. QED
    BY <1>5, <2>1 DEF Placed, Apart
<1>7. isFree' \in [Buffers -> BOOLEAN] /\ ~ isFree'[b] /\ \A c \in Buffers : isFree'[c] => isFree[c]
  BY <1>1, <1>3, <1>4 DEF Placed, Marked
<1>8. next \in {"post", "lockFree", "rest"} /\ (IsLog(th) => next = "post")
  <2>1. IsLog(th) => q = DebugPool /\ DebugPool # LogQueue
    BY <1>1, StageFacts, ThreadFacts DEF Inv, Calling
  <2>. QED
    BY <2>1
<1>9. \A x \in Threads : x # th => pc'[x] = pc[x] /\ at'[x] = at[x] /\ hand'[x] = hand[x]
  BY <1>1, <1>3 DEF Shape
<1>10. Marked'
  <2>1. ASSUME NEW r \in Queues \ Pools, NEW c \in Range(queue'[r]) PROVE ~ isFree'[c]
    <3>1. c \in Range(queue[r]) /\ ~ isFree[c]
      BY <1>5 DEF Placed, Marked
    <3>2. CASE q \in Pools
      BY <1>3, <1>4, <1>5, <3>1, <3>2 DEF Placed, Marked
    <3>3. CASE q \notin Pools
      BY <1>3, <3>1, <3>3
    <3>. QED
      BY <3>2, <3>3
  <2>2. ASSUME NEW x \in Threads, hand'[x] # None, isFree'[hand'[x]]
        PROVE  pc'[x] = "stopped" \/ (WillPost(x)' /\ at'[x] \in Pools)
    <3>1. x # th
      BY <1>1, <1>3, <1>7, <2>2 DEF Shape
    <3>2. isFree[hand[x]] /\ hand[x] # None
      BY <1>1, <1>7, <1>9, <2>2, <3>1 DEF Shape
    <3>. QED
      BY <1>1, <1>9, <3>1, <3>2 DEF Placed, Marked, WillPost
  <2>. QED
    BY <1>7, <2>1, <2>2 DEF Marked
<1>11. EmptyHanded'
  <2>1. ~ Without(th)'
    BY <1>1, <1>3, <1>8 DEF Shape, Without
  <2>2. \A x \in Threads : x # th /\ Without(x)' => Without(x)
    BY <1>1, <1>9 DEF Without
  <2>. QED
    BY <1>9, <2>1, <2>2 DEF Placed, EmptyHanded
<1>. QED
  BY <1>1, <1>2, <1>3, <1>6, <1>10, <1>11 DEF Placed

LEMMA EnqueuePlaced ==
  ASSUME Inv, Placed, NEW th \in Threads, Enqueue(th)
  PROVE  /\ Placed'
         /\ \/ UNCHANGED <<queue, hand>>
            \/ /\ at[th] \in Queues /\ hand[th] \in Buffers /\ queue[at[th]] \in Seq(Buffers)
               /\ hand' = [hand EXCEPT ![th] = None]
               /\ queue' = [queue EXCEPT ![at[th]] = Append(@, hand[th])]
<1>. DEFINE q == at[th]  b == hand[th]
<1>1. /\ pc[th] = "post" /\ q \in Queues /\ Shape /\ UNCHANGED <<at, back, isFree>>
      /\ b \in Buffers /\ b # None /\ queue[q] \in Seq(Buffers)
  BY NoneAssumption DEF Enqueue, Inv, Shape, Holding, WillPost
<1>2. isFree[b] => q \in Pools
  BY <1>1 DEF Placed, Marked
<1>3. CASE Len(queue[q]) < Room(q)
  <2>1. /\ queue' = [queue EXCEPT ![q] = Append(@, b)] /\ hand' = [hand EXCEPT ![th] = None]
        /\ pc' = [pc EXCEPT ![th] = "give"]
    BY <1>3 DEF Enqueue, Enqueued, GoTo
  <2>2. /\ IsInjective(Append(queue[q], b)) /\ Range(Append(queue[q], b)) = Range(queue[q]) \union {b}
        /\ \A r \in Queues : b \notin Range(queue[r])
        /\ \A x \in Threads : x # th => hand[x] # b
    BY <1>1, AppendFacts DEF Placed, Apart
  <2>3. \A x \in Threads : /\ hand'[x] = IF x = th THEN None ELSE hand[x]
                           /\ x # th => pc'[x] = pc[x]
                           /\ pc'[th] = "give"
    BY <1>1, <2>1 DEF Shape
  <2>4. \A r \in Queues : /\ r # q => queue'[r] = queue[r]
                          /\ queue'[q] = Append(queue[q], b)
    BY <1>1, <2>1 DEF Shape
  <2>5. \A r \in Queues : Range(queue[r]) \subseteq Buffers
    BY <1>1 DEF Shape, Range
  <2>6. Apart'
    <3>1. \A r \in Queues : /\ Range(queue'[r]) = Range(queue[r]) \union (IF r = q THEN {b} ELSE {})
                            /\ IsInjective(queue'[r])
      BY <2>2, <2>4 DEF Placed, Apart
    <3>2. \A x \in Threads : hand'[x] # b
      BY <1>1, <2>2, <2>3
    <3>3. \A x \in Threads, r \in Queues : hand'[x] \notin Range(queue'[r])
      BY <1>1, <2>3, <2>5, <3>1, <3>2, NoneAssumption DEF Placed, Apart
    <3>4. \A r, s \in Queues : r # s => Range(queue'[r]) \cap Range(queue'[s]) = {}
      BY <2>2, <3>1 DEF Placed, Apart
    <3>5. \A x, y \in Threads : x # y /\ hand'[x] = hand'[y] => hand'[x] = None
      BY <2>3 DEF Placed, Apart
    <3>. QED
      BY <3>1, <3>3, <3>4, <3>5 DEF Apart
  <2>7. Marked'
    <3>1. ASSUME NEW r \in Queues \ Pools, NEW c \in Range(queue'[r]) PROVE ~ isFree[c]
      BY <1>2, <2>2, <2>4 DEF Placed, Marked
    <3>2. ASSUME NEW x \in Threads, hand'[x] # None, isFree[hand'[x]]
          PROVE  pc'[x] = "stopped" \/ (WillPost(x)' /\ at[x] \in Pools)
      BY <1>1, <2>3, <3>2 DEF Placed, Marked, WillPost
    <3>. QED
      BY <1>1, <3>1, <3>2 DEF Placed, Marked
  <2>8. EmptyHanded'
    BY <1>1, <2>3 DEF Placed, EmptyHanded, Without
  <2>. QED
    BY <1>1, <2>1, <2>6, <2>7, <2>8 DEF Placed
<1>4. CASE ~ (Len(queue[q]) < Room(q))
  <2>1. UNCHANGED <<queue, hand>> /\ pc' = [pc EXCEPT ![th] = IF q = LogQueue THEN "lockFree" ELSE "stopped"]
    BY <1>4 DEF Enqueue, GoTo
  <2>2. q # LogQueue
    <3>1. Room(LogQueue) = LogRoom
      BY PoolsAssumption DEF Room, LogQueue, Inbox
    <3>2. /\ ~ IsLog(th) => q # LogQueue
          /\ IsLog(th) => q = LogQueue /\ Len(queue[LogQueue]) < LogRoom
      BY <1>1, ThreadFacts DEF Inv, Calling, WillPost
    <3>. QED
      BY <1>4, <3>1, <3>2
  <2>3. \A x \in Threads : /\ pc'[x] = IF x = th THEN "stopped" ELSE pc[x]
                           /\ at'[x] = at[x]
    BY <1>1, <2>1, <2>2 DEF Shape
  <2>4. Apart'
    BY <2>1 DEF Placed, Apart
  <2>5. Marked'
    BY <1>1, <2>1, <2>3 DEF Placed, Marked, WillPost
  <2>6. EmptyHanded'
    BY <1>1, <2>1, <2>3 DEF Placed, EmptyHanded, Without
  <2>. QED
    BY <2>1, <2>4, <2>5, <2>6 DEF Placed
<1>. QED
  BY <1>3, <1>4

LEMMA NextPlaced ==
  ASSUME Inv, Placed, [Next]_vars
  PROVE  Placed'
<1>1. CASE UNCHANGED vars
  BY <1>1 DEF vars, messages, mutexes, Placed, Apart, Marked, WillPost, EmptyHanded, Without
<1>2. CASE Next
  BY <1>2, CallPlaced, QuietPlaced, LockLogPlaced, LockFreePlaced, DequeuePlaced, EnqueuePlaced
  DEF Next, Step
<1>. QED
  BY <1>1, <1>2

-----------------------------------------------------------------------------
(* The theorems.                                                            *)

\* Every buffer is in one queue or pool at one position, or in the hands of one
\* task: no interleaving of allocations, posts, pends and frees duplicates one.
THEOREM BuffersApart == Spec => []Apart
<1>1. Init => Inv /\ Placed
  BY InitInv, InitPlaced
<1>2. Inv /\ Placed /\ [Next]_vars => Inv' /\ Placed'
  BY NextInv, NextPlaced
<1>3. Placed => Apart
  BY DEF Placed
<1>. QED
  BY <1>1, <1>2, <1>3, PTL DEF Spec

\* Seen by the tasks, the pools and queues are an exchange of buffers: each step
\* gets a free buffer, frees one, posts one or receives the oldest of a queue.
THEOREM BuffersExchanged == Spec => BufferExchange
<1>. DEFINE free == UNION {Range(queue[p]) : p \in Pools}
            held == [th \in Threads |-> {hand[th]} \ {None}]
            mail == [c \in {Inbox, LogQueue} |-> queue[c]]
<1>0. /\ Queues = Pools \union {Inbox, LogQueue} /\ Pools \cap {Inbox, LogQueue} = {}
  <2>1. NumPools \in Nat
    BY PoolsAssumption
  <2>2. 0 .. NumPools + 2 = 0 .. NumPools \union {NumPools + 1, NumPools + 2}
    BY <2>1
  <2>. QED
    BY <2>1, <2>2 DEF Queues, Pools, Inbox, LogQueue
<1>1. Init => Exchange!Init
  <2>. SUFFICES ASSUME Init PROVE Exchange!Init
    OBVIOUS
  <2>1. free = Buffers
    BY <1>0 DEF Init, Buffers
  <2>2. held = [th \in Threads |-> {}]
    BY DEF Init
  <2>3. mail = [c \in {Inbox, LogQueue} |-> <<>>]
    BY <1>0 DEF Init
  <2>. QED
    BY <2>1, <2>2, <2>3 DEF Exchange!Init
<1>2. Inv /\ Placed /\ [Next]_vars => [Exchange!Next]_Exchange!vars
  <2>. SUFFICES ASSUME Inv, Placed, [Next]_vars PROVE Exchange!Next \/ UNCHANGED <<free, held, mail>>
    BY DEF Exchange!vars
  <2>1. ASSUME UNCHANGED <<queue, hand>> PROVE UNCHANGED <<free, held, mail>>
    BY <2>1
  <2>2. ASSUME NEW th \in Threads, Dequeue(th) PROVE Exchange!Next
    <3>. DEFINE q == at[th]  b == Head(queue[q])
    <3>1. /\ q \in Queues /\ queue[q] # <<>> /\ queue[q] \in Seq(Buffers)
          /\ hand[th] = None /\ hand' = [hand EXCEPT ![th] = b]
          /\ queue' = [queue EXCEPT ![q] = Tail(@)] /\ Shape
      BY <2>2, DequeuePlaced DEF Inv
    <3>2. b \in Buffers /\ b # None /\ Range(Tail(queue[q])) = Range(queue[q]) \ {b} /\ b \in Range(queue[q])
      BY <3>1, TailFacts, NoneAssumption DEF Placed, Apart
    <3>3. held' = [held EXCEPT ![th] = @ \union {b}]
      BY <3>1, <3>2 DEF Shape
    <3>4. CASE q \in Pools
      <4>1. mail' = mail
        BY <1>0, <3>1, <3>4 DEF Shape
      <4>2. ASSUME NEW p \in Pools PROVE Range(queue'[p]) = Range(queue[p]) \ {b}
        <5>1. CASE p = q
          BY <1>0, <3>1, <3>2, <5>1 DEF Shape
        <5>2. CASE p # q
          <6>1. queue'[p] = queue[p]
            BY <1>0, <3>1, <5>2 DEF Shape
          <6>2. b \notin Range(queue[p])
            BY <1>0, <3>1, <3>2, <5>2 DEF Placed, Apart
          <6>. QED
            BY <6>1, <6>2
        <5>. QED
          BY <5>1, <5>2
      <4>3. b \in free /\ free' = free \ {b}
        BY <3>2, <3>4, <4>2
      <4>. QED
        BY <3>2, <3>3, <4>1, <4>3 DEF Exchange!Next, Exchange!Get
    <3>5. CASE q \in {Inbox, LogQueue}
      <4>1. mail[q] # <<>> /\ Head(mail[q]) = b /\ mail' = [mail EXCEPT ![q] = Tail(@)]
        BY <1>0, <3>1, <3>5 DEF Shape
      <4>2. \A p \in Pools : queue'[p] = queue[p]
        BY <1>0, <3>1, <3>5 DEF Shape
      <4>3. free' = free
        BY <4>2
      <4>. QED
        BY <3>3, <3>5, <4>1, <4>3 DEF Exchange!Next, Exchange!Receive
    <3>. QED
      BY <1>0, <3>1, <3>4, <3>5
  <2>3. ASSUME NEW th \in Threads, Enqueue(th), ~ UNCHANGED <<queue, hand>> PROVE Exchange!Next
    <3>. DEFINE q == at[th]  b == hand[th]
    <3>1. /\ q \in Queues /\ b \in Buffers /\ queue[q] \in Seq(Buffers)
          /\ hand' = [hand EXCEPT ![th] = None]
          /\ queue' = [queue EXCEPT ![q] = Append(@, b)] /\ Shape
      BY <2>3, EnqueuePlaced DEF Inv
    <3>2. b # None /\ Range(Append(queue[q], b)) = Range(queue[q]) \union {b}
      BY <3>1, AppendFacts, NoneAssumption DEF Placed, Apart
    <3>3. b \in held[th] /\ held' = [held EXCEPT ![th] = @ \ {b}]
      BY <3>1, <3>2 DEF Shape
    <3>4. CASE q \in Pools
      <4>1. mail' = mail
        BY <1>0, <3>1, <3>4 DEF Shape
      <4>2. \A p \in Pools : Range(queue'[p]) = Range(queue[p]) \union (IF p = q THEN {b} ELSE {})
        BY <1>0, <3>1, <3>2 DEF Shape
      <4>3. free' = free \union {b}
        BY <3>4, <4>2
      <4>. QED
        BY <3>1, <3>3, <4>1, <4>3 DEF Exchange!Next, Exchange!Release
    <3>5. CASE q \in {Inbox, LogQueue}
      <4>1. mail' = [mail EXCEPT ![q] = Append(@, b)]
        BY <1>0, <3>1, <3>5 DEF Shape
      <4>2. \A p \in Pools : queue'[p] = queue[p]
        BY <1>0, <3>1, <3>5 DEF Shape
      <4>3. free' = free
        BY <4>2
      <4>. QED
        BY <3>1, <3>3, <3>5, <4>1, <4>3 DEF Exchange!Next, Exchange!Send
    <3>. QED
      BY <1>0, <3>1, <3>4, <3>5
  <2>4. CASE UNCHANGED vars
    BY <2>1, <2>4 DEF vars, messages
  <2>. QED
    BY <2>1, <2>2, <2>3, <2>4, CallPlaced, QuietPlaced, LockLogPlaced, LockFreePlaced DEF Next, Step
<1>3. Init => Inv /\ Placed
  BY InitInv, InitPlaced
<1>4. Inv /\ Placed /\ [Next]_vars => Inv' /\ Placed'
  BY NextInv, NextPlaced
<1>. QED
  BY <1>1, <1>2, <1>3, <1>4, PTL DEF Spec, BufferExchange, Exchange!Spec
-----------------------------------------------------------------------------
(* The mutex of the buffer manager, its statistics and the buffers' marks.  *)

-----------------------------------------------------------------------------
(* Who acts, and what that leaves of the others.                            *)

Acts(th) == \/ Step(th) \/ LockFree(th)
            \/ \E w \in Workers : th = Own(w) /\ Call(w)
            \/ \E t \in Tasks : th = Log(t) /\ LockLog(t)

LEMMA SomebodyActs == ASSUME Next PROVE \E th \in Threads : Acts(th)
<1>1. \A w \in Workers : Own(w) \in Threads
  BY ThreadFacts DEF Tasks
<1>2. \A t \in Tasks : Log(t) \in Threads
  BY ThreadFacts
<1>. QED
  BY <1>1, <1>2 DEF Next, Acts

\* A thread that does not act stays where it is, unless its call of DBG_log
\* returns, or it is the one that is called.
Bystander(x) ==
  /\ at'[x] = at[x] /\ hand'[x] = hand[x]
  /\ \/ pc'[x] = pc[x] /\ (~ IsLog(x) => back'[TaskOf(x)] = back[TaskOf(x)])
     \/ ~ IsLog(x) /\ pc[x] = "report" /\ pc'[x] = back[TaskOf(x)]
     \/ IsLog(x) /\ pc[x] = "rest" /\ pc'[x] = "lockLog"

LEMMA FinishStands ==
  ASSUME Inv, NEW th \in Threads, Finish(th), UNCHANGED hand,
         pc[th] \notin {"rest", "report"}
  PROVE  /\ \A x \in Threads \ {th} : Bystander(x)
         /\ at'[th] = LogQueue /\ pc'[th] \in {"rest", "pend"}
         /\ pc'[th] = "pend" => th = Own(Printer)
         /\ \A t \in Tasks : back'[t] \in {back[t], "rest"}
<1>. DEFINE t == TaskOf(th)
<1>1. t \in Tasks /\ Calling(t) /\ Shape
  BY ThreadFacts DEF Inv
<1>2. CASE IsLog(th)
  <2>1. /\ th = Log(t) /\ pc[Own(t)] = "report"
        /\ pc' = [pc EXCEPT ![Log(t)] = "rest", ![Own(t)] = back[t]]
        /\ at' = [at EXCEPT ![Log(t)] = LogQueue]
        /\ back' = [back EXCEPT ![t] = "rest"]
    BY <1>1, <1>2, ThreadFacts DEF Finish, Calling, Logging
  <2>2. Own(t) \in Threads /\ Log(t) \in Threads /\ Own(t) # Log(t)
    BY <1>1, ThreadFacts
  <2>3. Bystander(Own(t))
    BY <1>1, <2>1, <2>2, ThreadFacts DEF Shape, Bystander
  <2>4. ASSUME NEW x \in Threads, x # Own(t), x # Log(t) PROVE Bystander(x)
    <3>1. pc'[x] = pc[x] /\ at'[x] = at[x] /\ (~ IsLog(x) => TaskOf(x) # t)
      BY <1>1, <2>1, <2>4, ThreadFacts DEF Shape
    <3>2. ~ IsLog(x) => back'[TaskOf(x)] = back[TaskOf(x)]
      BY <1>1, <2>1, <3>1, ThreadFacts DEF Shape
    <3>. QED
      BY <3>1, <3>2 DEF Bystander
  <2>5. at'[th] = LogQueue /\ pc'[th] = "rest" /\ \A u \in Tasks : back'[u] \in {back[u], "rest"}
    BY <1>1, <2>1, <2>2 DEF Shape
  <2>. QED
    BY <2>1, <2>3, <2>4, <2>5
<1>3. CASE ~ IsLog(th)
  <2>1. /\ th = Own(t) /\ pc' = [pc EXCEPT ![th] = Resting(t)] /\ at' = [at EXCEPT ![th] = LogQueue]
        /\ UNCHANGED back
    BY <1>1, <1>3, ThreadFacts DEF Finish, GoTo
  <2>2. /\ \A x \in Threads : x # th => pc'[x] = pc[x] /\ at'[x] = at[x]
        /\ at'[th] = LogQueue /\ pc'[th] = Resting(t)
    BY <1>1, <2>1 DEF Shape
  <2>. QED
    BY <2>1, <2>2 DEF Bystander, Resting
<1>. QED
  BY <1>2, <1>3

LEMMA CallStands ==
  ASSUME Inv, NEW t \in Tasks, NEW next \in {"rest", "post", "unlockBuf"}, CallLog(Own(t), next),
         pc[Own(t)] # "report", UNCHANGED hand,
         \A x \in Threads \ {Own(t)} : at'[x] = at[x]
  PROVE  /\ \A x \in Threads \ {Own(t)} : Bystander(x)
         /\ pc'[Own(t)] = "report" /\ back' = [back EXCEPT ![t] = next]
<1>1. /\ Own(t) \in Threads /\ Log(t) \in Threads /\ Own(t) # Log(t) /\ Shape
      /\ pc[Log(t)] = "rest"
  BY ThreadFacts DEF Inv, Calling
<1>2. /\ pc' = [pc EXCEPT ![Own(t)] = "report", ![Log(t)] = "lockLog"]
      /\ back' = [back EXCEPT ![t] = next]
  BY ThreadFacts DEF CallLog
<1>3. Bystander(Log(t))
  BY <1>1, <1>2, ThreadFacts DEF Shape, Bystander
<1>4. ASSUME NEW x \in Threads, x # Own(t), x # Log(t) PROVE Bystander(x)
  <2>1. pc'[x] = pc[x] /\ at'[x] = at[x] /\ (~ IsLog(x) => TaskOf(x) # t)
    BY <1>1, <1>2, <1>4, ThreadFacts DEF Shape
  <2>2. ~ IsLog(x) => back'[TaskOf(x)] = back[TaskOf(x)]
    BY <1>1, <1>2, <2>1, ThreadFacts DEF Shape
  <2>. QED
    BY <2>1, <2>2 DEF Bystander
<1>. QED
  BY <1>1, <1>2, <1>3, <1>4 DEF Shape

LEMMA CallsStand ==
  ASSUME Inv, NEW w \in Workers, Call(w)
  PROVE  \A x \in Threads \ {Own(w)} : Bystander(x)
<1>1. /\ Own(w) \in Threads /\ w \in Tasks /\ ~ IsLog(Own(w)) /\ TaskOf(Own(w)) = w
      /\ pc[Own(w)] = "rest" /\ Shape /\ UNCHANGED hand
  BY ThreadFacts DEF Call, Alloc, Pend, Send, Free, DebugPrint, ShowAlloc, messages, Tasks, Inv
<1>2. CASE (\E p \in 1 .. NumPools : Alloc(w, p)) \/ Pend(w) \/ Send(w)
  BY <1>1, <1>2 DEF Alloc, Pend, Send, GoOn, GoTo, Shape, Bystander
<1>3. CASE Free(w)
  BY <1>1, <1>3 DEF Free, GoTo, Shape, Bystander
<1>4. CASE DebugPrint(w) \/ ShowAlloc(w)
  BY <1>1, <1>4, CallStands DEF DebugPrint, ShowAlloc
<1>. QED
  BY <1>2, <1>3, <1>4 DEF Call

LEMMA OthersStand ==
  ASSUME Inv, Placed, NEW th \in Threads, Acts(th)
  PROVE  \A x \in Threads \ {th} : Bystander(x)
<1>. DEFINE t == TaskOf(th)
<1>1. Shape /\ t \in Tasks
  BY ThreadFacts DEF Inv
<1>2. CASE Take(th) \/ Give(th) \/ Store(th) \/ UnlockBuf(th)
  <2>1. UNCHANGED hand /\ pc[th] \notin {"rest", "report"}
    BY <1>2 DEF Take, Give, Store, UnlockBuf
  <2>2. \/ Finish(th) \/ (GoTo(th, "dequeue") /\ UNCHANGED <<at, back>>)
        \/ GoOn(th, "pend", at[th] + 1) /\ UNCHANGED back
        \/ GoTo(th, "load") /\ UNCHANGED <<at, back>>
    BY <1>2 DEF Take, Give, Store, UnlockBuf
  <2>3. CASE Finish(th)
    BY <2>1, <2>3, FinishStands
  <2>4. CASE ~ Finish(th)
    BY <1>1, <2>1, <2>2, <2>4 DEF GoOn, GoTo, Shape, Bystander
  <2>. QED
    BY <2>3, <2>4
<1>3. CASE Dequeue(th) \/ Enqueue(th)
  <2>1. UNCHANGED back /\ hand' = [hand EXCEPT ![th] = hand'[th]]
    BY <1>1, <1>3 DEF Dequeue, Enqueue, Shape
  <2>2. pc' = [pc EXCEPT ![th] = pc'[th]] /\ at' = [at EXCEPT ![th] = at'[th]]
    BY <1>1, <1>3 DEF Dequeue, Enqueue, GoOn, GoTo, Shape
  <2>. QED
    BY <1>1, <2>1, <2>2 DEF Shape, Bystander
<1>4. CASE Load(th)
  <2>1. th = Own(t) /\ pc[th] = "load" /\ UNCHANGED <<at, hand>>
    BY <1>4, StageFacts, ThreadFacts DEF Load
  <2>2. \/ GoTo(th, "store") /\ UNCHANGED back
        \/ CallLog(th, "unlockBuf")
    BY <1>4 DEF Load
  <2>. QED
    BY <1>1, <2>1, <2>2, CallStands DEF GoTo, Shape, Bystander
<1>5. CASE LockFree(th)
  <2>1. th = Own(t) /\ pc[th] = "lockFree" /\ at' = [at EXCEPT ![th] = PoolOf(hand[th])]
    BY <1>5, StageFacts, ThreadFacts DEF LockFree
  <2>2. ~ isFree[hand[th]]
    BY <2>1, NoneAssumption DEF Placed, Marked, WillPost, Inv, Holding
  <2>3. UNCHANGED hand /\ (CallLog(th, "post") \/ (GoTo(th, "post") /\ UNCHANGED back))
    BY <1>5, <2>2 DEF LockFree
  <2>4. \A x \in Threads \ {Own(t)} : at'[x] = at[x]
    BY <1>1, <2>1 DEF Shape
  <2>5. CASE CallLog(Own(t), "post")
    BY <1>1, <2>1, <2>3, <2>4, <2>5, CallStands
  <2>6. CASE GoTo(th, "post") /\ UNCHANGED back
    BY <1>1, <2>1, <2>3, <2>4, <2>6 DEF GoTo, Shape, Bystander
  <2>. QED
    BY <2>1, <2>3, <2>5, <2>6
<1>6. CASE \E w \in Workers : th = Own(w) /\ Call(w)
  BY <1>6, CallsStand
<1>7. CASE \E u \in Tasks : th = Log(u) /\ LockLog(u)
  <2>1. PICK u \in Tasks : th = Log(u) /\ LockLog(u)
    BY <1>7
  <2>2. UNCHANGED hand /\ pc[th] = "lockLog"
    BY <2>1 DEF LockLog
  <2>3. Finish(th) \/ (GoOn(th, "pend", DebugPool) /\ UNCHANGED back)
    BY <2>1 DEF LockLog, Lost
  <2>. QED
    BY <1>1, <2>2, <2>3, FinishStands, ZenonT(30) DEF GoOn, GoTo, Shape, Bystander
<1>. QED
  BY <1>2, <1>3, <1>4, <1>5, <1>6, <1>7 DEF Acts, Step

-----------------------------------------------------------------------------
(* bufMutex_.                                                               *)

\* Thread x holds bufMutex_: it frees a buffer, or shows the allocations.
Frees(x) == \/ pc[x] \in {"load", "store", "unlockBuf"}
            \/ pc[x] \in {"post", "give"} /\ at[x] \in Pools
            \/ ~ IsLog(x) /\ pc[x] = "report" /\ back[TaskOf(x)] # "rest"

Guarded == /\ bufMutex \in Tasks \union {None}
           /\ \A x \in Threads : Frees(x) => bufMutex = TaskOf(x)

LEMMA FreesIsOwn == ASSUME Inv, NEW x \in Threads, Frees(x) PROVE x = Own(TaskOf(x)) /\ ~ IsLog(x)
<1>1. \A t \in Tasks : Calling(t)
  BY DEF Inv
<1>. QED
  BY <1>1, StageFacts, ThreadFacts DEF Frees, Calling

LEMMA FreesOne ==
  ASSUME Inv, Guarded, NEW x \in Threads, NEW y \in Threads, Frees(x), Frees(y)
  PROVE  x = y
BY FreesIsOwn DEF Guarded

\* The mutex is taken by who starts to free and given back by who has freed.
LEMMA MutexMoves ==
  ASSUME Inv, Placed, NEW th \in Threads, Acts(th)
  PROVE  \/ bufMutex' = bufMutex /\ (Frees(th)' => Frees(th))
         \/ bufMutex' = None /\ Frees(th) /\ ~ Frees(th)'
         \/ bufMutex = None /\ bufMutex' = TaskOf(th)
<1>0. LogQueue \notin Pools /\ Inbox \notin Pools
  BY PoolsAssumption DEF LogQueue, Pools, Inbox
<1>1. /\ Shape /\ LogQueue \notin Pools /\ Inbox \notin Pools /\ th \in DOMAIN pc /\ th \in DOMAIN at
      /\ DOMAIN pc = Threads /\ DOMAIN at = Threads
  BY <1>0 DEF Inv, Shape
<1>2. CASE Take(th) \/ Give(th)
  <2>1. UNCHANGED <<bufMutex, hand>> /\ pc[th] \in {"pend", "give"}
    BY <1>2 DEF Take, Give
  <2>2. CASE Finish(th)
    BY <2>1, <2>2, FinishStands DEF Frees
  <2>3. CASE ~ Finish(th)
    BY <1>1, <1>2, <2>1, <2>3 DEF Take, Give, GoOn, GoTo, Frees
  <2>. QED
    BY <2>2, <2>3
<1>3. CASE Dequeue(th)
  <2>1. bufMutex' = bufMutex /\ pc'[th] \in {"stopped", "post", "lockFree", "rest"}
    BY <1>1, <1>3 DEF Dequeue, GoOn, GoTo, mutexes
  <2>2. pc'[th] # "stopped" => at'[th] = LogQueue
    BY <1>1, <1>3 DEF Dequeue, GoOn, GoTo
  <2>. QED
    BY <1>1, <2>1, <2>2 DEF Frees
<1>4. CASE Enqueue(th)
  <2>1. bufMutex' = bufMutex /\ pc[th] = "post" /\ pc'[th] \in {"give", "lockFree", "stopped"} /\ at' = at
    BY <1>1, <1>4 DEF Enqueue, GoTo, mutexes
  <2>. QED
    BY <2>1 DEF Frees
<1>5. CASE Load(th)
  BY <1>5 DEF Load, Frees, mutexes
<1>6. CASE Store(th) \/ UnlockBuf(th)
  <2>1. bufMutex' = None /\ Frees(th) /\ Finish(th) /\ UNCHANGED hand /\ pc[th] \in {"store", "unlockBuf"}
    BY <1>6 DEF Store, UnlockBuf, Frees
  <2>2. pc'[th] \in {"rest", "pend"}
    BY <2>1, FinishStands
  <2>. QED
    BY <2>1, <2>2 DEF Frees
<1>7. CASE LockFree(th)
  BY <1>7 DEF LockFree, Excluded
<1>8. CASE \E u \in Tasks : th = Log(u) /\ LockLog(u)
  <2>1. PICK u \in Tasks : th = Log(u) /\ LockLog(u)
    BY <1>8
  <2>2. bufMutex' = bufMutex /\ UNCHANGED hand /\ pc[th] = "lockLog"
    BY <2>1 DEF LockLog
  <2>3. pc'[th] \in {"rest", "pend"}
    BY <1>1, <2>1, <2>2, FinishStands DEF LockLog, Lost, GoOn, GoTo
  <2>. QED
    BY <2>2, <2>3 DEF Frees
<1>9. CASE \E w \in Workers : th = Own(w) /\ Call(w)
  <2>1. PICK w \in Workers : th = Own(w) /\ Call(w)
    BY <1>9
  <2>2. w \in Tasks /\ TaskOf(th) = w /\ pc[th] = "rest" /\ ~ IsLog(th)
    BY <2>1, ThreadFacts DEF Tasks, Call, Alloc, Pend, Send, Free, DebugPrint, ShowAlloc
  <2>3. CASE (\E p \in 1 .. NumPools : Alloc(w, p)) \/ Pend(w) \/ Send(w) \/ Free(w)
    <3>1. bufMutex' = bufMutex /\ pc'[th] \in {"pend", "dequeue", "post", "lockFree"}
      BY <1>1, <2>1, <2>3 DEF Alloc, Pend, Send, Free, GoOn, GoTo, mutexes
    <3>2. pc'[th] = "post" => at'[th] = Inbox
      BY <1>1, <2>1, <2>3 DEF Alloc, Pend, Send, Free, GoOn, GoTo
    <3>. QED
      BY <1>1, <3>1, <3>2 DEF Frees
  <2>4. CASE DebugPrint(w)
    <3>1. bufMutex' = bufMutex /\ UNCHANGED <<hand, at>> /\ CallLog(Own(w), "rest")
      BY <2>4 DEF DebugPrint, mutexes
    <3>2. pc'[th] = "report" /\ back' = [back EXCEPT ![w] = "rest"]
      BY <2>1, <2>2, <3>1, CallStands
    <3>. QED
      BY <1>1, <2>2, <3>1, <3>2 DEF Frees, Shape
  <2>5. CASE ShowAlloc(w)
    BY <2>2, <2>5 DEF ShowAlloc, Excluded
  <2>. QED
    BY <2>1, <2>3, <2>4, <2>5 DEF Call
<1>. QED
  BY <1>2, <1>3, <1>4, <1>5, <1>6, <1>7, <1>8, <1>9 DEF Acts, Step

LEMMA GuardedNext ==
  ASSUME Inv, Placed, Guarded, NEW th \in Threads, Acts(th)
  PROVE  Guarded'
<1>1. Shape /\ TaskOf(th) \in Tasks
  BY ThreadFacts DEF Inv
<1>2. ASSUME NEW x \in Threads, x # th, Frees(x)' PROVE Frees(x)
  <2>1. Bystander(x)
    BY <1>2, OthersStand
  <2>. QED
    BY <1>2, <2>1 DEF Bystander, Frees
<1>3. CASE bufMutex' = bufMutex /\ (Frees(th)' => Frees(th))
  BY <1>2, <1>3 DEF Guarded
<1>4. CASE bufMutex' = None /\ Frees(th) /\ ~ Frees(th)'
  BY <1>2, <1>4, FreesOne DEF Guarded
<1>5. CASE bufMutex = None /\ bufMutex' = TaskOf(th)
  <2>1. \A x \in Threads : ~ Frees(x)
    BY <1>5, ThreadFacts, NoneAssumption DEF Guarded
  <2>. QED
    BY <1>1, <1>2, <1>5, <2>1 DEF Guarded
<1>. QED
  BY <1>3, <1>4, <1>5, MutexMoves

LEMMA InitGuarded == Init => Guarded
BY ThreadFacts DEF Init, Guarded, Frees, Resting

-----------------------------------------------------------------------------
(* Where a buffer belongs.                                                  *)

\* What the workers share through their pools and their message queue.
AppBuffers == UNION {Range(PoolBuffers[p]) : p \in 1 .. NumPools}

\* The buffer that thread x posts belongs where it goes.
Bound(x) == WillPost(x) => /\ at[x] \in Pools => hand[x] \in Range(PoolBuffers[at[x]])
                           /\ at[x] = Inbox => hand[x] \in AppBuffers

\* A worker has buffers of the workers only, as it takes them from no other queue.
Worker(w) == /\ hand[Own(w)] \in AppBuffers \union {None}
             /\ pc[Own(w)] \in {"pend", "dequeue"} => at[Own(w)] \in (1 .. NumPools) \union {Inbox}

Homes == /\ \A p \in Pools : Range(queue[p]) \subseteq Range(PoolBuffers[p])
         /\ Range(queue[Inbox]) \subseteq AppBuffers
         /\ \A x \in Threads : Bound(x)
         /\ \A w \in Workers : Worker(w)

LEMMA QueueNames ==
  /\ Queues = Pools \union {Inbox, LogQueue} /\ Inbox \notin Pools /\ LogQueue \notin Pools
  /\ Inbox # LogQueue /\ 1 .. NumPools = Pools \ {DebugPool} /\ DebugPool \in Pools
<1>1. NumPools \in Nat
  BY PoolsAssumption
<1>2. 0 .. NumPools + 2 = 0 .. NumPools \union {NumPools + 1, NumPools + 2}
  BY <1>1
<1>. QED
  BY <1>1, <1>2 DEF Queues, Pools, Inbox, LogQueue, DebugPool

LEMMA InitHomes == Init => Homes
<1>. SUFFICES ASSUME Init PROVE Homes
  OBVIOUS
<1>1. /\ \A q \in Pools : queue[q] = PoolBuffers[q]
      /\ queue[Inbox] = <<>>
      /\ \A x \in Threads : hand[x] = None /\ pc[x] \in {"rest", "pend"}
      /\ \A w \in Workers : Own(w) \in Threads /\ pc[Own(w)] = "rest"
  BY QueueNames, ThreadFacts, NoneAssumption DEF Init, Resting, Tasks
<1>2. Range(<<>>) = {}
  BY DEF Range
<1>. QED
  BY <1>1, <1>2 DEF Homes, Bound, Worker, WillPost

LEMMA BoundKept ==
  ASSUME Inv, NEW x \in Threads, Bystander(x), Bound(x)
  PROVE  Bound(x)'
<1>1. at'[x] = at[x] /\ hand'[x] = hand[x]
  BY DEF Bystander
<1>2. back[TaskOf(x)] # "report"
  BY ThreadFacts DEF Inv, Shape
<1>3. WillPost(x)' => WillPost(x)
  BY <1>2 DEF Bystander, WillPost
<1>. QED
  BY <1>1, <1>3 DEF Bound

\* A thread that will not post what does not belong there, with the others as
\* they were.
LEMMA HomesKept ==
  ASSUME Inv, Placed, Homes, NEW th \in Threads, Acts(th),
         \A q \in Queues : Range(queue'[q]) \subseteq Range(queue[q]),
         Bound(th)', \A w \in Workers : th = Own(w) => Worker(w)'
  PROVE  Homes'
<1>1. ASSUME NEW x \in Threads PROVE Bound(x)'
  <2>1. CASE x # th
    <3>1. Bystander(x)
      BY <2>1, OthersStand
    <3>. QED
      BY <3>1, BoundKept DEF Homes
  <2>. QED
    BY <2>1
<1>2. ASSUME NEW w \in Workers PROVE Worker(w)'
  <2>1. CASE Own(w) # th
    <3>1. Bystander(Own(w)) /\ ~ IsLog(Own(w)) /\ TaskOf(Own(w)) \in Tasks /\ Shape
      BY <2>1, OthersStand, ThreadFacts DEF Tasks, Inv
    <3>2. back[TaskOf(Own(w))] \in {"rest", "post", "unlockBuf"}
      BY <3>1 DEF Shape
    <3>. QED
      BY <3>1, <3>2 DEF Homes, Bystander, Worker
  <2>. QED
    BY <2>1
<1>. QED
  BY <1>1, <1>2, QueueNames DEF Homes

LEMMA HomesQuiet ==
  ASSUME Inv, Placed, Homes, NEW th \in Threads,
         \/ Take(th) \/ Give(th) \/ Load(th) \/ Store(th) \/ UnlockBuf(th)
         \/ \E u \in Tasks : th = Log(u) /\ LockLog(u)
  PROVE  Homes'
<1>1. Shape /\ UNCHANGED <<queue, hand>> /\ Acts(th)
  BY DEF Take, Give, Load, Store, UnlockBuf, LockLog, messages, Inv, Acts, Step
<1>2. CASE Finish(th) /\ ~ Load(th)
  <2>1. pc[th] \notin {"rest", "report"}
    BY <1>2 DEF Take, Give, Store, UnlockBuf, LockLog
  <2>2. pc'[th] \in {"rest", "pend"} /\ (pc'[th] = "pend" => th = Own(Printer))
    BY <1>1, <1>2, <2>1, FinishStands
  <2>3. ~ WillPost(th)'
    BY <2>2 DEF WillPost
  <2>4. \A w \in Workers : th = Own(w) => Worker(w)'
    BY <1>1, <2>2, ThreadFacts, NoneAssumption DEF Homes, Worker, Tasks
  <2>. QED
    BY <1>1, <2>3, <2>4, HomesKept DEF Bound
<1>3. CASE Load(th)
  <2>1. th = Own(TaskOf(th)) /\ pc[th] = "load" /\ TaskOf(th) \in Tasks
    BY <1>3, StageFacts, ThreadFacts DEF Load
  <2>2. \/ CallLog(th, "unlockBuf") \/ GoTo(th, "store")
    BY <1>3 DEF Load
  <2>3. CASE CallLog(th, "unlockBuf")
    <3>1. UNCHANGED at
      BY <1>3 DEF Load
    <3>2. pc'[th] = "report" /\ back' = [back EXCEPT ![TaskOf(th)] = "unlockBuf"]
      BY <1>1, <2>1, <2>3, <3>1, CallStands
    <3>3. ~ WillPost(th)'
      BY <1>1, <2>1, <3>2 DEF WillPost, Shape
    <3>. QED
      BY <1>1, <3>2, <3>3, HomesKept DEF Bound, Worker, Homes
  <2>4. CASE GoTo(th, "store")
    <3>1. pc'[th] = "store"
      BY <1>1, <2>4 DEF GoTo, Shape
    <3>. QED
      BY <1>1, <3>1, HomesKept DEF Bound, WillPost, Worker, Homes
  <2>. QED
    BY <2>2, <2>3, <2>4
<1>4. CASE Take(th) /\ ~ Finish(th)
  <2>1. CASE pc' = [pc EXCEPT ![th] = "dequeue"] /\ UNCHANGED at
    <3>1. pc'[th] = "dequeue" /\ at'[th] = at[th] /\ pc[th] = "pend"
      BY <1>1, <1>4, <2>1 DEF Shape, Take
    <3>. QED
      BY <1>1, <3>1, HomesKept DEF Bound, WillPost, Worker, Homes
  <2>2. CASE /\ pc' = [pc EXCEPT ![th] = "pend"] /\ at' = [at EXCEPT ![th] = at[th] + 1]
             /\ at[th] \in 1 .. NumPools - 1
    <3>1. pc'[th] = "pend" /\ at'[th] \in 1 .. NumPools
      BY <1>1, <2>2, PoolsAssumption DEF Shape
    <3>. QED
      BY <1>1, <3>1, HomesKept DEF Bound, WillPost, Worker, Homes
  <2>. QED
    BY <1>4, <2>1, <2>2 DEF Take, GoOn, GoTo
<1>5. CASE Give(th) /\ ~ Finish(th)
  <2>1. pc'[th] = "load"
    BY <1>1, <1>5 DEF Give, GoTo, Shape
  <2>. QED
    BY <1>1, <2>1, HomesKept DEF Bound, WillPost, Worker, Homes
<1>6. CASE (\E u \in Tasks : th = Log(u) /\ LockLog(u)) /\ ~ Finish(th)
  <2>1. PICK u \in Tasks : th = Log(u) /\ LockLog(u)
    BY <1>6
  <2>2. pc'[th] = "pend"
    BY <1>1, <1>6, <2>1 DEF LockLog, Lost, GoOn, GoTo, Shape
  <2>3. \A w \in Workers : th # Own(w)
    BY <2>1, ThreadFacts DEF Tasks
  <2>. QED
    BY <1>1, <2>2, <2>3, HomesKept DEF Bound, WillPost
<1>. QED
  BY <1>2, <1>3, <1>4, <1>5, <1>6 DEF Store, UnlockBuf

LEMMA HomesCalls ==
  ASSUME Inv, Placed, Homes, NEW w \in Workers, Call(w)
  PROVE  Homes'
<1>. DEFINE th == Own(w)
<1>1. /\ th \in Threads /\ w \in Tasks /\ ~ IsLog(th) /\ TaskOf(th) = w
      /\ pc[th] = "rest" /\ Shape /\ UNCHANGED <<queue, hand>> /\ Acts(th)
  BY ThreadFacts
  DEF Call, Alloc, Pend, Send, Free, DebugPrint, ShowAlloc, messages, Tasks, Inv, Acts
<1>2. \A v \in Workers : th = Own(v) => v = w
  BY ThreadFacts DEF Tasks
<1>3. CASE \E p \in 1 .. NumPools : Alloc(w, p)
  <2>1. pc'[th] = "pend" /\ at'[th] \in 1 .. NumPools
    BY <1>1, <1>3 DEF Alloc, GoOn, GoTo, Shape
  <2>. QED
    BY <1>1, <1>2, <2>1, HomesKept DEF Bound, WillPost, Worker, Homes
<1>4. CASE Pend(w)
  <2>1. pc'[th] = "dequeue" /\ at'[th] = Inbox
    BY <1>1, <1>4 DEF Pend, GoOn, GoTo, Shape
  <2>. QED
    BY <1>1, <1>2, <2>1, HomesKept DEF Bound, WillPost, Worker, Homes
<1>5. CASE Send(w)
  <2>1. pc'[th] = "post" /\ at'[th] = Inbox /\ hand[th] \in AppBuffers
    BY <1>1, <1>5 DEF Send, GoOn, GoTo, Shape, Homes, Worker
  <2>. QED
    BY <1>1, <1>2, <2>1, QueueNames, HomesKept DEF Bound, WillPost, Worker, Homes
<1>6. CASE Free(w)
  <2>1. pc'[th] = "lockFree"
    BY <1>1, <1>6 DEF Free, GoTo, Shape
  <2>. QED
    BY <1>1, <1>2, <2>1, HomesKept DEF Bound, WillPost, Worker, Homes
<1>7. CASE DebugPrint(w) \/ ShowAlloc(w)
  <2>1. /\ UNCHANGED at
        /\ CallLog(Own(w), "rest") \/ CallLog(Own(w), "unlockBuf")
    BY <1>7 DEF DebugPrint, ShowAlloc
  <2>2. pc'[th] = "report" /\ \E n \in {"rest", "unlockBuf"} : back' = [back EXCEPT ![w] = n]
    BY <1>1, <2>1, CallStands
  <2>3. ~ WillPost(th)'
    BY <1>1, <2>2 DEF WillPost, Shape
  <2>. QED
    BY <1>1, <1>2, <2>2, <2>3, HomesKept DEF Bound, Worker, Homes
<1>. QED
  BY <1>3, <1>4, <1>5, <1>6, <1>7 DEF Call

LEMMA HomesNext ==
  ASSUME Inv, Placed, Homes, NEW th \in Threads, Acts(th)
  PROVE  Homes'
<1>1. Shape /\ \A q \in Queues : queue[q] \in Seq(Buffers)
  BY DEF Inv, Shape
<1>2. CASE Dequeue(th)
  <2>. DEFINE q == at[th]  b == Head(queue[q])
  <2>1. /\ q \in Queues /\ queue[q] # <<>> /\ queue[q] \in Seq(Buffers)
        /\ hand' = [hand EXCEPT ![th] = b] /\ queue' = [queue EXCEPT ![q] = Tail(@)]
    BY <1>2, DequeuePlaced
  <2>2. Range(Tail(queue[q])) \subseteq Range(queue[q]) /\ b \in Range(queue[q])
    BY <2>1, TailFacts DEF Placed, Apart
  <2>3. \A r \in Queues : Range(queue'[r]) \subseteq Range(queue[r])
    BY <1>1, <2>1, <2>2 DEF Shape
  <2>4. pc'[th] \in {"post", "lockFree", "rest"} /\ at'[th] = LogQueue /\ pc[th] = "dequeue"
    BY <1>1, <1>2, <2>1 DEF Dequeue, GoOn, GoTo, Shape
  <2>5. Bound(th)'
    BY <2>4, QueueNames DEF Bound, WillPost
  <2>6. ASSUME NEW w \in Workers, th = Own(w) PROVE Worker(w)'
    <3>1. q \in (1 .. NumPools) \union {Inbox}
      BY <2>4, <2>6 DEF Homes, Worker
    <3>2. b \in AppBuffers
      BY <2>2, <3>1, QueueNames DEF Homes, AppBuffers
    <3>. QED
      BY <1>1, <2>1, <2>4, <2>6, <3>2 DEF Worker, Shape
  <2>. QED
    BY <2>3, <2>5, <2>6, HomesKept
<1>3. CASE Enqueue(th)
  <2>1. pc[th] = "post" /\ pc'[th] \in {"give", "lockFree", "stopped"} /\ at' = at
    BY <1>1, <1>3 DEF Enqueue, GoTo, Shape
  <2>2. Bound(th)'
    BY <2>1 DEF Bound, WillPost
  <2>3. CASE UNCHANGED <<queue, hand>>
    BY <2>1, <2>2, <2>3, HomesKept DEF Worker, Homes
  <2>4. CASE ~ UNCHANGED <<queue, hand>>
    <3>. DEFINE q == at[th]  b == hand[th]
    <3>1. /\ q \in Queues /\ b \in Buffers /\ queue[q] \in Seq(Buffers)
          /\ hand' = [hand EXCEPT ![th] = None] /\ queue' = [queue EXCEPT ![q] = Append(@, b)]
      BY <1>3, <2>4, EnqueuePlaced
    <3>2. Range(Append(queue[q], b)) = Range(queue[q]) \union {b}
      BY <3>1, AppendFacts DEF Placed, Apart
    <3>3. \A r \in Queues : Range(queue'[r]) = Range(queue[r]) \union (IF r = q THEN {b} ELSE {})
      BY <1>1, <3>1, <3>2 DEF Shape
    <3>4. Bound(th) /\ WillPost(th)
      BY <2>1 DEF Homes, WillPost
    <3>5. /\ \A p \in Pools : Range(queue'[p]) \subseteq Range(PoolBuffers[p])
          /\ Range(queue'[Inbox]) \subseteq AppBuffers
      BY <3>3, <3>4, QueueNames DEF Homes, Bound
    <3>6. ASSUME NEW x \in Threads, x # th PROVE Bound(x)'
      <4>1. Bystander(x)
        BY <3>6, OthersStand
      <4>. QED
        BY <4>1, BoundKept DEF Homes
    <3>7. ASSUME NEW w \in Workers PROVE Worker(w)'
      <4>1. Own(w) \in Threads /\ w \in Tasks
        BY ThreadFacts DEF Tasks
      <4>2. CASE Own(w) = th
        BY <1>1, <2>1, <3>1, <4>2 DEF Worker, Shape
      <4>3. CASE Own(w) # th
        <5>1. Bystander(Own(w)) /\ TaskOf(Own(w)) = w /\ ~ IsLog(Own(w)) /\ back[w] \in {"rest", "post", "unlockBuf"}
          BY <1>1, <4>1, <4>3, OthersStand, ThreadFacts DEF Shape
        <5>. QED
          BY <5>1 DEF Homes, Bystander, Worker
      <4>. QED
        BY <4>2, <4>3
    <3>. QED
      BY <2>2, <3>5, <3>6, <3>7 DEF Homes
  <2>. QED
    BY <2>3, <2>4
<1>4. CASE LockFree(th)
  <2>. DEFINE b == hand[th]
  <2>1. /\ pc[th] = "lockFree" /\ b \in Buffers /\ b # None /\ UNCHANGED queue
        /\ at' = [at EXCEPT ![th] = PoolOf(b)]
    BY <1>4, NoneAssumption DEF LockFree, Inv, Holding
  <2>2. ~ isFree[b]
    BY <2>1 DEF Placed, Marked, WillPost
  <2>3. UNCHANGED hand
    BY <1>4, <2>2 DEF LockFree
  <2>4. PoolOf(b) \in Pools /\ b \in Range(PoolBuffers[PoolOf(b)])
    BY <2>1 DEF PoolOf, Buffers
  <2>5. at'[th] = PoolOf(b)
    BY <1>1, <2>1 DEF Shape
  <2>6. Bound(th)'
    BY <2>3, <2>4, <2>5, QueueNames DEF Bound
  <2>7. pc'[th] \in {"report", "post"}
    <3>1. th = Own(TaskOf(th)) /\ TaskOf(th) \in Tasks /\ ~ IsLog(th)
      BY <2>1, StageFacts, ThreadFacts
    <3>2. Log(TaskOf(th)) \in Threads /\ Log(TaskOf(th)) # th
      BY <3>1, ThreadFacts
    <3>. QED
      BY <1>1, <1>4, <2>2, <3>1, <3>2 DEF LockFree, CallLog, GoTo, Shape
  <2>8. \A w \in Workers : th = Own(w) => Worker(w)'
    BY <2>3, <2>7 DEF Homes, Worker
  <2>. QED
    BY <2>1, <2>6, <2>8, HomesKept
<1>5. CASE \E w \in Workers : th = Own(w) /\ Call(w)
  BY <1>5, HomesCalls
<1>. QED
  BY <1>2, <1>3, <1>4, <1>5, HomesQuiet DEF Acts, Step

-----------------------------------------------------------------------------
(* The statistics.                                                          *)

\* What is taken from pool p, and who is giving a buffer back to it.
Out(p)       == {b \in Buffers : b \in Range(PoolBuffers[p]) /\ b \notin Range(queue[p])}
Returning(p) == {x \in Threads : pc[x] \in {"give", "load", "store"} /\ at[x] = p}

Below(p) == currAlloc[p] <= Cardinality(Out(p)) + Cardinality(Returning(p))

\* What BM_Free has read of the count is not above it: whoever else decrements
\* it needs the mutex.
Counted ==
  /\ currAlloc \in [Pools -> Nat] /\ loaded \in [Threads -> Nat]
  /\ \A x \in Threads : pc[x] \in {"load", "store"} => at[x] \in Pools
  /\ \A x \in Threads : pc[x] = "store" => loaded[x] # 0 /\ loaded[x] <= currAlloc[at[x]]
  /\ \A p \in Pools : Below(p)

LEMMA BuffersFinite == IsFiniteSet(Buffers)
<1>. DEFINE Ranges == {Range(PoolBuffers[p]) : p \in Pools}
<1>1. \A p \in Pools : IsFiniteSet(Range(PoolBuffers[p]))
  <2>. SUFFICES ASSUME NEW p \in Pools PROVE IsFiniteSet(Range(PoolBuffers[p]))
    OBVIOUS
  <2>. DEFINE s == PoolBuffers[p]
  <2>1. s \in Seq(Buffers) /\ Len(s) \in Nat /\ DOMAIN s = 1 .. Len(s)
    BY PoolsAssumption
  <2>2. IsFiniteSet(1 .. Len(s))
    BY <2>1, FS_Interval
  <2>3. s \in Surjection(1 .. Len(s), Range(s))
    BY <2>1 DEF Surjection, Range
  <2>. QED
    BY <2>2, <2>3, FS_Surjection
<1>2. IsFiniteSet(Ranges)
  <2>. DEFINE f == [p \in Pools |-> Range(PoolBuffers[p])]
  <2>1. IsFiniteSet(Pools)
    BY PoolsAssumption, FS_Interval DEF Pools
  <2>2. f \in Surjection(Pools, Ranges)
    BY DEF Surjection
  <2>. QED
    BY <2>1, <2>2, FS_Surjection
<1>3. Buffers = UNION Ranges
  BY DEF Buffers
<1>. QED
  BY <1>1, <1>2, <1>3, FS_UNION

LEMMA OutReturning ==
  ASSUME NEW p \in Pools
  PROVE  /\ IsFiniteSet(Out(p)) /\ IsFiniteSet(Returning(p))
         /\ IsFiniteSet(Out(p)') /\ IsFiniteSet(Returning(p)')
         /\ Cardinality(Out(p)) \in Nat /\ Cardinality(Returning(p)) \in Nat
         /\ Cardinality(Out(p)') \in Nat /\ Cardinality(Returning(p)') \in Nat
<1>1. /\ Out(p) \subseteq Buffers /\ Out(p)' \subseteq Buffers
      /\ Returning(p) \subseteq Threads /\ Returning(p)' \subseteq Threads
  BY DEF Out, Returning
<1>2. /\ IsFiniteSet(Out(p)) /\ IsFiniteSet(Returning(p))
      /\ IsFiniteSet(Out(p)') /\ IsFiniteSet(Returning(p)')
  BY <1>1, BuffersFinite, ThreadsFinite, FS_Subset
<1>. QED
  BY <1>2, FS_CardinalityType

\* The steps that change one side of the count, or both.
LEMMA BelowKept ==
  ASSUME NEW p \in Pools, Below(p), currAlloc[p] \in Nat, currAlloc'[p] \in Nat, NEW b, NEW th,
         \/ /\ currAlloc'[p] = currAlloc[p]
            /\ Out(p)' = Out(p) /\ Returning(p)' = Returning(p)
         \/ /\ currAlloc'[p] = currAlloc[p] + 1
            /\ b \notin Out(p) /\ Out(p)' = Out(p) \union {b} /\ Returning(p)' = Returning(p)
         \/ /\ currAlloc'[p] = currAlloc[p] /\ Out(p)' = Out(p) \ {b}
            /\ th \notin Returning(p) /\ Returning(p)' = Returning(p) \union {th}
         \/ /\ currAlloc'[p] < currAlloc[p] \/ currAlloc'[p] = 0
            /\ Out(p)' = Out(p) /\ Returning(p)' = Returning(p) \ {th}
  PROVE  Below(p)'
<1>. DEFINE o == Cardinality(Out(p))   r == Cardinality(Returning(p))   c == currAlloc[p]
            o1 == Cardinality(Out(p)') r1 == Cardinality(Returning(p)') c1 == currAlloc'[p]
<1>1. o \in Nat /\ r \in Nat /\ o1 \in Nat /\ r1 \in Nat
  BY OutReturning
<1>2. Cardinality(Out(p) \union {b}) = IF b \in Out(p) THEN o ELSE o + 1
  BY OutReturning, FS_AddElement
<1>3. Cardinality(Out(p) \ {b}) = IF b \in Out(p) THEN o - 1 ELSE o
  BY OutReturning, FS_RemoveElement
<1>4. Cardinality(Returning(p) \union {th}) = IF th \in Returning(p) THEN r ELSE r + 1
  BY OutReturning, FS_AddElement
<1>5. Cardinality(Returning(p) \ {th}) = IF th \in Returning(p) THEN r - 1 ELSE r
  BY OutReturning, FS_RemoveElement
<1>6. c <= o + r
  BY DEF Below
<1>7. CASE currAlloc'[p] = currAlloc[p] /\ Out(p)' = Out(p) /\ Returning(p)' = Returning(p)
  BY <1>6, <1>7 DEF Below
<1>8. CASE /\ currAlloc'[p] = currAlloc[p] + 1
           /\ b \notin Out(p) /\ Out(p)' = Out(p) \union {b} /\ Returning(p)' = Returning(p)
  <2>1. c1 = c + 1 /\ o1 = o + 1 /\ r1 = r
    BY <1>2, <1>8
  <2>. QED
    BY <1>1, <1>6, <2>1 DEF Below
<1>9. CASE /\ currAlloc'[p] = currAlloc[p] /\ Out(p)' = Out(p) \ {b}
           /\ th \notin Returning(p) /\ Returning(p)' = Returning(p) \union {th}
  <2>1. c1 = c /\ r1 = r + 1
    BY <1>4, <1>9
  <2>2. o1 = IF b \in Out(p) THEN o - 1 ELSE o
    BY <1>3, <1>9
  <2>. QED
    BY <1>1, <1>6, <2>1, <2>2 DEF Below
<1>10. CASE /\ currAlloc'[p] < currAlloc[p] \/ currAlloc'[p] = 0
            /\ Out(p)' = Out(p) /\ Returning(p)' = Returning(p) \ {th}
  <2>1. o1 = o
    BY <1>10
  <2>2. r1 = IF th \in Returning(p) THEN r - 1 ELSE r
    BY <1>5, <1>10
  <2>. QED
    BY <1>1, <1>6, <1>10, <2>1, <2>2 DEF Below
<1>. QED
  BY <1>7, <1>8, <1>9, <1>10

LEMMA InitCounted == Init => Counted
<1>. SUFFICES ASSUME Init PROVE Counted
  OBVIOUS
<1>1. \A x \in Threads : pc[x] \in {"rest", "pend"}
  BY DEF Init, Resting
<1>2. \A p \in Pools : currAlloc[p] = 0
  BY DEF Init
<1>3. \A p \in Pools : Below(p)
  BY <1>2, OutReturning DEF Below
<1>. QED
  BY <1>1, <1>3 DEF Init, Counted

\* The part of the threads that do not act.
LEMMA OthersReturn ==
  ASSUME Inv, Placed, NEW th \in Threads, Acts(th), NEW x \in Threads \ {th}
  PROVE  /\ \A s \in {"give", "load", "store"} : pc'[x] = s <=> pc[x] = s
         /\ at'[x] = at[x]
<1>1. Bystander(x) /\ TaskOf(x) \in Tasks /\ Shape
  BY OthersStand, ThreadFacts DEF Inv
<1>2. back[TaskOf(x)] \in {"rest", "post", "unlockBuf"}
  BY <1>1 DEF Shape
<1>. QED
  BY <1>1, <1>2 DEF Bystander

LEMMA ReturningIs ==
  ASSUME Inv, Placed, NEW th \in Threads, Acts(th), NEW p \in Pools
  PROVE  /\ (th \in Returning(p)' <=> th \in Returning(p)) => Returning(p)' = Returning(p)
         /\ th \in Returning(p)' => Returning(p)' = Returning(p) \union {th}
         /\ th \notin Returning(p)' => Returning(p)' = Returning(p) \ {th}
<1>1. \A x \in Threads \ {th} : x \in Returning(p)' <=> x \in Returning(p)
  BY OthersReturn DEF Returning
<1>2. Returning(p) \subseteq Threads /\ Returning(p)' \subseteq Threads
  BY DEF Returning
<1>. QED
  BY <1>1, <1>2

\* Steps that touch neither a pool nor a count.
LEMMA CountedQuiet ==
  ASSUME Inv, Placed, Counted, NEW th \in Threads, Acts(th),
         UNCHANGED <<currAlloc, loaded>>, \A p \in Pools : queue'[p] = queue[p],
         \/ /\ pc[th] \notin {"give", "load", "store"} \/ at[th] \notin Pools
            /\ pc'[th] \notin {"give", "load", "store"} \/ (pc'[th] = "give" /\ at'[th] \notin Pools)
         \/ pc[th] = "give" /\ pc'[th] = "load" /\ at'[th] = at[th] /\ at[th] \in Pools
  PROVE  Counted'
<1>1. ASSUME NEW p \in Pools PROVE Below(p)'
  <2>1. Out(p)' = Out(p)
    BY DEF Out
  <2>2. th \in Returning(p)' <=> th \in Returning(p)
    BY DEF Returning
  <2>3. Returning(p)' = Returning(p)
    BY <2>2, ReturningIs
  <2>. QED
    BY <2>1, <2>3, BelowKept DEF Counted
<1>2. ASSUME NEW x \in Threads, x # th, pc'[x] \in {"load", "store"}
      PROVE  /\ at'[x] \in Pools
             /\ pc'[x] = "store" => loaded'[x] # 0 /\ loaded'[x] <= currAlloc'[at'[x]]
  BY <1>2, OthersReturn DEF Counted
<1>. QED
  BY <1>1, <1>2 DEF Counted

LEMMA CountedMoves ==
  ASSUME Inv, Placed, Homes, Counted, NEW th \in Threads, Dequeue(th) \/ Enqueue(th)
  PROVE  Counted'
<1>1. Shape /\ Acts(th) /\ Pools \subseteq Queues
  BY StageFacts DEF Inv, Acts, Step
<1>. DEFINE q == at[th]
<1>2. CASE Dequeue(th)
  <2>. DEFINE b == Head(queue[q])
  <2>1. /\ q \in Queues /\ queue[q] # <<>> /\ queue[q] \in Seq(Buffers)
        /\ queue' = [queue EXCEPT ![q] = Tail(@)]
    BY <1>2, DequeuePlaced
  <2>2. /\ Range(Tail(queue[q])) = Range(queue[q]) \ {b} /\ b \in Range(queue[q]) /\ b \in Buffers
    BY <2>1, TailFacts DEF Placed, Apart
  <2>3. \A r \in Queues : queue'[r] = IF r = q THEN Tail(queue[r]) ELSE queue[r]
    BY <1>1, <2>1 DEF Shape
  <2>4. pc[th] = "dequeue" /\ pc'[th] \in {"post", "lockFree", "rest"} /\ loaded' = loaded
    BY <1>1, <1>2, <2>1 DEF Dequeue, GoOn, GoTo, Shape
  <2>5. CASE q \notin Pools
    <3>1. currAlloc' = currAlloc
      BY <1>2, <2>1, <2>5 DEF Dequeue
    <3>2. \A p \in Pools : queue'[p] = queue[p]
      BY <1>1, <2>3, <2>5
    <3>. QED
      BY <1>1, <2>4, <3>1, <3>2, CountedQuiet
  <2>6. CASE q \in Pools
    <3>1. currAlloc' = [currAlloc EXCEPT ![q] = @ + 1]
      BY <1>2, <2>1, <2>6 DEF Dequeue
    <3>2. \A p \in Pools : currAlloc'[p] = IF p = q THEN currAlloc[p] + 1 ELSE currAlloc[p]
      BY <3>1 DEF Counted
    <3>3. b \in Range(PoolBuffers[q])
      BY <2>2, <2>6 DEF Homes
    <3>4. ASSUME NEW p \in Pools PROVE Below(p)'
      <4>1. th \notin Returning(p) /\ th \notin Returning(p)'
        BY <2>4 DEF Returning
      <4>2. Returning(p)' = Returning(p)
        BY <1>1, <4>1, ReturningIs
      <4>3. p # q => Out(p)' = Out(p)
        BY <1>1, <2>3 DEF Out
      <4>4. p = q => b \notin Out(p) /\ Out(p)' = Out(p) \union {b}
        <5>1. ASSUME p = q PROVE Range(queue'[p]) = Range(queue[p]) \ {b}
          BY <1>1, <2>2, <2>3, <5>1
        <5>. QED
          BY <2>2, <3>3, <5>1 DEF Out
      <4>. QED
        BY <3>2, <4>2, <4>3, <4>4, BelowKept, SMTT(30) DEF Counted
    <3>5. currAlloc' \in [Pools -> Nat]
      <4>1. currAlloc \in [Pools -> Nat] /\ currAlloc[q] + 1 \in Nat
        BY <2>6 DEF Counted
      <4>. QED
        BY <3>1, <4>1
    <3>6. ASSUME NEW x \in Threads, pc'[x] \in {"load", "store"}
          PROVE  /\ at'[x] \in Pools
                 /\ pc'[x] = "store" => loaded'[x] # 0 /\ loaded'[x] <= currAlloc'[at'[x]]
      <4>1. x # th
        BY <2>4, <3>6
      <4>2. pc'[x] = pc[x] /\ at'[x] = at[x]
        BY <1>1, <3>6, <4>1, OthersReturn
      <4>3. at[x] \in Pools /\ currAlloc[at[x]] \in Nat /\ loaded[x] \in Nat
        BY <3>6, <4>2 DEF Counted
      <4>4. currAlloc'[at[x]] \in Nat /\ currAlloc'[at[x]] >= currAlloc[at[x]]
        BY <3>2, <3>5, <4>3
      <4>. QED
        BY <2>4, <3>6, <4>2, <4>3, <4>4 DEF Counted
    <3>. QED
      BY <2>4, <3>4, <3>5, <3>6 DEF Counted
  <2>. QED
    BY <2>5, <2>6
<1>3. CASE Enqueue(th)
  <2>. DEFINE b == hand[th]
  <2>1. /\ pc[th] = "post" /\ pc'[th] \in {"give", "lockFree", "stopped"} /\ at' = at
        /\ UNCHANGED <<currAlloc, loaded>>
    BY <1>1, <1>3 DEF Enqueue, GoTo, Shape
  <2>2. CASE ~ (Len(queue[q]) < Room(q))
    <3>1. UNCHANGED queue /\ pc'[th] # "give"
      BY <1>1, <1>3, <2>2 DEF Enqueue, GoTo, Shape
    <3>. QED
      BY <1>1, <2>1, <3>1, CountedQuiet
  <2>3. CASE Len(queue[q]) < Room(q)
    <3>1. /\ queue' = [queue EXCEPT ![q] = Append(@, b)] /\ pc'[th] = "give"
          /\ q \in Queues /\ b \in Buffers /\ queue[q] \in Seq(Buffers)
      BY <1>1, <1>3, <2>3 DEF Enqueue, Enqueued, GoTo, Inv, Shape, Holding, WillPost
    <3>2. Range(Append(queue[q], b)) = Range(queue[q]) \union {b}
      BY <1>1, <3>1, AppendFacts DEF Placed, Apart
    <3>3. \A r \in Queues : queue'[r] = IF r = q THEN Append(queue[r], b) ELSE queue[r]
      BY <1>1, <3>1 DEF Shape
    <3>4. CASE q \notin Pools
      <4>1. \A p \in Pools : queue'[p] = queue[p]
        BY <1>1, <3>3, <3>4
      <4>. QED
        BY <1>1, <2>1, <3>1, <3>4, <4>1, CountedQuiet
    <3>5. CASE q \in Pools
      <4>1. ASSUME NEW p \in Pools PROVE Below(p)'
        <5>1. th \notin Returning(p) /\ (th \in Returning(p)' <=> p = q)
          BY <2>1, <3>1 DEF Returning
        <5>2. p # q => Returning(p)' = Returning(p) /\ Out(p)' = Out(p)
          BY <1>1, <3>3, <5>1, ReturningIs DEF Out
        <5>3. p = q => Returning(p)' = Returning(p) \union {th} /\ Out(p)' = Out(p) \ {b}
          <6>1. ASSUME p = q PROVE Range(queue'[p]) = Range(queue[p]) \union {b}
            BY <1>1, <3>2, <3>3, <6>1
          <6>. QED
            BY <1>1, <5>1, <6>1, ReturningIs DEF Out
        <5>. QED
          BY <2>1, <5>1, <5>2, <5>3, BelowKept DEF Counted
      <4>2. \A x \in Threads : pc'[x] \in {"load", "store"} => x # th /\ pc'[x] = pc[x] /\ at'[x] = at[x]
        BY <1>1, <3>1, OthersReturn
      <4>. QED
        BY <2>1, <4>1, <4>2 DEF Counted
    <3>. QED
      BY <3>4, <3>5
  <2>. QED
    BY <2>2, <2>3
<1>. QED
  BY <1>2, <1>3

\* BM_Free reads the count, or finds it zero, and writes back one less.
LEMMA CountedFrees ==
  ASSUME Inv, Placed, Guarded, Counted, NEW th \in Threads, Load(th) \/ Store(th)
  PROVE  Counted'
<1>. DEFINE q == at[th]
<1>1. Shape /\ Acts(th) /\ UNCHANGED <<queue, hand>> /\ Pools \subseteq Queues
      /\ q \in Pools /\ currAlloc[q] \in Nat /\ \A p \in Pools : Out(p)' = Out(p)
  BY StageFacts DEF Load, Store, Inv, Acts, Step, messages, Counted, Out
<1>2. ASSUME NEW x \in Threads, x # th, pc'[x] \in {"load", "store"}
      PROVE  pc'[x] = pc[x] /\ at'[x] = at[x] /\ at[x] \in Pools
  BY <1>1, <1>2, OthersReturn DEF Counted
<1>3. CASE Load(th) /\ currAlloc[q] # 0
  <2>1. /\ pc[th] = "load" /\ pc'[th] = "store" /\ at' = at /\ currAlloc' = currAlloc
        /\ loaded' = [loaded EXCEPT ![th] = currAlloc[q]]
    BY <1>1, <1>3 DEF Load, Positive, GoTo, Shape
  <2>2. ASSUME NEW p \in Pools PROVE Below(p)'
    <3>1. th \in Returning(p)' <=> th \in Returning(p)
      BY <2>1 DEF Returning
    <3>2. Returning(p)' = Returning(p)
      BY <1>1, <3>1, ReturningIs
    <3>. QED
      BY <1>1, <2>1, <3>2, BelowKept DEF Counted
  <2>3. loaded' \in [Threads -> Nat] /\ loaded'[th] = currAlloc[q]
        /\ \A x \in Threads : x # th => loaded'[x] = loaded[x]
    BY <1>1, <2>1 DEF Counted
  <2>4. ASSUME NEW x \in Threads, pc'[x] \in {"load", "store"}
        PROVE  /\ at'[x] \in Pools
               /\ pc'[x] = "store" => loaded'[x] # 0 /\ loaded'[x] <= currAlloc'[at'[x]]
    <3>1. CASE x = th
      BY <1>1, <1>3, <2>1, <2>3, <3>1
    <3>2. CASE x # th
      BY <1>2, <2>1, <2>3, <2>4, <3>2 DEF Counted
    <3>. QED
      BY <3>1, <3>2
  <2>. QED
    BY <2>1, <2>2, <2>3, <2>4 DEF Counted
<1>4. CASE Load(th) /\ currAlloc[q] = 0
  <2>1. /\ th = Own(TaskOf(th)) /\ pc[th] = "load" /\ TaskOf(th) \in Tasks
        /\ CallLog(th, "unlockBuf") /\ UNCHANGED <<at, loaded, currAlloc>>
    BY <1>4, StageFacts, ThreadFacts DEF Load, Positive
  <2>2. pc'[th] = "report"
    BY <1>1, <2>1, CallStands
  <2>3. ASSUME NEW p \in Pools PROVE Below(p)'
    <3>1. th \notin Returning(p)' /\ (p # q => th \notin Returning(p))
      BY <2>2 DEF Returning
    <3>2. Returning(p)' = Returning(p) \ {th}
      BY <1>1, <3>1, ReturningIs
    <3>3. p # q => Returning(p)' = Returning(p)
      BY <3>1, <3>2
    <3>4. p = q => currAlloc'[p] = 0
      BY <1>4, <2>1
    <3>5. Out(p)' = Out(p) /\ currAlloc'[p] = currAlloc[p] /\ currAlloc[p] \in Nat
      BY <1>1, <2>1 DEF Counted
    <3>. QED
      BY <3>2, <3>3, <3>4, <3>5, BelowKept DEF Counted
  <2>. QED
    BY <1>2, <2>1, <2>2, <2>3 DEF Counted
<1>5. CASE Store(th)
  <2>1. /\ pc[th] = "store" /\ Finish(th) /\ currAlloc' = [currAlloc EXCEPT ![q] = loaded[th] - 1]
        /\ loaded' = [loaded EXCEPT ![th] = 0]
    BY <1>5 DEF Store
  <2>2. pc'[th] \in {"rest", "pend"}
    BY <1>1, <2>1, FinishStands
  <2>3. loaded[th] \in Nat /\ loaded[th] # 0 /\ loaded[th] <= currAlloc[q]
    BY <2>1 DEF Counted
  <2>4. /\ currAlloc' \in [Pools -> Nat] /\ currAlloc'[q] < currAlloc[q]
        /\ \A p \in Pools : p # q => currAlloc'[p] = currAlloc[p]
    BY <1>1, <2>1, <2>3 DEF Counted
  <2>5. loaded' \in [Threads -> Nat]
    BY <2>1 DEF Counted
  <2>6. ASSUME NEW p \in Pools PROVE Below(p)'
    <3>1. th \notin Returning(p)' /\ (p # q => th \notin Returning(p))
      BY <2>2 DEF Returning
    <3>2. Returning(p)' = Returning(p) \ {th}
      BY <1>1, <3>1, ReturningIs
    <3>3. p # q => Returning(p)' = Returning(p)
      BY <3>1, <3>2
    <3>4. Out(p)' = Out(p) /\ currAlloc[p] \in Nat /\ currAlloc'[p] \in Nat
      BY <1>1, <2>4 DEF Counted
    <3>. QED
      BY <2>4, <3>2, <3>3, <3>4, BelowKept DEF Counted
  <2>7. \A x \in Threads : pc'[x] # "store"
    <3>. SUFFICES ASSUME NEW x \in Threads, pc'[x] = "store" PROVE FALSE
      OBVIOUS
    <3>1. x # th
      BY <2>2
    <3>2. pc[x] = "store"
      BY <1>2, <3>1
    <3>. QED
      BY <2>1, <3>1, <3>2, FreesOne DEF Frees
  <2>8. \A x \in Threads : pc'[x] = "load" => at'[x] \in Pools
    BY <1>2, <2>2
  <2>. QED
    BY <2>4, <2>5, <2>6, <2>7, <2>8 DEF Counted
<1>. QED
  BY <1>3, <1>4, <1>5

LEMMA CountedNext ==
  ASSUME Inv, Placed, Guarded, Homes, Counted, NEW th \in Threads, Acts(th)
  PROVE  Counted'
<1>1. Shape /\ LogQueue \notin Pools
  BY StageFacts DEF Inv
<1>2. CASE Dequeue(th) \/ Enqueue(th)
  BY <1>2, CountedMoves
<1>3. CASE Load(th) \/ Store(th)
  BY <1>3, CountedFrees
<1>4. CASE Take(th) \/ Give(th) \/ UnlockBuf(th)
  <2>1. UNCHANGED <<queue, currAlloc, loaded, hand>> /\ pc[th] \in {"pend", "give", "unlockBuf"}
    BY <1>4 DEF Take, Give, UnlockBuf, messages
  <2>2. CASE Finish(th)
    <3>1. pc'[th] \in {"rest", "pend"}
      BY <2>1, <2>2, FinishStands
    <3>2. pc[th] = "give" => at[th] \notin Pools
      BY <1>1, <1>4, <2>1, <3>1 DEF Take, Give, UnlockBuf, GoTo, Shape
    <3>. QED
      BY <2>1, <3>1, <3>2, CountedQuiet
  <2>3. CASE ~ Finish(th)
    <3>1. \/ pc[th] = "pend" /\ pc'[th] \in {"pend", "dequeue"}
          \/ pc[th] = "give" /\ pc'[th] = "load" /\ at'[th] = at[th] /\ at[th] \in Pools
      BY <1>1, <1>4, <2>3 DEF Take, Give, UnlockBuf, GoOn, GoTo, Shape
    <3>. QED
      BY <2>1, <3>1, CountedQuiet
  <2>. QED
    BY <2>2, <2>3
<1>5. CASE \E u \in Tasks : th = Log(u) /\ LockLog(u)
  <2>1. PICK u \in Tasks : th = Log(u) /\ LockLog(u)
    BY <1>5
  <2>2. UNCHANGED <<queue, currAlloc, loaded, hand>> /\ pc[th] = "lockLog"
    BY <2>1 DEF LockLog, messages
  <2>3. pc'[th] \in {"rest", "pend"}
    BY <1>1, <2>1, <2>2, FinishStands DEF LockLog, Lost, GoOn, GoTo, Shape
  <2>. QED
    BY <2>2, <2>3, CountedQuiet
<1>6. CASE LockFree(th)
  <2>1. UNCHANGED <<queue, currAlloc, loaded>> /\ pc[th] = "lockFree"
    BY <1>6 DEF LockFree
  <2>2. th = Own(TaskOf(th)) /\ TaskOf(th) \in Tasks /\ ~ IsLog(th)
    BY <2>1, StageFacts, ThreadFacts
  <2>3. Log(TaskOf(th)) \in Threads /\ Log(TaskOf(th)) # th
    BY <2>2, ThreadFacts
  <2>4. pc'[th] \in {"report", "post"}
    BY <1>1, <1>6, <2>2, <2>3 DEF LockFree, CallLog, GoTo, Shape
  <2>. QED
    BY <2>1, <2>4, CountedQuiet
<1>7. CASE \E w \in Workers : th = Own(w) /\ Call(w)
  <2>1. PICK w \in Workers : th = Own(w) /\ Call(w)
    BY <1>7
  <2>2. /\ w \in Tasks /\ pc[th] = "rest" /\ ~ IsLog(th) /\ Log(w) \in Threads /\ Log(w) # th
        /\ UNCHANGED <<queue, currAlloc, loaded, hand>>
    BY <2>1, ThreadFacts
    DEF Tasks, Call, Alloc, Pend, Send, Free, DebugPrint, ShowAlloc, messages
  <2>3. CASE (\E p \in 1 .. NumPools : Alloc(w, p)) \/ Pend(w) \/ Send(w) \/ Free(w)
    <3>1. pc'[th] \in {"pend", "dequeue", "post", "lockFree"}
      BY <1>1, <2>1, <2>3 DEF Alloc, Pend, Send, Free, GoOn, GoTo, Shape
    <3>. QED
      BY <2>2, <3>1, CountedQuiet
  <2>4. CASE DebugPrint(w) \/ ShowAlloc(w)
    <3>1. UNCHANGED at /\ (CallLog(Own(w), "rest") \/ CallLog(Own(w), "unlockBuf"))
      BY <2>4 DEF DebugPrint, ShowAlloc
    <3>2. pc'[th] = "report"
      BY <2>1, <2>2, <3>1, CallStands
    <3>. QED
      BY <2>2, <3>2, CountedQuiet
  <2>. QED
    BY <2>1, <2>3, <2>4 DEF Call
<1>. QED
  BY <1>2, <1>3, <1>4, <1>5, <1>6, <1>7 DEF Acts, Step

\* All that holds in every state, whatever room the message queue has.
Sound == Inv /\ Placed /\ Guarded /\ Homes /\ Counted

LEMMA InitSound == Init => Sound
BY InitInv, InitPlaced, InitGuarded, InitHomes, InitCounted DEF Sound

LEMMA NextSound ==
  ASSUME Sound, [Next]_vars
  PROVE  Sound'
<1>1. Inv' /\ Placed'
  BY NextInv, NextPlaced DEF Sound
<1>2. CASE Next
  <2>1. PICK th \in Threads : Acts(th)
    BY <1>2, SomebodyActs
  <2>. QED
    BY <1>1, <2>1, GuardedNext, HomesNext, CountedNext DEF Sound
<1>3. CASE UNCHANGED vars
  <2>1. UNCHANGED <<queue, hand, pc, at, back, currAlloc, loaded, bufMutex>>
    BY <1>3 DEF vars, messages, mutexes
  <2>2. Guarded'
    BY <2>1 DEF Sound, Guarded, Frees
  <2>3. Homes'
    BY <2>1 DEF Sound, Homes, Bound, Worker, WillPost
  <2>4. Counted'
    BY <2>1 DEF Sound, Counted, Below, Out, Returning
  <2>. QED
    BY <1>1, <2>2, <2>3, <2>4 DEF Sound
<1>. QED
  BY <1>2, <1>3

\* What BM_bufferStats says is allocated from a pool is never more than what is:
\* bufAlloc counts without the mutex under which BM_Free reads, decrements and
\* writes back, so a count can be lost, but none is invented.
THEOREM AllocationsNotOvercounted == Spec => []NeverOvercounted
<1>1. Sound => NeverOvercounted
  BY DEF Sound, Counted, Below, Out, Returning, NeverOvercounted
<1>. QED
  BY <1>1, InitSound, NextSound, PTL DEF Spec

-----------------------------------------------------------------------------
(* The buffers' marks.                                                      *)

\* No firmware error has ended a task.
Running == \A x \in Threads : pc[x] # "stopped"

\* A buffer is counted as queued where it is, once, so BM_Free has nothing to
\* report of the buffer it frees.
Exact ==
  /\ inQueue \in [Buffers -> 0 .. 1]
  /\ \A q \in Queues : \A b \in Range(queue[q]) : inQueue[b] = 1
  /\ \A x \in Threads : hand[x] # None => inQueue[hand[x]] = 0
  /\ \A t \in Tasks : back[t] # "post"
  /\ \A b \in Buffers : \/ \E q \in Queues : b \in Range(queue[q])
                        \/ \E x \in Threads : hand[x] = b

LEMMA InitExact == Init => Exact
<1>. SUFFICES ASSUME Init PROVE Exact
  OBVIOUS
<1>1. \A q \in Pools : q \in Queues /\ queue[q] = PoolBuffers[q]
  BY QueueNames DEF Init
<1>2. \A b \in Buffers : \E q \in Queues : b \in Range(queue[q])
  BY <1>1 DEF Buffers
<1>3. ASSUME NEW q \in Queues, NEW b \in Range(queue[q]) PROVE inQueue[b] = 1
  <2>1. q \in Pools
    BY <1>3 DEF Init, Range
  <2>2. b \in Buffers
    BY <1>1, <1>3, <2>1 DEF Buffers
  <2>. QED
    BY <2>2 DEF Init
<1>4. \A x \in Threads : hand[x] = None
  BY DEF Init
<1>. QED
  BY <1>2, <1>3, <1>4 DEF Init, Exact

LEMMA StopsForGood ==
  ASSUME Inv, Placed, NEW th \in Threads, Acts(th)
  PROVE  /\ Running' => Running
         /\ Running /\ pc'[th] # "stopped" => Running'
<1>1. Shape /\ \A x \in Threads : TaskOf(x) \in Tasks
  BY ThreadFacts DEF Inv
<1>2. pc[th] # "stopped"
  BY DEF Acts, Step, Take, Dequeue, Enqueue, Give, Load, Store, UnlockBuf, LockFree, LockLog,
         Call, Alloc, Pend, Send, Free, DebugPrint, ShowAlloc
<1>3. \A x \in Threads \ {th} : pc'[x] = "stopped" <=> pc[x] = "stopped"
  BY <1>1, OthersStand DEF Bystander, Shape
<1>. QED
  BY <1>2, <1>3 DEF Running

\* Nobody but BM_Free goes on to post after a call of DBG_log.
LEMMA BackKept ==
  ASSUME Inv, NEW th \in Threads, Acts(th), ~ LockFree(th), NEW t \in Tasks, back[t] # "post"
  PROVE  back'[t] # "post"
<1>1. Shape /\ TaskOf(th) \in Tasks
  BY ThreadFacts DEF Inv
<1>2. \/ UNCHANGED back
      \/ back' = [back EXCEPT ![TaskOf(th)] = "rest"]
      \/ back' = [back EXCEPT ![TaskOf(th)] = "unlockBuf"]
  <2>1. CASE Take(th) \/ Give(th) \/ Store(th) \/ UnlockBuf(th)
    BY <2>1 DEF Take, Give, Store, UnlockBuf, Finish
  <2>2. CASE Dequeue(th) \/ Enqueue(th) \/ Load(th)
    BY <2>2 DEF Dequeue, Enqueue, Load, CallLog
  <2>3. CASE \E u \in Tasks : th = Log(u) /\ LockLog(u)
    BY <2>3 DEF LockLog, Lost, Finish
  <2>4. CASE \E w \in Workers : th = Own(w) /\ Call(w)
    BY <2>4 DEF Call, Alloc, Pend, Send, Free, DebugPrint, ShowAlloc, CallLog
  <2>. QED
    BY <2>1, <2>2, <2>3, <2>4 DEF Acts, Step
<1>. QED
  BY <1>1, <1>2 DEF Shape

LEMMA ExactKept ==
  ASSUME Exact, UNCHANGED <<queue, hand, inQueue>>, \A t \in Tasks : back'[t] # "post"
  PROVE  Exact'
BY DEF Exact

LEMMA DequeueExact ==
  ASSUME Inv, Placed, Exact, NEW th \in Threads, Dequeue(th)
  PROVE  Exact'
<1>. DEFINE q == at[th]  b == Head(queue[q])
<1>1. /\ q \in Queues /\ queue[q] # <<>> /\ queue[q] \in Seq(Buffers) /\ Shape /\ Apart
      /\ hand[th] = None /\ hand' = [hand EXCEPT ![th] = b]
      /\ queue' = [queue EXCEPT ![q] = Tail(@)] /\ UNCHANGED back
  BY DequeuePlaced DEF Dequeue, Inv, Placed
<1>2. /\ Range(Tail(queue[q])) = Range(queue[q]) \ {b} /\ b \in Range(queue[q]) /\ b \in Buffers
  BY <1>1, TailFacts DEF Apart
<1>3. inQueue[b] = 1 /\ inQueue \in [Buffers -> 0 .. 1]
  BY <1>1, <1>2 DEF Exact
<1>4. inQueue' = [inQueue EXCEPT ![b] = 0]
  BY <1>1, <1>3 DEF Dequeue
<1>5. /\ \A r \in Queues : Range(queue'[r]) = IF r = q THEN Range(queue[r]) \ {b} ELSE Range(queue[r])
      /\ \A x \in Threads : hand'[x] = IF x = th THEN b ELSE hand[x]
  BY <1>1, <1>2 DEF Shape
<1>6. inQueue' \in [Buffers -> 0 .. 1] /\ inQueue'[b] = 0
      /\ \A c \in Buffers \ {b} : inQueue'[c] = inQueue[c]
  BY <1>2, <1>3, <1>4
<1>7. ASSUME NEW r \in Queues, NEW c \in Range(queue'[r]) PROVE inQueue'[c] = 1
  <2>1. c \in Range(queue[r]) /\ c # b
    BY <1>1, <1>2, <1>5, <1>7 DEF Apart
  <2>2. c \in Buffers
    BY <1>1, <2>1 DEF Shape, Range
  <2>. QED
    BY <1>6, <2>1, <2>2 DEF Exact
<1>8. ASSUME NEW x \in Threads, hand'[x] # None PROVE inQueue'[hand'[x]] = 0
  <2>1. hand'[x] \in Buffers
    BY <1>1, <1>2, <1>5, <1>8 DEF Shape
  <2>. QED
    BY <1>5, <1>6, <1>8, <2>1 DEF Exact
<1>9. ASSUME NEW c \in Buffers
      PROVE  \/ \E r \in Queues : c \in Range(queue'[r])
             \/ \E x \in Threads : hand'[x] = c
  <2>1. CASE c = b
    BY <1>5, <2>1
  <2>2. CASE \E r \in Queues : c \in Range(queue[r]) /\ c # b
    BY <1>5, <2>2
  <2>3. CASE \E x \in Threads : hand[x] = c
    BY <1>1, <1>5, <2>3, NoneAssumption
  <2>. QED
    BY <2>1, <2>2, <2>3 DEF Exact
<1>. QED
  BY <1>1, <1>6, <1>7, <1>8, <1>9 DEF Exact

LEMMA EnqueueExact ==
  ASSUME Inv, Placed, Exact, NEW th \in Threads, Enqueue(th), pc'[th] # "stopped"
  PROVE  Exact'
<1>. DEFINE q == at[th]  b == hand[th]
<1>0. Shape /\ Apart /\ pc[th] = "post" /\ TaskOf(th) \in Tasks /\ Calling(TaskOf(th))
      /\ UNCHANGED back /\ b \in Buffers /\ q \in Queues /\ queue[q] \in Seq(Buffers)
  BY ThreadFacts DEF Enqueue, Inv, Placed, Holding, WillPost, Shape
\* Only DBG_log posts to the debug queue, where it has made sure of room.
<1>1. Len(queue[q]) < Room(q)
  <2>1. q = LogQueue \/ Len(queue[q]) < Room(q)
    BY <1>0 DEF Enqueue, GoTo, Shape
  <2>2. ASSUME q = LogQueue PROVE Len(queue[q]) < LogRoom
    <3>1. th = Log(TaskOf(th)) \/ th = Own(TaskOf(th))
      BY ThreadFacts
    <3>. QED
      BY <1>0, <2>2, <3>1 DEF Calling, WillPost
  <2>3. Room(LogQueue) = LogRoom
    BY QueueNames DEF Room
  <2>. QED
    BY <2>1, <2>2, <2>3
<1>2. /\ inQueue' = [inQueue EXCEPT ![b] = @ + 1] /\ hand' = [hand EXCEPT ![th] = None]
      /\ queue' = [queue EXCEPT ![q] = Append(@, b)]
  BY <1>1 DEF Enqueue, Enqueued
<1>3. Range(Append(queue[q], b)) = Range(queue[q]) \union {b} /\ b # None
  BY <1>0, AppendFacts, NoneAssumption DEF Apart
<1>4. inQueue[b] = 0 /\ inQueue \in [Buffers -> 0 .. 1]
  BY <1>0, <1>3 DEF Exact
<1>5. /\ \A r \in Queues : Range(queue'[r]) = Range(queue[r]) \union (IF r = q THEN {b} ELSE {})
      /\ \A x \in Threads : hand'[x] = IF x = th THEN None ELSE hand[x]
  BY <1>0, <1>2, <1>3 DEF Shape
<1>6. inQueue' \in [Buffers -> 0 .. 1] /\ inQueue'[b] = 1
      /\ \A c \in Buffers \ {b} : inQueue'[c] = inQueue[c]
  BY <1>0, <1>2, <1>4
<1>7. ASSUME NEW r \in Queues, NEW c \in Range(queue'[r]) PROVE inQueue'[c] = 1
  <2>1. CASE c = b
    BY <1>6, <2>1
  <2>2. CASE c # b
    <3>1. c \in Range(queue[r])
      BY <1>5, <1>7, <2>2
    <3>2. c \in Buffers
      BY <1>0, <3>1 DEF Shape, Range
    <3>. QED
      BY <1>6, <2>2, <3>1, <3>2 DEF Exact
  <2>. QED
    BY <2>1, <2>2
<1>8. ASSUME NEW x \in Threads, hand'[x] # None PROVE inQueue'[hand'[x]] = 0
  <2>1. x # th /\ hand'[x] = hand[x] /\ hand[x] # b /\ hand[x] \in Buffers
    BY <1>0, <1>3, <1>5, <1>8 DEF Shape, Apart
  <2>. QED
    BY <1>3, <1>6, <1>8, <2>1 DEF Exact
<1>9. ASSUME NEW c \in Buffers
      PROVE  \/ \E r \in Queues : c \in Range(queue'[r])
             \/ \E x \in Threads : hand'[x] = c
  <2>1. CASE c = b
    BY <1>0, <1>5, <2>1
  <2>2. CASE \E r \in Queues : c \in Range(queue[r])
    BY <1>5, <2>2
  <2>3. CASE c # b /\ \E x \in Threads : hand[x] = c
    <3>1. PICK x \in Threads : hand[x] = c
      BY <2>3
    <3>2. x # th
      BY <2>3, <3>1
    <3>. QED
      BY <1>5, <3>1, <3>2
  <2>. QED
    BY <2>1, <2>2, <2>3 DEF Exact
<1>. QED
  BY <1>0, <1>6, <1>7, <1>8, <1>9 DEF Exact

LEMMA LockFreeExact ==
  ASSUME Inv, Placed, Exact, NEW th \in Threads, LockFree(th)
  PROVE  Exact'
<1>. DEFINE b == hand[th]
<1>1. pc[th] = "lockFree" /\ b \in Buffers /\ b # None /\ UNCHANGED <<queue, hand, inQueue>>
  BY LockFreePlaced, NoneAssumption DEF LockFree, Inv, Holding
<1>2. ~ isFree[b] /\ inQueue[b] = 0
  BY <1>1 DEF Placed, Marked, WillPost, Exact
<1>3. UNCHANGED back
  BY <1>2 DEF LockFree
<1>. QED
  BY <1>1, <1>3, ExactKept DEF Exact

LEMMA ExactNext ==
  ASSUME Inv, Placed, Exact, NEW th \in Threads, Acts(th), pc'[th] # "stopped"
  PROVE  Exact'
<1>1. CASE Dequeue(th) \/ Enqueue(th) \/ LockFree(th)
  BY <1>1, DequeueExact, EnqueueExact, LockFreeExact
<1>2. CASE ~ (Dequeue(th) \/ Enqueue(th) \/ LockFree(th))
  <2>1. UNCHANGED <<queue, hand, inQueue>>
    BY <1>2
    DEF Acts, Step, Take, Give, Load, Store, UnlockBuf, LockLog, messages,
        Call, Alloc, Pend, Send, Free, DebugPrint, ShowAlloc
  <2>2. \A t \in Tasks : back'[t] # "post"
    BY <1>2, BackKept DEF Exact
  <2>. QED
    BY <2>1, <2>2, ExactKept
<1>. QED
  BY <1>1, <1>2

\* The marks tell where a buffer is.
LEMMA ExactPlaces ==
  ASSUME Sound, Exact, Running
  PROVE  OnePlace
<1>1. Shape /\ Apart /\ Marked /\ Guarded
  BY DEF Sound, Inv, Placed
<1>. SUFFICES ASSUME NEW b \in Buffers
     PROVE  LET inQueues == UNION {{q} \X {i \in DOMAIN queue[q] : queue[q][i] = b} : q \in Queues}
                inHands  == {th \in Threads : hand[th] = b}
            IN /\ Cardinality(inQueues) + Cardinality(inHands) = 1
               /\ inQueue[b] = Cardinality(inQueues)
               /\ isFree[b] => \A th \in inHands :
                                pc[th] = "post" /\ at[th] \in Pools /\ bufMutex = TaskOf(th)
  BY DEF OnePlace
<1>. DEFINE inQueues == UNION {{q} \X {i \in DOMAIN queue[q] : queue[q][i] = b} : q \in Queues}
            inHands  == {th \in Threads : hand[th] = b}
<1>2. b # None
  BY NoneAssumption
<1>3. isFree[b] => \A th \in inHands :
                     pc[th] = "post" /\ at[th] \in Pools /\ bufMutex = TaskOf(th)
  <2>. SUFFICES ASSUME isFree[b], NEW th \in Threads, hand[th] = b
       PROVE  pc[th] = "post" /\ at[th] \in Pools /\ bufMutex = TaskOf(th)
    OBVIOUS
  <2>1. WillPost(th) /\ at[th] \in Pools
    BY <1>1, <1>2 DEF Marked, Running
  <2>2. back[TaskOf(th)] # "post"
    BY ThreadFacts DEF Exact
  <2>3. pc[th] = "post"
    BY <2>1, <2>2 DEF WillPost
  <2>. QED
    BY <1>1, <2>1, <2>3 DEF Guarded, Frees
<1>4. CASE \E q \in Queues : b \in Range(queue[q])
  <2>1. PICK q \in Queues : b \in Range(queue[q])
    BY <1>4
  <2>2. PICK i \in DOMAIN queue[q] : queue[q][i] = b
    BY <2>1 DEF Range
  <2>3. inHands = {}
    BY <1>1, <2>1 DEF Apart
  <2>4. ASSUME NEW r \in Queues, NEW j \in DOMAIN queue[r], queue[r][j] = b PROVE r = q /\ j = i
    <3>1. b \in Range(queue[r])
      BY <2>4 DEF Range
    <3>2. r = q
      BY <1>1, <2>1, <3>1 DEF Apart
    <3>. QED
      BY <1>1, <2>2, <2>4, <3>2 DEF Apart, IsInjective
  <2>5. inQueues = {<<q, i>>}
    <3>1. <<q, i>> \in inQueues
      BY <2>2
    <3>2. ASSUME NEW e \in inQueues PROVE e = <<q, i>>
      <4>1. PICK r \in Queues : e \in {r} \X {j \in DOMAIN queue[r] : queue[r][j] = b}
        OBVIOUS
      <4>2. PICK j \in DOMAIN queue[r] : queue[r][j] = b /\ e = <<r, j>>
        BY <4>1
      <4>. QED
        BY <2>4, <4>2
    <3>. QED
      BY <3>1, <3>2
  <2>6. Cardinality(inQueues) = 1 /\ Cardinality(inHands) = 0
    BY <2>3, <2>5, FS_Singleton, FS_EmptySet
  <2>7. inQueue[b] = 1
    BY <2>1 DEF Exact
  <2>. QED
    BY <1>3, <2>6, <2>7
<1>5. CASE \E x \in Threads : hand[x] = b
  <2>1. PICK x \in Threads : hand[x] = b
    BY <1>5
  <2>2. inHands = {x}
    BY <1>1, <1>2, <2>1 DEF Apart
  <2>3. inQueues = {}
    <3>1. \A q \in Queues : b \notin Range(queue[q])
      BY <1>1, <2>1 DEF Apart
    <3>. QED
      BY <3>1 DEF Range
  <2>4. Cardinality(inQueues) = 0 /\ Cardinality(inHands) = 1
    BY <2>2, <2>3, FS_Singleton, FS_EmptySet
  <2>5. inQueue[b] = 0
    BY <1>2, <2>1 DEF Exact
  <2>. QED
    BY <1>3, <2>4, <2>5
<1>. QED
  BY <1>4, <1>5 DEF Exact

LEMMA NextExact ==
  ASSUME Sound, Running => Exact, [Next]_vars
  PROVE  Running' => Exact'
<1>1. CASE Next
  <2>1. PICK th \in Threads : Acts(th)
    BY <1>1, SomebodyActs
  <2>2. Running' => Running /\ pc'[th] # "stopped"
    BY <2>1, StopsForGood DEF Sound, Running
  <2>. QED
    BY <2>1, <2>2, ExactNext DEF Sound
<1>2. CASE UNCHANGED vars
  <2>1. UNCHANGED <<queue, hand, inQueue, back, pc>>
    BY <1>2 DEF vars, messages
  <2>. QED
    BY <2>1 DEF Running, Exact
<1>. QED
  BY <1>1, <1>2

\* Until a post to a full message queue ends the program, no buffer is lost or
\* in two places and its isFree and inQueue tell which one it is in, whatever
\* the tasks do and however their calls interleave.
THEOREM MarksAreRight == Spec => [](Running => OnePlace)
<1>1. Init => Sound /\ (Running => Exact)
  BY InitSound, InitExact
<1>2. Sound /\ (Running => Exact) /\ [Next]_vars => Sound' /\ (Running => Exact)'
  BY NextSound, NextExact
<1>3. Sound /\ (Running => Exact) => (Running => OnePlace)
  BY ExactPlaces
<1>. QED
  BY <1>1, <1>2, <1>3, PTL DEF Spec

-----------------------------------------------------------------------------
(* The room of the queues.                                                  *)

LEMMA OneMoreFits ==
  ASSUME NEW S, NEW s \in Seq(S), IsInjective(s), NEW T, IsFiniteSet(T), NEW b \in T,
         Range(s) \subseteq T \ {b}
  PROVE  Len(s) < Cardinality(T)
<1>. DEFINE U == T \ {b}
<1>1. Len(s) \in Nat /\ DOMAIN s = 1 .. Len(s)
  OBVIOUS
<1>2. IsFiniteSet(U) /\ Cardinality(U) = Cardinality(T) - 1 /\ Cardinality(T) \in Nat
  BY FS_RemoveElement, FS_CardinalityType
<1>3. s \in Injection(1 .. Len(s), U)
  <2>1. s \in [1 .. Len(s) -> U]
    BY <1>1 DEF Range
  <2>. QED
    BY <1>1, <2>1 DEF Injection, IsInjective
<1>4. Cardinality(1 .. Len(s)) <= Cardinality(U)
  BY <1>2, <1>3, FS_Injection
<1>5. Cardinality(1 .. Len(s)) = Len(s)
  BY <1>1, FS_Interval
<1>. QED
  BY <1>1, <1>2, <1>4, <1>5

\* A pool has room for the buffer that is given back to it.
LEMMA PoolHasRoom ==
  ASSUME Inv, Placed, Homes, NEW th \in Threads, pc[th] = "post", at[th] \in Pools
  PROVE  Len(queue[at[th]]) < Room(at[th])
<1>. DEFINE q == at[th]  b == hand[th]  s == PoolBuffers[q]  T == Range(s)
<1>1. /\ queue[q] \in Seq(Buffers) /\ IsInjective(queue[q]) /\ b \in T /\ b \notin Range(queue[q])
      /\ Range(queue[q]) \subseteq T
  BY QueueNames DEF Inv, Shape, Placed, Apart, Homes, Bound, WillPost
<1>2. s \in Seq(Buffers) /\ Len(s) \in Nat /\ DOMAIN s = 1 .. Len(s)
  BY PoolsAssumption
<1>3. IsFiniteSet(1 .. Len(s)) /\ Cardinality(1 .. Len(s)) = Len(s)
  BY <1>2, FS_Interval
<1>4. s \in Surjection(1 .. Len(s), T)
  BY <1>2 DEF Surjection, Range
<1>5. IsFiniteSet(T) /\ Cardinality(T) <= Len(s)
  BY <1>3, <1>4, FS_Surjection
<1>6. Len(queue[q]) < Cardinality(T)
  <2>. HIDE DEF T
  <2>. QED
    BY <1>1, <1>5, OneMoreFits
<1>7. Room(q) = Len(s)
  BY QueueNames DEF Room
<1>. QED
  BY <1>1, <1>2, <1>5, <1>6, <1>7, FS_CardinalityType

\* ... and a message queue that has a place for each buffer that workers share.
Roomy == Cardinality(AppBuffers) <= InboxRoom

LEMMA InboxHasRoom ==
  ASSUME Inv, Placed, Homes, Roomy, NEW th \in Threads, pc[th] = "post", at[th] = Inbox
  PROVE  Len(queue[Inbox]) < InboxRoom
<1>. DEFINE b == hand[th]
<1>1. /\ queue[Inbox] \in Seq(Buffers) /\ IsInjective(queue[Inbox]) /\ b \in AppBuffers
      /\ b \notin Range(queue[Inbox]) /\ Range(queue[Inbox]) \subseteq AppBuffers
  BY QueueNames DEF Inv, Shape, Placed, Apart, Homes, Bound, WillPost
<1>2. AppBuffers \subseteq Buffers
  BY QueueNames DEF AppBuffers, Buffers
<1>3. IsFiniteSet(AppBuffers) /\ Cardinality(AppBuffers) \in Nat
  BY <1>2, BuffersFinite, FS_Subset, FS_CardinalityType
<1>4. Len(queue[Inbox]) < Cardinality(AppBuffers)
  BY <1>1, <1>3, OneMoreFits
<1>. QED
  BY <1>1, <1>3, <1>4, RoomAssumption DEF Roomy

\* What ends a task is a post to a full message queue of another task.
OnlyInbox == \A x \in Threads : pc[x] = "stopped" => at[x] = Inbox

LEMMA StopIs ==
  ASSUME Sound, NEW th \in Threads, Acts(th), pc'[th] = "stopped"
  PROVE  Enqueue(th) /\ at'[th] = at[th] /\ at[th] = Inbox /\ ~ (Len(queue[Inbox]) < InboxRoom)
<1>1. Inv /\ Placed /\ Homes /\ Shape /\ TaskOf(th) \in Tasks /\ Calling(TaskOf(th)) /\ Holding
  BY ThreadFacts DEF Sound, Inv
<1>2. Enqueue(th)
  <2>1. CASE Take(th) \/ Give(th) \/ Store(th) \/ UnlockBuf(th)
    <3>1. UNCHANGED hand /\ pc[th] \notin {"rest", "report"}
      BY <2>1 DEF Take, Give, Store, UnlockBuf
    <3>2. ~ Finish(th)
      BY <1>1, <3>1, FinishStands
    <3>. QED
      BY <1>1, <2>1, <3>2 DEF Take, Give, Store, UnlockBuf, GoOn, GoTo, Shape
  <2>2. CASE Dequeue(th)
    <3>1. queue[at[th]] # <<>>
      BY <1>1, <2>2, DequeuePlaced
    <3>. QED
      BY <1>1, <2>2, <3>1 DEF Dequeue, GoOn, GoTo, Shape
  <2>3. CASE Load(th)
    <3>1. th = Own(TaskOf(th)) /\ pc[th] = "load" /\ UNCHANGED <<at, hand>>
      BY <1>1, <2>3, StageFacts, ThreadFacts DEF Load
    <3>2. GoTo(th, "store") \/ CallLog(th, "unlockBuf")
      BY <2>3 DEF Load
    <3>. QED
      BY <1>1, <3>1, <3>2, CallStands DEF GoTo, Shape
  <2>4. CASE LockFree(th)
    <3>1. pc[th] = "lockFree" /\ ~ IsLog(th) /\ Log(TaskOf(th)) # th /\ Log(TaskOf(th)) \in Threads
      BY <1>1, <2>4, StageFacts, ThreadFacts DEF LockFree
    <3>. QED
      BY <1>1, <2>4, <3>1 DEF LockFree, CallLog, GoTo, Shape
  <2>5. CASE \E u \in Tasks : th = Log(u) /\ LockLog(u)
    <3>1. PICK u \in Tasks : th = Log(u) /\ LockLog(u)
      BY <2>5
    <3>2. UNCHANGED hand /\ pc[th] = "lockLog"
      BY <3>1 DEF LockLog
    <3>. QED
      BY <1>1, <3>1, <3>2, FinishStands DEF LockLog, Lost, GoOn, GoTo, Shape
  <2>6. CASE \E w \in Workers : th = Own(w) /\ Call(w)
    <3>1. PICK w \in Workers : th = Own(w) /\ Call(w)
      BY <2>6
    <3>2. /\ w \in Tasks /\ TaskOf(th) = w /\ pc[th] = "rest" /\ ~ IsLog(th)
          /\ Log(w) \in Threads /\ Log(w) # th
      BY <3>1, ThreadFacts DEF Tasks, Call, Alloc, Pend, Send, Free, DebugPrint, ShowAlloc
    <3>. QED
      BY <1>1, <3>1, <3>2
      DEF Call, Alloc, Pend, Send, Free, DebugPrint, ShowAlloc, CallLog, GoOn, GoTo, Shape
  <2>. QED
    BY <2>1, <2>2, <2>3, <2>4, <2>5, <2>6 DEF Acts, Step
<1>3. pc[th] = "post" /\ at' = at /\ at[th] \in Queues
  BY <1>1, <1>2 DEF Enqueue, Shape
<1>4. ~ (Len(queue[at[th]]) < Room(at[th])) /\ at[th] # LogQueue
  BY <1>1, <1>2 DEF Enqueue, GoTo, Shape
<1>5. at[th] = Inbox
  BY <1>1, <1>3, <1>4, PoolHasRoom, QueueNames
<1>. QED
  BY <1>2, <1>3, <1>4, <1>5 DEF Room

\* Nobody dereferences the NULL of an empty pool or queue, and no pool, nor the
\* debug queue, is ever too full for what is posted to it: the one firmware error
\* of buffers and queues is a message for a task whose queue is full.
THEOREM OnlyInboxOverflows == Spec => []OnlyInbox
<1>1. Init => Sound /\ OnlyInbox
  BY InitSound DEF Init, OnlyInbox, Resting
<1>2. ASSUME Sound, OnlyInbox, [Next]_vars PROVE OnlyInbox'
  <2>1. CASE Next
    <3>1. PICK th \in Threads : Acts(th)
      BY <2>1, SomebodyActs
    <3>2. ASSUME NEW x \in Threads, x # th, pc'[x] = "stopped" PROVE at'[x] = Inbox
      <4>1. Bystander(x) /\ TaskOf(x) \in Tasks /\ Shape
        BY <1>2, <3>1, <3>2, OthersStand, ThreadFacts DEF Sound, Inv
      <4>. QED
        BY <1>2, <3>2, <4>1 DEF Bystander, OnlyInbox, Shape
    <3>. QED
      BY <1>2, <3>1, <3>2, StopIs DEF OnlyInbox
  <2>2. CASE UNCHANGED vars
    BY <1>2, <2>2 DEF vars, OnlyInbox
  <2>. QED
    BY <1>2, <2>1, <2>2
<1>3. Sound /\ OnlyInbox /\ [Next]_vars => Sound' /\ OnlyInbox'
  BY <1>2, NextSound
<1>. QED
  BY <1>1, <1>3, PTL DEF Spec

LEMMA ExactTypes ==
  ASSUME Sound, Exact, Running
  PROVE  TypeOK
<1>1. Shape /\ Marked /\ Guarded /\ Counted
  BY DEF Sound, Inv, Placed
<1>2. pc \in [Threads -> Stages \ {"stopped"}]
  BY <1>1 DEF Shape, Running
<1>. QED
  BY <1>1, <1>2 DEF Shape, Marked, Guarded, Counted, Exact, TypeOK

\* No count falls below zero and no buffer is counted in two queues, until a
\* post to a full message queue ends the program.
THEOREM BuffersTyped == Spec => [](Running => TypeOK)
<1>1. Init => Sound /\ (Running => Exact)
  BY InitSound, InitExact
<1>2. Sound /\ (Running => Exact) /\ [Next]_vars => Sound' /\ (Running => Exact)'
  BY NextSound, NextExact
<1>3. Sound /\ (Running => Exact) => (Running => TypeOK)
  BY ExactTypes
<1>. QED
  BY <1>1, <1>2, <1>3, PTL DEF Spec

\* A message queue with a place for every buffer of the pools its senders
\* allocate from never overflows: then all of this holds for ever.
THEOREM RoomSuffices ==
  ASSUME Roomy
  PROVE  Spec => [](TypeOK /\ OnePlace)
<1>1. Init => Sound /\ Running /\ Exact
  BY InitSound, InitExact DEF Init, Running, Resting
<1>2. ASSUME Sound, Running, Exact, [Next]_vars PROVE Running'
  <2>1. CASE Next
    <3>1. PICK th \in Threads : Acts(th)
      BY <2>1, SomebodyActs
    <3>2. pc'[th] # "stopped"
      <4>. SUFFICES ASSUME pc'[th] = "stopped" PROVE FALSE
        OBVIOUS
      <4>1. at[th] = Inbox /\ pc[th] = "post" /\ ~ (Len(queue[Inbox]) < InboxRoom)
        BY <1>2, <3>1, StopIs DEF Enqueue
      <4>. QED
        BY <1>2, <4>1, InboxHasRoom DEF Sound
    <3>. QED
      BY <1>2, <3>1, <3>2, StopsForGood DEF Sound
  <2>2. CASE UNCHANGED vars
    BY <1>2, <2>2 DEF vars, Running
  <2>. QED
    BY <1>2, <2>1, <2>2
<1>3. Sound /\ Running /\ Exact /\ [Next]_vars => Sound' /\ Running' /\ Exact'
  BY <1>2, NextSound, NextExact
<1>4. Sound /\ Running /\ Exact => TypeOK /\ OnePlace
  BY ExactTypes, ExactPlaces
<1>. QED
  BY <1>1, <1>3, <1>4, PTL DEF Spec

=============================================================================
