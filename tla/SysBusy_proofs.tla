--------------------------- MODULE SysBusy_proofs ---------------------------
(***************************************************************************)
(* The busy counter counts the tasks at work, and nobody is at work while a *)
(* locker keeps busyMutex_, for any number of workers and lockers.          *)
(***************************************************************************)
EXTENDS SysBusy, FiniteSetTheorems, TLAPS

Inv == TypeOK /\ CounterIsWorkers /\ HeldMeansIdle

\* The tasks at work are finitely many, and fewer than the counter can count.
LEMMA WorkingCount ==
  ASSUME working \subseteq Workers
  PROVE  IsFiniteSet(working) /\ Cardinality(working) \in Nat /\ Cardinality(working) < MaxCounter
<1>1. IsFiniteSet(working) /\ Cardinality(working) <= Cardinality(Workers)
  BY FS_Subset, WorkersAssumption
<1>2. Cardinality(working) \in Nat /\ Cardinality(Workers) \in Nat
  BY <1>1, FS_CardinalityType, WorkersAssumption
<1>. QED
  BY <1>1, <1>2, CounterAssumption

\* SYSBUSY_init leaves a consistent arbiter.
LEMMA InitInv == Init => Inv
<1>1. Cardinality({}) = 0
  BY FS_EmptySet
<1>. QED
  BY <1>1, CounterAssumption, TriesAssumption
  DEF Init, Inv, TypeOK, CounterIsWorkers, HeldMeansIdle, Places

\* A worker that starts adds one to both sides.
LEMMA SetBusyInv ==
  ASSUME NEW w \in Workers, Inv, SetBusy(w)
  PROVE  Inv'
<1>. USE DEF Inv, SetBusy
<1>1. working' \subseteq Workers /\ busyCounter = Cardinality(working)
  BY DEF TypeOK, CounterIsWorkers
<1>2. IsFiniteSet(working) /\ Cardinality(working) \in Nat /\ busyCounter < MaxCounter
  BY <1>1, WorkingCount DEF TypeOK
<1>3. Cardinality(working') = Cardinality(working) + 1
  BY <1>2, FS_AddElement
<1>4. busyCounter' = busyCounter + 1 /\ busyState' = "busy"
  BY <1>2, CounterAssumption
<1>5. TypeOK'
  BY <1>1, <1>2, <1>4, CounterAssumption DEF TypeOK
<1>6. CounterIsWorkers'
  BY <1>1, <1>2, <1>3, <1>4 DEF CounterIsWorkers
<1>7. HeldMeansIdle'
  BY DEF HeldMeansIdle
<1>. QED
  BY <1>5, <1>6, <1>7

\* A worker that ends takes one from both sides.
LEMMA ClearBusyInv ==
  ASSUME NEW w \in Workers, Inv, ClearBusy(w)
  PROVE  Inv'
<1>. USE DEF Inv, ClearBusy
<1>1. working \subseteq Workers /\ busyCounter = Cardinality(working)
  BY DEF TypeOK, CounterIsWorkers
<1>2. IsFiniteSet(working) /\ Cardinality(working) \in Nat /\ busyCounter < MaxCounter
  BY <1>1, WorkingCount
<1>3. Cardinality(working') = Cardinality(working) - 1
  BY <1>2, FS_RemoveElement
<1>4. busyCounter # 0
  BY <1>1, <1>2, FS_EmptySet
<1>5. busyCounter' = busyCounter - 1 /\ busyState = "busy"
  BY <1>4 DEF TypeOK, CounterIsWorkers
<1>6. TypeOK'
  BY <1>1, <1>2, <1>4, <1>5, CounterAssumption DEF TypeOK
<1>7. CounterIsWorkers'
  BY <1>1, <1>2, <1>3, <1>4, <1>5 DEF CounterIsWorkers
<1>8. HeldMeansIdle'
  BY DEF HeldMeansIdle
<1>. QED
  BY <1>6, <1>7, <1>8

\* No step of a locker disturbs the count; the mutex is kept only when idle.
LEMMA LockerInv ==
  ASSUME NEW l \in Lockers, Inv,
         Wait(l) \/ LockIfIdle(l) \/ Status(l) \/ GiveUp(l) \/ Reset(l)
  PROVE  Inv'
<1>. USE DEF Inv
<1>1. CASE Wait(l)
  BY <1>1, TriesAssumption DEF Wait, TypeOK, CounterIsWorkers, HeldMeansIdle, Places
<1>2. CASE LockIfIdle(l)
  <2>1. IsFiniteSet(working) /\ busyCounter = Cardinality(working)
    BY WorkingCount DEF TypeOK, CounterIsWorkers
  <2>2. busyState = "idle" => working = {}
    BY <2>1, FS_EmptySet DEF CounterIsWorkers
  <2>3. TypeOK'
    BY <1>2 DEF LockIfIdle, TypeOK, Places
  <2>4. CounterIsWorkers' /\ HeldMeansIdle'
    BY <1>2, <2>2 DEF LockIfIdle, CounterIsWorkers, HeldMeansIdle
  <2>. QED
    BY <2>3, <2>4
<1>3. CASE Status(l)
  <2>1. TypeOK'
    BY <1>3, TriesAssumption DEF Status, TypeOK, Places
  <2>2. CounterIsWorkers' /\ HeldMeansIdle'
    BY <1>3 DEF Status, CounterIsWorkers, HeldMeansIdle
  <2>. QED
    BY <2>1, <2>2
<1>4. CASE GiveUp(l)
  <2>1. TypeOK'
    BY <1>4 DEF GiveUp, TypeOK, Places
  <2>2. CounterIsWorkers' /\ HeldMeansIdle'
    BY <1>4 DEF GiveUp, CounterIsWorkers, HeldMeansIdle
  <2>. QED
    BY <2>1, <2>2
<1>5. CASE Reset(l)
  <2>1. Cardinality({}) = 0
    BY FS_EmptySet
  <2>. QED
    BY <1>5, <2>1, CounterAssumption, TriesAssumption
    DEF Reset, TypeOK, CounterIsWorkers, HeldMeansIdle, Places
<1>. QED
  BY <1>1, <1>2, <1>3, <1>4, <1>5

\* The arbiter stays consistent in every step of the system.
LEMMA NextInv == Inv /\ [Next]_vars => Inv'
<1>. SUFFICES ASSUME Inv, [Next]_vars PROVE Inv'
  OBVIOUS
<1>1. ASSUME NEW w \in Workers, SetBusy(w) \/ ClearBusy(w) PROVE Inv'
  BY <1>1, SetBusyInv, ClearBusyInv
<1>2. ASSUME NEW l \in Lockers,
             Wait(l) \/ LockIfIdle(l) \/ Status(l) \/ GiveUp(l) \/ Reset(l)
      PROVE Inv'
  BY <1>2, LockerInv
<1>3. CASE UNCHANGED vars
  BY <1>3 DEF vars, Inv, TypeOK, CounterIsWorkers, HeldMeansIdle
<1>. QED
  BY <1>1, <1>2, <1>3 DEF Next

LEMMA AlwaysInv == Spec => []Inv
<1>. QED
  BY InitInv, NextInv, PTL DEF Spec

\* busyCounter_ is the number of tasks at work, and busyState_ agrees, whoever
\* calls setBusy and clearBusy in whatever order.
THEOREM CounterCorrect == Spec => []CounterIsWorkers
<1>1. Inv => CounterIsWorkers
  BY DEF Inv
<1>. QED
  BY AlwaysInv, <1>1, PTL

\* While DFWA_WaitForSysIdle keeps the mutex no task is at work or can start.
THEOREM HeldExcludesWork == Spec => []HeldMeansIdle
<1>1. Inv => HeldMeansIdle
  BY DEF Inv
<1>. QED
  BY AlwaysInv, <1>1, PTL
=============================================================================
