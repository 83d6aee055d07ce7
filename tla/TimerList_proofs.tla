-------------------------- MODULE TimerList_proofs --------------------------
(***************************************************************************)
(* The list of running timers and the marks in the table agree, for any     *)
(* number of timers, durations and length of a tick.                       *)
(***************************************************************************)
EXTENDS TimerList, ListFacts

-----------------------------------------------------------------------------
(* The invariant.                                                           *)

\* A record with the fields of a timer, whatever its ticks are.
IsTimer(r) ==
  /\ r = [ms |-> r.ms, ticks |-> r.ticks, kind |-> r.kind, stopped |-> r.stopped, expired |-> r.expired]
  /\ r.ms \in Nat /\ r.kind \in Kinds /\ r.stopped \in BOOLEAN

IsTable(t) == t = [x \in Slots |-> t[x]] /\ \A x \in Slots : IsTimer(t[x])

\* The members of list l are those that table t has as running.
Agree(l, t) ==
  /\ l \in Seq(Slots) /\ IsInjective(l) /\ IsTable(t)
  /\ \A x \in Slots : Contains(l, x) <=> t[x].ms # 0 /\ ~ t[x].stopped

Inv == Agree(list, timer) /\ last \in Slots /\ (firing => list # <<>>)

\* What the code assigns to the fields of a timer.
LEMMA FieldFacts ==
  ASSUME NEW r, IsTimer(r)
  PROVE  /\ \A v : /\ IsTimer([r EXCEPT !.ticks = v])
                  /\ [r EXCEPT !.ticks = v].ms = r.ms
                  /\ [r EXCEPT !.ticks = v].stopped = r.stopped
         /\ \A b \in BOOLEAN : /\ IsTimer([r EXCEPT !.stopped = b])
                              /\ [r EXCEPT !.stopped = b].ms = r.ms
                              /\ [r EXCEPT !.stopped = b].stopped = b
<1>1. ASSUME NEW v
      PROVE  /\ IsTimer([r EXCEPT !.ticks = v])
             /\ [r EXCEPT !.ticks = v].ms = r.ms /\ [r EXCEPT !.ticks = v].stopped = r.stopped
  <2>1. [r EXCEPT !.ticks = v] =
          [ms |-> r.ms, ticks |-> v, kind |-> r.kind, stopped |-> r.stopped, expired |-> r.expired]
    BY DEF IsTimer
  <2>. QED
    BY <2>1 DEF IsTimer
<1>2. ASSUME NEW b \in BOOLEAN
      PROVE  /\ IsTimer([r EXCEPT !.stopped = b])
             /\ [r EXCEPT !.stopped = b].ms = r.ms /\ [r EXCEPT !.stopped = b].stopped = b
  <2>1. [r EXCEPT !.stopped = b] =
          [ms |-> r.ms, ticks |-> r.ticks, kind |-> r.kind, stopped |-> b, expired |-> r.expired]
    BY DEF IsTimer
  <2>. QED
    BY <2>1 DEF IsTimer
<1>. QED
  BY <1>1, <1>2

\* Insertion into a list that table t has but for timer s.
LEMMA InsertAgrees ==
  ASSUME NEW s \in Slots, NEW l \in Seq(Slots), NEW t, IsInjective(l), ~ Contains(l, s), IsTable(t),
         \A x \in Slots \ {s} : Contains(l, x) <=> t[x].ms # 0 /\ ~ t[x].stopped,
         t[s].ms # 0 /\ ~ t[s].stopped, insertTimerNode(s, l, t)
  PROVE  Agree(list', timer') /\ list' # <<>>
<1>. DEFINE at == Place(t[s].ticks, l, t)
            delta == t[s].ticks - Left(l, t)[at - 1]
<1>1. at \in 1 .. Len(l) + 1
  <2>. DEFINE later == {i \in DOMAIN l : t[s].ticks < Left(l, t)[i]}
  <2>1. CASE later = {}
    BY <2>1 DEF Place
  <2>2. CASE later # {}
    <3>0. later \in SUBSET Nat
      OBVIOUS
    <3>. HIDE DEF later
    <3>1. \E i \in later : \A j \in later : i <= j
      BY <2>2, <3>0, Least
    <3>2. (CHOOSE i \in later : \A j \in later : i <= j) \in later
      BY <3>1
    <3>3. at = CHOOSE i \in later : \A j \in later : i <= j
      BY <2>2 DEF Place, later
    <3>. QED
      BY <3>2, <3>3 DEF later
  <2>. QED
    BY <2>1, <2>2
<1>2. /\ list' = InsertAt(l, at, s)
      /\ timer' = [x \in Slots |->
                     IF x = s THEN [t[x] EXCEPT !.ticks = delta]
                     ELSE IF at <= Len(l) /\ x = l[at] THEN [t[x] EXCEPT !.ticks = @ - delta]
                     ELSE t[x]]
  BY DEF insertTimerNode
<1>. HIDE DEF at, delta
<1>3. /\ list' \in Seq(Slots) /\ IsInjective(list') /\ list' # <<>>
      /\ \A x : Contains(list', x) <=> Contains(l, x) \/ x = s
  BY <1>1, <1>2, InsertFacts
<1>4. ASSUME NEW x \in Slots
      PROVE  IsTimer(timer'[x]) /\ timer'[x].ms = t[x].ms /\ timer'[x].stopped = t[x].stopped
  <2>1. IsTimer(t[x])
    BY DEF IsTable
  <2>2. \A v : LET r == [t[x] EXCEPT !.ticks = v]
               IN IsTimer(r) /\ r.ms = t[x].ms /\ r.stopped = t[x].stopped
    BY <2>1 DEF IsTimer
  <2>. QED
    BY <1>2, <2>1, <2>2
<1>5. IsTable(timer')
  BY <1>2, <1>4 DEF IsTable
<1>. QED
  BY <1>3, <1>4, <1>5 DEF Agree

\* The list and the table without timer s.
LEMMA WithoutFacts ==
  ASSUME Agree(list, timer), NEW s \in Slots
  PROVE  /\ ListWithout(s) \in Seq(Slots) /\ IsInjective(ListWithout(s))
         /\ \A x : Contains(ListWithout(s), x) <=> Contains(list, x) /\ x # s
         /\ IsTable(TableWithout(s))
         /\ \A x \in Slots : /\ TableWithout(s)[x].ms = timer[x].ms
                             /\ TableWithout(s)[x].stopped = timer[x].stopped
<1>1. CASE ~ Contains(list, s)
  BY <1>1 DEF ListWithout, TableWithout, Agree
<1>2. CASE Contains(list, s)
  <2>. DEFINE at == PlaceOf(s)
  <2>1. at \in 1 .. Len(list) /\ list[at] = s
    BY <1>2 DEF PlaceOf, Contains, Agree
  <2>2. ListWithout(s) = RemoveAt(list, at)
    BY <1>2 DEF ListWithout
  <2>3. \E v : TableWithout(s) =
          [x \in Slots |->
             IF x = s THEN [timer[x] EXCEPT !.ticks = v]
             ELSE IF at < Len(list) /\ x = list[at + 1]
                  THEN [timer[x] EXCEPT !.ticks = @ + timer[s].ticks]
             ELSE timer[x]]
    BY <1>2 DEF TableWithout
  <2>. HIDE DEF at
  <2>4. ASSUME NEW x \in Slots
        PROVE  /\ IsTimer(TableWithout(s)[x]) /\ TableWithout(s)[x].ms = timer[x].ms
               /\ TableWithout(s)[x].stopped = timer[x].stopped
    <3>1. IsTimer(timer[x])
      BY DEF Agree, IsTable
    <3>2. \A v : /\ IsTimer([timer[x] EXCEPT !.ticks = v])
                 /\ [timer[x] EXCEPT !.ticks = v].ms = timer[x].ms
                 /\ [timer[x] EXCEPT !.ticks = v].stopped = timer[x].stopped
      BY <3>1, FieldFacts
    <3>3. \E v : TableWithout(s)[x] = [timer[x] EXCEPT !.ticks = v] \/ TableWithout(s)[x] = timer[x]
      BY <2>3
    <3>. QED
      BY <3>1, <3>2, <3>3
  <2>5. IsTable(TableWithout(s))
    BY <2>3, <2>4 DEF IsTable
  <2>. QED
    BY <2>1, <2>2, <2>4, <2>5, RemoveFacts DEF Agree
<1>. QED
  BY <1>1, <1>2

\* The table with another record for timer s.
LEMMA RecordFacts ==
  ASSUME NEW t, IsTable(t), NEW s \in Slots, NEW r, IsTimer(r)
  PROVE  /\ IsTable([t EXCEPT ![s] = r]) /\ [t EXCEPT ![s] = r][s] = r
         /\ \A x \in Slots : x # s => [t EXCEPT ![s] = r][x] = t[x]
BY DEF IsTable

-----------------------------------------------------------------------------
(* The invariant is inductive.                                              *)

\* Nothing is in use and nothing is listed.
LEMMA InitInv == Init => Inv
<1>. SUFFICES ASSUME Init PROVE Inv
  OBVIOUS
<1>1. IsTimer(Free) /\ Free.ms = 0
  BY DEF IsTimer, Free, Kinds
<1>2. IsTable(timer) /\ \A x \in Slots : timer[x].ms = 0
  BY <1>1 DEF Init, IsTable
<1>3. list \in Seq(Slots) /\ IsInjective(list) /\ \A x : ~ Contains(list, x)
  BY DEF Init, IsInjective, Contains
<1>4. last \in Slots /\ ~ firing
  BY TimersAssumption DEF Init, Slots
<1>. QED
  BY <1>2, <1>3, <1>4 DEF Inv, Agree

\* The search for a free slot, which starts behind the last one given out, finds one.
LEMMA NextFreeFacts ==
  ASSUME Inv, \E s \in Slots : timer[s].ms = 0
  PROVE  NextFree \in Slots /\ timer[NextFree].ms = 0
<1>. DEFINE distance(s) == (s - last - 1) % NumTimers
            D == {distance(s) : s \in {x \in Slots : timer[x].ms = 0}}
<1>1. \A s \in Slots : distance(s) \in Nat
  BY TimersAssumption DEF Inv, Slots
<1>. HIDE DEF distance
<1>2. D \in SUBSET Nat /\ D # {}
  BY <1>1
<1>3. PICK d \in D : \A e \in D : d <= e
  <2>. HIDE DEF D
  <2>. QED
    BY <1>2, Least
<1>4. PICK s \in Slots : timer[s].ms = 0 /\ \A x \in Slots : timer[x].ms = 0 => distance(s) <= distance(x)
  BY <1>3
<1>. QED
  BY <1>4 DEF NextFree, distance

\* TMR_AddTimer: a slot that was free was not listed.
LEMMA AddTimerInv ==
  ASSUME Inv, NEW ms \in Durations, NEW kind \in Kinds, NEW stopped \in BOOLEAN,
         AddTimer(ms, kind, stopped)
  PROVE  Inv'
<1>. DEFINE s == NextFree
            r == [ms |-> ms, ticks |-> Ticks(ms), kind |-> kind, stopped |-> stopped, expired |-> FALSE]
            t == [timer EXCEPT ![s] = r]
<1>1. s \in Slots /\ timer[s].ms = 0 /\ ~ firing /\ ~ firing' /\ last' = s
  BY NextFreeFacts DEF AddTimer
<1>2. IsTimer(r) /\ r.ms # 0 /\ r.stopped = stopped
  BY DurationsAssumption DEF IsTimer
<1>3. IsTable(t) /\ t[s] = r /\ \A x \in Slots : x # s => t[x] = timer[x]
  <2>. HIDE DEF r, s
  <2>. QED
    BY <1>1, <1>2, RecordFacts DEF Inv, Agree
<1>4. ~ Contains(list, s)
  BY <1>1 DEF Inv, Agree
<1>5. IF stopped THEN timer' = t /\ UNCHANGED list ELSE insertTimerNode(s, list, t)
  BY DEF AddTimer
<1>. HIDE DEF s, r, t
<1>6. CASE stopped
  <2>1. Agree(list', timer')
    BY <1>1, <1>2, <1>3, <1>4, <1>5, <1>6 DEF Inv, Agree
  <2>. QED
    BY <1>1, <2>1 DEF Inv
<1>7. CASE ~ stopped
  <2>1. Agree(list', timer')
    BY <1>1, <1>2, <1>3, <1>4, <1>5, <1>7, InsertAgrees DEF Inv, Agree
  <2>. QED
    BY <1>1, <2>1 DEF Inv
<1>. QED
  BY <1>6, <1>7

\* TMR_DeleteTimer takes the timer from the list before it frees the slot.
LEMMA DeleteTimerInv ==
  ASSUME Inv, NEW s \in Slots, DeleteTimer(s)
  PROVE  Inv'
<1>1. /\ list' = ListWithout(s) /\ timer' = [TableWithout(s) EXCEPT ![s] = Free]
      /\ ~ firing' /\ last' = last
  BY DEF DeleteTimer
<1>2. IsTimer(Free) /\ Free.ms = 0
  BY DEF IsTimer, Free, Kinds
<1>3. IsTable(timer') /\ timer'[s] = Free /\ \A x \in Slots : x # s => timer'[x] = TableWithout(s)[x]
  <2>1. IsTable(TableWithout(s))
    BY WithoutFacts DEF Inv
  <2>. QED
    BY <1>1, <1>2, <2>1 DEF IsTable
<1>4. /\ list' \in Seq(Slots) /\ IsInjective(list')
      /\ \A x : Contains(list', x) <=> Contains(list, x) /\ x # s
  BY <1>1, WithoutFacts DEF Inv
<1>5. ASSUME NEW x \in Slots PROVE Contains(list', x) <=> timer'[x].ms # 0 /\ ~ timer'[x].stopped
  <2>1. TableWithout(s)[x].ms = timer[x].ms /\ TableWithout(s)[x].stopped = timer[x].stopped
    BY WithoutFacts DEF Inv
  <2>2. Contains(list, x) <=> timer[x].ms # 0 /\ ~ timer[x].stopped
    BY DEF Inv, Agree
  <2>. QED
    BY <1>2, <1>3, <1>4, <2>1, <2>2
<1>6. Agree(list', timer')
  BY <1>3, <1>4, <1>5 DEF Agree
<1>. QED
  BY <1>1, <1>6 DEF Inv

\* TMR_StartTimer lists the timer unless it is listed already.
LEMMA StartTimerInv ==
  ASSUME Inv, NEW s \in Slots, StartTimer(s)
  PROVE  Inv'
<1>. DEFINE r == [timer[s] EXCEPT !.stopped = FALSE]
            t == [timer EXCEPT ![s] = r]
<1>1. /\ timer[s].ms # 0 /\ ~ Contains(list, s) /\ ~ firing' /\ last' = last
      /\ insertTimerNode(s, list, [timer EXCEPT ![s].stopped = FALSE])
  BY DEF StartTimer
<1>2. IsTimer(r) /\ r.ms = timer[s].ms /\ ~ r.stopped
  BY FieldFacts DEF Inv, Agree, IsTable
<1>3. IsTable(t) /\ t[s] = r /\ \A x \in Slots : x # s => t[x] = timer[x]
  <2>. HIDE DEF r
  <2>. QED
    BY <1>2, RecordFacts DEF Inv, Agree
<1>4. insertTimerNode(s, list, t)
  BY <1>1
<1>. HIDE DEF r, t
<1>5. Agree(list', timer')
  BY <1>1, <1>2, <1>3, <1>4, InsertAgrees DEF Inv, Agree
<1>. QED
  BY <1>1, <1>5 DEF Inv

\* TMR_StopTimer takes the timer from the list and marks it.
LEMMA StopTimerInv ==
  ASSUME Inv, NEW s \in Slots, StopTimer(s)
  PROVE  Inv'
<1>. DEFINE r == [TableWithout(s)[s] EXCEPT !.stopped = TRUE]
            t == [TableWithout(s) EXCEPT ![s] = r]
<1>1. list' = ListWithout(s) /\ timer' = t /\ ~ firing' /\ last' = last
  BY DEF StopTimer
<1>2. IsTimer(r) /\ r.stopped
  <2>1. IsTimer(TableWithout(s)[s])
    BY WithoutFacts DEF Inv, IsTable
  <2>. QED
    BY <2>1, FieldFacts
<1>3. IsTable(t) /\ t[s] = r /\ \A x \in Slots : x # s => t[x] = TableWithout(s)[x]
  <2>1. IsTable(TableWithout(s))
    BY WithoutFacts DEF Inv
  <2>. HIDE DEF r
  <2>. QED
    BY <1>2, <2>1, RecordFacts
<1>. HIDE DEF r, t
<1>4. /\ list' \in Seq(Slots) /\ IsInjective(list')
      /\ \A x : Contains(list', x) <=> Contains(list, x) /\ x # s
  BY <1>1, WithoutFacts DEF Inv
<1>5. ASSUME NEW x \in Slots PROVE Contains(list', x) <=> timer'[x].ms # 0 /\ ~ timer'[x].stopped
  <2>1. TableWithout(s)[x].ms = timer[x].ms /\ TableWithout(s)[x].stopped = timer[x].stopped
    BY WithoutFacts DEF Inv
  <2>2. Contains(list, x) <=> timer[x].ms # 0 /\ ~ timer[x].stopped
    BY DEF Inv, Agree
  <2>. QED
    BY <1>1, <1>2, <1>3, <1>4, <2>1, <2>2
<1>6. Agree(list', timer')
  BY <1>1, <1>3, <1>4, <1>5 DEF Agree
<1>. QED
  BY <1>1, <1>6 DEF Inv

\* TMR_ResetTimer takes the timer out and lists it again with its full time.
LEMMA ResetTimerInv ==
  ASSUME Inv, NEW s \in Slots, NEW value \in Durations \union {0}, ResetTimer(s, value)
  PROVE  Inv'
<1>. DEFINE ms == IF value > 0 THEN value ELSE timer[s].ms
            r == [TableWithout(s)[s] EXCEPT !.ms = ms, !.ticks = Ticks(ms), !.stopped = FALSE, !.expired = FALSE]
            t == [TableWithout(s) EXCEPT ![s] = r]
<1>1. insertTimerNode(s, ListWithout(s), t) /\ timer[s].ms # 0 /\ ~ firing' /\ last' = last
  BY DEF ResetTimer
<1>2. ms \in Nat /\ ms # 0
  BY <1>1, DurationsAssumption DEF Inv, Agree, IsTable, IsTimer
<1>. HIDE DEF ms
<1>3. IsTimer(r) /\ r.ms = ms /\ ~ r.stopped
  <2>1. IsTimer(TableWithout(s)[s])
    BY WithoutFacts DEF Inv, IsTable
  <2>2. r = [ms |-> ms, ticks |-> Ticks(ms), kind |-> TableWithout(s)[s].kind,
             stopped |-> FALSE, expired |-> FALSE]
    <3>1. ASSUME NEW u, u = r
          PROVE  u = [ms |-> ms, ticks |-> Ticks(ms), kind |-> TableWithout(s)[s].kind,
                      stopped |-> FALSE, expired |-> FALSE]
      BY <2>1, <3>1 DEF IsTimer
    <3>. QED
      BY <3>1
  <2>. QED
    BY <1>2, <2>1, <2>2 DEF IsTimer
<1>4. IsTable(t) /\ t[s] = r /\ \A x \in Slots : x # s => t[x] = TableWithout(s)[x]
  <2>1. IsTable(TableWithout(s))
    BY WithoutFacts DEF Inv
  <2>. HIDE DEF r
  <2>. QED
    BY <1>3, <2>1, RecordFacts
<1>. HIDE DEF r, t
<1>5. /\ ListWithout(s) \in Seq(Slots) /\ IsInjective(ListWithout(s)) /\ ~ Contains(ListWithout(s), s)
      /\ \A x \in Slots \ {s} : Contains(ListWithout(s), x) <=> t[x].ms # 0 /\ ~ t[x].stopped
  <2>1. /\ ListWithout(s) \in Seq(Slots) /\ IsInjective(ListWithout(s))
        /\ \A x : Contains(ListWithout(s), x) <=> Contains(list, x) /\ x # s
        /\ \A x \in Slots : /\ TableWithout(s)[x].ms = timer[x].ms
                            /\ TableWithout(s)[x].stopped = timer[x].stopped
    BY WithoutFacts DEF Inv
  <2>2. \A x \in Slots : Contains(list, x) <=> timer[x].ms # 0 /\ ~ timer[x].stopped
    BY DEF Inv, Agree
  <2>. QED
    BY <1>4, <2>1, <2>2
<1>6. t[s].ms # 0 /\ ~ t[s].stopped
  BY <1>2, <1>3, <1>4
<1>7. Agree(list', timer')
  BY <1>1, <1>4, <1>5, <1>6, InsertAgrees
<1>. QED
  BY <1>1, <1>7 DEF Inv

\* A tick counts down the head of the list.
LEMMA TickInv ==
  ASSUME Inv, Tick
  PROVE  Inv'
<1>. DEFINE s == Head(list)  r == [timer[s] EXCEPT !.ticks = @ - 1]
<1>1. /\ list # <<>> /\ UNCHANGED <<list, last>> /\ timer' = [timer EXCEPT ![s] = r]
  BY DEF Tick
<1>2. s \in Slots
  BY <1>1 DEF Inv, Agree
<1>3. IsTimer(r) /\ r.ms = timer[s].ms /\ r.stopped = timer[s].stopped
  <2>1. IsTimer(timer[s])
    BY <1>2 DEF Inv, Agree, IsTable
  <2>. HIDE DEF s
  <2>. QED
    BY <2>1, FieldFacts
<1>4. IsTable(timer') /\ timer'[s] = r /\ \A x \in Slots : x # s => timer'[x] = timer[x]
  <2>1. IsTable(timer)
    BY DEF Inv, Agree
  <2>. HIDE DEF r, s
  <2>. QED
    BY <1>1, <1>2, <1>3, <2>1 DEF IsTable
<1>. HIDE DEF r, s
<1>. QED
  BY <1>1, <1>3, <1>4 DEF Inv, Agree

\* One turn of the handler's loop: the head goes, and comes back if it is periodic.
LEMMA FireInv ==
  ASSUME Inv, Fire
  PROVE  Inv'
<1>. DEFINE s == Head(list)
            r == [timer[s] EXCEPT !.ticks = Ticks(timer[s].ms)]
            wound == [timer EXCEPT ![s] = r]
<1>1. list # <<>> /\ last' = last /\ firing' = DueIn(list', timer')
  BY DEF Fire, Inv
<1>2. /\ s \in Slots /\ Contains(list, s)
      /\ Tail(list) \in Seq(Slots) /\ IsInjective(Tail(list))
      /\ \A x : Contains(Tail(list), x) <=> Contains(list, x) /\ x # s
  BY <1>1, TailFacts DEF Inv, Agree
<1>3. /\ timer[s].ms # 0 /\ ~ timer[s].stopped /\ IsTimer(timer[s])
      /\ timer[s].kind \in {"periodic", "oneShot", "oneShotDelete"}
  BY <1>2 DEF Inv, Agree, IsTable, IsTimer, Kinds
<1>4. IsTimer(r) /\ r.ms = timer[s].ms /\ ~ r.stopped
  BY <1>3, FieldFacts
<1>5. IsTable(wound) /\ wound[s] = r /\ \A x \in Slots : x # s => wound[x] = timer[x]
  <2>1. IsTable(timer)
    BY DEF Inv, Agree
  <2>. HIDE DEF r, s
  <2>. QED
    BY <1>2, <1>4, <2>1, RecordFacts
<1>6. CASE timer[s].kind = "periodic"
  <2>1. insertTimerNode(s, Tail(list), wound)
    BY <1>6 DEF Fire
  <2>. HIDE DEF s, r, wound
  <2>2. Agree(list', timer')
    BY <1>2, <1>3, <1>4, <1>5, <2>1, InsertAgrees DEF Inv, Agree
  <2>. QED
    BY <1>1, <2>2 DEF Inv, DueIn
<1>7. CASE timer[s].kind = "oneShot"
  <2>. DEFINE over == [r EXCEPT !.stopped = TRUE, !.expired = TRUE]
  <2>1. list' = Tail(list) /\ timer' = [wound EXCEPT ![s].stopped = TRUE, ![s].expired = TRUE]
    BY <1>7 DEF Fire
  <2>. HIDE DEF s, r, wound
  <2>2. IsTimer(over) /\ over.stopped
    <3>1. over = [ms |-> r.ms, ticks |-> r.ticks, kind |-> r.kind, stopped |-> TRUE, expired |-> TRUE]
      <4>1. ASSUME NEW u, u = over
            PROVE  u = [ms |-> r.ms, ticks |-> r.ticks, kind |-> r.kind, stopped |-> TRUE, expired |-> TRUE]
        BY <1>4, <4>1 DEF IsTimer
      <4>. QED
        BY <4>1
    <3>. QED
      BY <1>4, <3>1 DEF IsTimer
  <2>3. timer' = [wound EXCEPT ![s] = over]
    BY <1>2, <1>5, <2>1 DEF IsTable
  <2>. HIDE DEF over
  <2>4. IsTable(timer') /\ timer'[s] = over /\ \A x \in Slots : x # s => timer'[x] = wound[x]
    BY <1>2, <1>5, <2>2, <2>3 DEF IsTable
  <2>5. ASSUME NEW x \in Slots PROVE Contains(list', x) <=> timer'[x].ms # 0 /\ ~ timer'[x].stopped
    <3>1. Contains(list, x) <=> timer[x].ms # 0 /\ ~ timer[x].stopped
      BY DEF Inv, Agree
    <3>2. CASE x = s
      BY <1>2, <2>1, <2>2, <2>4, <3>2
    <3>3. CASE x # s
      BY <1>2, <1>5, <2>1, <2>4, <3>1, <3>3
    <3>. QED
      BY <3>2, <3>3
  <2>6. Agree(list', timer')
    BY <1>2, <2>1, <2>4, <2>5 DEF Agree
  <2>. QED
    BY <1>1, <2>6 DEF Inv, DueIn
<1>8. CASE timer[s].kind = "oneShotDelete"
  <2>1. list' = Tail(list) /\ timer' = [timer EXCEPT ![s] = Free]
    BY <1>8 DEF Fire
  <2>2. IsTimer(Free) /\ Free.ms = 0
    BY DEF IsTimer, Free, Kinds
  <2>. HIDE DEF s
  <2>3. IsTable(timer') /\ timer'[s] = Free /\ \A x \in Slots : x # s => timer'[x] = timer[x]
    <3>1. IsTable(timer)
      BY DEF Inv, Agree
    <3>. QED
      BY <1>2, <2>1, <2>2, <3>1 DEF IsTable
  <2>4. Agree(list', timer')
    BY <1>2, <2>1, <2>2, <2>3 DEF Inv, Agree
  <2>. QED
    BY <1>1, <2>4 DEF Inv, DueIn
<1>. QED
  BY <1>3, <1>6, <1>7, <1>8

\* Every step keeps the invariant.
LEMMA NextInv ==
  ASSUME Inv, [Next]_vars
  PROVE  Inv'
<1>1. CASE UNCHANGED vars
  BY <1>1 DEF vars, Inv, Agree
<1>. QED
  BY <1>1, AddTimerInv, DeleteTimerInv, StartTimerInv, StopTimerInv, ResetTimerInv, TickInv, FireInv
  DEF Next

-----------------------------------------------------------------------------
(* The theorem.                                                             *)

\* The list holds exactly the timers that are in use and not marked stopped, each
\* once, whatever is added, started, stopped, reset or deleted between the ticks:
\* TMR_StartTimer and TMR_StopTimer may decide by looking for the timer in the list.
THEOREM ListAgreesWithMarks == Spec => []ListedAreActive
<1>1. Inv /\ [Next]_vars => Inv'
  BY NextInv
<1>2. Inv => ListedAreActive
  BY DEF Inv, Agree, ListedAreActive
<1>. QED
  BY InitInv, <1>1, <1>2, PTL DEF Spec

-----------------------------------------------------------------------------
(* What is left along the list: the sums that TimerList's recursive function takes. *)

\* The sums are those the definition of Left asks for: such a function exists.
LEMMA LeftFacts ==
  ASSUME NEW l \in Seq(Slots), NEW t
  PROVE  /\ Left(l, t)[0] = 0
         /\ \A i \in 1 .. Len(l) : Left(l, t)[i] = Left(l, t)[i - 1] + t[l[i]].ticks
<1>. DEFINE Sums(n, g) ==
       g = [i \in 0 .. n |-> IF i = 0 THEN 0 ELSE g[i - 1] + t[l[i]].ticks]
<1>. DEFINE P == {n \in 0 .. Len(l) : \E g : Sums(n, g)}
<1>1. 0 \in P
  <2>1. Sums(0, [i \in 0 .. 0 |-> 0])
    OBVIOUS
  <2>2. 0 \in 0 .. Len(l)
    OBVIOUS
  <2>. QED
    BY <2>1, <2>2
<1>2. ASSUME NEW n \in 1 .. Len(l), n - 1 \in P PROVE n \in P
  <2>1. PICK g : Sums(n - 1, g)
    BY <1>2
  <2>. DEFINE h == [i \in 0 .. n |-> IF i = n THEN g[n - 1] + t[l[n]].ticks ELSE g[i]]
  <2>2. ASSUME NEW i \in 0 .. n PROVE h[i] = IF i = 0 THEN 0 ELSE h[i - 1] + t[l[i]].ticks
    <3>1. CASE i = n
      BY <3>1
    <3>2. CASE i # n
      <4>1. i \in 0 .. n - 1 /\ h[i] = g[i]
        BY <3>2
      <4>2. g[i] = IF i = 0 THEN 0 ELSE g[i - 1] + t[l[i]].ticks
        BY <2>1, <4>1
      <4>3. i # 0 => h[i - 1] = g[i - 1]
        BY <3>2
      <4>. QED
        BY <4>1, <4>2, <4>3
    <3>. QED
      BY <3>1, <3>2
  <2>3. h = [i \in 0 .. n |-> IF i = 0 THEN 0 ELSE h[i - 1] + t[l[i]].ticks]
    BY <2>2
  <2>. HIDE DEF h
  <2>4. n \in 0 .. Len(l) /\ \E k : Sums(n, k)
    BY <2>3
  <2>. QED
    BY <2>4
<1>3. \E g : Sums(Len(l), g)
  <2>. HIDE DEF P
  <2>1. Len(l) \in P
    <3>1. Len(l) \in Nat
      OBVIOUS
    <3>. QED
      BY <1>1, <1>2, <3>1, Climb, SMTT(30)
  <2>. QED
    BY <2>1 DEF P
<1>4. Sums(Len(l), Left(l, t))
  BY <1>3 DEF Left
<1>. HIDE DEF P
<1>. QED
  BY <1>4

\* What adds up like the sums is the sums.
LEMMA LeftUnique ==
  ASSUME NEW l \in Seq(Slots), NEW t, NEW g, g[0] = 0,
         \A i \in 1 .. Len(l) : g[i] = g[i - 1] + t[l[i]].ticks
  PROVE  \A i \in 0 .. Len(l) : Left(l, t)[i] = g[i]
<1>. DEFINE P == {i \in 0 .. Len(l) : Left(l, t)[i] = g[i]}
<1>1. 0 \in P /\ \A i \in 1 .. Len(l) : i - 1 \in P => i \in P
  BY LeftFacts
<1>. HIDE DEF P
<1>2. 0 .. Len(l) \subseteq P
  BY <1>1, Climb
<1>. QED
  BY <1>2 DEF P

Counted(t) == \A x \in Slots : t[x].ticks \in Nat

\* They are numbers and do not decrease along the list.
LEMMA LeftGrows ==
  ASSUME NEW l \in Seq(Slots), NEW t, Counted(t)
  PROVE  /\ \A i \in 0 .. Len(l) : Left(l, t)[i] \in Nat
         /\ \A i \in 1 .. Len(l) : t[l[1]].ticks <= Left(l, t)[i]
<1>. DEFINE L == Left(l, t)
            P == {i \in 0 .. Len(l) : L[i] \in Nat /\ (i > 0 => t[l[1]].ticks <= L[i])}
<1>1. \A i \in 1 .. Len(l) : l[i] \in Slots /\ t[l[i]].ticks \in Nat
  BY DEF Counted
<1>2. L[0] = 0 /\ \A i \in 1 .. Len(l) : L[i] = L[i - 1] + t[l[i]].ticks
  BY LeftFacts
<1>. HIDE DEF L
<1>3. Len(l) \in Nat
  OBVIOUS
<1>4. 0 \in P
  BY <1>2, <1>3
<1>5. ASSUME NEW i \in 1 .. Len(l), i - 1 \in P PROVE i \in P
  <2>1. l[i] \in Slots /\ t[l[i]].ticks \in Nat /\ t[l[1]].ticks \in Nat
    BY <1>1
  <2>2. L[i] = L[i - 1] + t[l[i]].ticks /\ L[i - 1] \in Nat
    BY <1>2, <1>5
  <2>3. i = 1 => L[i - 1] = 0
    BY <1>2
  <2>4. i # 1 => t[l[1]].ticks <= L[i - 1]
    BY <1>5
  <2>. QED
    BY <2>1, <2>2, <2>3, <2>4
<1>. HIDE DEF P
<1>6. 0 .. Len(l) \subseteq P
  BY <1>3, <1>4, <1>5, Climb
<1>. QED
  BY <1>6 DEF P, L

-----------------------------------------------------------------------------
(* What each timer has left, in the list or out of it.                      *)

Total(l, t, x) ==
  IF Contains(l, x) THEN Left(l, t)[CHOOSE i \in DOMAIN l : l[i] = x] ELSE t[x].ticks

\* What the timer at a place has left is the sum up to that place.
LEMMA TotalAt ==
  ASSUME NEW l \in Seq(Slots), NEW t, IsInjective(l), NEW i \in 1 .. Len(l)
  PROVE  Contains(l, l[i]) /\ Total(l, t, l[i]) = Left(l, t)[i]
<1>1. DOMAIN l = 1 .. Len(l)
  OBVIOUS
<1>2. Contains(l, l[i])
  BY DEF Contains
<1>3. (CHOOSE j \in DOMAIN l : l[j] = l[i]) = i
  BY <1>1 DEF IsInjective
<1>. QED
  BY <1>2, <1>3 DEF Total

\* Nothing listed has less than the head.
LEMMA DueMeans ==
  ASSUME NEW l \in Seq(Slots), NEW t, IsInjective(l), Counted(t)
  PROVE  DueIn(l, t) <=> \E x \in Slots : Contains(l, x) /\ Total(l, t, x) = 0
<1>1. CASE l = <<>>
  BY <1>1 DEF DueIn, Contains
<1>2. CASE l # <<>>
  <2>1. /\ Len(l) \in Nat \ {0} /\ Head(l) = l[1] /\ 1 \in 1 .. Len(l)
        /\ \A i \in 1 .. Len(l) : l[i] \in Slots
    BY <1>2
  <2>2. /\ \A i \in 0 .. Len(l) : Left(l, t)[i] \in Nat
        /\ \A i \in 1 .. Len(l) : t[l[1]].ticks <= Left(l, t)[i]
    BY LeftGrows
  <2>3. Left(l, t)[1] = t[l[1]].ticks
    <3>1. Left(l, t)[1] = 0 + t[l[1]].ticks
      BY <2>1, LeftFacts
    <3>. QED
      BY <2>1, <3>1 DEF Counted
  <2>4. \A i \in 1 .. Len(l) : Contains(l, l[i]) /\ Total(l, t, l[i]) = Left(l, t)[i]
    BY TotalAt
  <2>5. \A x : Contains(l, x) => \E i \in 1 .. Len(l) : x = l[i]
    BY DEF Contains
  <2>6. t[l[1]].ticks \in Nat
    BY <2>1 DEF Counted
  <2>. QED
    BY <1>2, <2>1, <2>2, <2>3, <2>4, <2>5, <2>6, SMTT(30) DEF DueIn
<1>. QED
  BY <1>1, <1>2

\* Insertion leaves what every other timer has left as it was.
LEMMA InsertTotals ==
  ASSUME NEW s \in Slots, NEW l \in Seq(Slots), NEW t, IsInjective(l), ~ Contains(l, s), IsTable(t),
         Counted(t), insertTimerNode(s, l, t)
  PROVE  /\ list' \in Seq(Slots) /\ IsInjective(list')
         /\ \A x : Contains(list', x) <=> Contains(l, x) \/ x = s
         /\ Counted(timer') /\ timer' = [x \in Slots |-> timer'[x]]
         /\ \A x \in Slots : /\ timer'[x] = [t[x] EXCEPT !.ticks = timer'[x].ticks]
                             /\ x # s /\ ~ Contains(l, x) => timer'[x] = t[x]
                             /\ Total(list', timer', x) = Total(l, t, x)
         /\ Total(list', timer', s) = t[s].ticks
<1>. DEFINE L == Left(l, t)
            later == {i \in DOMAIN l : t[s].ticks < L[i]}
            at == Place(t[s].ticks, l, t)
            delta == t[s].ticks - L[at - 1]
<1>1. /\ L[0] = 0 /\ \A i \in 1 .. Len(l) : L[i] = L[i - 1] + t[l[i]].ticks
      /\ \A i \in 0 .. Len(l) : L[i] \in Nat
      /\ \A i \in 1 .. Len(l) : l[i] \in Slots /\ t[l[i]].ticks \in Nat
      /\ t[s].ticks \in Nat /\ Len(l) \in Nat /\ DOMAIN l = 1 .. Len(l)
  BY LeftFacts, LeftGrows DEF Counted
<1>. HIDE DEF L
<1>2. /\ at \in 1 .. Len(l) + 1
      /\ at <= Len(l) => t[s].ticks < L[at]
      /\ L[at - 1] <= t[s].ticks
  <2>1. CASE later = {}
    <3>1. at = Len(l) + 1
      BY <2>1 DEF Place, L
    <3>2. CASE Len(l) = 0
      BY <1>1, <3>1, <3>2
    <3>3. CASE Len(l) # 0
      <4>1. Len(l) \notin later
        BY <2>1
      <4>. QED
        BY <1>1, <3>1, <3>3, <4>1
    <3>. QED
      BY <3>2, <3>3
  <2>2. CASE later # {}
    <3>1. later \in SUBSET Nat
      BY <1>1
    <3>2. \E i \in later : \A j \in later : i <= j
      <4>. HIDE DEF later
      <4>. QED
        BY <2>2, <3>1, Least
    <3>3. at = CHOOSE i \in later : \A j \in later : i <= j
      BY <2>2 DEF Place, L
    <3>4. at \in later /\ \A j \in later : at <= j
      <4>. HIDE DEF later, at
      <4>. QED
        BY <3>2, <3>3
    <3>. HIDE DEF at
    <3>5. at \in 1 .. Len(l) /\ t[s].ticks < L[at] /\ at - 1 \notin later
      BY <1>1, <3>4
    <3>6. at - 1 = 0 \/ at - 1 \in 1 .. Len(l)
      BY <1>1, <3>5
    <3>. QED
      BY <1>1, <3>5, <3>6
  <2>. QED
    BY <2>1, <2>2
<1>3. /\ list' = InsertAt(l, at, s)
      /\ timer' = [x \in Slots |->
                     IF x = s THEN [t[x] EXCEPT !.ticks = delta]
                     ELSE IF at <= Len(l) /\ x = l[at] THEN [t[x] EXCEPT !.ticks = @ - delta]
                     ELSE t[x]]
  BY DEF insertTimerNode, L
<1>. HIDE DEF later, at
<1>4. /\ list' \in Seq(Slots) /\ Len(list') = Len(l) + 1
      /\ \A i \in 1 .. Len(l) + 1 :
              list'[i] = IF i < at THEN l[i] ELSE IF i = at THEN s ELSE l[i - 1]
      /\ IsInjective(list') /\ \A x : Contains(list', x) <=> Contains(l, x) \/ x = s
  BY <1>2, <1>3, InsertEntries, InsertFacts, SMTT(30)
<1>5. at - 1 \in 0 .. Len(l) /\ L[at - 1] \in Nat /\ delta \in Nat
  BY <1>1, <1>2
<1>6. at <= Len(l) => t[l[at]].ticks - delta \in Nat /\ t[l[at]].ticks - delta = L[at] - t[s].ticks
  BY <1>1, <1>2, <1>5
<1>. HIDE DEF delta
<1>7. \A x \in Slots : \A v : /\ [t[x] EXCEPT !.ticks = v].ticks = v
                              /\ t[x] = [t[x] EXCEPT !.ticks = t[x].ticks]
  BY DEF IsTable, IsTimer
<1>8. ASSUME NEW x \in Slots
      PROVE  /\ timer'[x].ticks = IF x = s THEN delta
                                  ELSE IF at <= Len(l) /\ x = l[at] THEN t[x].ticks - delta
                                  ELSE t[x].ticks
             /\ timer'[x] = [t[x] EXCEPT !.ticks = timer'[x].ticks]
             /\ x # s /\ ~ (at <= Len(l) /\ x = l[at]) => timer'[x] = t[x]
  <2>1. timer'[x] = IF x = s THEN [t[x] EXCEPT !.ticks = delta]
                     ELSE IF at <= Len(l) /\ x = l[at] THEN [t[x] EXCEPT !.ticks = t[x].ticks - delta]
                     ELSE t[x]
    BY <1>3
  <2>2. CASE x = s
    BY <1>7, <2>1, <2>2
  <2>3. CASE x # s /\ at <= Len(l) /\ x = l[at]
    <3>1. timer'[x] = [t[x] EXCEPT !.ticks = t[x].ticks - delta]
      BY <2>1, <2>3
    <3>. QED
      BY <1>7, <2>3, <3>1
  <2>4. CASE x # s /\ ~ (at <= Len(l) /\ x = l[at])
    <3>1. timer'[x] = t[x]
      BY <2>1, <2>4
    <3>. QED
      BY <1>7, <2>4, <3>1
  <2>. QED
    BY <2>2, <2>3, <2>4
<1>9. Counted(timer')
  <2>1. ASSUME NEW x \in Slots PROVE timer'[x].ticks \in Nat
    <3>1. t[x].ticks \in Nat
      BY DEF Counted
    <3>2. CASE x # s /\ at <= Len(l) /\ x = l[at]
      BY <1>6, <1>8, <3>2
    <3>3. CASE x = s \/ ~ (at <= Len(l) /\ x = l[at])
      BY <1>5, <1>8, <3>1, <3>3
    <3>. QED
      BY <3>2, <3>3
  <2>. QED
    BY <2>1 DEF Counted
<1>0. \A i, j \in 1 .. Len(l) : l[i] = l[j] => i = j
  BY <1>1 DEF IsInjective
<1>. DEFINE g == [i \in 0 .. Len(l) + 1 |->
                   IF i < at THEN L[i] ELSE IF i = at THEN t[s].ticks ELSE L[i - 1]]
<1>10. \A i \in 0 .. Len(l) + 1 : Left(list', timer')[i] = g[i]
  <2>1. g[0] = 0
    BY <1>1, <1>2
  <2>2. ASSUME NEW i \in 1 .. Len(l) + 1 PROVE g[i] = g[i - 1] + timer'[list'[i]].ticks
    <3>1. \A j \in 1 .. Len(l) : l[j] # s
      BY DEF Contains
    <3>2. CASE i < at
      <4>1. i \in 1 .. Len(l) /\ list'[i] = l[i] /\ g[i] = L[i] /\ g[i - 1] = L[i - 1]
        BY <1>1, <1>2, <1>4, <3>2
      <4>2. l[i] # s /\ (at <= Len(l) => l[i] # l[at])
        BY <1>0, <1>2, <3>1, <3>2, <4>1
      <4>3. timer'[l[i]].ticks = t[l[i]].ticks
        BY <1>1, <1>8, <4>1, <4>2
      <4>. QED
        BY <1>1, <4>1, <4>3
    <3>3. CASE i = at
      <4>1. list'[i] = s /\ g[i] = t[s].ticks /\ g[i - 1] = L[at - 1]
        BY <1>1, <1>2, <1>4, <3>3
      <4>2. timer'[s].ticks = delta
        BY <1>8
      <4>. QED
        BY <1>1, <1>5, <4>1, <4>2 DEF delta
    <3>4. CASE i = at + 1
      <4>1. at <= Len(l) /\ list'[i] = l[at] /\ g[i] = L[at] /\ g[i - 1] = t[s].ticks
        BY <1>1, <1>2, <1>4, <3>4
      <4>2. timer'[l[at]].ticks = L[at] - t[s].ticks
        <5>1. at \in 1 .. Len(l) /\ l[at] \in Slots /\ l[at] # s
          BY <1>1, <1>2, <3>1, <4>1
        <5>. QED
          BY <1>6, <1>8, <4>1, <5>1
      <4>. QED
        BY <1>1, <1>2, <4>1, <4>2
    <3>5. CASE i > at + 1
      <4>1. i - 1 \in 1 .. Len(l) /\ list'[i] = l[i - 1] /\ g[i] = L[i - 1] /\ g[i - 1] = L[i - 2]
        BY <1>1, <1>2, <1>4, <3>5
      <4>2. l[i - 1] # s /\ l[i - 1] # l[at] /\ l[i - 1] \in Slots
        BY <1>0, <1>1, <1>2, <3>1, <3>5, <4>1
      <4>3. timer'[l[i - 1]].ticks = t[l[i - 1]].ticks
        BY <1>8, <4>2
      <4>4. L[i - 1] = L[(i - 1) - 1] + t[l[i - 1]].ticks /\ (i - 1) - 1 = i - 2
        BY <1>1, <4>1
      <4>. QED
        BY <4>1, <4>3, <4>4
    <3>. QED
      BY <1>2, <3>2, <3>3, <3>4, <3>5
  <2>. HIDE DEF g
  <2>. QED
    BY <1>4, <2>1, <2>2, LeftUnique
<1>11. Total(list', timer', s) = t[s].ticks
  <2>1. list'[at] = s /\ at \in 1 .. Len(list') /\ g[at] = t[s].ticks
    BY <1>1, <1>2, <1>4
  <2>2. Total(list', timer', list'[at]) = Left(list', timer')[at]
    BY <1>4, <2>1, TotalAt
  <2>. HIDE DEF g
  <2>. QED
    BY <1>1, <1>2, <1>10, <2>1, <2>2
<1>12. Total(l, t, s) = t[s].ticks
  BY DEF Total
<1>13. ASSUME NEW x \in Slots, x # s PROVE Total(list', timer', x) = Total(l, t, x)
  <2>1. CASE Contains(l, x)
    <3>1. PICK i \in 1 .. Len(l) : x = l[i]
      BY <2>1 DEF Contains
    <3>. DEFINE j == IF i < at THEN i ELSE i + 1
    <3>2. j \in 1 .. Len(l) + 1 /\ list'[j] = x /\ g[j] = L[i]
      BY <1>1, <1>2, <1>4, <3>1
    <3>. HIDE DEF j, g
    <3>3. Total(list', timer', list'[j]) = Left(list', timer')[j]
      BY <1>4, <3>2, TotalAt
    <3>4. Total(l, t, l[i]) = L[i]
      BY TotalAt DEF L
    <3>. QED
      BY <1>1, <1>10, <3>1, <3>2, <3>3, <3>4
  <2>2. CASE ~ Contains(l, x)
    <3>1. ~ Contains(list', x)
      BY <1>4, <1>13, <2>2
    <3>2. timer'[x].ticks = t[x].ticks
      <4>1. ~ (at <= Len(l) /\ x = l[at])
        BY <1>2, <2>2 DEF Contains
      <4>. QED
        BY <1>8, <1>13, <4>1
    <3>. QED
      BY <2>2, <3>1, <3>2 DEF Total
  <2>. QED
    BY <2>1, <2>2
<1>14. ASSUME NEW x \in Slots, x # s, ~ Contains(l, x) PROVE timer'[x] = t[x]
  <2>1. ~ (at <= Len(l) /\ x = l[at])
    BY <1>2, <1>14 DEF Contains
  <2>. QED
    BY <1>8, <1>14, <2>1
<1>15. timer' = [x \in Slots |-> timer'[x]]
  BY <1>3
<1>. QED
  BY <1>4, <1>8, <1>9, <1>11, <1>12, <1>13, <1>14, <1>15

\* Records of timers that are not listed do not matter.
LEMMA OthersTotals ==
  ASSUME NEW l \in Seq(Slots), NEW t, NEW u, IsInjective(l),
         \A x \in Slots : Contains(l, x) => u[x].ticks = t[x].ticks
  PROVE  \A x \in Slots : Total(l, u, x) = IF Contains(l, x) THEN Total(l, t, x) ELSE u[x].ticks
<1>1. \A i \in 1 .. Len(l) : u[l[i]].ticks = t[l[i]].ticks
  BY DEF Contains
<1>2. \A i \in 0 .. Len(l) : Left(l, u)[i] = Left(l, t)[i]
  <2>1. /\ Left(l, t)[0] = 0
        /\ \A i \in 1 .. Len(l) : Left(l, t)[i] = Left(l, t)[i - 1] + u[l[i]].ticks
    BY <1>1, LeftFacts
  <2>. QED
    BY <2>1, LeftUnique
<1>3. ASSUME NEW x \in Slots, Contains(l, x) PROVE Total(l, u, x) = Total(l, t, x)
  <2>1. PICK i \in 1 .. Len(l) : x = l[i]
    BY <1>3 DEF Contains
  <2>2. Total(l, u, l[i]) = Left(l, u)[i] /\ Total(l, t, l[i]) = Left(l, t)[i]
    BY TotalAt
  <2>. QED
    BY <1>2, <2>1, <2>2
<1>4. ASSUME NEW x \in Slots, ~ Contains(l, x) PROVE Total(l, u, x) = u[x].ticks
  BY <1>4 DEF Total
<1>. QED
  BY <1>3, <1>4

\* A due head may go: nobody's time changes.
LEMMA TailTotals ==
  ASSUME NEW l \in Seq(Slots), l # <<>>, NEW t, IsInjective(l), Counted(t), t[Head(l)].ticks = 0
  PROVE  \A x \in Slots : x # Head(l) => Total(Tail(l), t, x) = Total(l, t, x)
<1>. DEFINE m == Tail(l)
<1>1. /\ Len(l) \in Nat \ {0} /\ Head(l) = l[1] /\ m \in Seq(Slots)
      /\ Len(m) = Len(l) - 1 /\ \A i \in 1 .. Len(l) - 1 : m[i] = l[i + 1]
  OBVIOUS
<1>2. /\ IsInjective(m) /\ Contains(l, Head(l))
      /\ \A x : Contains(m, x) <=> Contains(l, x) /\ x # Head(l)
  BY TailFacts
<1>. HIDE DEF m
<1>. DEFINE L == Left(l, t)
            g == [i \in 0 .. Len(l) - 1 |-> L[i + 1]]
<1>3. L[0] = 0 /\ \A i \in 1 .. Len(l) : L[i] = L[i - 1] + t[l[i]].ticks
  BY LeftFacts
<1>. HIDE DEF L
<1>4. \A i \in 0 .. Len(l) - 1 : Left(m, t)[i] = L[i + 1]
  <2>1. g[0] = 0
    <3>1. L[1] = L[1 - 1] + t[l[1]].ticks
      BY <1>1, <1>3
    <3>. QED
      BY <1>1, <1>3, <3>1
  <2>2. ASSUME NEW i \in 1 .. Len(l) - 1 PROVE g[i] = g[i - 1] + t[m[i]].ticks
    <3>1. i + 1 \in 1 .. Len(l) /\ m[i] = l[i + 1] /\ (i + 1) - 1 = i
      BY <1>1
    <3>2. L[i + 1] = L[i] + t[l[i + 1]].ticks
      BY <1>3, <3>1
    <3>3. g[i] = L[i + 1] /\ g[i - 1] = L[(i - 1) + 1] /\ (i - 1) + 1 = i
      BY <1>1
    <3>. QED
      BY <3>1, <3>2, <3>3
  <2>3. \A i \in 0 .. Len(l) - 1 : g[i] = L[i + 1]
    OBVIOUS
  <2>. HIDE DEF g
  <2>4. \A i \in 0 .. Len(m) : Left(m, t)[i] = g[i]
    BY <1>1, <2>1, <2>2, LeftUnique
  <2>. QED
    BY <1>1, <2>3, <2>4
<1>5. ASSUME NEW x \in Slots, x # Head(l) PROVE Total(m, t, x) = Total(l, t, x)
  <2>1. CASE Contains(l, x)
    <3>1. PICK i \in 1 .. Len(l) : x = l[i]
      BY <2>1 DEF Contains
    <3>2. i - 1 \in 1 .. Len(l) - 1 /\ m[i - 1] = x /\ (i - 1) + 1 = i
      BY <1>1, <1>5, <3>1
    <3>3. Total(l, t, l[i]) = L[i]
      BY TotalAt DEF L
    <3>4. Total(m, t, m[i - 1]) = Left(m, t)[i - 1]
      BY <1>1, <1>2, <3>2, TotalAt
    <3>5. Left(m, t)[i - 1] = L[(i - 1) + 1]
      BY <1>4, <3>2
    <3>. QED
      BY <3>1, <3>2, <3>3, <3>4, <3>5
  <2>2. CASE ~ Contains(l, x)
    BY <1>2, <2>2 DEF Total
  <2>. QED
    BY <2>1, <2>2
<1>. QED
  BY <1>5 DEF m

\* One tick less for the head is one less for every timer listed.
LEMMA TickTotals ==
  ASSUME NEW l \in Seq(Slots), l # <<>>, NEW t, NEW u, IsInjective(l), Counted(t),
         u[Head(l)].ticks = t[Head(l)].ticks - 1,
         \A x \in Slots : x # Head(l) => u[x].ticks = t[x].ticks
  PROVE  \A x \in Slots : Total(l, u, x) = IF Contains(l, x) THEN Total(l, t, x) - 1
                                           ELSE Total(l, t, x)
<1>. DEFINE L == Left(l, t)
            g == [i \in 0 .. Len(l) |-> IF i = 0 THEN 0 ELSE L[i] - 1]
<1>1. /\ Len(l) \in Nat \ {0} /\ Head(l) = l[1]
      /\ \A i \in 1 .. Len(l) : l[i] \in Slots
  OBVIOUS
<1>2. /\ L[0] = 0 /\ \A i \in 1 .. Len(l) : L[i] = L[i - 1] + t[l[i]].ticks
      /\ \A i \in 0 .. Len(l) : L[i] \in Nat
  BY LeftFacts, LeftGrows
<1>. HIDE DEF L
<1>3. ASSUME NEW i \in 1 .. Len(l) PROVE g[i] = g[i - 1] + u[l[i]].ticks
  <2>1. L[i] = L[i - 1] + t[l[i]].ticks /\ L[i] \in Nat /\ L[i - 1] \in Nat /\ t[l[i]].ticks \in Nat
    BY <1>1, <1>2 DEF Counted
  <2>2. CASE i = 1
    BY <1>1, <1>2, <2>1, <2>2
  <2>3. CASE i # 1
    <3>1. l[i] # Head(l) /\ l[i] \in Slots
      BY <1>1, <2>3 DEF IsInjective
    <3>2. u[l[i]].ticks = t[l[i]].ticks
      BY <3>1
    <3>3. g[i] = L[i] - 1 /\ g[i - 1] = L[i - 1] - 1
      BY <1>1, <2>3
    <3>. QED
      BY <2>1, <3>2, <3>3
  <2>. QED
    BY <2>2, <2>3
<1>4. \A i \in 1 .. Len(l) : Left(l, u)[i] = L[i] - 1
  <2>1. g[0] = 0 /\ \A i \in 1 .. Len(l) : g[i] = L[i] - 1
    BY <1>1
  <2>. HIDE DEF g
  <2>2. \A i \in 0 .. Len(l) : Left(l, u)[i] = g[i]
    BY <1>3, <2>1, LeftUnique
  <2>. QED
    BY <1>1, <2>1, <2>2
<1>5. ASSUME NEW x \in Slots, Contains(l, x) PROVE Total(l, u, x) = Total(l, t, x) - 1
  <2>1. PICK i \in 1 .. Len(l) : x = l[i]
    BY <1>5 DEF Contains
  <2>2. Total(l, u, l[i]) = Left(l, u)[i] /\ Total(l, t, l[i]) = L[i]
    BY TotalAt DEF L
  <2>. QED
    BY <1>4, <2>1, <2>2
<1>6. ASSUME NEW x \in Slots, ~ Contains(l, x) PROVE Total(l, u, x) = Total(l, t, x)
  <2>1. Contains(l, Head(l))
    BY <1>1 DEF Contains
  <2>. QED
    BY <1>6, <2>1 DEF Total
<1>. QED
  BY <1>5, <1>6

\* deleteTimerNode gives the ticks of the timer it takes to the one behind it.
LEMMA WithoutTotals ==
  ASSUME list \in Seq(Slots), IsInjective(list), IsTable(timer), Counted(timer), NEW s \in Slots
  PROVE  LET l == ListWithout(s)  t == TableWithout(s)
         IN /\ Counted(t) /\ t = [x \in Slots |-> t[x]]
            /\ \A x \in Slots : /\ t[x] = [timer[x] EXCEPT !.ticks = t[x].ticks]
                                /\ x # s /\ ~ Contains(list, x) => t[x] = timer[x]
                                /\ x # s => Total(l, t, x) = Total(list, timer, x)
            /\ t[s].ticks = Total(list, timer, s)
<1>. DEFINE l == ListWithout(s)  t == TableWithout(s)
<1>0. \A x \in Slots : \A v : /\ [timer[x] EXCEPT !.ticks = v].ticks = v
                              /\ timer[x] = [timer[x] EXCEPT !.ticks = timer[x].ticks]
  BY DEF IsTable, IsTimer
<1>1. CASE ~ Contains(list, s)
  <2>1. l = list /\ t = timer
    BY <1>1 DEF ListWithout, TableWithout
  <2>2. Total(list, timer, s) = timer[s].ticks
    BY <1>1 DEF Total
  <2>3. timer = [x \in Slots |-> timer[x]]
    BY DEF IsTable
  <2>. HIDE DEF l, t
  <2>4. /\ Counted(t) /\ t = [x \in Slots |-> t[x]]
        /\ \A x \in Slots : /\ t[x] = [timer[x] EXCEPT !.ticks = t[x].ticks]
                            /\ x # s /\ ~ Contains(list, x) => t[x] = timer[x]
                            /\ x # s => Total(l, t, x) = Total(list, timer, x)
        /\ t[s].ticks = Total(list, timer, s)
    BY <1>0, <2>1, <2>2, <2>3
  <2>. QED
    BY <2>4 DEF l, t
<1>2. CASE Contains(list, s)
  <2>. DEFINE at == PlaceOf(s)  L == Left(list, timer)
  <2>1. at \in 1 .. Len(list) /\ list[at] = s
    BY <1>2 DEF PlaceOf, Contains
  <2>2. l = RemoveAt(list, at)
    BY <1>2 DEF ListWithout
  <2>3. t = [x \in Slots |->
             IF x = s THEN [timer[x] EXCEPT !.ticks = L[at]]
             ELSE IF at < Len(list) /\ x = list[at + 1]
                  THEN [timer[x] EXCEPT !.ticks = @ + timer[s].ticks]
             ELSE timer[x]]
    BY <1>2 DEF TableWithout
  <2>. HIDE DEF at
  <2>4. /\ L[0] = 0 /\ \A i \in 1 .. Len(list) : L[i] = L[i - 1] + timer[list[i]].ticks
        /\ \A i \in 0 .. Len(list) : L[i] \in Nat
        /\ \A i \in 1 .. Len(list) : list[i] \in Slots /\ timer[list[i]].ticks \in Nat
        /\ timer[s].ticks \in Nat /\ Len(list) \in Nat /\ DOMAIN list = 1 .. Len(list)
    BY LeftFacts, LeftGrows DEF Counted
  <2>5. \A i, j \in 1 .. Len(list) : list[i] = list[j] => i = j
    BY <2>4 DEF IsInjective
  <2>6. L[at] = Total(list, timer, s)
    BY <2>1, TotalAt
  <2>7. /\ l \in Seq(Slots) /\ Len(l) = Len(list) - 1 /\ IsInjective(l)
        /\ \A i \in 1 .. Len(list) - 1 : l[i] = IF i < at THEN list[i] ELSE list[i + 1]
        /\ \A x : Contains(l, x) <=> Contains(list, x) /\ x # s
    <3>. DEFINE m == RemoveAt(list, at)
    <3>1. /\ m \in Seq(Slots) /\ Len(m) = Len(list) - 1
          /\ \A i \in 1 .. Len(list) - 1 : m[i] = IF i < at THEN list[i] ELSE list[i + 1]
      BY <2>1, RemoveEntries
    <3>2. IsInjective(m) /\ \A x : Contains(m, x) <=> Contains(list, x) /\ x # list[at]
      BY <2>1, RemoveFacts
    <3>3. l = m
      BY <2>2
    <3>. HIDE DEF l, m
    <3>. QED
      BY <2>1, <3>1, <3>2, <3>3
  <2>. HIDE DEF l, t, L
  <2>8. ASSUME NEW x \in Slots
        PROVE  /\ t[x].ticks = IF x = s THEN L[at]
                               ELSE IF at < Len(list) /\ x = list[at + 1]
                                    THEN timer[x].ticks + timer[s].ticks
                               ELSE timer[x].ticks
               /\ t[x] = [timer[x] EXCEPT !.ticks = t[x].ticks]
               /\ x # s /\ ~ (at < Len(list) /\ x = list[at + 1]) => t[x] = timer[x]
    <3>1. CASE x = s
      <4>1. t[x] = [timer[x] EXCEPT !.ticks = L[at]]
        BY <2>3, <3>1
      <4>. QED
        BY <1>0, <3>1, <4>1
    <3>2. CASE x # s /\ at < Len(list) /\ x = list[at + 1]
      <4>1. t[x] = [timer[x] EXCEPT !.ticks = timer[x].ticks + timer[s].ticks]
        BY <2>3, <3>2
      <4>. QED
        BY <1>0, <3>2, <4>1
    <3>3. CASE x # s /\ ~ (at < Len(list) /\ x = list[at + 1])
      <4>1. t[x] = timer[x]
        BY <2>3, <3>3
      <4>. QED
        BY <1>0, <3>3, <4>1
    <3>. QED
      BY <3>1, <3>2, <3>3
  <2>9. Counted(t)
    <3>1. ASSUME NEW x \in Slots PROVE t[x].ticks \in Nat
      <4>1. timer[x].ticks \in Nat /\ timer[s].ticks \in Nat /\ L[at] \in Nat
        BY <2>1, <2>4 DEF Counted
      <4>2. timer[x].ticks + timer[s].ticks \in Nat
        BY <4>1
      <4>3. \/ t[x].ticks = L[at] \/ t[x].ticks = timer[x].ticks
            \/ t[x].ticks = timer[x].ticks + timer[s].ticks
        BY <2>8
      <4>. QED
        BY <4>1, <4>2, <4>3
    <3>. QED
      BY <3>1 DEF Counted
  <2>. DEFINE g == [i \in 0 .. Len(list) - 1 |-> IF i < at THEN L[i] ELSE L[i + 1]]
  <2>10. \A i \in 0 .. Len(list) - 1 : Left(l, t)[i] = g[i]
    <3>1. g[0] = 0
      BY <2>1, <2>4
    <3>2. ASSUME NEW i \in 1 .. Len(list) - 1 PROVE g[i] = g[i - 1] + t[l[i]].ticks
      <4>1. CASE i < at
        <5>1. i \in 1 .. Len(list) /\ l[i] = list[i] /\ g[i] = L[i] /\ g[i - 1] = L[i - 1]
          <6>1. i \in 1 .. Len(list) /\ l[i] = list[i]
            BY <2>1, <2>4, <2>7, <4>1
          <6>2. i \in 0 .. Len(list) - 1 /\ i - 1 \in 0 .. Len(list) - 1 /\ i < at /\ i - 1 < at
            BY <2>1, <2>4, <4>1
          <6>. QED
            BY <6>1, <6>2
        <5>2. list[i] # s /\ (at < Len(list) => list[i] # list[at + 1])
          BY <2>1, <2>4, <2>5, <4>1, <5>1
        <5>3. t[list[i]].ticks = timer[list[i]].ticks
          BY <2>4, <2>8, <5>1, <5>2
        <5>. QED
          BY <2>4, <5>1, <5>3
      <4>2. CASE i = at
        <5>1. /\ i + 1 \in 1 .. Len(list) /\ (i + 1) - 1 = i
              /\ at < Len(list) /\ l[i] = list[at + 1] /\ g[i] = L[i + 1] /\ g[i - 1] = L[i - 1]
          BY <2>1, <2>4, <2>7, <4>2
        <5>2. /\ L[i + 1] = L[i] + timer[list[at + 1]].ticks
              /\ L[i] = L[i - 1] + timer[s].ticks
              /\ L[i - 1] \in Nat /\ timer[list[at + 1]].ticks \in Nat /\ list[at + 1] \in Slots
          BY <2>1, <2>4, <4>2, <5>1
        <5>3. list[at + 1] # s
          BY <2>1, <2>5, <5>1, <4>2
        <5>4. t[list[at + 1]].ticks = timer[list[at + 1]].ticks + timer[s].ticks
          BY <2>8, <5>1, <5>2, <5>3
        <5>. QED
          BY <2>4, <5>1, <5>2, <5>4
      <4>3. CASE i > at
        <5>1. /\ i + 1 \in 1 .. Len(list) /\ (i + 1) - 1 = i /\ (i - 1) + 1 = i
              /\ l[i] = list[i + 1] /\ g[i] = L[i + 1] /\ g[i - 1] = L[(i - 1) + 1]
          BY <2>1, <2>4, <2>7, <4>3
        <5>2. list[i + 1] # s /\ (at < Len(list) => list[i + 1] # list[at + 1])
          BY <2>1, <2>4, <2>5, <4>3, <5>1
        <5>3. t[list[i + 1]].ticks = timer[list[i + 1]].ticks
          BY <2>4, <2>8, <5>1, <5>2
        <5>4. L[i + 1] = L[(i + 1) - 1] + timer[list[i + 1]].ticks
          BY <2>4, <5>1
        <5>. QED
          BY <5>1, <5>3, <5>4
      <4>. QED
        BY <2>1, <4>1, <4>2, <4>3
    <3>. HIDE DEF g
    <3>. QED
      BY <2>7, <3>1, <3>2, LeftUnique
  <2>11. ASSUME NEW x \in Slots, x # s PROVE Total(l, t, x) = Total(list, timer, x)
    <3>1. CASE Contains(list, x)
      <4>1. PICK i \in 1 .. Len(list) : x = list[i]
        BY <3>1 DEF Contains
      <4>. DEFINE j == IF i < at THEN i ELSE i - 1
      <4>2. j \in 1 .. Len(list) - 1 /\ l[j] = x /\ g[j] = L[i]
        BY <2>1, <2>4, <2>7, <2>11, <4>1
      <4>. HIDE DEF j, g
      <4>3. Total(l, t, l[j]) = Left(l, t)[j]
        BY <2>7, <4>2, TotalAt
      <4>4. Total(list, timer, list[i]) = L[i]
        BY TotalAt DEF L
      <4>. QED
        BY <2>4, <2>10, <4>1, <4>2, <4>3, <4>4
    <3>2. CASE ~ Contains(list, x)
      <4>1. t[x].ticks = timer[x].ticks
        <5>1. ~ (at < Len(list) /\ x = list[at + 1])
          BY <2>1, <3>2 DEF Contains
        <5>. QED
          BY <2>8, <2>11, <5>1
      <4>. QED
        BY <2>7, <3>2, <4>1 DEF Total
    <3>. QED
      BY <3>1, <3>2
  <2>12. ASSUME NEW x \in Slots, x # s, ~ Contains(list, x) PROVE t[x] = timer[x]
    <3>1. ~ (at < Len(list) /\ x = list[at + 1])
      BY <2>1, <2>12 DEF Contains
    <3>. QED
      BY <2>8, <2>12, <3>1
  <2>13. t = [x \in Slots |-> t[x]]
    BY <2>3
  <2>. QED
    BY <2>6, <2>8, <2>9, <2>11, <2>12, <2>13 DEF l, t
<1>. QED
  BY <1>1, <1>2

\* A product grows with its factor.
LEMMA Grows ==
  ASSUME NEW T \in Nat, NEW m \in Int, NEW k \in Int, m <= k
  PROVE  m * T <= k * T
<1>1. PICK d \in Nat : k = m + d
  <2>1. k - m \in Nat /\ k = m + (k - m)
    OBVIOUS
  <2>. QED
    BY <2>1
<1>2. (m + d) * T = m * T + d * T
  BY Z3
<1>3. d * T \in Nat /\ m * T \in Int
  OBVIOUS
<1>. QED
  BY <1>1, <1>2, <1>3

\* A duration, rounded up to whole ticks.
LEMMA WholeTicks ==
  ASSUME NEW ms \in Nat \ {0}
  PROVE  Ticks(ms) \in 1 .. ms /\ Service!Whole(ms) = Ticks(ms)
<1>. DEFINE q == ms \div TickMs  r == ms % TickMs  n == Ticks(ms)
<1>0. TickMs \in Nat \ {0}
  BY TimersAssumption
<1>1. q \in Nat /\ r \in Nat /\ r < TickMs /\ ms = q * TickMs + r
  BY <1>0, Z3
<1>2. n = IF r # 0 THEN q + 1 ELSE q
  BY DEF Ticks
<1>. HIDE DEF n
<1>3. (q + 1) * TickMs = q * TickMs + TickMs /\ (q - 1) * TickMs = q * TickMs - TickMs
  <2>. HIDE DEF q
  <2>. QED
    BY <1>0, <1>1, Z3
<1>4. q * TickMs \in Nat /\ q <= q * TickMs
  <2>. HIDE DEF q, r
  <2>1. 1 * q <= TickMs * q
    BY <1>0, <1>1, Grows
  <2>2. TickMs * q = q * TickMs /\ q * TickMs \in Nat /\ 1 * q = q
    BY <1>0, <1>1, Z3
  <2>. QED
    BY <2>1, <2>2
<1>. HIDE DEF q, r
<1>5. q = 0 => q * TickMs = 0
  BY <1>0, <1>1
<1>6. n \in 1 .. ms
  BY <1>0, <1>1, <1>2, <1>4, <1>5
<1>7. n * TickMs >= ms /\ (n - 1) * TickMs < ms
  <2>1. CASE r # 0
    <3>1. n = q + 1 /\ n - 1 = q
      BY <1>1, <1>2, <2>1
    <3>. QED
      BY <1>0, <1>1, <1>3, <1>4, <2>1, <3>1
  <2>2. CASE r = 0
    BY <1>0, <1>1, <1>2, <1>3, <1>4, <2>2
  <2>. QED
    BY <2>1, <2>2
<1>8. ASSUME NEW m \in 1 .. ms, m * TickMs >= ms, (m - 1) * TickMs < ms
      PROVE  m = n
  <2>1. m * TickMs \in Nat /\ n * TickMs \in Nat /\ (n - 1) * TickMs \in Int /\ (m - 1) * TickMs \in Int
    BY <1>0, <1>6
  <2>2. CASE m < n
    <3>1. m * TickMs <= (n - 1) * TickMs
      BY <1>0, <1>6, <2>2, Grows
    <3>. QED
      BY <1>7, <1>8, <2>1, <3>1
  <2>3. CASE m > n
    <3>1. n * TickMs <= (m - 1) * TickMs
      BY <1>0, <1>6, <2>3, Grows
    <3>. QED
      BY <1>7, <1>8, <2>1, <3>1
  <2>. QED
    BY <1>6, <2>2, <2>3
<1>9. Service!Whole(ms) = CHOOSE m \in 1 .. ms : m * TickMs >= ms /\ (m - 1) * TickMs < ms
  BY DEF Service!Whole
<1>. QED
  BY <1>6, <1>7, <1>8, <1>9 DEF n

-----------------------------------------------------------------------------
\* The record of a timer in use, and what it has left.
Good(x) ==
  /\ timer[x].ms \in Durations \union {0} /\ timer[x].expired \in BOOLEAN
  /\ timer[x].ms = 0 => timer[x] = Free
  /\ timer[x].expired => timer[x].kind = "oneShot" /\ timer[x].stopped
  /\ timer[x].ms # 0 /\ ~ Contains(list, x) => timer[x].ticks >= 1

Sound == Inv /\ Counted(timer) /\ HeadNotDue /\ firing \in BOOLEAN /\ \A x \in Slots : Good(x)

\* Nothing changes for timer x but the share of its time that its own record has.
Same(x) ==
  /\ timer'[x] = [timer[x] EXCEPT !.ticks = timer'[x].ticks]
  /\ Contains(list', x) <=> Contains(list, x)
  /\ ~ Contains(list, x) => timer'[x] = timer[x]
  /\ Total(list', timer', x) = Total(list, timer, x)

Becomes(s, ms, kind, stopped, expired, left) ==
  /\ timer'[s].ms = ms /\ timer'[s].kind = kind
  /\ timer'[s].stopped = stopped /\ timer'[s].expired = expired
  /\ Total(list', timer', s) = left

Record(l, t, x) ==
  [state |-> CASE t[x].ms = 0 -> "free" [] Contains(l, x) -> "running"
             [] t[x].expired -> "over" [] OTHER -> "stopped",
   ms |-> t[x].ms, kind |-> t[x].kind, left |-> Total(l, t, x)]

View == [x \in Slots |-> Record(list, timer, x)]

\* A timer for which nothing changes keeps its part of the invariant and its looks.
LEMMA SameFacts ==
  ASSUME Inv, NEW x \in Slots, Same(x)
  PROVE  /\ Good(x) => Good(x)'
         /\ Record(list', timer', x) = Record(list, timer, x)
         /\ timer'[x].ms = timer[x].ms
<1>1. IsTimer(timer[x])
  BY DEF Inv, Agree, IsTable
<1>2. /\ timer'[x].ms = timer[x].ms /\ timer'[x].kind = timer[x].kind
      /\ timer'[x].stopped = timer[x].stopped /\ timer'[x].expired = timer[x].expired
  <2>1. \A v : LET r == [timer[x] EXCEPT !.ticks = v]
               IN r.ms = timer[x].ms /\ r.kind = timer[x].kind
                  /\ r.stopped = timer[x].stopped /\ r.expired = timer[x].expired
    BY <1>1 DEF IsTimer
  <2>. QED
    BY <2>1 DEF Same
<1>3. timer[x].ms = 0 => ~ Contains(list, x)
  BY DEF Inv, Agree
<1>4. Good(x) => Good(x)'
  BY <1>2, <1>3 DEF Same, Good
<1>5. Record(list', timer', x) = Record(list, timer, x)
  BY <1>2 DEF Same, Record
<1>. QED
  BY <1>2, <1>4, <1>5

\* What a listed timer has left while nothing is due.
LEMMA QuietFacts ==
  ASSUME NEW l \in Seq(Slots), NEW t, IsInjective(l), Counted(t)
  PROVE  /\ \A x \in Slots : Total(l, t, x) \in Nat
         /\ ~ DueIn(l, t) => \A x \in Slots : Contains(l, x) => Total(l, t, x) >= 1
<1>1. ASSUME NEW x \in Slots PROVE Total(l, t, x) \in Nat
  <2>1. CASE Contains(l, x)
    <3>1. PICK i \in 1 .. Len(l) : x = l[i]
      BY <2>1 DEF Contains
    <3>2. Total(l, t, l[i]) = Left(l, t)[i] /\ Left(l, t)[i] \in Nat
      BY TotalAt, LeftGrows
    <3>. QED
      BY <3>1, <3>2
  <2>2. CASE ~ Contains(l, x)
    BY <2>2 DEF Total, Counted
  <2>. QED
    BY <2>1, <2>2
<1>. QED
  BY <1>1, DueMeans

\* A call that changes one timer, outside the handler.
LEMMA CallSound ==
  ASSUME Sound, Inv', Counted(timer'), ~ firing, UNCHANGED firing, NEW s \in Slots,
         \A x \in Slots : x # s => Same(x),
         \/ timer'[s] = Free
         \/ /\ timer'[s].ms \in Durations /\ timer'[s].expired \in BOOLEAN
            /\ timer'[s].expired => timer'[s].kind = "oneShot" /\ timer'[s].stopped
            /\ Total(list', timer', s) \in Nat \ {0}
  PROVE  Sound'
<1>1. timer'[s].ms # 0 => Total(list', timer', s) \in Nat \ {0}
  BY DEF Free
<1>2. Contains(list', s) => timer'[s].ms # 0
  BY DEF Inv, Agree
<1>3. \A x \in Slots : Contains(list', x) => Total(list', timer', x) \in Nat \ {0}
  <2>1. ASSUME NEW x \in Slots, Contains(list', x), x # s
        PROVE  Total(list', timer', x) \in Nat \ {0}
    <3>1. Contains(list, x) /\ Total(list', timer', x) = Total(list, timer, x)
      BY <2>1 DEF Same
    <3>2. ~ DueIn(list, timer)
      BY DEF Sound, HeadNotDue
    <3>3. Total(list, timer, x) \in Nat /\ Total(list, timer, x) >= 1
      BY <3>1, <3>2, QuietFacts DEF Sound, Inv, Agree
    <3>. QED
      BY <3>1, <3>3
  <2>. QED
    BY <1>1, <1>2, <2>1
<1>4. ~ DueIn(list', timer')
  <2>1. list' \in Seq(Slots) /\ IsInjective(list')
    BY DEF Inv, Agree
  <2>. QED
    BY <1>3, <2>1, DueMeans
<1>5. Good(s)'
  <2>1. ~ Contains(list', s) => Total(list', timer', s) = timer'[s].ticks
    BY DEF Total
  <2>2. CASE timer'[s] = Free
    BY <2>2 DEF Good, Free
  <2>3. CASE timer'[s] # Free
    <3>1. timer'[s].ms # 0
      BY <2>3, DurationsAssumption
    <3>. QED
      BY <1>1, <2>1, <2>3, <3>1 DEF Good
  <2>. QED
    BY <2>2, <2>3
<1>6. ASSUME NEW x \in Slots, x # s PROVE Good(x)'
  BY <1>6, SameFacts DEF Sound
<1>7. HeadNotDue'
  BY <1>4 DEF HeadNotDue
<1>. QED
  BY <1>5, <1>6, <1>7 DEF Sound

\* How it looks from outside.
LEMMA CallView ==
  ASSUME Inv, NEW s \in Slots, \A x \in Slots : x # s => Same(x)
  PROVE  View' = [View EXCEPT ![s] = Record(list', timer', s)]
<1>1. \A x \in Slots : x # s => Record(list', timer', x) = Record(list, timer, x)
  BY SameFacts
<1>. QED
  BY <1>1 DEF View

-----------------------------------------------------------------------------
(* What each call does to the timer it names, and to the others.            *)

\* List l and table t hold what the module's have, but for timer s.
Rest(s, l, t) ==
  \A x \in Slots : x # s => /\ t[x] = [timer[x] EXCEPT !.ticks = t[x].ticks]
                            /\ ~ Contains(list, x) => t[x] = timer[x]
                            /\ Total(l, t, x) = Total(list, timer, x)

\* What the functions assign to a record.
LEMMA RecordOf ==
  ASSUME NEW r, IsTimer(r), NEW v
  PROVE  /\ [[r EXCEPT !.ticks = v] EXCEPT !.stopped = TRUE] =
              [ms |-> r.ms, ticks |-> v, kind |-> r.kind, stopped |-> TRUE, expired |-> r.expired]
         /\ [r EXCEPT !.stopped = FALSE] =
              [ms |-> r.ms, ticks |-> r.ticks, kind |-> r.kind, stopped |-> FALSE, expired |-> r.expired]
<1>1. ASSUME NEW u, u = [[r EXCEPT !.ticks = v] EXCEPT !.stopped = TRUE]
      PROVE  u = [ms |-> r.ms, ticks |-> v, kind |-> r.kind, stopped |-> TRUE, expired |-> r.expired]
  BY <1>1 DEF IsTimer
<1>2. ASSUME NEW u, u = [r EXCEPT !.stopped = FALSE]
      PROVE  u = [ms |-> r.ms, ticks |-> r.ticks, kind |-> r.kind, stopped |-> FALSE, expired |-> r.expired]
  BY <1>2 DEF IsTimer
<1>. QED
  BY <1>1, <1>2

\* Insertion, as seen from the timers that are not inserted.
LEMMA InsertSame ==
  ASSUME Inv, Counted(timer), NEW s \in Slots, NEW t, IsTable(t), Counted(t),
         NEW l \in Seq(Slots), IsInjective(l), insertTimerNode(s, l, t),
         \A x : Contains(l, x) <=> Contains(list, x) /\ x # s,
         Rest(s, l, t)
  PROVE  /\ \A x \in Slots : x # s => Same(x)
         /\ Counted(timer') /\ Contains(list', s)
         /\ Becomes(s, t[s].ms, t[s].kind, t[s].stopped, t[s].expired, t[s].ticks)
<1>1. /\ \A x : Contains(list', x) <=> Contains(l, x) \/ x = s
      /\ Counted(timer')
      /\ \A x \in Slots : /\ timer'[x] = [t[x] EXCEPT !.ticks = timer'[x].ticks]
                          /\ x # s /\ ~ Contains(l, x) => timer'[x] = t[x]
                          /\ Total(list', timer', x) = Total(l, t, x)
      /\ Total(list', timer', s) = t[s].ticks
  BY InsertTotals
<1>2. ASSUME NEW x \in Slots, x # s PROVE Same(x)
  <2>1. \A v, w : [[timer[x] EXCEPT !.ticks = v] EXCEPT !.ticks = w] = [timer[x] EXCEPT !.ticks = w]
    BY DEF Inv, Agree, IsTable, IsTimer
  <2>2. timer'[x] = [timer[x] EXCEPT !.ticks = timer'[x].ticks]
    BY <1>1, <1>2, <2>1 DEF Rest
  <2>. QED
    BY <1>1, <1>2, <2>2 DEF Same, Rest
<1>3. Becomes(s, t[s].ms, t[s].kind, t[s].stopped, t[s].expired, t[s].ticks)
  <2>1. IsTimer(t[s])
    BY DEF IsTable
  <2>2. \A v : LET r == [t[s] EXCEPT !.ticks = v]
               IN r.ms = t[s].ms /\ r.kind = t[s].kind
                  /\ r.stopped = t[s].stopped /\ r.expired = t[s].expired
    BY <2>1 DEF IsTimer
  <2>3. timer'[s] = [t[s] EXCEPT !.ticks = timer'[s].ticks]
    BY <1>1
  <2>4. timer'[s].ms = t[s].ms /\ timer'[s].kind = t[s].kind
        /\ timer'[s].stopped = t[s].stopped /\ timer'[s].expired = t[s].expired
    BY <2>2, <2>3
  <2>. QED
    BY <1>1, <2>4 DEF Becomes
<1>. QED
  BY <1>1, <1>2, <1>3

\* A record for a timer that stays out of the list.
LEMMA OutsideSame ==
  ASSUME Inv, Counted(timer), NEW s \in Slots, NEW t, t = [x \in Slots |-> t[x]], Counted(t), NEW l \in Seq(Slots),
         IsInjective(l), NEW r, r.ticks \in Nat,
         \A x : Contains(l, x) <=> Contains(list, x) /\ x # s,
         Rest(s, l, t),
         list' = l, timer' = [t EXCEPT ![s] = r]
  PROVE  /\ \A x \in Slots : x # s => Same(x)
         /\ Counted(timer') /\ ~ Contains(list', s)
         /\ timer'[s] = r /\ Total(list', timer', s) = r.ticks
<1>1. timer'[s] = r /\ \A x \in Slots : x # s => timer'[x] = t[x]
  OBVIOUS
<1>2. Counted(timer')
  BY <1>1 DEF Counted
<1>3. \A x \in Slots : Contains(l, x) => timer'[x].ticks = t[x].ticks
  BY <1>1
<1>4. \A x \in Slots : Total(l, timer', x) = IF Contains(l, x) THEN Total(l, t, x) ELSE timer'[x].ticks
  BY <1>3, OthersTotals
<1>5. ASSUME NEW x \in Slots, x # s PROVE Same(x)
  <2>1. timer'[x] = t[x] /\ t[x] = [timer[x] EXCEPT !.ticks = t[x].ticks]
    BY <1>1, <1>5 DEF Rest
  <2>2. Total(l, timer', x) = Total(l, t, x)
    BY <1>4, <2>1 DEF Total
  <2>. QED
    BY <1>5, <2>1, <2>2 DEF Same, Rest
<1>. QED
  BY <1>1, <1>2, <1>4, <1>5

\* A record for a timer that is not listed, in the table as it is.
LEMMA RecordTotals ==
  ASSUME Inv, Counted(timer), NEW s \in Slots, ~ Contains(list, s), NEW r, r.ticks \in Nat,
         NEW t, t = [timer EXCEPT ![s] = r]
  PROVE  /\ Counted(t) /\ t[s] = r
         /\ \A x : Contains(list, x) <=> Contains(list, x) /\ x # s
         /\ Rest(s, list, t)
<1>1. t[s] = r /\ \A x \in Slots : x # s => t[x] = timer[x]
  BY DEF Inv, Agree, IsTable
<1>2. Counted(t)
  BY <1>1 DEF Counted
<1>3. \A x \in Slots : Total(list, t, x) = IF Contains(list, x) THEN Total(list, timer, x) ELSE t[x].ticks
  <2>1. \A x \in Slots : Contains(list, x) => t[x].ticks = timer[x].ticks
    BY <1>1
  <2>2. list \in Seq(Slots) /\ IsInjective(list)
    BY DEF Inv, Agree
  <2>3. \A u, v : (\A x \in Slots : Contains(list, x) => u[x].ticks = v[x].ticks) =>
          \A x \in Slots : Total(list, u, x) = IF Contains(list, x) THEN Total(list, v, x) ELSE u[x].ticks
    BY <2>2, OthersTotals, SMTT(30)
  <2>. QED
    BY <2>1, <2>3
<1>4. ASSUME NEW x \in Slots, x # s
      PROVE  /\ t[x] = [timer[x] EXCEPT !.ticks = t[x].ticks]
             /\ ~ Contains(list, x) => t[x] = timer[x]
             /\ Total(list, t, x) = Total(list, timer, x)
  <2>1. t[x] = timer[x]
    BY <1>1, <1>4
  <2>2. timer[x] = [timer[x] EXCEPT !.ticks = timer[x].ticks]
    BY DEF Inv, Agree, IsTable, IsTimer
  <2>3. Total(list, t, x) = Total(list, timer, x)
    <3>1. CASE Contains(list, x)
      BY <1>3, <3>1
    <3>2. CASE ~ Contains(list, x)
      BY <2>1, <3>2 DEF Total
    <3>. QED
      BY <3>1, <3>2
  <2>. QED
    BY <2>1, <2>2, <2>3
<1>5. Rest(s, list, t)
  BY <1>4 DEF Rest
<1>. QED
  BY <1>1, <1>2, <1>5

\* A record for a timer that was taken out of the list.
LEMMA WithoutRecord ==
  ASSUME Inv, Counted(timer), NEW s \in Slots, NEW r, r.ticks \in Nat,
         NEW t, t = [TableWithout(s) EXCEPT ![s] = r], NEW l, l = ListWithout(s)
  PROVE  /\ Counted(t) /\ t[s] = r
         /\ l \in Seq(Slots) /\ IsInjective(l)
         /\ \A x : Contains(l, x) <=> Contains(list, x) /\ x # s
         /\ Rest(s, l, t)
<1>. DEFINE u == TableWithout(s)
<1>1. /\ Counted(u) /\ u = [x \in Slots |-> u[x]]
      /\ \A x \in Slots : /\ u[x] = [timer[x] EXCEPT !.ticks = u[x].ticks]
                          /\ x # s /\ ~ Contains(list, x) => u[x] = timer[x]
                          /\ x # s => Total(l, u, x) = Total(list, timer, x)
  BY WithoutTotals DEF Inv, Agree
<1>2. /\ l \in Seq(Slots) /\ IsInjective(l)
      /\ \A x : Contains(l, x) <=> Contains(list, x) /\ x # s
  BY WithoutFacts DEF Inv
<1>3. t = [u EXCEPT ![s] = r]
  OBVIOUS
<1>. HIDE DEF u
<1>4. t[s] = r /\ \A x \in Slots : x # s => t[x] = u[x]
  BY <1>1, <1>3
<1>5. Counted(t)
  BY <1>1, <1>4 DEF Counted
<1>6. \A x \in Slots : Total(l, t, x) = IF Contains(l, x) THEN Total(l, u, x) ELSE t[x].ticks
  <2>1. \A x \in Slots : Contains(l, x) => t[x].ticks = u[x].ticks
    BY <1>2, <1>4
  <2>2. \A v, w : (\A x \in Slots : Contains(l, x) => v[x].ticks = w[x].ticks) =>
          \A x \in Slots : Total(l, v, x) = IF Contains(l, x) THEN Total(l, w, x) ELSE v[x].ticks
    BY <1>2, OthersTotals
  <2>. QED
    BY <2>1, <2>2
<1>7. ASSUME NEW x \in Slots, x # s PROVE Total(l, t, x) = Total(list, timer, x)
  <2>1. t[x] = u[x]
    BY <1>4, <1>7
  <2>2. Total(l, t, x) = Total(l, u, x)
    <3>1. CASE Contains(l, x)
      BY <1>6, <3>1
    <3>2. CASE ~ Contains(l, x)
      BY <2>1, <3>2 DEF Total
    <3>. QED
      BY <3>1, <3>2
  <2>. QED
    BY <1>1, <1>7, <2>2
<1>8. ASSUME NEW x \in Slots, x # s
      PROVE  /\ t[x] = [timer[x] EXCEPT !.ticks = t[x].ticks]
             /\ ~ Contains(list, x) => t[x] = timer[x]
  <2>1. t[x] = u[x]
    BY <1>4, <1>8
  <2>2. /\ u[x] = [timer[x] EXCEPT !.ticks = u[x].ticks]
        /\ ~ Contains(list, x) => u[x] = timer[x]
    BY <1>1, <1>8
  <2>. QED
    BY <2>1, <2>2
<1>9. Rest(s, l, t)
  BY <1>7, <1>8 DEF Rest
<1>. QED
  BY <1>2, <1>4, <1>5, <1>9

-----------------------------------------------------------------------------
\* TMR_AddTimer: the slot it takes was free, and has the whole duration left.
LEMMA AddTimerMoves ==
  ASSUME Sound, NEW ms \in Durations, NEW kind \in Kinds, NEW stopped \in BOOLEAN,
         AddTimer(ms, kind, stopped)
  PROVE  /\ NextFree \in Slots /\ timer[NextFree] = Free /\ ~ Contains(list, NextFree)
         /\ \A x \in Slots : x # NextFree => Same(x)
         /\ Counted(timer') /\ (Contains(list', NextFree) <=> ~ stopped)
         /\ Becomes(NextFree, ms, kind, stopped, FALSE, Ticks(ms))
<1>. DEFINE s == NextFree
            r == [ms |-> ms, ticks |-> Ticks(ms), kind |-> kind, stopped |-> stopped, expired |-> FALSE]
            t == [timer EXCEPT ![s] = r]
<1>1. s \in Slots /\ timer[s].ms = 0
  BY NextFreeFacts DEF AddTimer, Sound
<1>2. timer[s] = Free /\ ~ Contains(list, s)
  BY <1>1 DEF Sound, Good, Inv, Agree
<1>3. /\ r.ticks = Ticks(ms) /\ r.ms = ms /\ r.kind = kind /\ r.stopped = stopped /\ r.expired = FALSE
      /\ r.ticks \in Nat
  BY WholeTicks, DurationsAssumption
<1>4. IF stopped THEN timer' = t /\ UNCHANGED list ELSE insertTimerNode(s, list, t)
  BY DEF AddTimer
<1>5. IsTimer(r)
  BY DurationsAssumption DEF IsTimer
<1>. HIDE DEF s, r
<1>6. IsTable(t)
  BY <1>1, <1>5, RecordFacts DEF Sound, Inv, Agree
<1>. HIDE DEF t
<1>7. /\ Counted(t) /\ t[s] = r
      /\ \A x : Contains(list, x) <=> Contains(list, x) /\ x # s
      /\ Rest(s, list, t)
  BY <1>1, <1>2, <1>3, RecordTotals DEF t, Sound
<1>8. CASE stopped
  <2>1. list' = list /\ timer' = t
    BY <1>4, <1>8
  <2>2. \A x \in Slots : x # s => Same(x)
    BY <1>7, <2>1 DEF Same, Rest
  <2>3. Total(list', timer', s) = r.ticks
    BY <1>2, <1>7, <2>1 DEF Total
  <2>. QED
    BY <1>1, <1>2, <1>3, <1>7, <1>8, <2>1, <2>2, <2>3 DEF s, Becomes
<1>9. CASE ~ stopped
  <2>1. insertTimerNode(s, list, t)
    BY <1>4, <1>9
  <2>2. /\ \A x \in Slots : x # s => Same(x)
        /\ Counted(timer') /\ Contains(list', s)
        /\ Becomes(s, t[s].ms, t[s].kind, t[s].stopped, t[s].expired, t[s].ticks)
    BY <1>1, <1>6, <1>7, <2>1, InsertSame DEF Sound, Inv, Agree
  <2>. QED
    BY <1>1, <1>2, <1>3, <1>7, <1>9, <2>2 DEF s
<1>. QED
  BY <1>8, <1>9

\* TMR_DeleteTimer: nobody else has more or less left than before.
LEMMA DeleteTimerMoves ==
  ASSUME Sound, NEW s \in Slots, DeleteTimer(s)
  PROVE  /\ \A x \in Slots : x # s => Same(x)
         /\ Counted(timer') /\ ~ Contains(list', s) /\ timer'[s] = Free
         /\ Total(list', timer', s) = 0
<1>. DEFINE l == ListWithout(s)
<1>1. list' = l /\ timer' = [TableWithout(s) EXCEPT ![s] = Free]
  BY DEF DeleteTimer
<1>2. Free.ticks = 0 /\ Free.ticks \in Nat
  BY DEF Free
<1>. HIDE DEF l
<1>3. /\ Counted(timer') /\ timer'[s] = Free /\ l \in Seq(Slots) /\ IsInjective(l)
      /\ \A x : Contains(l, x) <=> Contains(list, x) /\ x # s
      /\ Rest(s, l, timer')
  BY <1>1, <1>2, WithoutRecord DEF Sound, l
<1>. QED
  BY <1>1, <1>2, <1>3 DEF Same, Rest, Total

\* TMR_StopTimer: the timer keeps what it had left, now in its own record alone.
LEMMA StopTimerMoves ==
  ASSUME Sound, NEW s \in Slots, StopTimer(s)
  PROVE  /\ \A x \in Slots : x # s => Same(x)
         /\ Counted(timer') /\ ~ Contains(list', s)
         /\ Becomes(s, timer[s].ms, timer[s].kind, TRUE, timer[s].expired, Total(list, timer, s))
<1>. DEFINE l == ListWithout(s)
            r == [TableWithout(s)[s] EXCEPT !.stopped = TRUE]
<1>1. list' = l /\ timer' = [TableWithout(s) EXCEPT ![s] = r]
  BY DEF StopTimer
<1>2. /\ Counted(TableWithout(s))
      /\ TableWithout(s)[s] = [timer[s] EXCEPT !.ticks = TableWithout(s)[s].ticks]
      /\ TableWithout(s)[s].ticks = Total(list, timer, s)
  BY WithoutTotals DEF Sound, Inv, Agree
<1>3. r = [ms |-> timer[s].ms, ticks |-> Total(list, timer, s), kind |-> timer[s].kind,
           stopped |-> TRUE, expired |-> timer[s].expired]
  <2>1. IsTimer(timer[s])
    BY DEF Sound, Inv, Agree, IsTable
  <2>2. \A v : [[timer[s] EXCEPT !.ticks = v] EXCEPT !.stopped = TRUE] =
                 [ms |-> timer[s].ms, ticks |-> v, kind |-> timer[s].kind,
                  stopped |-> TRUE, expired |-> timer[s].expired]
    BY <2>1, RecordOf
  <2>. QED
    BY <1>2, <2>2
<1>4. r.ticks \in Nat
  BY <1>2, <1>3 DEF Counted
<1>. HIDE DEF r, l
<1>5. /\ Counted(timer') /\ timer'[s] = r /\ l \in Seq(Slots) /\ IsInjective(l)
      /\ \A x : Contains(l, x) <=> Contains(list, x) /\ x # s
      /\ Rest(s, l, timer')
  BY <1>1, <1>4, WithoutRecord DEF Sound, l
<1>6. Total(list', timer', s) = r.ticks
  BY <1>1, <1>5 DEF Total
<1>7. Becomes(s, timer[s].ms, timer[s].kind, TRUE, timer[s].expired, Total(list, timer, s))
  BY <1>3, <1>5, <1>6 DEF Becomes
<1>. QED
  BY <1>1, <1>5, <1>7 DEF Same, Rest

\* TMR_StartTimer: the timer goes on with what it had left.
LEMMA StartTimerMoves ==
  ASSUME Sound, NEW s \in Slots, StartTimer(s)
  PROVE  /\ \A x \in Slots : x # s => Same(x)
         /\ Counted(timer') /\ Contains(list', s)
         /\ Becomes(s, timer[s].ms, timer[s].kind, FALSE, timer[s].expired, timer[s].ticks)
<1>. DEFINE r == [timer[s] EXCEPT !.stopped = FALSE]
            t == [timer EXCEPT ![s] = r]
<1>1. ~ Contains(list, s) /\ insertTimerNode(s, list, [timer EXCEPT ![s].stopped = FALSE])
  BY DEF StartTimer
<1>2. IsTimer(timer[s])
  BY DEF Sound, Inv, Agree, IsTable
<1>3. r = [ms |-> timer[s].ms, ticks |-> timer[s].ticks, kind |-> timer[s].kind,
           stopped |-> FALSE, expired |-> timer[s].expired]
  BY <1>2, RecordOf
<1>4. IsTimer(r) /\ r.ticks \in Nat
  BY <1>2, <1>3, FieldFacts, ZenonT(30) DEF Sound, Counted
<1>5. insertTimerNode(s, list, t)
  BY <1>1
<1>. HIDE DEF r
<1>6. IsTable(t)
  BY <1>4, RecordFacts DEF Sound, Inv, Agree
<1>. HIDE DEF t
<1>7. /\ Counted(t) /\ t[s] = r
      /\ \A x : Contains(list, x) <=> Contains(list, x) /\ x # s
      /\ Rest(s, list, t)
  BY <1>1, <1>4, RecordTotals DEF t, Sound
<1>8. /\ \A x \in Slots : x # s => Same(x)
      /\ Counted(timer') /\ Contains(list', s)
      /\ Becomes(s, t[s].ms, t[s].kind, t[s].stopped, t[s].expired, t[s].ticks)
  BY <1>5, <1>6, <1>7, InsertSame DEF Sound, Inv, Agree
<1>9. /\ r.ms = timer[s].ms /\ r.kind = timer[s].kind /\ r.stopped = FALSE
      /\ r.expired = timer[s].expired /\ r.ticks = timer[s].ticks
  BY <1>3
<1>. QED
  BY <1>7, <1>8, <1>9

\* TMR_ResetTimer: the whole of the new duration, or of the old one, is left.
LEMMA ResetTimerMoves ==
  ASSUME Sound, NEW s \in Slots, NEW value \in Durations \union {0}, ResetTimer(s, value)
  PROVE  LET ms == IF value > 0 THEN value ELSE timer[s].ms
         IN /\ ms \in Durations
            /\ \A x \in Slots : x # s => Same(x)
            /\ Counted(timer') /\ Contains(list', s)
            /\ Becomes(s, ms, timer[s].kind, FALSE, FALSE, Ticks(ms))
<1>. DEFINE ms == IF value > 0 THEN value ELSE timer[s].ms
            l == ListWithout(s)
            r == [TableWithout(s)[s] EXCEPT !.ms = ms, !.ticks = Ticks(ms),
                                            !.stopped = FALSE, !.expired = FALSE]
            t == [TableWithout(s) EXCEPT ![s] = r]
<1>1. insertTimerNode(s, l, t) /\ timer[s].ms # 0
  BY DEF ResetTimer
<1>2. ms \in Durations
  BY <1>1, DurationsAssumption DEF Sound, Good
<1>. HIDE DEF ms
<1>3. Ticks(ms) \in Nat
  BY <1>2, WholeTicks, DurationsAssumption
<1>4. TableWithout(s)[s] = [timer[s] EXCEPT !.ticks = TableWithout(s)[s].ticks]
  BY WithoutTotals DEF Sound, Inv, Agree
<1>5. r = [ms |-> ms, ticks |-> Ticks(ms), kind |-> timer[s].kind, stopped |-> FALSE, expired |-> FALSE]
  <2>1. IsTimer(timer[s])
    BY DEF Sound, Inv, Agree, IsTable
  <2>2. ASSUME NEW v, NEW u, u = [[timer[s] EXCEPT !.ticks = v] EXCEPT !.ms = ms, !.ticks = Ticks(ms),
                                                       !.stopped = FALSE, !.expired = FALSE]
        PROVE  u = [ms |-> ms, ticks |-> Ticks(ms), kind |-> timer[s].kind,
                    stopped |-> FALSE, expired |-> FALSE]
    BY <2>1, <2>2 DEF IsTimer
  <2>. QED
    BY <1>4, <2>2
<1>6. IsTimer(r) /\ r.ticks \in Nat
  <2>1. timer[s].kind \in Kinds /\ ms \in Nat
    BY <1>2, DurationsAssumption DEF Sound, Inv, Agree, IsTable, IsTimer
  <2>. QED
    BY <1>3, <1>5, <2>1 DEF IsTimer
<1>. HIDE DEF r, l
<1>7. IsTable(t)
  BY <1>6, WithoutFacts, RecordFacts DEF Sound, Inv
<1>. HIDE DEF t
<1>8. /\ Counted(t) /\ t[s] = r /\ l \in Seq(Slots) /\ IsInjective(l)
      /\ \A x : Contains(l, x) <=> Contains(list, x) /\ x # s
      /\ Rest(s, l, t)
  BY <1>6, WithoutRecord DEF Sound, l, t
<1>9. /\ \A x \in Slots : x # s => Same(x)
      /\ Counted(timer') /\ Contains(list', s)
      /\ Becomes(s, t[s].ms, t[s].kind, t[s].stopped, t[s].expired, t[s].ticks)
  BY <1>1, <1>7, <1>8, InsertSame DEF Sound
<1>10. /\ r.ms = ms /\ r.kind = timer[s].kind /\ r.stopped = FALSE
       /\ r.expired = FALSE /\ r.ticks = Ticks(ms)
  BY <1>5
<1>. QED
  BY <1>2, <1>8, <1>9, <1>10 DEF ms

\* A listed timer is in use, and while nothing is due every one has a tick left.
LEMMA ListedFacts ==
  ASSUME Sound, NEW x \in Slots
  PROVE  /\ Contains(list, x) => /\ timer[x].ms \in Durations /\ ~ timer[x].stopped
                                 /\ ~ timer[x].expired
         /\ ~ firing /\ timer[x].ms # 0 => Total(list, timer, x) \in Nat \ {0}
         /\ timer[x].ms = 0 => timer[x] = Free /\ ~ Contains(list, x) /\ Total(list, timer, x) = 0
<1>1. Contains(list, x) => timer[x].ms # 0 /\ ~ timer[x].stopped
  BY DEF Sound, Inv, Agree
<1>2. Good(x)
  BY DEF Sound
<1>3. Total(list, timer, x) \in Nat /\ (~ firing /\ Contains(list, x) => Total(list, timer, x) >= 1)
  BY QuietFacts DEF Sound, Inv, Agree, HeadNotDue
<1>4. ~ Contains(list, x) => Total(list, timer, x) = timer[x].ticks
  BY DEF Total
<1>5. Free.ticks = 0
  BY DEF Free
<1>. QED
  BY <1>1, <1>2, <1>3, <1>4, <1>5 DEF Good

\* A tick: one less for every listed timer, though only one record changes.
LEMMA TickMoves ==
  ASSUME Sound, Tick
  PROVE  /\ Sound' /\ UNCHANGED list
         /\ \A x \in Slots : /\ timer'[x] = [timer[x] EXCEPT !.ticks = timer'[x].ticks]
                             /\ Total(list, timer', x) = IF Contains(list, x)
                                                         THEN Total(list, timer, x) - 1
                                                         ELSE Total(list, timer, x)
<1>. DEFINE s == Head(list)  r == [timer[s] EXCEPT !.ticks = @ - 1]
<1>1. /\ list # <<>> /\ UNCHANGED list /\ ~ firing /\ firing' = DueIn(list, timer')
      /\ timer' = [timer EXCEPT ![s] = r]
  BY DEF Tick
<1>2. s \in Slots /\ Contains(list, s)
  BY <1>1, TailFacts DEF Sound, Inv, Agree
<1>3. timer[s].ticks \in Nat \ {0}
  <2>1. ~ DueIn(list, timer)
    BY <1>1 DEF Sound, HeadNotDue
  <2>. QED
    BY <1>1, <1>2, <2>1 DEF DueIn, Sound, Counted
<1>4. /\ r.ticks = timer[s].ticks - 1
      /\ r = [timer[s] EXCEPT !.ticks = r.ticks]
  BY <1>2 DEF Sound, Inv, Agree, IsTable, IsTimer
<1>5. Inv'
  BY TickInv DEF Sound
<1>. HIDE DEF s, r
<1>6. timer'[s] = r /\ \A x \in Slots : x # s => timer'[x] = timer[x]
  BY <1>1, <1>2 DEF Sound, Inv, Agree, IsTable
<1>7. Counted(timer')
  BY <1>3, <1>4, <1>6 DEF Sound, Counted
<1>8. \A x \in Slots : timer'[x] = [timer[x] EXCEPT !.ticks = timer'[x].ticks]
  <2>1. \A x \in Slots : timer[x] = [timer[x] EXCEPT !.ticks = timer[x].ticks]
    BY DEF Sound, Inv, Agree, IsTable, IsTimer
  <2>. QED
    BY <1>4, <1>6, <2>1
<1>9. \A x \in Slots : Total(list, timer', x) = IF Contains(list, x) THEN Total(list, timer, x) - 1
                                                ELSE Total(list, timer, x)
  <2>1. timer'[Head(list)].ticks = timer[Head(list)].ticks - 1
    BY <1>4, <1>6 DEF s
  <2>2. \A x \in Slots : x # Head(list) => timer'[x].ticks = timer[x].ticks
    BY <1>6 DEF s
  <2>3. list \in Seq(Slots) /\ IsInjective(list) /\ Counted(timer)
    BY DEF Sound, Inv, Agree
  <2>. QED
    BY <1>1, <2>1, <2>2, <2>3, TickTotals
<1>10. ASSUME NEW x \in Slots PROVE Good(x)'
  <2>1. CASE x = s
    <3>1. /\ r.ms = timer[s].ms /\ r.stopped = timer[s].stopped
          /\ r.expired = timer[s].expired /\ r.kind = timer[s].kind
      BY <1>2 DEF r, Sound, Inv, Agree, IsTable, IsTimer
    <3>2. timer[s].ms \in Durations /\ timer[s].ms # 0
      BY <1>2, ListedFacts, DurationsAssumption
    <3>3. Good(s)
      BY <1>2 DEF Sound
    <3>. QED
      BY <1>1, <1>2, <1>6, <2>1, <3>1, <3>2, <3>3 DEF Good
  <2>2. CASE x # s
    BY <1>1, <1>6, <2>2 DEF Sound, Good
  <2>. QED
    BY <2>1, <2>2
<1>11. HeadNotDue' /\ firing' \in BOOLEAN
  BY <1>1 DEF HeadNotDue, DueIn
<1>. QED
  BY <1>1, <1>5, <1>7, <1>8, <1>9, <1>10, <1>11 DEF Sound

\* A turn of the loop: the head has nothing left, and starts again, stops or is freed.
LEMMA FireMoves ==
  ASSUME Sound, Fire
  PROVE  LET s == Head(list)
         IN /\ s \in Slots /\ Contains(list, s) /\ Total(list, timer, s) = 0
            /\ \A x \in Slots : x # s => Same(x)
            /\ Counted(timer')
            /\ \/ /\ timer[s].kind = "periodic" /\ Contains(list', s)
                  /\ Becomes(s, timer[s].ms, timer[s].kind, FALSE, FALSE, Ticks(timer[s].ms))
               \/ /\ timer[s].kind = "oneShot" /\ ~ Contains(list', s)
                  /\ Becomes(s, timer[s].ms, timer[s].kind, TRUE, TRUE, Ticks(timer[s].ms))
               \/ /\ timer[s].kind = "oneShotDelete" /\ ~ Contains(list', s)
                  /\ timer'[s] = Free /\ Total(list', timer', s) = 0
<1>. DEFINE s == Head(list)  l == Tail(list)
            r == [timer[s] EXCEPT !.ticks = Ticks(timer[s].ms)]
            wound == [timer EXCEPT ![s] = r]
<1>1. list # <<>> /\ timer[s].ticks = 0
  BY DEF Fire, Sound, HeadNotDue, DueIn
<1>2. /\ s \in Slots /\ Contains(list, s)
      /\ l \in Seq(Slots) /\ IsInjective(l)
      /\ \A x : Contains(l, x) <=> Contains(list, x) /\ x # s
  BY <1>1, TailFacts DEF Sound, Inv, Agree
<1>3. /\ list \in Seq(Slots) /\ IsInjective(list) /\ Counted(timer) /\ IsTimer(timer[s])
      /\ IsTable(timer) /\ timer[s].kind \in {"periodic", "oneShot", "oneShotDelete"}
  BY <1>2 DEF Sound, Inv, Agree, IsTable, IsTimer, Kinds
<1>4. timer[s].ms \in Durations /\ ~ timer[s].stopped /\ ~ timer[s].expired
      /\ timer[s].expired \in BOOLEAN /\ timer[s].stopped \in BOOLEAN
  BY <1>2, <1>3, ListedFacts DEF Sound, Good, IsTimer
<1>5. Ticks(timer[s].ms) \in Nat
  <2>1. timer[s].ms \in Nat \ {0}
    BY <1>4, DurationsAssumption
  <2>2. \A ms \in Nat \ {0} : Ticks(ms) \in 1 .. ms
    BY WholeTicks
  <2>. QED
    BY <2>1, <2>2
<1>6. r = [ms |-> timer[s].ms, ticks |-> Ticks(timer[s].ms), kind |-> timer[s].kind,
           stopped |-> FALSE, expired |-> FALSE]
  <2>1. ASSUME NEW u, u = r
        PROVE  u = [ms |-> timer[s].ms, ticks |-> Ticks(timer[s].ms), kind |-> timer[s].kind,
                    stopped |-> FALSE, expired |-> FALSE]
    BY <1>3, <1>4, <2>1 DEF IsTimer
  <2>. QED
    BY <2>1
<1>7. \A x \in Slots : x # s => Total(l, timer, x) = Total(list, timer, x)
  BY <1>1, <1>3, TailTotals
<1>8. Total(list, timer, s) = 0
  <2>1. list[1] = s /\ 1 \in 1 .. Len(list) /\ Len(list) \in Nat
    BY <1>1, <1>3
  <2>2. Total(list, timer, list[1]) = Left(list, timer)[1]
    BY <1>3, <2>1, TotalAt
  <2>3. Left(list, timer)[1] = Left(list, timer)[1 - 1] + timer[list[1]].ticks /\ Left(list, timer)[0] = 0
    BY <1>3, <2>1, LeftFacts
  <2>. QED
    BY <1>1, <2>1, <2>2, <2>3
<1>9. Rest(s, l, timer)
  <2>1. \A x \in Slots : timer[x] = [timer[x] EXCEPT !.ticks = timer[x].ticks]
    BY <1>3 DEF IsTable, IsTimer
  <2>. QED
    BY <1>7, <2>1 DEF Rest
<1>10. timer = [x \in Slots |-> timer[x]]
  BY <1>3 DEF IsTable
<1>11. CASE timer[s].kind = "periodic"
  <2>1. insertTimerNode(s, l, wound)
    BY <1>11 DEF Fire
  <2>2. IsTimer(r) /\ r.ticks \in Nat
    <3>1. timer[s].ms \in Nat /\ timer[s].kind \in Kinds
      BY <1>3 DEF IsTimer
    <3>. QED
      BY <1>5, <1>6, <3>1 DEF IsTimer
  <2>. HIDE DEF r, l, s
  <2>3. wound[s] = r /\ \A x \in Slots : x # s => wound[x] = timer[x]
    BY <1>2, <1>10
  <2>4. IsTable(wound)
    BY <1>2, <1>3, <2>2, RecordFacts
  <2>. HIDE DEF wound
  <2>5. Counted(wound)
    BY <1>3, <2>2, <2>3 DEF Counted
  <2>6. Rest(s, l, wound)
    <3>1. \A x \in Slots : Contains(l, x) => wound[x].ticks = timer[x].ticks
      BY <1>2, <2>3
    <3>2. \A v, w : (\A x \in Slots : Contains(l, x) => v[x].ticks = w[x].ticks) =>
            \A x \in Slots : Total(l, v, x) = IF Contains(l, x) THEN Total(l, w, x) ELSE v[x].ticks
      BY <1>2, OthersTotals
    <3>3. \A x \in Slots : Total(l, wound, x) = IF Contains(l, x) THEN Total(l, timer, x)
                                                ELSE wound[x].ticks
      BY <3>1, <3>2
    <3>4. \A x \in Slots : ~ Contains(l, x) => Total(l, timer, x) = timer[x].ticks
      BY DEF Total
    <3>. QED
      BY <1>9, <2>3, <3>3, <3>4 DEF Rest
  <2>7. /\ \A x \in Slots : x # s => Same(x)
        /\ Counted(timer') /\ Contains(list', s)
        /\ Becomes(s, wound[s].ms, wound[s].kind, wound[s].stopped, wound[s].expired, wound[s].ticks)
    BY <1>2, <2>1, <2>4, <2>5, <2>6, InsertSame DEF Sound
  <2>8. /\ r.ms = timer[s].ms /\ r.kind = timer[s].kind /\ r.stopped = FALSE
        /\ r.expired = FALSE /\ r.ticks = Ticks(timer[s].ms)
    BY <1>6
  <2>. QED
    BY <1>2, <1>8, <1>11, <2>3, <2>7, <2>8 DEF s
<1>12. CASE timer[s].kind = "oneShot"
  <2>. DEFINE over == [ms |-> timer[s].ms, ticks |-> Ticks(timer[s].ms), kind |-> timer[s].kind,
                       stopped |-> TRUE, expired |-> TRUE]
  <2>1. list' = l /\ timer' = [wound EXCEPT ![s].stopped = TRUE, ![s].expired = TRUE]
    BY <1>12 DEF Fire
  <2>2. [r EXCEPT !.stopped = TRUE, !.expired = TRUE] = over
    <3>. HIDE DEF r
    <3>1. ASSUME NEW u, u = [r EXCEPT !.stopped = TRUE, !.expired = TRUE]
          PROVE  u = over
      BY <1>6, <3>1
    <3>. QED
      BY <3>1
  <2>. HIDE DEF r, s, l, over
  <2>3. timer' = [timer EXCEPT ![s] = over]
    <3>1. timer' = [timer EXCEPT ![s] = [r EXCEPT !.stopped = TRUE, !.expired = TRUE]]
      BY <1>2, <1>10, <2>1
    <3>. QED
      BY <2>2, <3>1
  <2>. HIDE DEF wound
  <2>4. /\ over.ms = timer[s].ms /\ over.kind = timer[s].kind /\ over.stopped = TRUE
        /\ over.expired = TRUE /\ over.ticks = Ticks(timer[s].ms)
    BY DEF over
  <2>5. /\ \A x \in Slots : x # s => Same(x)
        /\ Counted(timer') /\ ~ Contains(list', s)
        /\ timer'[s] = over /\ Total(list', timer', s) = over.ticks
    BY <1>2, <1>3, <1>5, <1>9, <1>10, <2>1, <2>3, <2>4, OutsideSame DEF Sound
  <2>. QED
    BY <1>2, <1>8, <1>12, <2>4, <2>5 DEF s, Becomes
<1>13. CASE timer[s].kind = "oneShotDelete"
  <2>1. list' = l /\ timer' = [timer EXCEPT ![s] = Free]
    BY <1>13 DEF Fire
  <2>2. Free.ticks = 0 /\ Free.ticks \in Nat
    BY DEF Free
  <2>. HIDE DEF r, s, l, wound
  <2>3. /\ \A x \in Slots : x # s => Same(x)
        /\ Counted(timer') /\ ~ Contains(list', s)
        /\ timer'[s] = Free /\ Total(list', timer', s) = Free.ticks
    BY <1>2, <1>3, <1>9, <1>10, <2>1, <2>2, OutsideSame DEF Sound
  <2>. QED
    BY <1>2, <1>8, <1>13, <2>2, <2>3 DEF s
<1>. QED
  BY <1>3, <1>11, <1>12, <1>13

-----------------------------------------------------------------------------
(* The strengthened invariant is inductive.                                 *)

\* The calls keep the strengthened invariant.
LEMMA CallsSound ==
  ASSUME Sound, NEW s \in Slots, NEW ms \in Durations, NEW kind \in Kinds, NEW stopped \in BOOLEAN,
         NEW value \in Durations \union {0},
         \/ AddTimer(ms, kind, stopped) \/ DeleteTimer(s) \/ StartTimer(s) \/ StopTimer(s)
         \/ ResetTimer(s, value)
  PROVE  Sound'
<1>0. Inv
  BY DEF Sound
<1>1. \A m \in Durations : Ticks(m) \in Nat \ {0}
  BY WholeTicks, DurationsAssumption
<1>2. CASE AddTimer(ms, kind, stopped)
  <2>1. ~ firing /\ UNCHANGED firing
    BY <1>2 DEF AddTimer
  <2>2. Inv'
    BY <1>0, <1>2, AddTimerInv
  <2>. QED
    BY <1>1, <1>2, <2>1, <2>2, AddTimerMoves, CallSound DEF Becomes
<1>3. CASE DeleteTimer(s)
  <2>1. ~ firing /\ UNCHANGED firing
    BY <1>3 DEF DeleteTimer
  <2>2. Inv'
    BY <1>0, <1>3, DeleteTimerInv
  <2>. QED
    BY <1>3, <2>1, <2>2, DeleteTimerMoves, CallSound
<1>4. CASE StartTimer(s)
  <2>1. /\ ~ firing /\ UNCHANGED firing /\ timer[s].ms # 0 /\ ~ Contains(list, s)
        /\ timer[s].expired => timer[s].kind = "periodic"
    BY <1>4 DEF StartTimer
  <2>2. Inv'
    BY <1>0, <1>4, StartTimerInv
  <2>3. Good(s) /\ Total(list, timer, s) \in Nat \ {0} /\ Total(list, timer, s) = timer[s].ticks
    BY <2>1, ListedFacts DEF Sound, Total
  <2>4. timer[s].ms \in Durations /\ timer[s].expired \in BOOLEAN /\ ~ timer[s].expired
    BY <2>1, <2>3 DEF Good
  <2>. QED
    BY <1>4, <2>1, <2>2, <2>3, <2>4, StartTimerMoves, CallSound DEF Becomes
<1>5. CASE StopTimer(s)
  <2>1. ~ firing /\ UNCHANGED firing /\ Contains(list, s) /\ timer[s].ms # 0
    BY <1>5 DEF StopTimer
  <2>2. Inv'
    BY <1>0, <1>5, StopTimerInv
  <2>3. /\ timer[s].ms \in Durations /\ ~ timer[s].expired /\ timer[s].expired \in BOOLEAN
        /\ Total(list, timer, s) \in Nat \ {0}
    BY <2>1, ListedFacts DEF Sound, Good
  <2>. QED
    BY <1>5, <2>1, <2>2, <2>3, StopTimerMoves, CallSound DEF Becomes
<1>6. CASE ResetTimer(s, value)
  <2>1. ~ firing /\ UNCHANGED firing
    BY <1>6 DEF ResetTimer
  <2>2. Inv'
    BY <1>0, <1>6, ResetTimerInv
  <2>. QED
    BY <1>1, <1>6, <2>1, <2>2, ResetTimerMoves, CallSound DEF Becomes
<1>. QED
  BY <1>2, <1>3, <1>4, <1>5, <1>6

\* So does a turn of the handler's loop.
LEMMA FireSound ==
  ASSUME Sound, Fire
  PROVE  Sound'
<1>0. PICK s \in Slots : s = Head(list)
  BY FireMoves
<1>1. Inv'
  BY FireInv DEF Sound
<1>2. HeadNotDue' /\ firing' \in BOOLEAN
  BY DEF Fire, HeadNotDue, DueIn
<1>3. s \in Slots /\ Contains(list, s) /\ Counted(timer') /\ \A x \in Slots : x # s => Same(x)
  BY <1>0, FireMoves
<1>4. timer[s].ms \in Durations
  BY <1>3, ListedFacts
<1>5. Ticks(timer[s].ms) \in Nat \ {0}
  <2>1. timer[s].ms \in Nat \ {0}
    BY <1>4, DurationsAssumption
  <2>. QED
    BY <2>1, WholeTicks
<1>6. Good(s)'
  <2>1. \/ /\ timer[s].kind = "periodic" /\ Contains(list', s)
           /\ Becomes(s, timer[s].ms, timer[s].kind, FALSE, FALSE, Ticks(timer[s].ms))
        \/ /\ timer[s].kind = "oneShot" /\ ~ Contains(list', s)
           /\ Becomes(s, timer[s].ms, timer[s].kind, TRUE, TRUE, Ticks(timer[s].ms))
        \/ timer'[s] = Free
    BY <1>0, FireMoves
  <2>2. timer[s].ms # 0
    BY <1>4, DurationsAssumption
  <2>3. CASE timer'[s] = Free
    <3>1. timer'[s].ms = 0 /\ timer'[s].expired = FALSE
      BY <2>3 DEF Free
    <3>2. timer'[s].expired \in BOOLEAN /\ ~ timer'[s].expired
      BY <3>1
    <3>. QED
      BY <2>3, <3>1, <3>2 DEF Good
  <2>4. CASE /\ timer[s].kind = "periodic" /\ Contains(list', s)
             /\ Becomes(s, timer[s].ms, timer[s].kind, FALSE, FALSE, Ticks(timer[s].ms))
    BY <1>4, <2>2, <2>4 DEF Good, Becomes
  <2>5. CASE /\ timer[s].kind = "oneShot" /\ ~ Contains(list', s)
             /\ Becomes(s, timer[s].ms, timer[s].kind, TRUE, TRUE, Ticks(timer[s].ms))
    <3>1. Total(list', timer', s) = timer'[s].ticks
      BY <2>5 DEF Total
    <3>2. /\ timer'[s].expired \in BOOLEAN /\ timer'[s].stopped = TRUE
          /\ timer'[s].kind = "oneShot" /\ timer'[s].ms = timer[s].ms /\ timer'[s].ticks \in Nat \ {0}
      BY <1>5, <2>5, <3>1 DEF Becomes
    <3>. QED
      BY <1>4, <2>2, <3>2 DEF Good
  <2>. QED
    BY <2>1, <2>3, <2>4, <2>5
<1>7. \A x \in Slots : x # s => Good(x)'
  BY <1>3, SameFacts DEF Sound
<1>. QED
  BY <1>1, <1>2, <1>3, <1>6, <1>7 DEF Sound

\* Nothing is in use.
LEMMA InitSound == Init => Sound
<1>. SUFFICES ASSUME Init PROVE Sound
  OBVIOUS
<1>1. \A x \in Slots : timer[x] = Free
  BY DEF Init
<1>2. Counted(timer) /\ \A x \in Slots : Good(x)
  <2>1. ASSUME NEW x \in Slots
        PROVE  timer[x].ms = 0 /\ timer[x].expired = FALSE
    BY <1>1 DEF Free
  <2>2. Counted(timer)
    BY <1>1 DEF Counted, Free
  <2>3. ASSUME NEW x \in Slots PROVE Good(x)
    <3>1. timer[x].expired \in BOOLEAN /\ ~ timer[x].expired
      BY <2>1
    <3>. QED
      BY <1>1, <2>1, <3>1 DEF Good
  <2>. QED
    BY <2>2, <2>3
<1>3. HeadNotDue /\ firing \in BOOLEAN
  BY DEF Init, HeadNotDue, DueIn
<1>. QED
  BY <1>2, <1>3, InitInv DEF Sound

\* Every step keeps the strengthened invariant.
LEMMA NextSound ==
  ASSUME Sound, [Next]_vars
  PROVE  Sound'
<1>1. CASE UNCHANGED vars
  <2>1. list' = list /\ timer' = timer /\ firing' = firing /\ Inv'
    BY <1>1, NextInv DEF vars, Sound
  <2>2. Counted(timer') /\ HeadNotDue' /\ firing' \in BOOLEAN /\ \A x \in Slots : Good(x)'
    BY <2>1 DEF Sound, HeadNotDue, Good
  <2>. QED
    BY <2>1, <2>2 DEF Sound
<1>2. CASE Next
  <2>1. CASE Tick
    BY <2>1, TickMoves
  <2>2. CASE Fire
    BY <2>2, FireSound
  <2>3. CASE \E ms \in Durations, kind \in Kinds, stopped \in BOOLEAN : AddTimer(ms, kind, stopped)
    <3>1. 0 \in Slots /\ 0 \in Durations \union {0}
      BY TimersAssumption DEF Slots
    <3>. QED
      BY <2>3, <3>1, CallsSound
  <2>4. ASSUME NEW s \in Slots,
               \/ DeleteTimer(s) \/ StartTimer(s) \/ StopTimer(s)
               \/ \E value \in Durations \union {0} : ResetTimer(s, value)
        PROVE  Sound'
    <3>1. PICK value \in Durations \union {0} :
            \/ DeleteTimer(s) \/ StartTimer(s) \/ StopTimer(s) \/ ResetTimer(s, value)
      BY <2>4
    <3>2. timer[s].ms \in Durations
      <4>1. timer[s].ms # 0
        BY <3>1 DEF DeleteTimer, StartTimer, StopTimer, ResetTimer
      <4>. QED
        BY <4>1 DEF Sound, Good
    <3>3. "periodic" \in Kinds /\ TRUE \in BOOLEAN
      BY DEF Kinds
    <3>. QED
      BY <3>1, <3>2, <3>3, CallsSound
  <2>. QED
    BY <1>2, <2>1, <2>2, <2>3, <2>4 DEF Next
<1>. QED
  BY <1>1, <1>2

-----------------------------------------------------------------------------
\* The invariant implies the types.
LEMMA SoundTyped == Sound => TypeOK
<1>. SUFFICES ASSUME Sound PROVE TypeOK
  OBVIOUS
<1>1. list \in Seq(Slots) /\ last \in Slots /\ firing \in BOOLEAN
  BY DEF Sound, Inv, Agree
<1>2. ASSUME NEW x \in Slots PROVE timer[x] \in Timer
  <2>1. /\ IsTimer(timer[x]) /\ timer[x].ticks \in Nat
        /\ timer[x].ms \in Durations \union {0} /\ timer[x].expired \in BOOLEAN
    BY DEF Sound, Inv, Agree, IsTable, Counted, Good
  <2>. QED
    BY <2>1 DEF IsTimer, Timer
<1>3. timer \in [Slots -> Timer]
  BY <1>2 DEF Sound, Inv, Agree, IsTable
<1>. QED
  BY <1>1, <1>3 DEF TypeOK

\* Every variable keeps to its type: no count of ticks, which the code holds in unsigned
\* variables, goes below zero, neither at a tick nor when a timer is put before another.
THEOREM TimersTyped == Spec => []TypeOK
<1>1. Sound /\ [Next]_vars => Sound'
  BY NextSound
<1>. QED
  BY InitSound, <1>1, SoundTyped, PTL DEF Spec

\* Outside the handler the first timer has a tick left for the next tick to take,
\* whatever was added, stopped, reset or deleted before it.
THEOREM HeadIsNeverDue == Spec => []HeadNotDue
<1>1. Sound /\ [Next]_vars => Sound'
  BY NextSound
<1>2. Sound => HeadNotDue
  BY DEF Sound
<1>. QED
  BY InitSound, <1>1, <1>2, PTL DEF Spec

-----------------------------------------------------------------------------
(* Every step is one of the service's.                                      *)

\* The view is what the specification of the service is instantiated with.
Mapped == [s \in Slots |-> [state |-> StateOf(s), ms |-> timer[s].ms, kind |-> timer[s].kind,
                            left |-> TicksLeft(s)]]

\* The two ways to write the view agree, before a step and after it.
LEMMA ViewMapped == View = Mapped /\ View' = Mapped'
<1>1. View = Mapped
  BY DEF View, Mapped, Record, StateOf, TicksLeft, Total, PlaceOf
<1>2. View' = Mapped'
  BY DEF View, Mapped, Record, StateOf, TicksLeft, Total, PlaceOf
<1>. QED
  BY <1>1, <1>2

\* A timer's state in the view, in terms of the list and the marks.
LEMMA ViewFacts ==
  ASSUME Sound, NEW x \in Slots
  PROVE  /\ View[x].ms = timer[x].ms /\ View[x].kind = timer[x].kind
         /\ View[x].left = Total(list, timer, x)
         /\ View[x].state = "free" <=> timer[x].ms = 0
         /\ View[x].state = "running" <=> Contains(list, x)
         /\ View[x].state = "stopped" <=> timer[x].ms # 0 /\ ~ Contains(list, x) /\ ~ timer[x].expired
         /\ View[x] = Service!Free <=> timer[x].ms = 0
<1>1. View[x] = Record(list, timer, x)
  BY DEF View
<1>2. timer[x].ms = 0 => /\ ~ Contains(list, x) /\ Total(list, timer, x) = 0
                         /\ timer[x].kind = "periodic" /\ ~ timer[x].expired
  BY ListedFacts DEF Free
<1>3. /\ timer[x].ms = 0 => View[x].state = "free"
      /\ Contains(list, x) => View[x].state = "running"
      /\ timer[x].ms # 0 /\ ~ Contains(list, x) /\ timer[x].expired => View[x].state = "over"
      /\ timer[x].ms # 0 /\ ~ Contains(list, x) /\ ~ timer[x].expired => View[x].state = "stopped"
  <2>1. Contains(list, x) => timer[x].ms # 0 /\ ~ timer[x].expired
    BY <1>2, ListedFacts
  <2>2. View[x].state = CASE timer[x].ms = 0 -> "free" [] Contains(list, x) -> "running"
                          [] timer[x].expired -> "over" [] OTHER -> "stopped"
    BY <1>1 DEF Record
  <2>3. CASE timer[x].ms = 0
    BY <1>2, <2>2, <2>3
  <2>4. CASE Contains(list, x)
    BY <2>1, <2>2, <2>4
  <2>5. CASE timer[x].ms # 0 /\ ~ Contains(list, x) /\ timer[x].expired
    BY <2>2, <2>5
  <2>6. CASE timer[x].ms # 0 /\ ~ Contains(list, x) /\ ~ timer[x].expired
    BY <2>2, <2>6
  <2>. QED
    BY <2>3, <2>4, <2>5, <2>6
<1>4. /\ View[x].ms = timer[x].ms /\ View[x].kind = timer[x].kind
      /\ View[x].left = Total(list, timer, x)
  BY <1>1 DEF Record
<1>5. timer[x].ms = 0 => View[x] = Service!Free
  <2>1. View[x] = [state |-> View[x].state, ms |-> timer[x].ms, kind |-> timer[x].kind,
                   left |-> Total(list, timer, x)]
    BY <1>1 DEF Record
  <2>. QED
    BY <1>2, <1>3, <2>1 DEF Service!Free
<1>6. View[x] = Service!Free => timer[x].ms = 0
  BY <1>4 DEF Service!Free
<1>. QED
  BY <1>2, <1>3, <1>4, <1>5, <1>6

\* Outside the handler no timer is due.
LEMMA QuietView ==
  ASSUME Sound, ~ firing
  PROVE  Service!Quiet
<1>1. ASSUME NEW x \in Slots PROVE ~ (View[x].state = "running" /\ View[x].left = 0)
  <2>1. Contains(list, x) => timer[x].ms # 0
    BY DEF Sound, Inv, Agree
  <2>. QED
    BY <2>1, ViewFacts, ListedFacts
<1>. QED
  BY <1>1, ViewMapped DEF Service!Quiet, Service!Due, Mapped

\* Deleting is the service's deleting.
LEMMA DeleteTimerMaps ==
  ASSUME Sound, NEW s \in Slots, DeleteTimer(s)
  PROVE  Service!ServiceNext
<1>1. ~ firing /\ timer[s].ms # 0
  BY DEF DeleteTimer
<1>2. View' = [View EXCEPT ![s] = Service!Free]
  <2>1. View' = [View EXCEPT ![s] = Record(list', timer', s)]
    BY DeleteTimerMoves, CallView DEF Sound
  <2>2. Record(list', timer', s) = Service!Free
    BY DeleteTimerMoves DEF Record, Service!Free, Free
  <2>. QED
    BY <2>1, <2>2
<1>3. View[s] # Service!Free
  BY <1>1, ViewFacts
<1>4. Mapped[s] # Service!Free /\ Mapped' = [Mapped EXCEPT ![s] = Service!Free]
  BY <1>2, <1>3, ViewMapped
<1>5. Service!Delete(s)
  BY <1>4 DEF Service!Delete, Service!Set, Mapped
<1>. QED
  BY <1>1, <1>5, QuietView DEF Service!ServiceNext

\* The record that a timer in use has in the view.
Entry(state, ms, kind, left) == [state |-> state, ms |-> ms, kind |-> kind, left |-> left]

\* A record of the view with another state, or with another time left.
LEMMA EntryFacts ==
  ASSUME Sound, NEW x \in Slots
  PROVE  /\ View[x] = Entry(View[x].state, timer[x].ms, timer[x].kind, Total(list, timer, x))
         /\ \A state : [View[x] EXCEPT !.state = state]
                         = Entry(state, timer[x].ms, timer[x].kind, Total(list, timer, x))
         /\ \A left : [View[x] EXCEPT !.left = left]
                         = Entry(View[x].state, timer[x].ms, timer[x].kind, left)
BY DEF View, Record, Entry

\* The record that a timer in use gets.
LEMMA BecomesEntry ==
  ASSUME NEW s \in Slots, timer'[s].ms # 0
  PROVE  LET entry(state) == Entry(state, timer'[s].ms, timer'[s].kind, Total(list', timer', s))
         IN /\ Contains(list', s) /\ ~ timer'[s].expired => Record(list', timer', s) = entry("running")
            /\ ~ Contains(list', s) /\ timer'[s].expired => Record(list', timer', s) = entry("over")
            /\ ~ Contains(list', s) /\ ~ timer'[s].expired => Record(list', timer', s) = entry("stopped")
<1>1. CASE Contains(list', s) /\ ~ timer'[s].expired
  BY <1>1 DEF Record, Entry
<1>2. CASE ~ Contains(list', s) /\ timer'[s].expired
  BY <1>2 DEF Record, Entry
<1>3. CASE ~ Contains(list', s) /\ ~ timer'[s].expired
  BY <1>3 DEF Record, Entry
<1>. QED
  BY <1>1, <1>2, <1>3

\* Adding is the service's adding: what is left is the least number of whole ticks.
LEMMA AddTimerMaps ==
  ASSUME Sound, NEW ms \in Durations, NEW kind \in Kinds, NEW stopped \in BOOLEAN,
         AddTimer(ms, kind, stopped)
  PROVE  Service!ServiceNext
<1>1. ~ firing
  BY DEF AddTimer
<1>2. PICK s \in Slots : s = NextFree
  BY AddTimerMoves
<1>3. /\ timer[s] = Free /\ \A x \in Slots : x # s => Same(x)
      /\ Contains(list', s) <=> ~ stopped
      /\ Becomes(s, ms, kind, stopped, FALSE, Ticks(ms))
  BY <1>2, AddTimerMoves
<1>4. ms \in Nat \ {0} /\ Service!Whole(ms) = Ticks(ms)
  BY WholeTicks, DurationsAssumption
<1>. DEFINE state == IF stopped THEN "stopped" ELSE "running"
<1>5. View' = [View EXCEPT ![s] = Entry(state, ms, kind, Ticks(ms))]
  <2>1. View' = [View EXCEPT ![s] = Record(list', timer', s)]
    BY <1>3, CallView DEF Sound
  <2>2. Record(list', timer', s) = Entry(state, ms, kind, Ticks(ms))
    BY <1>3, <1>4, BecomesEntry DEF Becomes
  <2>. QED
    BY <2>1, <2>2
<1>6. View[s] = Service!Free
  <2>1. timer[s].ms = 0
    BY <1>3 DEF Free
  <2>. QED
    BY <2>1, ViewFacts
<1>7. state \in {"running", "stopped"} /\ kind \in Service!Kinds
  BY DEF Kinds, Service!Kinds
<1>8. Service!Set(s, Entry(state, ms, kind, Ticks(ms)))
  BY <1>5, ViewMapped DEF Service!Set, Mapped
<1>. HIDE DEF state
<1>9. Service!Set(s, [state |-> state, ms |-> ms, kind |-> kind, left |-> Service!Whole(ms)])
  BY <1>4, <1>8 DEF Entry
<1>10. Mapped[s] = Service!Free
  BY <1>6, ViewMapped
<1>11. Service!Add(s)
  BY <1>7, <1>9, <1>10 DEF Service!Add, Mapped
<1>. QED
  BY <1>1, <1>11, QuietView DEF Service!ServiceNext

\* Starting is the service's beginning: what the timer had left is left.
LEMMA StartTimerMaps ==
  ASSUME Sound, NEW s \in Slots, StartTimer(s)
  PROVE  Service!ServiceNext
<1>1. /\ ~ firing /\ timer[s].ms # 0 /\ ~ Contains(list, s)
      /\ timer[s].expired => timer[s].kind = "periodic"
  BY DEF StartTimer
<1>2. ~ timer[s].expired
  BY <1>1 DEF Sound, Good
<1>3. View' = [View EXCEPT ![s] = [View[s] EXCEPT !.state = "running"]]
  <2>1. View' = [View EXCEPT ![s] = Record(list', timer', s)]
    BY StartTimerMoves, CallView DEF Sound
  <2>2. Record(list', timer', s) = Entry("running", timer[s].ms, timer[s].kind, timer[s].ticks)
    <3>1. /\ Contains(list', s)
          /\ Becomes(s, timer[s].ms, timer[s].kind, FALSE, timer[s].expired, timer[s].ticks)
      BY StartTimerMoves
    <3>. QED
      BY <1>1, <1>2, <3>1, BecomesEntry DEF Becomes
  <2>3. Total(list, timer, s) = timer[s].ticks
    BY <1>1 DEF Total
  <2>4. [View[s] EXCEPT !.state = "running"] = Entry("running", timer[s].ms, timer[s].kind, timer[s].ticks)
    BY <2>3, EntryFacts
  <2>. QED
    BY <2>1, <2>2, <2>4
<1>4. View[s].state = "stopped"
  BY <1>1, <1>2, ViewFacts
<1>5. Service!Begin(s)
  BY <1>3, <1>4, ViewMapped DEF Service!Begin, Service!Set, Mapped
<1>. QED
  BY <1>1, <1>5, QuietView DEF Service!ServiceNext

\* Stopping is the service's stopping: the sum up to the timer moves into its record.
LEMMA StopTimerMaps ==
  ASSUME Sound, NEW s \in Slots, StopTimer(s)
  PROVE  Service!ServiceNext
<1>1. ~ firing /\ timer[s].ms # 0 /\ Contains(list, s)
  BY DEF StopTimer
<1>2. ~ timer[s].expired
  BY <1>1, ListedFacts
<1>3. View' = [View EXCEPT ![s] = [View[s] EXCEPT !.state = "stopped"]]
  <2>1. View' = [View EXCEPT ![s] = Record(list', timer', s)]
    BY StopTimerMoves, CallView DEF Sound
  <2>2. Record(list', timer', s) = Entry("stopped", timer[s].ms, timer[s].kind, Total(list, timer, s))
    <3>1. /\ ~ Contains(list', s)
          /\ Becomes(s, timer[s].ms, timer[s].kind, TRUE, timer[s].expired, Total(list, timer, s))
      BY StopTimerMoves
    <3>. QED
      BY <1>1, <1>2, <3>1, BecomesEntry DEF Becomes
  <2>. QED
    BY <2>1, <2>2, EntryFacts
<1>4. View[s].state = "running"
  BY <1>1, ViewFacts
<1>5. Service!Stop(s)
  BY <1>3, <1>4, ViewMapped DEF Service!Stop, Service!Set, Mapped
<1>. QED
  BY <1>1, <1>5, QuietView DEF Service!ServiceNext

\* Resetting is the service's resetting.
LEMMA ResetTimerMaps ==
  ASSUME Sound, NEW s \in Slots, NEW value \in Durations \union {0}, ResetTimer(s, value)
  PROVE  Service!ServiceNext
<1>. DEFINE ms == IF value > 0 THEN value ELSE timer[s].ms
<1>1. ~ firing /\ timer[s].ms # 0
  BY DEF ResetTimer
<1>2. /\ ms \in Durations /\ \A x \in Slots : x # s => Same(x)
      /\ Contains(list', s) /\ Becomes(s, ms, timer[s].kind, FALSE, FALSE, Ticks(ms))
  BY ResetTimerMoves
<1>3. ms \in Durations \union {View[s].ms}
  BY <1>2
<1>. HIDE DEF ms
<1>4. ms \in Nat \ {0} /\ Service!Whole(ms) = Ticks(ms)
  <2>1. ms \in Nat \ {0}
    BY <1>2, DurationsAssumption
  <2>. QED
    BY <2>1, WholeTicks
<1>5. View' = [View EXCEPT ![s] = [View[s] EXCEPT !.state = "running", !.ms = ms,
                                                  !.left = Service!Whole(ms)]]
  <2>1. View' = [View EXCEPT ![s] = Record(list', timer', s)]
    BY <1>2, CallView DEF Sound
  <2>2. Record(list', timer', s) = Entry("running", ms, timer[s].kind, Ticks(ms))
    BY <1>2, <1>4, BecomesEntry DEF Becomes
  <2>. QED
    <3>1. [View[s] EXCEPT !.state = "running"] = Entry("running", timer[s].ms, timer[s].kind, Total(list, timer, s))
      BY EntryFacts
    <3>2. [Entry("running", timer[s].ms, timer[s].kind, Total(list, timer, s)) EXCEPT !.ms = ms]
            = Entry("running", ms, timer[s].kind, Total(list, timer, s))
      BY DEF Entry
    <3>3. [Entry("running", ms, timer[s].kind, Total(list, timer, s)) EXCEPT !.left = Ticks(ms)]
            = Entry("running", ms, timer[s].kind, Ticks(ms))
      BY DEF Entry
    <3>4. [View[s] EXCEPT !.state = "running", !.ms = ms, !.left = Ticks(ms)]
            = [[[View[s] EXCEPT !.state = "running"] EXCEPT !.ms = ms] EXCEPT !.left = Ticks(ms)]
      OBVIOUS
    <3>5. [View[s] EXCEPT !.state = "running", !.ms = ms, !.left = Ticks(ms)]
            = Entry("running", ms, timer[s].kind, Ticks(ms))
      BY <3>1, <3>2, <3>3, <3>4
    <3>. QED
      BY <1>4, <2>1, <2>2, <3>5
<1>6. View[s] # Service!Free
  BY <1>1, ViewFacts
<1>7. Service!Reset(s)
  BY <1>3, <1>5, <1>6, ViewMapped DEF Service!Reset, Service!Set, Mapped
<1>. QED
  BY <1>1, <1>7, QuietView DEF Service!ServiceNext

\* A tick that decrements the head is a tick for every running timer.
LEMMA TickMaps ==
  ASSUME Sound, Tick
  PROVE  Service!ServiceNext
<1>1. ~ firing
  BY DEF Tick
<1>2. ASSUME NEW x \in Slots
      PROVE  View'[x] = IF View[x].state = "running" THEN [View[x] EXCEPT !.left = @ - 1] ELSE View[x]
  <2>1. /\ timer'[x].ms = timer[x].ms /\ timer'[x].kind = timer[x].kind
        /\ timer'[x].expired = timer[x].expired
    <3>1. ASSUME NEW u, NEW v, u = [timer[x] EXCEPT !.ticks = v]
          PROVE  u.ms = timer[x].ms /\ u.kind = timer[x].kind /\ u.expired = timer[x].expired
      BY <3>1 DEF Sound, Inv, Agree, IsTable, IsTimer
    <3>2. timer'[x] = [timer[x] EXCEPT !.ticks = timer'[x].ticks]
      BY TickMoves
    <3>. QED
      BY <3>1, <3>2
  <2>2. View'[x] = Entry(View[x].state, timer[x].ms, timer[x].kind, Total(list, timer', x))
    <3>1. View'[x] = Record(list, timer', x)
      BY TickMoves DEF View
    <3>2. View[x] = Record(list, timer, x)
      BY DEF View
    <3>. QED
      BY <2>1, <3>1, <3>2 DEF Record, Entry
  <2>3. CASE Contains(list, x)
    <3>1. View[x].state = "running" /\ View[x].left = Total(list, timer, x)
      BY <2>3, ViewFacts
    <3>2. Total(list, timer', x) = Total(list, timer, x) - 1
      BY <2>3, TickMoves
    <3>3. [View[x] EXCEPT !.left = View[x].left - 1] =
            Entry(View[x].state, timer[x].ms, timer[x].kind, View[x].left - 1)
      BY EntryFacts
    <3>. QED
      BY <2>2, <3>1, <3>2, <3>3
  <2>4. CASE ~ Contains(list, x)
    <3>1. View[x].state # "running"
      BY <2>4, ViewFacts
    <3>2. Total(list, timer', x) = Total(list, timer, x)
      BY <2>4, TickMoves
    <3>. QED
      BY <2>2, <3>1, <3>2, EntryFacts
  <2>. QED
    BY <2>3, <2>4
<1>3. View' = [x \in Slots |-> IF View[x].state = "running" THEN [View[x] EXCEPT !.left = @ - 1]
                               ELSE View[x]]
  <2>1. View' = [x \in Slots |-> View'[x]]
    BY DEF View
  <2>. QED
    BY <1>2, <2>1
<1>4. Service!Tick
  BY <1>3, ViewMapped DEF Service!Tick, Mapped
<1>. QED
  BY <1>1, <1>4, QuietView DEF Service!ServiceNext

\* The due head expires, in each of the three ways a timer can be set up.
LEMMA FireMaps ==
  ASSUME Sound, Fire
  PROVE  Service!ServiceNext
<1>1. PICK s \in Slots : s = Head(list)
  BY FireMoves
<1>2. /\ Contains(list, s) /\ Total(list, timer, s) = 0
      /\ \A x \in Slots : x # s => Same(x)
      /\ \/ /\ timer[s].kind = "periodic" /\ Contains(list', s)
            /\ Becomes(s, timer[s].ms, timer[s].kind, FALSE, FALSE, Ticks(timer[s].ms))
         \/ /\ timer[s].kind = "oneShot" /\ ~ Contains(list', s)
            /\ Becomes(s, timer[s].ms, timer[s].kind, TRUE, TRUE, Ticks(timer[s].ms))
         \/ /\ timer[s].kind = "oneShotDelete" /\ ~ Contains(list', s)
            /\ timer'[s] = Free /\ Total(list', timer', s) = 0
  BY <1>1, FireMoves
<1>3. /\ View[s].state = "running" /\ View[s].left = 0
      /\ View[s].ms = timer[s].ms /\ View[s].kind = timer[s].kind
  BY <1>2, ViewFacts
<1>4. timer[s].ms \in Nat \ {0}
  BY <1>2, ListedFacts, DurationsAssumption
<1>5. Service!Whole(timer[s].ms) = Ticks(timer[s].ms)
  BY <1>4, WholeTicks
<1>6. View' = [View EXCEPT ![s] = Record(list', timer', s)]
  BY <1>2, CallView DEF Sound
<1>7. CASE /\ timer[s].kind = "periodic" /\ Contains(list', s)
           /\ Becomes(s, timer[s].ms, timer[s].kind, FALSE, FALSE, Ticks(timer[s].ms))
  <2>1. Record(list', timer', s) = Entry("running", timer[s].ms, timer[s].kind, Ticks(timer[s].ms))
    BY <1>4, <1>7, BecomesEntry DEF Becomes
  <2>2. [View[s] EXCEPT !.left = Ticks(timer[s].ms)]
          = Entry("running", timer[s].ms, timer[s].kind, Ticks(timer[s].ms))
    <3>1. \A left : [View[s] EXCEPT !.left = left] = Entry(View[s].state, timer[s].ms, timer[s].kind, left)
      BY EntryFacts
    <3>. QED
      BY <1>3, <3>1
  <2>3. View' = [View EXCEPT ![s] = [View[s] EXCEPT !.left = Service!Whole(View[s].ms)]]
    BY <1>3, <1>5, <1>6, <2>1, <2>2
  <2>4. Service!Expire(s)
    BY <1>3, <1>7, <2>3, ViewMapped DEF Service!Expire, Service!Due, Service!Set, Mapped
  <2>. QED
    BY <2>4 DEF Service!ServiceNext
<1>8. CASE /\ timer[s].kind = "oneShot" /\ ~ Contains(list', s)
           /\ Becomes(s, timer[s].ms, timer[s].kind, TRUE, TRUE, Ticks(timer[s].ms))
  <2>1. Record(list', timer', s) = Entry("over", timer[s].ms, timer[s].kind, Ticks(timer[s].ms))
    BY <1>4, <1>8, BecomesEntry DEF Becomes
  <2>2. [View[s] EXCEPT !.state = "over", !.left = Ticks(timer[s].ms)]
          = Entry("over", timer[s].ms, timer[s].kind, Ticks(timer[s].ms))
    <3>1. [View[s] EXCEPT !.state = "over"] = Entry("over", timer[s].ms, timer[s].kind, Total(list, timer, s))
      BY EntryFacts
    <3>2. [Entry("over", timer[s].ms, timer[s].kind, Total(list, timer, s)) EXCEPT !.left = Ticks(timer[s].ms)]
            = Entry("over", timer[s].ms, timer[s].kind, Ticks(timer[s].ms))
      BY DEF Entry
    <3>3. [View[s] EXCEPT !.state = "over", !.left = Ticks(timer[s].ms)]
            = [[View[s] EXCEPT !.state = "over"] EXCEPT !.left = Ticks(timer[s].ms)]
      OBVIOUS
    <3>. QED
      BY <3>1, <3>2, <3>3
  <2>3. View' = [View EXCEPT ![s] = [View[s] EXCEPT !.state = "over", !.left = Service!Whole(View[s].ms)]]
    BY <1>3, <1>5, <1>6, <2>1, <2>2
  <2>4. Service!Expire(s)
    BY <1>3, <1>8, <2>3, ViewMapped DEF Service!Expire, Service!Due, Service!Set, Mapped
  <2>. QED
    BY <2>4 DEF Service!ServiceNext
<1>9. CASE /\ timer[s].kind = "oneShotDelete" /\ ~ Contains(list', s)
           /\ timer'[s] = Free /\ Total(list', timer', s) = 0
  <2>1. Record(list', timer', s) = Service!Free
    BY <1>9 DEF Record, Service!Free, Free
  <2>2. View' = [View EXCEPT ![s] = Service!Free]
    BY <1>6, <2>1
  <2>3. Service!Expire(s)
    BY <1>3, <1>9, <2>2, ViewMapped DEF Service!Expire, Service!Due, Service!Set, Mapped
  <2>. QED
    BY <2>3 DEF Service!ServiceNext
<1>. QED
  BY <1>2, <1>7, <1>8, <1>9

\* At first every timer of the view is free.
LEMMA InitMaps == Init => Service!ServiceInit
<1>. SUFFICES ASSUME Init PROVE Service!ServiceInit
  OBVIOUS
<1>1. Sound
  BY InitSound
<1>2. \A x \in Slots : timer[x].ms = 0
  BY DEF Init, Free
<1>3. \A x \in Slots : View[x] = Service!Free
  BY <1>1, <1>2, ViewFacts
<1>4. View = [x \in Slots |-> Service!Free]
  BY <1>3 DEF View
<1>. QED
  BY <1>4, ViewMapped DEF Service!ServiceInit, Mapped

\* Every step is a step of the service, or changes nothing it shows.
LEMMA NextMaps ==
  ASSUME Sound, [Next]_vars
  PROVE  Service!ServiceNext \/ Mapped' = Mapped
<1>1. CASE UNCHANGED vars
  <2>1. list' = list /\ timer' = timer
    BY <1>1 DEF vars
  <2>2. View' = View
    BY <2>1 DEF View
  <2>. QED
    BY <2>2, ViewMapped
<1>. QED
  BY <1>1, AddTimerMaps, DeleteTimerMaps, StartTimerMaps, StopTimerMaps, ResetTimerMaps, TickMaps, FireMaps
  DEF Next

\* The list, in which a timer holds what it has left after the one before it, counts
\* every timer down on its own: none expires early or late, whatever is added, started,
\* stopped, reset or deleted around it (timer_util.c keeps the order as it inserts and
\* passes on the ticks of a timer as it takes it out).
THEOREM TimersCountDown == Spec => TimerService
<1>1. Sound /\ [Next]_vars => Sound'
  BY NextSound
<1>2. Sound /\ [Next]_vars => [Service!ServiceNext]_Mapped
  BY NextMaps
<1>. QED
  BY InitSound, InitMaps, <1>1, <1>2, PTL DEF Spec, TimerService, Service!ServiceSpec, Mapped
=============================================================================
