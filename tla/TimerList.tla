------------------------------ MODULE TimerList ------------------------------
(***************************************************************************)
(* The software timers, src/Common/timer_util.c.  The running timers are a  *)
(* list in which each one holds the ticks left after the one before it:     *)
(* a tick only decrements the first, which must not be zero by then.        *)
(*                                                                          *)
(* Every function runs under _tmrUtilMutex, and so does the handler of a    *)
(* tick with all the callbacks it makes: each turn of its loop is a step    *)
(* here, and no function is called from without until the loop has ended.   *)
(*                                                                          *)
(* The fields of a free timer are never read: they are forgotten.           *)
(***************************************************************************)
EXTENDS Integers, SequencesExt

CONSTANTS NumTimers,  \* MAX_TIMERS
          Durations,  \* what the users ask for, in milliseconds
          TickMs      \* portTICK_RATE_MS

ASSUME TimersAssumption == NumTimers \in Nat \ {0} /\ TickMs \in Nat \ {0}
ASSUME DurationsAssumption == Durations \subseteq Nat \ {0}

VARIABLES list,       \* the timers from _TMR_headNode on
          timer,      \* _sTimer
          last,       \* lastAllocatedIndex_
          firing      \* the handler is in its loop

vars == <<list, timer, last, firing>>

Slots == 0 .. NumTimers - 1
Kinds == {"periodic", "oneShot", "oneShotDelete"}
Free  == [ms |-> 0, ticks |-> 0, kind |-> "periodic", stopped |-> FALSE, expired |-> FALSE]

Init == /\ list = <<>>
        /\ timer = [s \in Slots |-> Free]
        /\ last = NumTimers - 1
        /\ firing = FALSE

\* Mutant: a fraction of a tick is cut off.
TicksCut(ms) == ms \div TickMs

\* ulDuration_ticks
Ticks(ms) == IF ms % TickMs # 0 THEN ms \div TickMs + 1 ELSE ms \div TickMs

\* What is left to each place of list l, given the table t.
Left(l, t) ==
  LET sum[i \in 0 .. Len(l)] == IF i = 0 THEN 0 ELSE sum[i - 1] + t[l[i]].ticks IN sum

-----------------------------------------------------------------------------
\* insertTimerNode goes on to the first timer that ends later.
Place(ticks, l, t) ==
  LET later == {i \in DOMAIN l : ticks < Left(l, t)[i]} IN
  IF later = {} THEN Len(l) + 1 ELSE CHOOSE i \in later : \A j \in later : i <= j

insertTimerNode(s, l, t) ==
  LET at == Place(t[s].ticks, l, t)
      delta == t[s].ticks - Left(l, t)[at - 1]
  IN /\ list' = InsertAt(l, at, s)
     /\ timer' = [x \in Slots |->
                    IF x = s THEN [t[x] EXCEPT !.ticks = delta]
                    ELSE IF at <= Len(l) /\ x = l[at] THEN [t[x] EXCEPT !.ticks = @ - delta]
                    ELSE t[x]]

PlaceOf(s) == CHOOSE i \in DOMAIN list : list[i] = s

\* Mutant: the next timer does not get the ticks of the one before it.
TableWithoutKeepingNext(s) ==
  IF ~ Contains(list, s) THEN timer
  ELSE [timer EXCEPT ![s].ticks = Left(list, timer)[PlaceOf(s)]]

\* deleteTimerNode: what it makes of the table, and of the list.
TableWithout(s) ==
  IF ~ Contains(list, s) THEN timer
  ELSE LET at == PlaceOf(s) IN
       [x \in Slots |->
          IF x = s THEN [timer[x] EXCEPT !.ticks = Left(list, timer)[at]]
          ELSE IF at < Len(list) /\ x = list[at + 1]
               THEN [timer[x] EXCEPT !.ticks = @ + timer[s].ticks]
          ELSE timer[x]]

ListWithout(s) == IF Contains(list, s) THEN RemoveAt(list, PlaceOf(s)) ELSE list

-----------------------------------------------------------------------------
\* The free timer that follows the one given out last.
NextFree == CHOOSE s \in Slots :
  /\ timer[s].ms = 0
  /\ \A x \in Slots : timer[x].ms = 0 =>
       (s - last - 1) % NumTimers <= (x - last - 1) % NumTimers

AddTimer(ms, kind, stopped) ==
  /\ ~ firing /\ \E s \in Slots : timer[s].ms = 0
  /\ LET t == [timer EXCEPT ![NextFree] = [ms |-> ms, ticks |-> Ticks(ms), kind |-> kind,
                                           stopped |-> stopped, expired |-> FALSE]]
     IN IF stopped THEN timer' = t /\ UNCHANGED list ELSE insertTimerNode(NextFree, list, t)
  /\ last' = NextFree
  /\ UNCHANGED firing

DeleteTimer(s) ==
  /\ ~ firing /\ timer[s].ms # 0
  /\ list' = ListWithout(s)
  /\ timer' = [TableWithout(s) EXCEPT ![s] = Free]
  /\ UNCHANGED <<last, firing>>

\* Mutant: whether the timer runs already is not asked.
StartTimerTwice(s) ==
  /\ ~ firing /\ timer[s].ms # 0
  /\ ~ (timer[s].expired /\ timer[s].kind # "periodic")
  /\ insertTimerNode(s, list, [timer EXCEPT ![s].stopped = FALSE])
  /\ UNCHANGED <<last, firing>>

StartTimer(s) ==
  /\ ~ firing /\ timer[s].ms # 0 /\ ~ Contains(list, s)
  /\ ~ (timer[s].expired /\ timer[s].kind # "periodic")
  /\ insertTimerNode(s, list, [timer EXCEPT ![s].stopped = FALSE])
  /\ UNCHANGED <<last, firing>>

StopTimer(s) ==
  /\ ~ firing /\ timer[s].ms # 0 /\ Contains(list, s)
  /\ list' = ListWithout(s)
  /\ timer' = [TableWithout(s) EXCEPT ![s].stopped = TRUE]
  /\ UNCHANGED <<last, firing>>

\* A value of zero keeps the duration.
ResetTimer(s, value) ==
  /\ ~ firing /\ timer[s].ms # 0
  /\ LET ms == IF value > 0 THEN value ELSE timer[s].ms IN
     insertTimerNode(s, ListWithout(s),
                     [TableWithout(s) EXCEPT ![s] = [@ EXCEPT !.ms = ms, !.ticks = Ticks(ms),
                                                              !.stopped = FALSE, !.expired = FALSE]])
  /\ UNCHANGED <<last, firing>>

-----------------------------------------------------------------------------
DueIn(l, t) == l # <<>> /\ t[Head(l)].ticks = 0

\* The handler of a tick: the first timer has one tick less.
Tick ==
  /\ ~ firing /\ list # <<>>
  /\ timer' = [timer EXCEPT ![Head(list)].ticks = @ - 1]
  /\ firing' = DueIn(list, timer')
  /\ UNCHANGED <<list, last>>

\* Mutant: one timer a tick.
FireOne ==
  /\ firing
  /\ LET s == Head(list)
         wound == [timer EXCEPT ![s].ticks = Ticks(timer[s].ms)]
     IN CASE timer[s].kind = "periodic" -> insertTimerNode(s, Tail(list), wound)
          [] timer[s].kind = "oneShot" ->
               /\ list' = Tail(list)
               /\ timer' = [wound EXCEPT ![s].stopped = TRUE, ![s].expired = TRUE]
          [] timer[s].kind = "oneShotDelete" ->
               list' = Tail(list) /\ timer' = [timer EXCEPT ![s] = Free]
  /\ firing' = FALSE
  /\ UNCHANGED last

\* One turn of its loop: a timer is due, and its callback runs.
Fire ==
  /\ firing
  /\ LET s == Head(list)
         wound == [timer EXCEPT ![s].ticks = Ticks(timer[s].ms)]
     IN CASE timer[s].kind = "periodic" -> insertTimerNode(s, Tail(list), wound)
          [] timer[s].kind = "oneShot" ->
               /\ list' = Tail(list)
               /\ timer' = [wound EXCEPT ![s].stopped = TRUE, ![s].expired = TRUE]
          [] timer[s].kind = "oneShotDelete" ->
               list' = Tail(list) /\ timer' = [timer EXCEPT ![s] = Free]
  /\ firing' = DueIn(list', timer')
  /\ UNCHANGED last

Next == \/ Tick \/ Fire
        \/ \E ms \in Durations, kind \in Kinds, stopped \in BOOLEAN : AddTimer(ms, kind, stopped)
        \/ \E s \in Slots :
             \/ DeleteTimer(s) \/ StartTimer(s) \/ StopTimer(s)
             \/ \E value \in Durations \union {0} : ResetTimer(s, value)

Spec == Init /\ [][Next]_vars
-----------------------------------------------------------------------------
Timer == [ms : Durations \union {0}, ticks : Nat, kind : Kinds,
          stopped : BOOLEAN, expired : BOOLEAN]

\* Every variable keeps to the values the code can give it: no tick count, all
\* of them unsigned, goes below zero.
TypeOK == /\ list \in Seq(Slots) /\ timer \in [Slots -> Timer]
          /\ last \in Slots /\ firing \in BOOLEAN

\* The next tick finds something to decrement: outside the handler the first
\* timer is not due, whatever was added, stopped or deleted before it.
HeadNotDue == firing <=> DueIn(list, timer)

\* The list holds the timers that are neither free nor stopped, each once, so
\* that isTimerActive and bStopped agree.
ListedAreActive ==
  /\ IsInjective(list)
  /\ \A s \in Slots : Contains(list, s) <=> timer[s].ms # 0 /\ ~ timer[s].stopped

TicksLeft(s) ==
  IF Contains(list, s) THEN Left(list, timer)[PlaceOf(s)]
  ELSE timer[s].ticks

StateOf(s) == CASE timer[s].ms = 0    -> "free"
                [] Contains(list, s)  -> "running"
                [] timer[s].expired   -> "over"
                [] OTHER              -> "stopped"

Service == INSTANCE TimerService WITH
  timers <- [s \in Slots |-> [state |-> StateOf(s), ms |-> timer[s].ms, kind |-> timer[s].kind,
                              left |-> TicksLeft(s)]]

\* The delta list implements timers that count down each on its own.
TimerService == Service!ServiceSpec
=============================================================================
