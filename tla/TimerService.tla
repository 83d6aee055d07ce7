---------------------------- MODULE TimerService ----------------------------
(***************************************************************************)
(* What the software timers promise: each timer counts down on its own.  A  *)
(* running timer with n ticks left expires at the n-th tick from now unless *)
(* it is stopped, reset or deleted; a stopped one keeps what it has left.   *)
(* All timers due at a tick expire before anything else happens.            *)
(***************************************************************************)
EXTENDS Integers

CONSTANTS Slots,      \* the timers
          Durations,  \* what is asked for, in milliseconds
          TickMs      \* the milliseconds of a tick

VARIABLE timers       \* slot |-> its state, what was asked for, the ticks left

Kinds == {"periodic", "oneShot", "oneShotDelete"}
Free  == [state |-> "free", ms |-> 0, kind |-> "periodic", left |-> 0]

\* The least number of ticks that is no shorter than ms.
Whole(ms) == CHOOSE n \in 1 .. ms : n * TickMs >= ms /\ (n - 1) * TickMs < ms

Due(s) == timers[s].state = "running" /\ timers[s].left = 0
Quiet  == \A s \in Slots : ~ Due(s)

Set(s, record) == timers' = [timers EXCEPT ![s] = record]

Add(s) ==
  /\ timers[s] = Free
  /\ \E ms \in Durations, kind \in Kinds, state \in {"running", "stopped"} :
       Set(s, [state |-> state, ms |-> ms, kind |-> kind, left |-> Whole(ms)])

Delete(s) == timers[s] # Free /\ Set(s, Free)

Begin(s) == timers[s].state = "stopped" /\ Set(s, [timers[s] EXCEPT !.state = "running"])

Stop(s) == timers[s].state = "running" /\ Set(s, [timers[s] EXCEPT !.state = "stopped"])

\* From its beginning, with another duration or the one it has.
Reset(s) ==
  /\ timers[s] # Free
  /\ \E ms \in Durations \union {timers[s].ms} :
       Set(s, [timers[s] EXCEPT !.state = "running", !.ms = ms, !.left = Whole(ms)])

Tick == timers' = [s \in Slots |-> IF timers[s].state = "running"
                                  THEN [timers[s] EXCEPT !.left = @ - 1] ELSE timers[s]]

Expire(s) ==
  LET t == timers[s] IN
  /\ Due(s)
  /\ \/ t.kind = "periodic" /\ Set(s, [t EXCEPT !.left = Whole(t.ms)])
     \/ t.kind = "oneShot"  /\ Set(s, [t EXCEPT !.state = "over", !.left = Whole(t.ms)])
     \/ t.kind = "oneShotDelete" /\ Set(s, Free)

ServiceInit == timers = [s \in Slots |-> Free]

ServiceNext ==
  \/ Quiet /\ \/ Tick
              \/ \E s \in Slots : Add(s) \/ Delete(s) \/ Begin(s) \/ Stop(s) \/ Reset(s)
  \/ \E s \in Slots : Expire(s)

ServiceSpec == ServiceInit /\ [][ServiceNext]_timers
=============================================================================
