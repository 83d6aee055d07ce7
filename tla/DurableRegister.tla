-------------------------- MODULE DurableRegister --------------------------
(***************************************************************************)
(* What a non-volatile partition promises its user: one value that          *)
(* survives restarts.  A write that returned success is what every later    *)
(* read returns, across any number of power cycles.  A write that returned  *)
(* an error, or that power interrupted, leaves the old value readable, and  *)
(* after the next restart shows either the old value or the attempted one,  *)
(* never a mixture and never anything older.                                *)
(***************************************************************************)
CONSTANTS Contents,   \* the values the partition can hold
          Blank       \* what an erased partition reads as

VARIABLES value,      \* what a read returns
          candidates, \* what a restart may come back with
          up          \* TRUE while the driver is open

regVars == <<value, candidates, up>>

RegInit == /\ value = Blank
           /\ candidates = {Blank}
           /\ up = TRUE

Begin(new) == /\ up
              /\ candidates' = candidates \union {new}
              /\ UNCHANGED <<value, up>>

Succeed(new) == /\ up
                /\ new \in candidates \union {Blank}
                /\ value' = new
                /\ candidates' = {new}
                /\ UNCHANGED up

Crash == /\ up
         /\ up' = FALSE
         /\ UNCHANGED <<value, candidates>>

Restart == /\ ~up
           /\ value' \in candidates
           /\ candidates' = {value'}
           /\ up' = TRUE

RegNext == \/ \E new \in Contents : Begin(new) \/ Succeed(new)
           \/ Crash
           \/ Restart

RegSpec == RegInit /\ [][RegNext]_regVars
=============================================================================
