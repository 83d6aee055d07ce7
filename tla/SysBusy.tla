------------------------------ MODULE SysBusy ------------------------------
(***************************************************************************)
(* The system-busy arbiter, src/Common/sys_busy.c, and its client           *)
(* DFWA_WaitForSysIdle of src/Common/DFW/dfw_app.c.                         *)
(*                                                                          *)
(* Workers (demand, interval data, meter communication, DTLS) mark the      *)
(* system busy around work that a reset must not cut short.  A locker (the  *)
(* firmware patch, an alarm or an operator about to reset the processor)    *)
(* polls until the system is idle and then keeps busyMutex_, so that no     *)
(* worker can start.                                                        *)
(*                                                                          *)
(* setBusy, clearBusy and isBusy run under busyMutex_ from end to end, and  *)
(* are one step.  lockIfIdle releases the mutex when the system is busy and *)
(* only then reads the status it returns: it is two steps.                  *)
(***************************************************************************)
EXTENDS Integers, FiniteSets

CONSTANTS Workers,     \* tasks that call SYSBUSY_setBusy and SYSBUSY_clearBusy
          Lockers,     \* tasks that call DFWA_WaitForSysIdle
          MaxCounter,  \* SYSBUSY_MAX_CNTR_VAL
          MaxTries,    \* waitTimeMs / TEN_MSEC
          Nobody       \* no task holds the mutex

ASSUME WorkersAssumption == IsFiniteSet(Workers) /\ IsFiniteSet(Lockers)
ASSUME NobodyAssumption  == Nobody \notin Workers \union Lockers
ASSUME CounterAssumption == MaxCounter \in Nat /\ Cardinality(Workers) < MaxCounter
ASSUME TriesAssumption   == MaxTries \in Nat

VARIABLES busyMutex,    \* the locker that keeps busyMutex_
          busyCounter,  \* busyCounter_
          busyState,    \* busyState_
          working,      \* the workers between setBusy and clearBusy
          pc,           \* where each locker is
          tries         \* cnt of DFWA_WaitForSysIdle

vars == <<busyMutex, busyCounter, busyState, working, pc, tries>>

Init == /\ busyMutex = Nobody
        /\ busyCounter = 0 /\ busyState = "idle"
        /\ working = {}
        /\ pc = [l \in Lockers |-> "away"]
        /\ tries = [l \in Lockers |-> MaxTries]

-----------------------------------------------------------------------------
\* Mutant: the mutex is not taken.
SetBusyUnlocked(w) ==
  /\ w \notin working
  /\ IF busyCounter # MaxCounter
     THEN busyCounter' = busyCounter + 1 /\ busyState' = "busy"
     ELSE UNCHANGED <<busyCounter, busyState>>
  /\ working' = working \union {w}
  /\ UNCHANGED <<busyMutex, pc, tries>>

SetBusy(w) ==
  /\ busyMutex = Nobody
  /\ w \notin working
  /\ IF busyCounter # MaxCounter
     THEN busyCounter' = busyCounter + 1 /\ busyState' = "busy"
     ELSE UNCHANGED <<busyCounter, busyState>>
  /\ working' = working \union {w}
  /\ UNCHANGED <<busyMutex, pc, tries>>

\* Mutant: the first worker to finish declares the system idle.
ClearBusyAtOnce(w) ==
  /\ busyMutex = Nobody
  /\ w \in working
  /\ busyCounter' = busyCounter - 1 /\ busyState' = "idle"
  /\ working' = working \ {w}
  /\ UNCHANGED <<busyMutex, pc, tries>>

ClearBusy(w) ==
  /\ busyMutex = Nobody
  /\ w \in working
  /\ IF busyCounter # 0
     THEN /\ busyCounter' = busyCounter - 1
          /\ busyState' = IF busyCounter' = 0 THEN "idle" ELSE busyState
     ELSE UNCHANGED <<busyCounter, busyState>>
  /\ working' = working \ {w}
  /\ UNCHANGED <<busyMutex, pc, tries>>

-----------------------------------------------------------------------------
\* DFWA_WaitForSysIdle is called.
Wait(l) ==
  /\ pc[l] = "away"
  /\ pc' = [pc EXCEPT ![l] = "try"]
  /\ tries' = [tries EXCEPT ![l] = MaxTries]
  /\ UNCHANGED <<busyMutex, busyCounter, busyState, working>>

\* lockIfIdle takes the mutex, and keeps it if the system is idle ...
LockIfIdle(l) ==
  /\ pc[l] = "try" /\ busyMutex = Nobody
  /\ busyMutex' = IF busyState = "idle" THEN l ELSE Nobody
  /\ pc' = [pc EXCEPT ![l] = "status"]
  /\ UNCHANGED <<busyCounter, busyState, working, tries>>

\* Mutant: the wait never gives up.
StatusForever(l) ==
  /\ pc[l] = "status"
  /\ pc' = [pc EXCEPT ![l] = IF busyState = "idle" THEN "granted" ELSE "try"]
  /\ UNCHANGED <<busyMutex, busyCounter, busyState, working, tries>>

\* Mutant: the countdown runs past its end.
StatusPastEnd(l) ==
  /\ pc[l] = "status"
  /\ pc' = [pc EXCEPT ![l] = IF busyState = "idle" THEN "granted" ELSE "try"]
  /\ tries' = [tries EXCEPT ![l] = @ - 1]
  /\ UNCHANGED <<busyMutex, busyCounter, busyState, working>>

\* ... then reads the status again for its caller, which sleeps and retries
\* while it is not idle and the time is not over.
Status(l) ==
  /\ pc[l] = "status"
  /\ \/ /\ busyState = "idle"
        /\ pc' = [pc EXCEPT ![l] = "granted"] /\ UNCHANGED tries
     \/ /\ busyState # "idle" /\ tries[l] # 0
        /\ pc' = [pc EXCEPT ![l] = "try"]
        /\ tries' = [tries EXCEPT ![l] = @ - 1]
     \/ /\ busyState # "idle" /\ tries[l] = 0
        /\ pc' = [pc EXCEPT ![l] = "timedOut"] /\ UNCHANGED tries
  /\ UNCHANGED <<busyMutex, busyCounter, busyState, working>>

\* The patch failed: the task unlocks if it was told it has the mutex.  A
\* mutex another task holds is released all the same, unless the kernel's
\* assertions are compiled in; unlocking a free one is a firmware error, which
\* ends in Reset.
GiveUp(l) ==
  /\ \/ pc[l] = "granted" /\ busyMutex # Nobody /\ busyMutex' = Nobody
     \/ pc[l] = "timedOut" /\ UNCHANGED busyMutex
  /\ pc' = [pc EXCEPT ![l] = "away"]
  /\ UNCHANGED <<busyCounter, busyState, working, tries>>

\* The processor is reset, on purpose or by its watchdog after a firmware
\* error, and SYSBUSY_init runs again.
Reset(l) ==
  /\ pc[l] \in {"granted", "timedOut"}
  /\ busyMutex' = Nobody
  /\ busyCounter' = 0 /\ busyState' = "idle"
  /\ working' = {}
  /\ pc' = [k \in Lockers |-> "away"]
  /\ tries' = [k \in Lockers |-> MaxTries]

Next == \/ \E w \in Workers : SetBusy(w) \/ ClearBusy(w)
        \/ \E l \in Lockers : Wait(l) \/ LockIfIdle(l) \/ Status(l) \/ GiveUp(l) \/ Reset(l)

Spec == Init /\ [][Next]_vars

\* The scheduler runs every ready task, a task waiting for a mutex that keeps
\* being released gets it, and whoever was granted the system gives it up or
\* resets.
FairSpec == /\ Spec
            /\ \A l \in Lockers : /\ SF_vars(LockIfIdle(l))
                                  /\ WF_vars(Status(l))
                                  /\ WF_vars(GiveUp(l) \/ Reset(l))

-----------------------------------------------------------------------------
Places == {"away", "try", "status", "granted", "timedOut"}

\* Every variable keeps to the values the code can give it.
TypeOK == /\ busyMutex \in Lockers \union {Nobody}
          /\ busyCounter \in 0 .. MaxCounter
          /\ busyState \in {"idle", "busy"}
          /\ working \subseteq Workers
          /\ pc \in [Lockers -> Places]
          /\ tries \in [Lockers -> 0 .. MaxTries]

\* The counter is the number of tasks at work, and the state says idle
\* exactly when there is none: no worker is forgotten by the others' clears.
CounterIsWorkers == /\ busyCounter = Cardinality(working)
                    /\ (busyState = "idle" <=> busyCounter = 0)

\* While a locker keeps the mutex nobody is at work and nobody can start.
HeldMeansIdle == busyMutex # Nobody => working = {} /\ busyState = "idle"

\* "eSUCCESS if sys idle and mutex locked" (dfw_app.c:3452), "System was idle
\* and locked" (sys_busy.c:212): a task told so does hold the mutex.
GrantMeansLocked == \A l \in Lockers : pc[l] = "granted" => busyMutex = l

\* Every wait for idle ends, with the system or with a timeout.
WaitReturns ==
  \A l \in Lockers : pc[l] \in {"try", "status"} ~> pc[l] \notin {"try", "status"}
=============================================================================
