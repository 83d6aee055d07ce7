------------------------------ MODULE Download ------------------------------
(***************************************************************************)
(* The download of new firmware over the air: the handlers of the head      *)
(* end's messages (Common/DFW/dfw_interface.c) in the application message   *)
(* task, the DFW task with doPatch (Common/DFW/dfw_app.c), and the boot     *)
(* loader (MTU/Bootloader/bootloader_main_BL.c) that copies the new image   *)
(* over the old code.                                                       *)
(*                                                                          *)
(* Everything that must survive a restart is one file, DFW_vars_t, which    *)
(* both tasks read, change in a copy of their own and write back as a       *)
(* whole, without a mutex.  The file is part of the application's           *)
(* non-volatile data (NV) that a download converts to the new firmware's    *)
(* layout: NV is copied to an image, converted there and copied back.       *)
(*                                                                          *)
(* The model follows one unit through the update of its application from    *)
(* one version to the next.  Power may fail in any phase of CrashPhases.    *)
(***************************************************************************)
EXTENDS Integers, Sequences, FiniteSets

CONSTANTS Streams,     \* the downloads the head end may start
          Verdict,     \* stream |-> "ok", or what is found wrong: "patch", "image"
          Encrypted,   \* the streams whose patch is encrypted
          Expires,     \* stream |-> initVars.expirationTime
          Packets,     \* the packets of a patch
          LastTime,    \* the time at which the clock stops
          NumAlarms,   \* the alarm slots of TIME_SYS that are left for DFW
          QueueRoom,   \* bound on the commands that wait for the DFW task
          MaxLosses,   \* bound on the power failures and failed copies of the code
          MaxGasps,    \* how many of them the unit may sit out in its last gasp
          CrashPhases, \* the phases in which power may fail
          Overlap,     \* how the two tasks may be in the file at once:
                       \* "report": a handler runs while the report of a restart waits
                       \* "preempt": the DFW task takes a command in a handler's midst
          Shortages,   \* the posts for which BM_alloc may have no buffer
          None         \* not a stream

Times  == 0 .. LastTime
Alarms == 1 .. NumAlarms        \* 0 is NO_ALARM_FOUND
Free   == 0                     \* an alarm slot that is not in use
Rung   == LastTime + 1          \* one in use whose alarm has expired

ASSUME StreamsAssumption ==
  /\ None \notin Streams /\ Encrypted \subseteq Streams
  /\ Verdict \in [Streams -> {"ok", "patch", "image"}]
  /\ Expires \in [Streams -> Times]
ASSUME BoundsAssumption ==
  /\ LastTime \in Nat /\ NumAlarms \in Nat /\ QueueRoom \in Nat \ {0}
  /\ MaxLosses \in Nat /\ MaxGasps \in Nat
ASSUME InterleavingAssumption ==
  /\ Overlap \subseteq {"report", "preempt"}
  /\ Shortages \subseteq {"init", "packet", "cancel", "apply", "start"}

VARIABLES nv,        \* the DFW_vars_t file
          received,  \* the packets in the patch partition, per the bit map
          image,     \* the program image partition
          blInfo,    \* the DFW_BL_INFO partition
          firmware,  \* the application's code
          config,    \* the layout the other NV data are in
          nvImage,   \* the NV image partition: the data's layout and the file
          clock, losses,
          stage,     \* how far the system has started
          pc,        \* the phase of the DFW task and of what runs before it
          mine,      \* dfwVars of the DFW task or of doPatch
          error,     \* eErrorCode_ is not eDFWE_NO_ERRORS
          queue,     \* DFWA_MQueueHandle
          alarms,    \* the alarm slots
          alarmId,   \* alarmId_
          app,       \* the handler that runs in the application message task
          accepted,  \* history: the stream of the last Init answered
                     \* RCE_INITIALIZED, until it ends or is cancelled
          asked,     \* history: the applies of the head end that were accepted
          stale,     \* history: the tasks, "app" or "dfw", whose copy of the file is
                     \* older than the file
          overwritten \* history: such a copy has been written back

flash    == <<image, blInfo, firmware, config, nvImage>>
ram      == <<error, alarms, alarmId>>
history  == <<accepted, asked>>
world    == <<clock, losses>>
races    == <<stale, overwritten>>
vars     == <<nv, received, flash, world, stage, pc, mine, ram, queue, app, history, races>>

Open     == {"IDLE", "WAIT_FOR_APPLY"}
States   == Open \union {"EXEC_PGM_COMMANDS", "DO_FLASH_SWAP", "BL_SWAP",
                         "EXEC_NV_COMMANDS", "COPY_NV_IMAGE_TO_NV"}
Statuses == {"NOT_INITIALIZED", "INCOMPLETE", "COMPLETE", "WITH_ERROR"}
Record   == [status : Statuses, state : States,
             mode : {"DO_NOTHING", "PREPATCH", "FULL_APPLY"},
             confirm : {"NONE", "DL_COMPLETE", "APPLY_COMPLETE"},
             schedule : Times, stream : Streams \union {None},
             decrypt : {"IDLE", "READY", "DECRYPTING", "DONE"}, error : BOOLEAN]

\* A file just created; also what is left of a copy nobody will read again.
Blank == [status |-> "NOT_INITIALIZED", state |-> "IDLE", mode |-> "DO_NOTHING",
          confirm |-> "NONE", schedule |-> 0, stream |-> None,
          decrypt |-> "IDLE", error |-> FALSE]
NoHandler == [op |-> "none", vars |-> Blank, stream |-> None]

Layouts == {"old", "new", "torn"}
Images  == {"blank", "torn", "bad", "new"}
Phases  == {"off", "gasp", "copy", "init", "start", "confirm", "pend", "save", "saveRun",
            "patch", "decrypt", "build", "waitIdle", "swapSave", "reset", "clear",
            "copyNv", "copyRest", "copied", "brick"}

\* The phases in which the DFW task will still use the copy it has of the file.
InUse == {"confirm", "save", "saveRun", "decrypt", "build", "waitIdle", "swapSave",
          "clear", "copyNv", "copyRest", "copied"}
Holds(task) == IF task = "dfw" THEN pc \in InUse ELSE app.op # "none"

\* The DFW task waits, or works on a patch and lets the other tasks run.
Quiet(c) == \/ c \in {"pend", "patch", "decrypt", "build", "waitIdle", "swapSave", "reset"}
            \/ c = "confirm" /\ "report" \in Overlap

\* Mutant: the message of the head end is not compared with the download.
AnyStream(v, s) == v.stream # None
IsStream(v, s)  == v.stream = s

Expired(v) == v.stream # None /\ clock > Expires[v.stream]

IdleWithoutReport(v) == [v EXCEPT !.status = "NOT_INITIALIZED", !.state = "IDLE",
                                  !.mode = "DO_NOTHING"]

\* dfwVars after setDfwToIdle.  Mutant: the state is left as it was.
ToldButNotIdle(v) == [v EXCEPT !.status = "NOT_INITIALIZED", !.mode = "DO_NOTHING",
                               !.confirm = "APPLY_COMPLETE"]
SetDfwToIdle(v)   == [IdleWithoutReport(v) EXCEPT !.confirm = "APPLY_COMPLETE"]
SetExpired(v)   == [v EXCEPT !.status = "NOT_INITIALIZED", !.state = "IDLE", !.error = TRUE]

\* BM_alloc and OS_MSGQ_Post; Short where there is no buffer: the error is logged.
Post(cmd, arg) == queue' = Append(queue, [cmd |-> cmd, arg |-> arg])
Short(op)      == op \in Shortages /\ UNCHANGED queue
Forget         == accepted' = None /\ asked' = {}

\* DFWA_setFileVars writes the whole of a task's copy: the copy of the other is
\* stale from then on, and what it has written is lost if this one was.  The
\* handler that replaces a download and the report of a restart always write.
Track(task) ==
  LET writes == \/ nv' # nv
                \/ IF task = "app" THEN app.op = "initSave" ELSE pc = "confirm" /\ pc' = "pend"
      others == IF nv' # nv THEN {"app", "dfw"} \ {task} ELSE {}
  IN /\ stale' = {t \in stale \union others : Holds(t)'}
     /\ overwritten' = (overwritten \/ (writes /\ task \in stale))

-----------------------------------------------------------------------------
Init == /\ nv = Blank /\ received = {}
        /\ image = "blank" /\ blInfo = "none"
        /\ firmware = "old" /\ config = "old"
        /\ nvImage = [layout |-> "torn", nv |-> Blank]
        /\ clock = 0 /\ losses = 0
        /\ stage = "ready" /\ pc = "pend" /\ mine = Blank
        /\ error = FALSE /\ queue = <<>>
        /\ alarms = [a \in Alarms |-> Free] /\ alarmId = 0
        /\ app = NoHandler
        /\ accepted = None /\ asked = {}
        /\ stale = {} /\ overwritten = FALSE

-----------------------------------------------------------------------------
(* The handlers of the head end's messages.  Each first reads the file.  The *)
(* DFW task has the higher priority: a handler runs only while it waits, and  *)
(* it takes a command that waits for it before the next message is handled.   *)

Handle(op) ==
  /\ stage = "ready" /\ app.op = "none" /\ Len(queue) < QueueRoom
  /\ Quiet(pc) /\ (pc = "pend" => queue = <<>>)
  /\ app' = [op |-> op, vars |-> nv, stream |-> None]
  /\ UNCHANGED <<nv, received, flash, world, stage, pc, mine, ram, queue, history, races>>

Handling(op) ==
  /\ app.op = op /\ Quiet(pc)
  /\ UNCHANGED <<flash, world, stage, pc, mine, ram>>

\* Mutant: a download is replaced even while its patch is being applied.
MayReplaceAny(v) == TRUE
MayReplace(v)    == v.state \in Open

\* DFWI_DownloadInit: the request is for the firmware that runs and has not
\* expired.  The patch space of the download before is erased ...
DownloadInit(s) ==
  /\ Handling("init")
  /\ IF MayReplace(app.vars) /\ firmware = "old" /\ clock < Expires[s]
     THEN /\ received' = {}
          /\ app' = [app EXCEPT !.op = "initSave", !.stream = s]
     ELSE app' = NoHandler /\ UNCHANGED received
  /\ UNCHANGED <<nv, queue, history>>
  /\ Track("app")

\* ... and only then the file is written and a scheduled apply is cancelled,
\* if there is a buffer for the command; the answer is the same without one.
DownloadInitSave ==
  /\ Handling("initSave")
  /\ nv' = [app.vars EXCEPT !.status = "INCOMPLETE", !.state = "IDLE", !.confirm = "NONE",
              !.schedule = 0, !.stream = app.stream, !.error = FALSE,
              !.decrypt = IF app.stream \in Encrypted THEN "READY" ELSE "DONE"]
  /\ Post("CANCEL_APPLY", 0) \/ Short("init")
  /\ accepted' = app.stream /\ asked' = {}
  /\ app' = NoHandler
  /\ UNCHANGED received
  /\ Track("app")

\* Mutant: a patch that was complete stays so.
StillComplete(v) == IF v.status = "COMPLETE" THEN v ELSE [v EXCEPT !.status = "INCOMPLETE"]
Incomplete(v)    == [v EXCEPT !.status = "INCOMPLETE"]

\* DFWI_DownloadPacket with packet p of stream s; a packet received before
\* may come with other contents.
DownloadPacket(s, p, differs) ==
  LET v    == app.vars
      good == v.status # "NOT_INITIALIZED" /\ v.state = "IDLE"
      kept == p \in received /\ differs /\ v.status # "WITH_ERROR"
      all  == IF kept THEN received \ {p} ELSE received \union {p}
      read == v.decrypt = IF v.stream \in Encrypted THEN "READY" ELSE "DONE"
  IN /\ Handling("packet")
     /\ app' = NoHandler
     /\ CASE good /\ Expired(nv) ->
               /\ nv' = [v EXCEPT !.status = "NOT_INITIALIZED", !.error = TRUE]
               /\ Forget /\ UNCHANGED <<received, queue>>
          [] good /\ ~ Expired(nv) /\ IsStream(v, s) /\ read ->
               /\ received' = all
               /\ IF all = Packets
                  THEN (Post("PREPATCH", 0) \/ Short("packet")) /\ UNCHANGED nv
                  ELSE /\ nv' = IF v.status = "INCOMPLETE" THEN nv ELSE Incomplete(v)
                       /\ UNCHANGED queue
               /\ UNCHANGED history
          [] OTHER -> UNCHANGED <<nv, received, queue, history>>
     /\ Track("app")

\* DFWI_DownloadCancel.
DownloadCancel(s) ==
  /\ Handling("cancel")
  /\ app' = NoHandler
  /\ IF app.vars.status # "NOT_INITIALIZED" /\ IsStream(app.vars, s)
     THEN \/ Post("CANCEL", 0) /\ accepted' = IF s = accepted THEN None ELSE accepted
          \/ Short("cancel") /\ UNCHANGED accepted
     ELSE UNCHANGED <<queue, accepted>>
  /\ UNCHANGED <<nv, received, asked>>
  /\ Track("app")

\* DFWI_DownloadVerify.
DownloadVerify ==
  /\ Handling("verify")
  /\ app' = NoHandler
  /\ IF app.vars.state \in Open /\ app.vars.status # "NOT_INITIALIZED" /\ Expired(nv)
     THEN nv' = SetExpired(app.vars) /\ Forget
     ELSE UNCHANGED <<nv, history>>
  /\ UNCHANGED <<received, queue>>
  /\ Track("app")

\* DFWI_DownloadApply with copy v of the file, for stream s at time t.
Applicable(v, s) == v.status # "NOT_INITIALIZED" /\ v.state \in Open /\ v.stream = s
Accepts(v, s, t) == /\ Applicable(v, s) /\ ~ Expired(v)
                    /\ v.status = "COMPLETE" /\ t <= Expires[s]
Apply(v, s, t) ==
  /\ IF Accepts(v, s, t) THEN Post("FULL_APPLY", t) \/ Short("apply") ELSE UNCHANGED queue
  /\ IF Applicable(v, s) /\ Expired(v)
     THEN nv' = SetExpired(v) /\ accepted' = None
     ELSE UNCHANGED <<nv, accepted>>

DownloadApply(s, t) ==
  /\ Handling("apply")
  /\ app' = NoHandler
  /\ Apply(app.vars, s, t)
  /\ asked' = IF queue' # queue THEN asked \union {<<s, t>>} ELSE asked
  /\ UNCHANGED received
  /\ Track("app")

-----------------------------------------------------------------------------
(* DFWA_task: what it does once, after a restart.                           *)

\* The patch that a restart interrupted starts again, if there is a buffer for
\* the command; a schedule is set again, unless the time is not known yet; a
\* report still due is sent later.
Start(known) ==
  LET again == nv.state = "EXEC_PGM_COMMANDS" /\ nv.decrypt \in {"READY", "DONE"}
      own   == IF again /\ queue' # queue THEN [nv EXCEPT !.state = "IDLE"] ELSE nv
      due   == nv.status = "COMPLETE" /\ nv.state = "WAIT_FOR_APPLY" /\ nv.mode = "FULL_APPLY"
  IN /\ pc = "start"
     /\ CASE again -> /\ Post("PREPATCH", 0) \/ Short("start")
                      /\ nv' = own /\ UNCHANGED history
          [] due /\ known -> Apply(nv, nv.stream, nv.schedule) /\ UNCHANGED asked
          [] OTHER -> UNCHANGED <<nv, queue, history>>
     /\ IF nv.confirm # "NONE"
        THEN pc' = "confirm" /\ mine' = own
        ELSE pc' = "pend" /\ mine' = Blank
     /\ UNCHANGED <<received, flash, world, stage, ram, app>>
     /\ Track("dfw")

\* DFWA_DownloadComplete or DFWA_PatchComplete, with the copy made at the
\* start, at least ten seconds after the application messages are handled.
Confirm ==
  /\ pc = "confirm" /\ stage = "ready"
  /\ app.op = "none" \/ "report" \in Overlap
  /\ nv' = [mine EXCEPT !.confirm = "NONE"]
  /\ pc' = "pend" /\ mine' = Blank
  /\ UNCHANGED <<received, flash, world, stage, ram, queue, app, history>>
  /\ Track("dfw")

-----------------------------------------------------------------------------
(* DFWA_task: its message loop.  A command changes a copy of the file,      *)
(* which is saved, and then doPatch is run if the command asks for it.      *)

Dequeue(cmd) ==
  /\ pc = "pend" /\ queue # <<>> /\ Head(queue).cmd = cmd
  /\ app.op = "none" \/ "preempt" \in Overlap
  /\ queue' = Tail(queue)
  /\ UNCHANGED <<nv, received, flash, world, stage, app>>

GoOnWith(phase, v) == pc' = phase /\ mine' = v
Rejected           == GoOnWith("pend", Blank)

\* TIME_SYS_DeleteAlarm of alarmId_.
NoDelete == UNCHANGED <<alarms, alarmId>>
DeleteAlarm ==
  /\ alarms' = IF alarmId \in Alarms THEN [alarms EXCEPT ![alarmId] = Free] ELSE alarms
  /\ alarmId' = 0

\* Mutant: the alarm that rings is not compared with the one that was set.
AnyAlarm(id)  == id # 0
IsAlarm(id)   == id # 0 /\ alarmId = id

AlarmMessage ==
  /\ Dequeue("TIME")
  /\ IF IsAlarm(Head(queue).arg) /\ nv.state = "WAIT_FOR_APPLY"
     THEN GoOnWith("saveRun", [nv EXCEPT !.state = "DO_FLASH_SWAP"])
     ELSE Rejected
  /\ UNCHANGED <<ram, history>>
  /\ Track("dfw")

Prepatch ==
  /\ Dequeue("PREPATCH")
  /\ IF nv.state = "IDLE"
     THEN /\ error' = FALSE
          /\ GoOnWith("saveRun", [nv EXCEPT !.status = "COMPLETE",
               !.state = "EXEC_PGM_COMMANDS", !.mode = "PREPATCH", !.error = FALSE])
     ELSE Rejected /\ UNCHANGED error
  /\ UNCHANGED <<alarms, alarmId, history>>
  /\ Track("dfw")

Due(t) == t <= clock

\* An apply that is due runs; the others set an alarm.  The result of
\* TIME_SYS_AddCalAlarm is not looked at, nor the alarm set before deleted.
FullApply ==
  LET t    == Head(queue).arg
      v    == [nv EXCEPT !.schedule = t, !.mode = "FULL_APPLY"]
      free == {a \in Alarms : alarms[a] = Free}
      id   == IF free = {} THEN 0 ELSE CHOOSE a \in free : \A b \in free : a <= b
  IN /\ Dequeue("FULL_APPLY")
     /\ IF Due(t)
        THEN /\ IF nv.status = "COMPLETE" /\ nv.state \in Open
                THEN GoOnWith("saveRun", [v EXCEPT !.state =
                       IF nv.state = "IDLE" THEN "EXEC_PGM_COMMANDS" ELSE "DO_FLASH_SWAP"])
                ELSE Rejected
             /\ UNCHANGED <<alarms, alarmId>>
        ELSE /\ GoOnWith("save", v)
             /\ alarmId' = id
             /\ alarms' = IF id = 0 THEN alarms ELSE [alarms EXCEPT ![id] = t]
     /\ UNCHANGED <<error, history>>
     /\ Track("dfw")

Cancel ==
  /\ Dequeue("CANCEL")
  /\ IF nv.status # "NOT_INITIALIZED"
     THEN GoOnWith("save", IdleWithoutReport(nv)) /\ DeleteAlarm
     ELSE Rejected /\ UNCHANGED <<alarms, alarmId>>
  /\ UNCHANGED <<error, history>>
  /\ Track("dfw")

CancelApply ==
  /\ Dequeue("CANCEL_APPLY")
  /\ Rejected
  /\ IF nv.status # "NOT_INITIALIZED" THEN DeleteAlarm ELSE UNCHANGED <<alarms, alarmId>>
  /\ UNCHANGED <<error, history>>
  /\ Track("dfw")

Save ==
  /\ pc \in {"save", "saveRun"}
  /\ nv' = mine
  /\ pc' = IF pc = "save" THEN "pend" ELSE "patch"
  /\ mine' = Blank
  /\ asked' = IF mine.status = "NOT_INITIALIZED" THEN {} ELSE asked
  /\ UNCHANGED <<received, flash, world, stage, ram, queue, app, accepted>>
  /\ Track("dfw")

-----------------------------------------------------------------------------
(* doPatch.  "patch" is its loop; each pass reads the file again.           *)

Running(phase) ==
  /\ pc = phase
  /\ UNCHANGED <<received, world, queue, alarms, alarmId, app>>

\* A report is sent at once if messages are handled already, and otherwise
\* noted in the copy of the file.
Report(v) == IF stage = "ready" THEN [v EXCEPT !.confirm = "NONE"]
                                ELSE [v EXCEPT !.confirm = "DL_COMPLETE"]

\* Mutant: the image of a patch is not verified.
EveryImageIsRight(s) == TRUE
ImageIsRight(s)      == Verdict[s] # "image" /\ received = Packets

PatchIsRight == received = Packets /\ Verdict[nv.stream] # "patch" /\ firmware = "old"

\* The end of doPatch, with its copy v of the file, and its caller goes on.
Return(v, failed) ==
  /\ nv' = [v EXCEPT !.state  = IF @ = "WAIT_FOR_APPLY" THEN @ ELSE "IDLE",
                     !.mode   = "DO_NOTHING",
                     !.status = IF failed THEN "WITH_ERROR" ELSE @,
                     !.error  = @ \/ failed]
  /\ error' = failed
  /\ mine' = Blank
  /\ IF stage = "starting" THEN pc' = "start" /\ stage' = "tasks"
                           ELSE pc' = "pend" /\ UNCHANGED stage

\* eDFWP_EXEC_PGM_COMMANDS: validatePatchHeader, then the copy of the program to
\* the image begins.  After a restart the report of a patch that is not right is
\* lost, because the file is read again.
Validate ==
  /\ Running("patch") /\ nv.state = "EXEC_PGM_COMMANDS"
  /\ IF ~ PatchIsRight
     THEN Return(IF stage = "ready" THEN Report(nv) ELSE nv, TRUE) /\ UNCHANGED image
     ELSE /\ UNCHANGED <<stage, error>>
          /\ IF nv.decrypt = "READY"
             THEN /\ nv' = [nv EXCEPT !.decrypt = "DECRYPTING"]
                  /\ GoOnWith("decrypt", nv') /\ UNCHANGED image
             ELSE GoOnWith("build", nv) /\ image' = "torn" /\ UNCHANGED nv
  /\ UNCHANGED <<blInfo, firmware, config, nvImage, history>>
  /\ Track("dfw")

Decrypt ==
  /\ Running("decrypt")
  /\ nv' = [mine EXCEPT !.decrypt = "DONE"]
  /\ GoOnWith("build", nv') /\ image' = "torn"
  /\ UNCHANGED <<blInfo, firmware, config, nvImage, stage, error, history>>
  /\ Track("dfw")

\* The image is complete and its CRC is compared.
Build ==
  /\ Running("build")
  /\ image' = IF Verdict[mine.stream] = "ok" /\ received = Packets THEN "new" ELSE "bad"
  /\ CASE ~ ImageIsRight(mine.stream) -> Return(Report(mine), TRUE)
       [] ImageIsRight(mine.stream) /\ mine.mode = "FULL_APPLY" ->
            /\ nv' = [mine EXCEPT !.state = "DO_FLASH_SWAP"]
            /\ GoOnWith("patch", Blank)
            /\ UNCHANGED <<stage, error>>
       [] OTHER -> Return([Report(mine) EXCEPT !.state = "WAIT_FOR_APPLY"], FALSE)
  /\ UNCHANGED <<blInfo, firmware, config, nvImage, history>>
  /\ Track("dfw")

\* No other state is one of a patch that runs.
InvalidState ==
  /\ Running("patch") /\ nv.state \in Open
  /\ Return(nv, TRUE)
  /\ UNCHANGED <<flash, history>>
  /\ Track("dfw")

\* eDFWP_DO_FLASH_SWAP: the wait for an idle system, whose result is ignored
\* and which ends in any case, ...
WaitForSysIdle ==
  /\ Running("patch") /\ nv.state = "DO_FLASH_SWAP"
  /\ GoOnWith("waitIdle", nv)
  /\ UNCHANGED <<nv, flash, stage, error, history>>
  /\ Track("dfw")

\* ... then the order to the boot loader ...
OrderSwap ==
  /\ Running("waitIdle")
  /\ blInfo' = "ready"
  /\ GoOnWith("swapSave", mine)
  /\ UNCHANGED <<nv, image, firmware, config, nvImage, stage, error, history>>
  /\ Track("dfw")

\* ... and the file that says so.
OrderSwapSave ==
  /\ Running("swapSave")
  /\ nv' = [mine EXCEPT !.state = "BL_SWAP"]
  /\ GoOnWith("reset", Blank)
  /\ UNCHANGED <<flash, stage, error, history>>
  /\ Track("dfw")

SwapIgnored == blInfo = "ready"

\* eDFWP_BL_SWAP: the boot loader either did the swap or was not run.
AfterSwap ==
  /\ Running("patch") /\ nv.state = "BL_SWAP"
  /\ IF SwapIgnored
     THEN nv' = SetDfwToIdle(nv) /\ Forget
     ELSE nv' = [nv EXCEPT !.state = "EXEC_NV_COMMANDS"] /\ UNCHANGED history
  /\ GoOnWith("clear", nv')
  /\ UNCHANGED <<flash, stage, error>>
  /\ Track("dfw")

ClearOrder ==
  /\ Running("clear")
  /\ blInfo' = "none" /\ image' = "blank"
  /\ IF mine.state = "IDLE"
     THEN Return(mine, FALSE)
     ELSE GoOnWith("patch", Blank) /\ UNCHANGED <<nv, stage, error>>
  /\ UNCHANGED <<firmware, config, nvImage, history>>
  /\ Track("dfw")

\* The macro commands that convert the NV data are made for the old layout.
Converted(layout) == IF layout = "old" THEN "new" ELSE "torn"

\* eDFWP_EXEC_NV_COMMANDS: the NV, the file included, is copied to its image,
\* which is erased first, and converted there.  Code of neither version stops.
ExecNvCommands ==
  /\ Running("patch") /\ nv.state = "EXEC_NV_COMMANDS"
  /\ CASE firmware = "new" ->
            /\ nvImage' = [layout |-> Converted(config), nv |-> nv]
            /\ nv' = [nv EXCEPT !.state = "COPY_NV_IMAGE_TO_NV"]
            /\ UNCHANGED <<pc, history>>
       [] firmware = "old" ->
            nv' = SetDfwToIdle(nv) /\ pc' = "reset" /\ Forget /\ UNCHANGED nvImage
       [] OTHER -> pc' = "brick" /\ UNCHANGED <<nv, nvImage, history>>
  /\ UNCHANGED <<image, blInfo, firmware, config, stage, error, mine>>
  /\ Track("dfw")

CopyNvImage ==
  /\ Running("patch") /\ nv.state = "COPY_NV_IMAGE_TO_NV"
  /\ config' = "torn"
  /\ GoOnWith("copyNv", nv)
  /\ UNCHANGED <<nv, image, blInfo, firmware, nvImage, stage, error, history>>
  /\ Track("dfw")

\* The partitions are copied in order, the file with one of them: it says again
\* what it said when the image was made, before the data behind it are converted.
CopyNvFile ==
  /\ Running("copyNv")
  /\ nv' = nvImage.nv
  /\ GoOnWith("copyRest", mine)
  /\ UNCHANGED <<flash, stage, error, history>>
  /\ Track("dfw")

CopyNvRest ==
  /\ Running("copyRest")
  /\ config' = nvImage.layout
  /\ GoOnWith("copied", mine)
  /\ UNCHANGED <<nv, image, blInfo, firmware, nvImage, stage, error, history>>
  /\ Track("dfw")

CopyNvDone ==
  /\ Running("copied")
  /\ nv' = SetDfwToIdle(mine)
  /\ GoOnWith("reset", Blank)
  /\ Forget
  /\ UNCHANGED <<flash, stage, error>>
  /\ Track("dfw")

-----------------------------------------------------------------------------
(* Restarts.                                                                *)

LoseRam ==
  /\ stage' = "starting" /\ mine' = Blank /\ error' = FALSE
  /\ queue' = <<>> /\ alarms' = [a \in Alarms |-> Free] /\ alarmId' = 0
  /\ app' = NoHandler
  /\ stale' = {} /\ UNCHANGED overwritten

Reset ==
  /\ pc = "reset" /\ pc' = "off"
  /\ LoseRam
  /\ UNCHANGED <<nv, received, flash, world, history>>

\* Where power may fail: between the erase of the old patch and the file of the
\* new download, and where the order is cleared after the boot loader was not
\* run, are phases of their own.
Phase == CASE app.op = "initSave" -> "erase"
           [] pc = "clear" /\ mine.state = "IDLE" -> "abort"
           [] OTHER -> pc

\* Power is lost; a unit that runs may stay in its last gasp until it is back.
PowerLoss ==
  /\ losses < MaxLosses /\ losses' = losses + 1
  /\ Phase \in CrashPhases
  /\ \/ pc' = "off"
     \/ /\ stage = "ready" \/ pc = "reset"
        /\ losses' <= MaxGasps
        /\ pc' = "gasp"
  /\ LoseRam
  /\ UNCHANGED <<nv, received, flash, clock, history>>

\* BL_MAIN_Main.  Coming out of the last gasp it runs the application.
BootAfterGasp ==
  /\ pc = "gasp" /\ pc' = "init"
  /\ UNCHANGED <<nv, received, flash, world, stage, mine, ram, queue, app, history, races>>

Boot ==
  /\ pc = "off"
  /\ IF blInfo \in {"ready", "done"}
     THEN pc' = "copy" /\ firmware' = "torn"
     ELSE pc' = "init" /\ UNCHANGED firmware
  /\ UNCHANGED <<nv, received, image, blInfo, config, nvImage, world, stage, mine,
                 ram, queue, app, history, races>>

BootCopied ==
  /\ pc = "copy"
  /\ firmware' = image
  /\ blInfo' = "done"
  /\ pc' = "init"
  /\ UNCHANGED <<nv, received, image, config, nvImage, world, stage, mine,
                 ram, queue, app, history, races>>

\* The CRC of the code is wrong: the failure is counted, and the copy made again.
BootFailed ==
  /\ pc = "copy" /\ losses < MaxLosses /\ losses' = losses + 1
  /\ blInfo' = "done"
  /\ pc' = "off"
  /\ UNCHANGED <<nv, received, image, firmware, config, nvImage, clock, stage, mine,
                 ram, queue, app, history, races>>

\* DFWA_init: a patch that was beyond its image goes on if the CRC of the
\* patch is still right, and the unit stops for ever if it is not.
DfwaInit ==
  LET whole  == received = Packets /\ ~ nv.error
      resume == nv.state \notin Open \union {"EXEC_PGM_COMMANDS"}
  IN /\ pc = "init"
     /\ CASE nv.state \notin Open /\ nv.decrypt = "DECRYPTING" ->
               /\ nv' = [nv EXCEPT !.status = "WITH_ERROR", !.state = "IDLE",
                           !.mode = "DO_NOTHING", !.confirm = "DL_COMPLETE", !.error = TRUE]
               /\ pc' = "start" /\ stage' = "tasks"
          [] nv.state \notin Open /\ nv.decrypt # "DECRYPTING" /\ resume ->
               /\ pc' = IF whole THEN "patch" ELSE "brick"
               /\ UNCHANGED <<nv, stage>>
          [] OTHER -> pc' = "start" /\ stage' = "tasks" /\ UNCHANGED nv
     /\ UNCHANGED <<received, flash, world, mine, ram, queue, app, history, races>>

\* The application message task starts.
AppReady ==
  /\ stage = "tasks" /\ stage' = "ready"
  /\ UNCHANGED <<nv, received, flash, world, pc, mine, ram, queue, app, history, races>>

-----------------------------------------------------------------------------
(* Time.                                                                    *)

Tick ==
  /\ clock < LastTime /\ clock' = clock + 1
  /\ UNCHANGED <<nv, received, flash, losses, stage, pc, mine, ram, queue, app, history,
                 races>>

Ring(id) ==
  /\ alarms[id] \in 1 .. clock /\ Len(queue) < QueueRoom
  /\ alarms' = [alarms EXCEPT ![id] = Rung]
  /\ Post("TIME", id)
  /\ UNCHANGED <<nv, received, flash, world, stage, pc, mine, error, alarmId, app, history,
                 races>>

Handlers ==
  \/ \E op \in {"init", "packet", "cancel", "verify", "apply"} : Handle(op)
  \/ \E s \in Streams : DownloadInit(s)
  \/ DownloadInitSave
  \/ \E s \in Streams, p \in Packets, differs \in BOOLEAN : DownloadPacket(s, p, differs)
  \/ \E s \in Streams : DownloadCancel(s)
  \/ DownloadVerify
  \/ \E s \in Streams, t \in Times : DownloadApply(s, t)

Commands == \/ AlarmMessage \/ Prepatch \/ FullApply \/ Cancel \/ CancelApply

DoPatch == \/ Validate \/ Decrypt \/ Build \/ InvalidState
           \/ WaitForSysIdle \/ OrderSwap \/ OrderSwapSave \/ AfterSwap \/ ClearOrder
           \/ ExecNvCommands \/ CopyNvImage \/ CopyNvFile \/ CopyNvRest \/ CopyNvDone

Restart == \/ Reset \/ BootAfterGasp \/ Boot \/ BootCopied \/ DfwaInit \/ AppReady
           \/ Confirm \/ \E known \in BOOLEAN : Start(known)

Outside == PowerLoss \/ BootFailed \/ Tick \/ \E id \in Alarms : Ring(id)

Next == Handlers \/ Commands \/ Save \/ DoPatch \/ Restart \/ Outside

Spec == Init /\ [][Next]_vars

\* What is scheduled runs: the tasks and the boot loader.
FairSpec == /\ Spec
            /\ WF_vars(Save) /\ WF_vars(DoPatch) /\ WF_vars(Restart)
            /\ WF_vars(Commands) /\ WF_vars(Handlers /\ app.op # "none")
-----------------------------------------------------------------------------
TypeOK == /\ nv \in Record /\ mine \in Record /\ received \subseteq Packets
          /\ image \in Images /\ blInfo \in {"none", "ready", "done"}
          /\ firmware \in Images \union {"old"} /\ config \in Layouts
          /\ nvImage \in [layout : Layouts, nv : Record]
          /\ clock \in Times /\ losses \in 0 .. MaxLosses
          /\ stage \in {"starting", "tasks", "ready"} /\ pc \in Phases
          /\ error \in BOOLEAN /\ Len(queue) <= QueueRoom + 1
          /\ alarms \in [Alarms -> 0 .. Rung] /\ alarmId \in Alarms \union {0}
          /\ accepted \in Streams \union {None} /\ asked \subseteq Streams \X Times
          /\ stale \subseteq {"app", "dfw"} /\ overwritten \in BOOLEAN

\* Whenever the tasks run, the code is whole and the rest of NV has the layout
\* it was made for: the swap and the conversion happen both or not at all,
\* wherever power failed and whether or not the boot loader was run.
FirmwareFitsNv == stage # "starting" => firmware = config /\ firmware # "torn"

\* The unit never ends in the loop of brick(): a patch beyond its image is
\* always found whole again after a restart.
NeverBricked == pc # "brick"

\* A file that says eDFWS_INITIALIZED_COMPLETE, "All packets received", is the
\* file of a patch that is in its partition, except while a handler replaces it.
CompleteIsWhole ==
  nv.status = "COMPLETE" /\ app.op # "initSave" => received = Packets

\* However the two tasks meet in the file and wherever power or buffers fail, such
\* a file has all packets in the bit map or, once the handler that replaces it has
\* cleared that, none: no packet is added to the remains of a patch, or taken from
\* it, and the file goes on saying that it is complete.  A copy that is written
\* back late may say so of another patch.
CompleteIsAllOrNothing ==
  nv.status = "COMPLETE" => overwritten \/ received \in {{}, Packets}

\* A download answered RCE_INITIALIZED stays the one in the file until it is
\* cancelled, expires or is applied.
InitSticks == accepted # None => nv.stream = accepted /\ nv.status # "NOT_INITIALIZED"

\* However the two tasks meet in the file and wherever power or buffers fail, such
\* a download is lost in one way only: a task writes back a copy of the file that
\* is older than what the other task has written.
LostOnlyByOverwriting == InitSticks \/ overwritten

\* Where the two tasks do not meet while a report waits or a command is taken, the
\* states of the file alone keep doPatch and the handlers out of each other's way.
NothingOverwritten == ~ overwritten

\* The boot loader is told to swap only for the download the head end asked
\* to be applied, at a time it gave or later, and after no cancel.
SwapsAsAsked ==
  [][blInfo = "none" /\ blInfo' = "ready" =>
       \E t \in 0 .. clock : <<mine.stream, t>> \in asked]_vars

\* So it is too, where the two tasks meet, until a copy is written back late.
AskedUnlessOverwritten ==
  [][blInfo = "none" /\ blInfo' = "ready" =>
       overwritten \/ \E t \in 0 .. clock : <<mine.stream, t>> \in asked]_vars

\* A patch that has begun ends, provided power does not fail for ever.
PatchEnds == nv.state \notin Open ~> nv.state \in Open
=============================================================================
