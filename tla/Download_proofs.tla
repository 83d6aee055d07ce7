-------------------------- MODULE Download_proofs --------------------------
(***************************************************************************)
(* A file that says the patch is complete is right, wherever power fails     *)
(* except between the erase of a patch and the write of the file; in the     *)
(* second part, a download that was accepted stays; in the third, the code   *)
(* and the layout of the NV data are exchanged both or not at all; and in    *)
(* the fourth, what is swapped in is what the head end asked for.  For any   *)
(* number of downloads, packets, power failures and pending commands.        *)
(***************************************************************************)
EXTENDS Download, ListFacts, TLAPS

\* The commands in the queue of the DFW task.
Cmds == {"TIME", "PREPATCH", "FULL_APPLY", "CANCEL", "CANCEL_APPLY"}

Command == [cmd : Cmds, arg : Int]

\* A record with the fields of DFW_vars_t, ...
IsFile(v) ==
  /\ v = [status |-> v.status, state |-> v.state, mode |-> v.mode, confirm |-> v.confirm,
          schedule |-> v.schedule, stream |-> v.stream, decrypt |-> v.decrypt,
          error |-> v.error]
  /\ v.schedule \in Int /\ v.error \in BOOLEAN

\* ... which waits or works for a complete patch only, without an error, ...
Sane(v) == /\ IsFile(v)
           /\ v.state # "IDLE" => v.status = "COMPLETE"
           /\ v.status = "COMPLETE" => ~ v.error

\* ... and which tells the truth of the packets.
Whole(v) == v.status = "COMPLETE" => received = Packets

\* The file, the copy of the DFW task, and the one in the NV image while that
\* may be copied back.
Files == /\ Sane(nv) /\ Sane(mine) /\ Sane(nvImage.nv)
         /\ app.op # "initSave" => Whole(nv)
         /\ Whole(mine)
         /\ \A v \in {nv, mine} : v.state = "COPY_NV_IMAGE_TO_NV" => Whole(nvImage.nv)

\* No command c waits in queue q.
Without(c, q) == \A i \in 1 .. Len(q) : q[i].cmd # c

\* A handler that may change anything runs alone, on a copy that is not stale.
Handler ==
  /\ app = [op |-> app.op, vars |-> app.vars, stream |-> app.stream]
  /\ app.op = "initSave" => app.vars.state \in Open
  /\ app.op # "none" /\ app.vars.state \in Open =>
       /\ pc \in {"pend", "reset"} /\ app.vars = nv
       /\ (pc = "pend" => Without("PREPATCH", queue))

\* A PREPATCH that waits finds the packets.
Orders ==
  /\ queue \in Seq(Command)
  /\ pc # "reset" => Without("PREPATCH", queue) \/ received = Packets

\* What the phase of the DFW task tells of the file and of the copy.
PhaseFacts ==
  /\ pc \in {"patch", "decrypt", "build", "waitIdle", "swapSave"} => nv.state \notin Open
  /\ pc \in {"saveRun", "decrypt", "build", "waitIdle", "swapSave"} => mine.state \notin Open
  /\ pc = "copyNv" => mine.state = "COPY_NV_IMAGE_TO_NV"
  /\ pc = "clear" => mine.state = nv.state /\ nv.state # "WAIT_FOR_APPLY"
  /\ pc = "reset" /\ nv.status = "COMPLETE" => nv.state \notin Open
  /\ pc \in {"pend", "reset", "patch", "off", "gasp", "copy", "init"} => mine = Blank

\* This is so while the two tasks keep out of the file of each other.
Inv == Overlap = {} /\ Files /\ Handler /\ Orders /\ PhaseFacts

\* A file just created.
LEMMA BlankFacts == Sane(Blank) /\ Blank.status = "NOT_INITIALIZED" /\ Blank.state = "IDLE"
BY DEF Sane, IsFile, Blank

\* What OS_QUEUE_Enqueue and OS_QUEUE_Dequeue do to the commands that wait.
LEMMA QueueFacts ==
  ASSUME queue \in Seq(Command)
  PROVE  /\ \A c \in Cmds, n \in Int :
              LET q == Append(queue, [cmd |-> c, arg |-> n])
              IN q \in Seq(Command) /\ \A d : d # c /\ Without(d, queue) => Without(d, q)
         /\ queue # <<>> =>
              /\ Head(queue) \in Command /\ Tail(queue) \in Seq(Command)
              /\ \A d : Without(d, queue) => Without(d, Tail(queue)) /\ Head(queue).cmd # d
<1>1. ASSUME NEW c \in Cmds, NEW n \in Int, NEW q, q = Append(queue, [cmd |-> c, arg |-> n])
      PROVE  q \in Seq(Command) /\ \A d : d # c /\ Without(d, queue) => Without(d, q)
  <2>1. [cmd |-> c, arg |-> n] \in Command
    BY DEF Command
  <2>2. /\ q \in Seq(Command) /\ Len(q) = Len(queue) + 1 /\ q[Len(queue) + 1].cmd = c
        /\ \A i \in 1 .. Len(queue) : q[i] = queue[i]
    BY <1>1, <2>1
  <2>. QED
    BY <2>2 DEF Without
<1>2. ASSUME queue # <<>>
      PROVE  /\ Head(queue) \in Command /\ Tail(queue) \in Seq(Command)
             /\ \A d : Without(d, queue) => Without(d, Tail(queue)) /\ Head(queue).cmd # d
  <2>1. /\ Len(queue) \in Nat \ {0} /\ Head(queue) = queue[1] /\ Head(queue) \in Command
        /\ Tail(queue) \in Seq(Command) /\ Len(Tail(queue)) = Len(queue) - 1
        /\ \A i \in 1 .. Len(queue) - 1 : Tail(queue)[i] = queue[i + 1]
    BY <1>2
  <2>. QED
    BY <2>1 DEF Without
<1>. QED
  BY <1>1, <1>2

\* A queue that has been emptied.
LEMMA EmptyFacts == <<>> \in Seq(Command) /\ \A d : Without(d, <<>>)
BY DEF Without

\* A handler begins: it reads the file.
LEMMA HandleInv ==
  ASSUME Inv, NEW op, Handle(op), op \in {"init", "packet", "cancel", "verify", "apply"}
  PROVE  Inv'
<1>1. Files'
  BY DEF Inv, Files, Whole, Handle, flash
<1>2. Handler'
  BY EmptyFacts DEF Inv, Handler, PhaseFacts, Handle, Quiet
<1>3. Orders'
  BY DEF Inv, Orders, Handle
<1>4. PhaseFacts'
  BY DEF Inv, PhaseFacts, Handle
<1>. QED
  BY <1>1, <1>2, <1>3, <1>4 DEF Inv

\* The patch space is erased: the file must be open, so no patch runs.
LEMMA DownloadInitInv ==
  ASSUME Inv, NEW s \in Streams, DownloadInit(s)
  PROVE  Inv'
<1>1. Files'
  BY BlankFacts DEF Inv, Files, Whole, PhaseFacts, Handler, Open, DownloadInit, Handling,
     MayReplace, flash
<1>2. Handler'
  <2>1. CASE app' = NoHandler
    BY <2>1 DEF Handler, NoHandler
  <2>2. CASE app' # NoHandler
    <3>1. /\ app.op = "init" /\ app.vars.state \in Open
          /\ app' = [app EXCEPT !.op = "initSave", !.stream = s]
      BY <2>2 DEF DownloadInit, Handling, MayReplace
    <3>2. app' = [op |-> "initSave", vars |-> app.vars, stream |-> s]
      BY <3>1 DEF Inv, Handler
    <3>. QED
      BY <3>1, <3>2 DEF Inv, Handler, DownloadInit, Handling
  <2>. QED
    BY <2>1, <2>2
<1>3. Orders'
  BY DEF Inv, Orders, Handler, DownloadInit, Handling, MayReplace
<1>4. PhaseFacts'
  BY DEF Inv, PhaseFacts, DownloadInit, Handling
<1>. QED
  BY <1>1, <1>2, <1>3, <1>4 DEF Inv

\* A handler ends without a change, or changes the file it read.
LEMMA Handled ==
  ASSUME Inv, NEW op, op # "none", Handling(op), app' = NoHandler,
         queue' \in Seq(Command),
         pc # "reset" => Without("PREPATCH", queue') \/ received' = Packets,
         \/ nv' = nv /\ received' = received /\ op # "initSave"
         \/ /\ app.vars.state \in Open /\ Sane(nv') /\ nv'.state \in Open
            /\ nv'.status = "COMPLETE" => pc # "reset" /\ received' = Packets
  PROVE  Inv'
<1>. USE BlankFacts DEF Handling, flash, ram, world
<1>1. CASE nv' = nv /\ received' = received /\ op # "initSave"
  <2>1. Files'
    BY <1>1 DEF Inv, Files, Sane, IsFile, Whole, NoHandler
  <2>2. Handler' /\ Orders'
    BY <1>1 DEF Inv, Handler, Orders, NoHandler
  <2>3. PhaseFacts'
    BY <1>1 DEF Inv, PhaseFacts
  <2>. QED
    BY <2>1, <2>2, <2>3 DEF Inv
<1>2. CASE /\ app.vars.state \in Open /\ Sane(nv') /\ nv'.state \in Open
           /\ nv'.status = "COMPLETE" => pc # "reset" /\ received' = Packets
  <2>1. pc \in {"pend", "reset"} /\ mine = Blank
    BY <1>2 DEF Inv, Handler, PhaseFacts
  <2>2. Files'
    BY <1>2, <2>1 DEF Inv, Files, Whole, Sane, IsFile, Open
  <2>3. Handler' /\ Orders'
    BY <1>2, <2>1 DEF Inv, Handler, Orders, NoHandler
  <2>4. PhaseFacts'
    BY <1>2, <2>1 DEF Inv, PhaseFacts
  <2>. QED
    BY <2>2, <2>3, <2>4 DEF Inv
<1>. QED
  BY <1>1, <1>2

\* What a handler that read an open file knows of it.
LEMMA OpenFacts ==
  ASSUME Inv, app.op # "none", app.vars.state \in Open
  PROVE  /\ app.vars = nv /\ Sane(nv) /\ (pc # "reset" => Without("PREPATCH", queue))
         /\ nv.status = "COMPLETE" => pc # "reset" /\ (app.op # "initSave" => received = Packets)
BY DEF Inv, Handler, PhaseFacts, Files, Whole

\* The file of the new download is written.
LEMMA DownloadInitSaveInv ==
  ASSUME Inv, DownloadInitSave
  PROVE  Inv'
<1>1. Handling("initSave") /\ app' = NoHandler /\ app.vars.state \in Open
  BY DEF DownloadInitSave, Handling, Inv, Handler
<1>2. Sane(nv') /\ nv'.state \in Open /\ nv'.status # "COMPLETE"
  <2>1. app.vars = nv /\ Sane(nv)
    BY <1>1, OpenFacts DEF Handling
  <2>2. \E d : nv' = [status |-> "INCOMPLETE", state |-> "IDLE", mode |-> nv.mode, confirm |-> "NONE",
                     schedule |-> 0, stream |-> app.stream, decrypt |-> d, error |-> FALSE]
    BY <2>1 DEF DownloadInitSave, Sane, IsFile
  <2>. QED
    BY <2>2 DEF Sane, IsFile, Open
<1>3. queue' \in Seq(Command) /\ (pc # "reset" => Without("PREPATCH", queue'))
  <2>1. /\ queue' = queue \/ queue' = Append(queue, [cmd |-> "CANCEL_APPLY", arg |-> 0])
        /\ pc # "reset" => Without("PREPATCH", queue)
    BY <1>1, OpenFacts DEF DownloadInitSave, Handling, Post, Short
  <2>2. queue \in Seq(Command) /\ "CANCEL_APPLY" \in Cmds /\ 0 \in Int
    BY DEF Inv, Orders, Cmds
  <2>. HIDE DEF Cmds
  <2>. QED
    BY <2>1, <2>2, QueueFacts
<1>. QED
  BY <1>1, <1>2, <1>3, Handled

\* A packet that completes the patch posts the PREPATCH, a packet that differs
\* makes the download incomplete.
LEMMA DownloadPacketInv ==
  ASSUME Inv, NEW s \in Streams, NEW p \in Packets, NEW differs \in BOOLEAN,
         DownloadPacket(s, p, differs)
  PROVE  Inv'
<1>1. Handling("packet") /\ app' = NoHandler
  BY DEF DownloadPacket
<1>2. CASE UNCHANGED <<nv, received, queue>>
  BY <1>1, <1>2, Handled DEF Inv, Orders
<1>3. CASE ~ UNCHANGED <<nv, received, queue>>
  <2>. DEFINE v == app.vars
              good == v.status # "NOT_INITIALIZED" /\ v.state = "IDLE"
              all == IF p \in received /\ differs /\ v.status # "WITH_ERROR"
                     THEN received \ {p} ELSE received \union {p}
  <2>1. good /\ v.state \in Open
    BY <1>3 DEF DownloadPacket, Open
  <2>2. v = nv /\ Sane(nv) /\ (pc # "reset" => Without("PREPATCH", queue))
    BY <1>1, <2>1, OpenFacts DEF Handling
  <2>3. CASE /\ nv' = [v EXCEPT !.status = "NOT_INITIALIZED", !.error = TRUE]
             /\ UNCHANGED <<received, queue>>
    <3>1. Sane(nv') /\ nv'.state \in Open /\ nv'.status # "COMPLETE"
      BY <2>1, <2>2, <2>3 DEF Sane, IsFile
    <3>. QED
      BY <1>1, <2>1, <2>2, <2>3, <3>1, Handled DEF Inv, Orders
  <2>4. CASE /\ received' = Packets /\ nv' = nv
             /\ \/ queue' = Append(queue, [cmd |-> "PREPATCH", arg |-> 0])
                \/ queue' = queue
    <3>1. queue' \in Seq(Command)
      BY <2>4, QueueFacts DEF Inv, Orders, Cmds
    <3>2. nv.status = "COMPLETE" => pc # "reset"
      BY <1>1, <2>1, OpenFacts DEF Handling
    <3>. QED
      BY <1>1, <2>1, <2>2, <2>4, <3>1, <3>2, Handled
  <2>5. CASE /\ queue' = queue
             /\ nv' = IF v.status = "INCOMPLETE" THEN nv ELSE [v EXCEPT !.status = "INCOMPLETE"]
    <3>1. Sane(nv') /\ nv'.state \in Open /\ nv'.status # "COMPLETE"
      BY <2>1, <2>2, <2>5 DEF Sane, IsFile
    <3>. QED
      BY <1>1, <2>1, <2>2, <2>5, <3>1, Handled DEF Inv, Orders
  <2>. QED
    BY <1>3, <2>1, <2>3, <2>4, <2>5 DEF DownloadPacket, Incomplete, Post, Short
<1>. QED
  BY <1>2, <1>3

\* A cancel leaves the file to the DFW task.
LEMMA DownloadCancelInv ==
  ASSUME Inv, NEW s \in Streams, DownloadCancel(s)
  PROVE  Inv'
<1>1. /\ Handling("cancel") /\ app' = NoHandler /\ UNCHANGED <<nv, received>>
      /\ queue' = queue \/ queue' = Append(queue, [cmd |-> "CANCEL", arg |-> 0])
  BY DEF DownloadCancel, Post, Short
<1>2. queue' \in Seq(Command) /\ (Without("PREPATCH", queue) => Without("PREPATCH", queue'))
  <2>1. CASE queue' = queue
    BY <2>1 DEF Inv, Orders
  <2>2. CASE queue' = Append(queue, [cmd |-> "CANCEL", arg |-> 0])
    <3>1. queue \in Seq(Command) /\ "CANCEL" \in Cmds /\ 0 \in Int /\ "CANCEL" # "PREPATCH"
      BY DEF Inv, Orders, Cmds
    <3>. HIDE DEF Cmds
    <3>. QED
      BY <2>2, <3>1, QueueFacts
  <2>. QED
    BY <1>1, <2>1, <2>2
<1>. QED
  BY <1>1, <1>2, Handled DEF Inv, Orders

\* An expired download is dropped.
LEMMA Expiry ==
  ASSUME NEW v, Sane(v), NEW w, w = SetExpired(v)
  PROVE  Sane(w) /\ w.state \in Open /\ w.status # "COMPLETE"
BY DEF Sane, IsFile, SetExpired, Open

\* A verification may find that the download has expired.
LEMMA DownloadVerifyInv ==
  ASSUME Inv, DownloadVerify
  PROVE  Inv'
<1>1. /\ Handling("verify") /\ app' = NoHandler /\ UNCHANGED <<received, queue>>
      /\ nv' = nv \/ (app.vars.state \in Open /\ nv' = SetExpired(app.vars))
  BY DEF DownloadVerify
<1>2. CASE nv' = nv
  BY <1>1, <1>2, Handled DEF Inv, Orders
<1>3. CASE app.vars.state \in Open /\ nv' = SetExpired(app.vars)
  <2>1. Sane(nv') /\ nv'.state \in Open /\ nv'.status # "COMPLETE"
    BY <1>1, <1>3, OpenFacts, Expiry DEF Handling
  <2>. QED
    BY <1>1, <1>3, <2>1, Handled DEF Inv, Orders
<1>. QED
  BY <1>1, <1>2, <1>3

\* An apply may find so, too.
LEMMA DownloadApplyInv ==
  ASSUME Inv, NEW s \in Streams, NEW t \in Times, DownloadApply(s, t)
  PROVE  Inv'
<1>1. /\ Handling("apply") /\ app' = NoHandler /\ UNCHANGED received
      /\ queue' = queue \/ queue' = Append(queue, [cmd |-> "FULL_APPLY", arg |-> t])
      /\ nv' = nv \/ (app.vars.state \in Open /\ nv' = SetExpired(app.vars))
  BY DEF DownloadApply, Apply, Applicable, Post, Short
<1>2. queue' \in Seq(Command) /\ (Without("PREPATCH", queue) => Without("PREPATCH", queue'))
  <2>1. CASE queue' = queue
    BY <2>1 DEF Inv, Orders
  <2>2. CASE queue' = Append(queue, [cmd |-> "FULL_APPLY", arg |-> t])
    <3>1. queue \in Seq(Command) /\ "FULL_APPLY" \in Cmds /\ t \in Int /\ "FULL_APPLY" # "PREPATCH"
      BY DEF Inv, Orders, Cmds, Times
    <3>. HIDE DEF Cmds
    <3>. QED
      BY <2>2, <3>1, QueueFacts
  <2>. QED
    BY <1>1, <2>1, <2>2
<1>3. CASE nv' = nv
  BY <1>1, <1>2, <1>3, Handled DEF Inv, Orders
<1>4. CASE app.vars.state \in Open /\ nv' = SetExpired(app.vars)
  <2>1. Sane(nv') /\ nv'.state \in Open /\ nv'.status # "COMPLETE"
    BY <1>1, <1>4, OpenFacts, Expiry DEF Handling
  <2>. QED
    BY <1>1, <1>2, <1>4, <2>1, Handled DEF Inv, Orders
<1>. QED
  BY <1>1, <1>3, <1>4

\* After a restart: an interrupted patch is complete, so its PREPATCH may be
\* posted again.
LEMMA StartInv ==
  ASSUME Inv, NEW known \in BOOLEAN, Start(known)
  PROVE  Inv'
<1>1. Files'
  BY BlankFacts DEF Inv, Files, Sane, IsFile, Whole, Handler, Start, Apply, SetExpired,
     flash
<1>2. Handler'
  BY DEF Inv, Handler, Start
<1>3. Orders'
  <2>1. app.op # "initSave" /\ pc = "start"
    BY DEF Start, Inv, Handler
  <2>2. CASE queue' = queue
    BY <2>1, <2>2 DEF Start, Inv, Orders
  <2>3. CASE nv.state # "IDLE" /\ queue' = Append(queue, [cmd |-> "PREPATCH", arg |-> 0])
    <3>1. received' = Packets
      BY <2>1, <2>3 DEF Start, Inv, Files, Sane, Whole
    <3>2. queue' \in Seq(Command)
      BY <2>3, QueueFacts DEF Inv, Orders, Cmds
    <3>. QED
      BY <3>1, <3>2 DEF Orders
  <2>4. CASE queue' = Append(queue, [cmd |-> "FULL_APPLY", arg |-> nv.schedule])
    <3>1. /\ queue \in Seq(Command) /\ nv.schedule \in Int
          /\ "FULL_APPLY" \in Cmds /\ "FULL_APPLY" # "PREPATCH"
      BY DEF Inv, Orders, Files, Sane, IsFile, Cmds
    <3>. HIDE DEF Cmds
    <3>2. queue' \in Seq(Command) /\ (Without("PREPATCH", queue) => Without("PREPATCH", queue'))
      BY <2>4, <3>1, QueueFacts
    <3>. QED
      BY <2>1, <3>2 DEF Inv, Orders, Start
  <2>. QED
    BY <2>2, <2>3, <2>4 DEF Start, Apply, Post, Short
<1>4. PhaseFacts'
  BY DEF PhaseFacts, Start
<1>. QED
  BY <1>1, <1>2, <1>3, <1>4 DEF Inv

\* No handler ran since the copy was made.
LEMMA ConfirmInv ==
  ASSUME Inv, Confirm
  PROVE  Inv'
<1>1. Files'
  BY BlankFacts DEF Inv, Files, Sane, IsFile, Whole, Confirm, flash
<1>2. Handler'
  BY DEF Inv, Handler, Confirm
<1>3. Orders'
  BY DEF Inv, Orders, Confirm
<1>4. PhaseFacts'
  BY DEF PhaseFacts, Confirm
<1>. QED
  BY <1>1, <1>2, <1>3, <1>4 DEF Inv

\* The commands of the queue.
LEMMA AlarmMessageInv ==
  ASSUME Inv, AlarmMessage
  PROVE  Inv'
<1>1. Files'
  BY DEF Inv, Files, Sane, IsFile, Whole, PhaseFacts, AlarmMessage, Dequeue, GoOnWith,
     Rejected, flash
<1>2. Handler'
  BY DEF Inv, Handler, AlarmMessage, Dequeue
<1>3. Orders'
  BY QueueFacts DEF Inv, Orders, AlarmMessage, Dequeue
<1>4. PhaseFacts'
  BY DEF Inv, PhaseFacts, Files, Sane, IsFile, Open, AlarmMessage, GoOnWith, Rejected
<1>. QED
  BY <1>1, <1>2, <1>3, <1>4 DEF Inv

\* The file is declared complete: the command was posted when it was, and has waited.
LEMMA PrepatchInv ==
  ASSUME Inv, Prepatch
  PROVE  Inv'
<1>1. Files'
  <2>1. app.op = "none" /\ received' = received
    BY DEF Prepatch, Dequeue, Inv
  <2>2. CASE mine' = Blank
    BY <2>1, <2>2, BlankFacts DEF Inv, Files, Whole, Sane, IsFile, Prepatch, Dequeue, flash
  <2>3. CASE mine' # Blank
    <3>1. /\ mine' = [nv EXCEPT !.status = "COMPLETE", !.state = "EXEC_PGM_COMMANDS",
                               !.mode = "PREPATCH", !.error = FALSE]
          /\ queue # <<>> /\ Head(queue).cmd = "PREPATCH" /\ pc = "pend"
      BY <2>3 DEF Prepatch, Dequeue, GoOnWith, Rejected
    <3>2. received = Packets
      BY <3>1, QueueFacts DEF Inv, Orders
    <3>3. Sane(mine') /\ mine'.state = "EXEC_PGM_COMMANDS"
      BY <3>1 DEF Inv, Files, Sane, IsFile
    <3>. QED
      BY <2>1, <3>2, <3>3 DEF Inv, Files, Whole, Sane, IsFile, Prepatch, Dequeue, flash
  <2>. QED
    BY <2>2, <2>3
<1>2. Handler'
  BY DEF Inv, Handler, Prepatch, Dequeue
<1>3. Orders'
  BY QueueFacts DEF Inv, Orders, Prepatch, Dequeue
<1>4. PhaseFacts'
  BY DEF Inv, PhaseFacts, Files, Sane, IsFile, Open, Prepatch, GoOnWith, Rejected
<1>. QED
  BY <1>1, <1>2, <1>3, <1>4 DEF Inv

\* The schedule changes, and the state if the file is complete.
LEMMA FullApplyInv ==
  ASSUME Inv, FullApply
  PROVE  Inv'
<1>1. Files'
  <2>1. /\ app.op = "none" /\ received' = received /\ nv' = nv /\ nvImage' = nvImage
        /\ queue # <<>> /\ app' = app
    BY DEF FullApply, Dequeue, flash, Inv
  <2>2. CASE mine' = Blank
    BY <2>1, <2>2, BlankFacts DEF Inv, Files, Whole, Sane, IsFile
  <2>3. CASE mine' # Blank
    <3>. DEFINE t == Head(queue).arg  v == [nv EXCEPT !.schedule = t, !.mode = "FULL_APPLY"]
    <3>1. t \in Int
      BY <2>1, QueueFacts DEF Inv, Orders, Command
    <3>2. \/ mine' = v
          \/ nv.status = "COMPLETE" /\ \E x \in {"EXEC_PGM_COMMANDS", "DO_FLASH_SWAP"} :
                                         mine' = [v EXCEPT !.state = x]
      BY <2>3 DEF FullApply, GoOnWith, Rejected
    <3>. HIDE DEF t
    <3>3. CASE mine' = v
      BY <2>1, <3>1, <3>3 DEF Inv, Files, Whole, Sane, IsFile
    <3>4. ASSUME nv.status = "COMPLETE", NEW x \in {"EXEC_PGM_COMMANDS", "DO_FLASH_SWAP"},
                 mine' = [v EXCEPT !.state = x]
          PROVE  Files'
      <4>1. Sane(mine') /\ mine'.status = nv.status /\ mine'.state # "COPY_NV_IMAGE_TO_NV"
        BY <3>1, <3>4 DEF Inv, Files, Sane, IsFile
      <4>. QED
        BY <2>1, <4>1 DEF Inv, Files, Whole, Sane, IsFile
    <3>. QED
      BY <3>2, <3>3, <3>4
  <2>. QED
    BY <2>2, <2>3
<1>2. Handler'
  BY DEF Inv, Handler, FullApply, Dequeue
<1>3. Orders'
  BY QueueFacts DEF Inv, Orders, FullApply, Dequeue
<1>4. PhaseFacts'
  BY DEF Inv, PhaseFacts, Files, Sane, IsFile, Open, FullApply, GoOnWith, Rejected
<1>. QED
  BY <1>1, <1>2, <1>3, <1>4 DEF Inv

LEMMA CancelInv ==
  ASSUME Inv, Cancel
  PROVE  Inv'
<1>1. Files'
  BY DEF Inv, Files, Sane, IsFile, Whole, PhaseFacts, Cancel, Dequeue, GoOnWith, Rejected,
     IdleWithoutReport, flash
<1>2. Handler'
  BY DEF Inv, Handler, Cancel, Dequeue
<1>3. Orders'
  BY QueueFacts DEF Inv, Orders, Cancel, Dequeue
<1>4. PhaseFacts'
  BY DEF PhaseFacts, Cancel, GoOnWith, Rejected
<1>. QED
  BY <1>1, <1>2, <1>3, <1>4 DEF Inv

LEMMA CancelApplyInv ==
  ASSUME Inv, CancelApply
  PROVE  Inv'
<1>1. Files'
  BY DEF Inv, Files, Whole, PhaseFacts, CancelApply, Dequeue, GoOnWith, Rejected, flash
<1>2. Handler'
  BY DEF Inv, Handler, CancelApply, Dequeue
<1>3. Orders'
  BY QueueFacts DEF Inv, Orders, CancelApply, Dequeue
<1>4. PhaseFacts'
  BY DEF PhaseFacts, CancelApply, GoOnWith, Rejected
<1>. QED
  BY <1>1, <1>2, <1>3, <1>4 DEF Inv

\* The copy is written back.
LEMMA SaveInv ==
  ASSUME Inv, Save
  PROVE  Inv'
<1>1. Files'
  BY BlankFacts DEF Inv, Files, Whole, Save, flash
<1>2. Handler'
  BY DEF Inv, Handler, Save
<1>3. Orders'
  BY DEF Inv, Orders, Save
<1>4. PhaseFacts'
  BY DEF Inv, PhaseFacts, Save
<1>. QED
  BY <1>1, <1>2, <1>3, <1>4 DEF Inv

\* The end of a patch in the file.
LEMMA ReturnFiles ==
  ASSUME NEW v, NEW failed \in BOOLEAN, Return(v, failed), Sane(v), v.status = "COMPLETE",
         v.state # "WAIT_FOR_APPLY" \/ ~ failed,
         received = Packets, Sane(nvImage.nv), UNCHANGED <<received, nvImage>>
  PROVE  Files'
<1>1. /\ IsFile(nv') /\ nv'.state \in {"IDLE", "WAIT_FOR_APPLY"}
      /\ nv'.state = "WAIT_FOR_APPLY" => ~ failed
      /\ nv'.status = (IF failed THEN "WITH_ERROR" ELSE "COMPLETE")
      /\ ~ failed => ~ nv'.error
  BY DEF Return, Sane, IsFile
<1>2. mine' = Blank
  BY DEF Return
<1>. QED
  BY <1>1, <1>2, BlankFacts DEF Files, Sane, IsFile, Whole

\* What Report leaves as it is.
LEMMA ReportKeeps ==
  ASSUME NEW v, Sane(v)
  PROVE  Sane(Report(v)) /\ Report(v).status = v.status /\ Report(v).state = v.state
BY DEF Report, Sane, IsFile

\* The steps of doPatch.
LEMMA ValidateInv ==
  ASSUME Inv, Validate
  PROVE  Inv'
<1>1. Files'
  <2>1. /\ Sane(nv) /\ nv.state = "EXEC_PGM_COMMANDS" /\ nv.status = "COMPLETE"
        /\ received = Packets /\ Sane(nvImage.nv) /\ UNCHANGED <<received, nvImage, app>>
    BY DEF Inv, Files, Sane, Whole, Handler, Open, Validate, Running
  <2>2. CASE Return(Report(nv), TRUE)
    BY <2>1, <2>2, ReturnFiles, ReportKeeps
  <2>3. CASE Return(nv, TRUE)
    BY <2>1, <2>3, ReturnFiles
  <2>4. CASE /\ nv' = [nv EXCEPT !.decrypt = "DECRYPTING"] \/ nv' = nv
             /\ mine' = nv'
    <3>1. Sane(nv') /\ nv'.state = nv.state /\ nv'.status = nv.status
      BY <2>1, <2>4 DEF Sane, IsFile
    <3>. QED
      BY <2>1, <2>4, <3>1 DEF Files, Whole
  <2>. QED
    BY <2>2, <2>3, <2>4 DEF Validate, GoOnWith
<1>2. Handler'
  BY DEF Inv, Handler, Validate, Running
<1>3. Orders'
  BY DEF Inv, Orders, Validate, Running
<1>4. PhaseFacts'
  BY DEF Inv, PhaseFacts, Files, Sane, IsFile, Open, Validate, Return, GoOnWith
<1>. QED
  BY <1>1, <1>2, <1>3, <1>4 DEF Inv

LEMMA DecryptInv ==
  ASSUME Inv, Decrypt
  PROVE  Inv'
<1>1. Files'
  BY DEF Inv, Files, Sane, IsFile, Whole, Decrypt, Running, GoOnWith
<1>2. Handler'
  BY DEF Inv, Handler, Decrypt, Running
<1>3. Orders'
  BY DEF Inv, Orders, Decrypt, Running
<1>4. PhaseFacts'
  BY DEF Inv, PhaseFacts, Decrypt, Running, GoOnWith
<1>. QED
  BY <1>1, <1>2, <1>3, <1>4 DEF Inv

LEMMA BuildInv ==
  ASSUME Inv, Build
  PROVE  Inv'
<1>1. Files'
  <2>1. /\ Sane(mine) /\ mine.state \notin Open /\ mine.status = "COMPLETE"
        /\ received = Packets /\ Sane(nvImage.nv) /\ UNCHANGED <<received, nvImage, app>>
    BY DEF Inv, Files, Sane, Whole, PhaseFacts, Open, Build, Running
  <2>2. CASE Return(Report(mine), TRUE)
    BY <2>1, <2>2, ReturnFiles, ReportKeeps DEF Open
  <2>3. CASE /\ nv' = [mine EXCEPT !.state = "DO_FLASH_SWAP"]
             /\ mine' = Blank
    <3>1. Sane(nv') /\ nv'.state = "DO_FLASH_SWAP"
      BY <2>1, <2>3 DEF Sane, IsFile
    <3>. QED
      BY <2>1, <2>3, <3>1, BlankFacts DEF Files, Whole
  <2>4. CASE Return([Report(mine) EXCEPT !.state = "WAIT_FOR_APPLY"], FALSE)
    <3>. DEFINE w == [Report(mine) EXCEPT !.state = "WAIT_FOR_APPLY"]
    <3>1. Sane(w) /\ w.status = "COMPLETE" /\ w.state = "WAIT_FOR_APPLY"
      <4>1. Sane(Report(mine)) /\ Report(mine).status = "COMPLETE"
        BY <2>1, ReportKeeps
      <4>. QED
        BY <4>1 DEF Sane, IsFile
    <3>2. Return(w, FALSE)
      BY <2>4
    <3>. HIDE DEF w
    <3>. QED
      BY <2>1, <3>1, <3>2, ReturnFiles
  <2>. QED
    BY <2>2, <2>3, <2>4 DEF Build, GoOnWith
<1>2. Handler'
  BY DEF Inv, Handler, Build, Running
<1>3. Orders'
  BY DEF Inv, Orders, Build, Running
<1>4. PhaseFacts'
  BY DEF Inv, PhaseFacts, Files, Sane, IsFile, Open, Build, Return, GoOnWith
<1>. QED
  BY <1>1, <1>2, <1>3, <1>4 DEF Inv

\* A patch never runs with another state in the file.
LEMMA NeverInvalid ==
  ASSUME Inv, InvalidState
  PROVE  FALSE
BY DEF InvalidState, Running, Inv, PhaseFacts

LEMMA WaitForSysIdleInv ==
  ASSUME Inv, WaitForSysIdle
  PROVE  Inv'
<1>1. Files'
  BY DEF Inv, Files, Whole, Handler, WaitForSysIdle, Running, GoOnWith, flash
<1>2. Handler'
  BY DEF Inv, Handler, WaitForSysIdle, Running
<1>3. Orders'
  BY DEF Inv, Orders, WaitForSysIdle, Running
<1>4. PhaseFacts'
  BY DEF PhaseFacts, Open, WaitForSysIdle, GoOnWith
<1>. QED
  BY <1>1, <1>2, <1>3, <1>4 DEF Inv

LEMMA OrderSwapInv ==
  ASSUME Inv, OrderSwap
  PROVE  Inv'
<1>1. Files'
  BY DEF Inv, Files, Whole, Handler, OrderSwap, Running, GoOnWith
<1>2. Handler'
  BY DEF Inv, Handler, OrderSwap, Running
<1>3. Orders'
  BY DEF Inv, Orders, OrderSwap, Running
<1>4. PhaseFacts'
  BY DEF Inv, PhaseFacts, Open, OrderSwap, Running, GoOnWith
<1>. QED
  BY <1>1, <1>2, <1>3, <1>4 DEF Inv

LEMMA OrderSwapSaveInv ==
  ASSUME Inv, OrderSwapSave
  PROVE  Inv'
<1>1. Files'
  BY BlankFacts DEF Inv, Files, Sane, IsFile, Whole, PhaseFacts, Open, OrderSwapSave,
     Running, GoOnWith, flash
<1>2. Handler'
  BY DEF Inv, Handler, OrderSwapSave, Running
<1>3. Orders'
  BY DEF Inv, Orders, OrderSwapSave, Running
<1>4. PhaseFacts'
  BY DEF PhaseFacts, Open, OrderSwapSave, GoOnWith
<1>. QED
  BY <1>1, <1>2, <1>3, <1>4 DEF Inv

LEMMA AfterSwapInv ==
  ASSUME Inv, AfterSwap
  PROVE  Inv'
<1>1. Files'
  BY DEF Inv, Files, Sane, IsFile, Whole, Handler, AfterSwap, Running, GoOnWith,
     SetDfwToIdle, IdleWithoutReport, flash
<1>2. Handler'
  BY DEF Inv, Handler, AfterSwap, Running
<1>3. Orders'
  BY DEF Inv, Orders, AfterSwap, Running
<1>4. PhaseFacts'
  BY DEF Inv, PhaseFacts, Files, Sane, IsFile, AfterSwap, GoOnWith, SetDfwToIdle,
     IdleWithoutReport
<1>. QED
  BY <1>1, <1>2, <1>3, <1>4 DEF Inv

LEMMA ClearOrderInv ==
  ASSUME Inv, ClearOrder
  PROVE  Inv'
<1>1. Files'
  BY BlankFacts DEF Inv, Files, Sane, IsFile, Whole, ClearOrder, Running, Return, GoOnWith
<1>2. Handler'
  BY DEF Inv, Handler, ClearOrder, Running
<1>3. Orders'
  BY DEF Inv, Orders, ClearOrder, Running
<1>4. PhaseFacts'
  BY DEF Inv, PhaseFacts, Open, ClearOrder, Running, Return, GoOnWith
<1>. QED
  BY <1>1, <1>2, <1>3, <1>4 DEF Inv

LEMMA ExecNvCommandsInv ==
  ASSUME Inv, ExecNvCommands
  PROVE  Inv'
<1>1. Files'
  <2>1. /\ received' = received /\ mine' = mine /\ app' = app /\ pc = "patch"
        /\ mine = Blank /\ nv.state = "EXEC_NV_COMMANDS" /\ app.op # "initSave"
    BY DEF ExecNvCommands, Running, Inv, PhaseFacts, Handler
  <2>2. CASE nvImage'.nv = nv /\ nv' = [nv EXCEPT !.state = "COPY_NV_IMAGE_TO_NV"]
    <3>1. Sane(nv') /\ nv'.status = nv.status
      BY <2>1, <2>2 DEF Inv, Files, Sane, IsFile
    <3>. QED
      BY <2>1, <2>2, <3>1, BlankFacts DEF Inv, Files, Whole, Sane, IsFile
  <2>3. CASE nvImage' = nvImage /\ nv' = SetDfwToIdle(nv)
    <3>1. Sane(nv') /\ nv'.status # "COMPLETE" /\ nv'.state = "IDLE"
      BY <2>3 DEF Inv, Files, Sane, IsFile, SetDfwToIdle, IdleWithoutReport
    <3>. QED
      BY <2>1, <2>3, <3>1, BlankFacts DEF Inv, Files, Whole, Sane, IsFile
  <2>4. CASE UNCHANGED <<nv, nvImage>>
    BY <2>1, <2>4 DEF Inv, Files, Whole
  <2>. QED
    BY <2>2, <2>3, <2>4 DEF ExecNvCommands
<1>2. Handler'
  BY DEF Inv, Handler, ExecNvCommands, Running
<1>3. Orders'
  BY DEF Inv, Orders, ExecNvCommands, Running
<1>4. PhaseFacts'
  BY DEF Inv, PhaseFacts, Files, Sane, IsFile, Open, ExecNvCommands, Running,
     SetDfwToIdle, IdleWithoutReport
<1>. QED
  BY <1>1, <1>2, <1>3, <1>4 DEF Inv

LEMMA CopyNvImageInv ==
  ASSUME Inv, CopyNvImage
  PROVE  Inv'
<1>1. Files'
  BY DEF Inv, Files, Whole, Handler, CopyNvImage, Running, GoOnWith
<1>2. Handler'
  BY DEF Inv, Handler, CopyNvImage, Running
<1>3. Orders'
  BY DEF Inv, Orders, CopyNvImage, Running
<1>4. PhaseFacts'
  BY DEF PhaseFacts, CopyNvImage, GoOnWith
<1>. QED
  BY <1>1, <1>2, <1>3, <1>4 DEF Inv

LEMMA CopyNvFileInv ==
  ASSUME Inv, CopyNvFile
  PROVE  Inv'
<1>1. Files'
  <2>1. /\ received' = received /\ mine' = mine /\ app' = app /\ nvImage' = nvImage
        /\ pc = "copyNv" /\ nv' = nvImage.nv
    BY DEF CopyNvFile, Running, GoOnWith, flash
  <2>. QED
    BY <2>1 DEF Inv, Files, Whole, Sane, IsFile, PhaseFacts
<1>2. Handler'
  BY DEF Inv, Handler, CopyNvFile, Running
<1>3. Orders'
  BY DEF Inv, Orders, CopyNvFile, Running
<1>4. PhaseFacts'
  BY DEF PhaseFacts, CopyNvFile, GoOnWith
<1>. QED
  BY <1>1, <1>2, <1>3, <1>4 DEF Inv

LEMMA CopyNvRestInv ==
  ASSUME Inv, CopyNvRest
  PROVE  Inv'
<1>1. Files'
  BY DEF Inv, Files, Whole, Handler, CopyNvRest, Running, GoOnWith
<1>2. Handler'
  BY DEF Inv, Handler, CopyNvRest, Running
<1>3. Orders'
  BY DEF Inv, Orders, CopyNvRest, Running
<1>4. PhaseFacts'
  BY DEF PhaseFacts, CopyNvRest, GoOnWith
<1>. QED
  BY <1>1, <1>2, <1>3, <1>4 DEF Inv

LEMMA CopyNvDoneInv ==
  ASSUME Inv, CopyNvDone
  PROVE  Inv'
<1>1. Files'
  BY BlankFacts DEF Inv, Files, Sane, IsFile, Whole, CopyNvDone, GoOnWith, SetDfwToIdle,
     IdleWithoutReport, flash
<1>2. Handler'
  BY DEF Inv, Handler, CopyNvDone, Running
<1>3. Orders'
  BY DEF Inv, Orders, CopyNvDone, Running
<1>4. PhaseFacts'
  BY DEF PhaseFacts, CopyNvDone, GoOnWith, SetDfwToIdle, IdleWithoutReport
<1>. QED
  BY <1>1, <1>2, <1>3, <1>4 DEF Inv

\* Restarts: what the file says is all that is left.
LEMMA ResetInv ==
  ASSUME Inv, Reset
  PROVE  Inv'
<1>1. Files'
  BY DEF Inv, Files, Whole, PhaseFacts, Handler, Reset, LoseRam, flash
<1>2. Handler'
  BY DEF Handler, Reset, LoseRam, NoHandler
<1>3. Orders'
  BY EmptyFacts DEF Orders, Reset, LoseRam
<1>4. PhaseFacts'
  BY DEF PhaseFacts, Reset, LoseRam
<1>. QED
  BY <1>1, <1>2, <1>3, <1>4 DEF Inv

\* Power is not lost between the erase of a patch and the file.
LEMMA PowerLossInv ==
  ASSUME Inv, PowerLoss, "erase" \notin CrashPhases
  PROVE  Inv'
<1>1. Files'
  BY BlankFacts DEF Inv, Files, Whole, Handler, PowerLoss, Phase, LoseRam, flash
<1>2. Handler'
  BY DEF Handler, PowerLoss, LoseRam, NoHandler
<1>3. Orders'
  BY EmptyFacts DEF Orders, PowerLoss, LoseRam
<1>4. PhaseFacts'
  BY DEF PhaseFacts, PowerLoss, LoseRam
<1>. QED
  BY <1>1, <1>2, <1>3, <1>4 DEF Inv

\* A patch beyond its image is whole, so brick() is not reached from here.
LEMMA ResumesWhole ==
  ASSUME Inv, DfwaInit
  PROVE  pc' # "brick"
<1>1. app.op # "initSave"
  BY DEF DfwaInit, Inv, Handler
<1>2. nv.state \notin Open => received = Packets /\ ~ nv.error
  BY <1>1 DEF Inv, Files, Sane, Whole, Open
<1>. QED
  BY <1>2 DEF DfwaInit

LEMMA DfwaInitInv ==
  ASSUME Inv, DfwaInit
  PROVE  Inv'
<1>1. Files'
  BY DEF Inv, Files, Sane, IsFile, Whole, DfwaInit, flash
<1>2. Handler'
  BY DEF Inv, Handler, DfwaInit
<1>3. Orders'
  BY DEF Inv, Orders, DfwaInit
<1>4. PhaseFacts'
  <2>1. pc = "init" /\ mine = Blank /\ mine' = mine
    BY DEF DfwaInit, Inv, PhaseFacts
  <2>2. pc' = "start" \/ pc' = "brick" \/ (pc' = "patch" /\ nv' = nv /\ nv.state \notin Open)
    BY DEF DfwaInit
  <2>. QED
    BY <2>1, <2>2 DEF PhaseFacts
<1>. QED
  BY <1>1, <1>2, <1>3, <1>4 DEF Inv

\* Steps that touch neither files nor commands.
LEMMA ElsewhereInv ==
  ASSUME Inv, BootAfterGasp \/ Boot \/ BootCopied \/ BootFailed \/ AppReady \/ Tick
  PROVE  Inv'
<1>1. /\ UNCHANGED <<nv, received, nvImage, mine, queue, app>>
      /\ pc' = pc \/ (pc \in {"off", "gasp", "copy"} /\ pc' \in {"off", "copy", "init"})
  BY DEF BootAfterGasp, Boot, BootCopied, BootFailed, AppReady, Tick, flash, ram
<1>2. Files'
  BY <1>1 DEF Inv, Files, Whole
<1>3. Handler' /\ Orders' /\ PhaseFacts'
  BY <1>1 DEF Inv, Handler, Orders, PhaseFacts
<1>. QED
  BY <1>2, <1>3 DEF Inv

\* An alarm rings.
LEMMA RingInv ==
  ASSUME Inv, NEW id \in Alarms, Ring(id)
  PROVE  Inv'
<1>1. Files'
  BY DEF Inv, Files, Whole, Ring, flash
<1>2. Handler'
  <2>1. /\ queue' = Append(queue, [cmd |-> "TIME", arg |-> id])
        /\ app' = app /\ nv' = nv /\ pc' = pc
    BY DEF Ring, Post
  <2>2. queue \in Seq(Command) /\ id \in Int /\ "TIME" \in Cmds /\ "TIME" # "PREPATCH"
    BY DEF Inv, Orders, Cmds, Alarms
  <2>. HIDE DEF Cmds
  <2>3. Without("PREPATCH", queue) => Without("PREPATCH", queue')
    BY <2>1, <2>2, QueueFacts
  <2>. QED
    BY <2>1, <2>3 DEF Inv, Handler
<1>3. Orders'
  BY QueueFacts DEF Inv, Orders, Cmds, Ring, Post, Alarms
<1>4. PhaseFacts'
  BY DEF Inv, PhaseFacts, Ring
<1>. QED
  BY <1>1, <1>2, <1>3, <1>4 DEF Inv

-----------------------------------------------------------------------------
\* The system starts without a download.
LEMMA InitInv ==
  ASSUME Overlap = {}, Init
  PROVE  Inv
BY BlankFacts, EmptyFacts
DEF Init, Inv, Files, Sane, IsFile, Whole, Handler, NoHandler, Orders, PhaseFacts, Open

\* Every step keeps the invariant.
LEMMA NextInv ==
  ASSUME "erase" \notin CrashPhases, Inv, [Next]_vars
  PROVE  Inv'
<1>1. CASE UNCHANGED vars
  BY <1>1 DEF vars, flash, world, ram, history, Inv, Files, Sane, IsFile, Whole, Handler,
     Orders, PhaseFacts
<1>2. CASE Handlers
  BY <1>2, HandleInv, DownloadInitInv, DownloadInitSaveInv, DownloadPacketInv,
     DownloadCancelInv,
     DownloadVerifyInv, DownloadApplyInv
  DEF Handlers
<1>3. CASE Commands
  BY <1>3, AlarmMessageInv, PrepatchInv, FullApplyInv, CancelInv,
     CancelApplyInv DEF Commands
<1>4. CASE DoPatch
  BY <1>4, ValidateInv, DecryptInv, BuildInv, NeverInvalid, WaitForSysIdleInv, OrderSwapInv,
     OrderSwapSaveInv, AfterSwapInv, ClearOrderInv, ExecNvCommandsInv, CopyNvImageInv,
     CopyNvFileInv, CopyNvRestInv, CopyNvDoneInv
  DEF DoPatch
<1>5. CASE Restart
  BY <1>5, ResetInv, ElsewhereInv, DfwaInitInv,
     ConfirmInv, StartInv
  DEF Restart
<1>6. CASE Outside
  BY <1>6, PowerLossInv, ElsewhereInv, RingInv DEF Outside
<1>. QED
  BY <1>1, <1>2, <1>3, <1>4, <1>5, <1>6, SaveInv DEF Next

-----------------------------------------------------------------------------
\* A file that says all packets are here is true, whatever is interrupted by a
\* message or by a power failure, unless power fails between the erase of a
\* patch and the file that says so, where the two tasks do not meet in the file.
THEOREM CompleteAlwaysWhole ==
  ASSUME Overlap = {}, "erase" \notin CrashPhases
  PROVE  Spec => []CompleteIsWhole
<1>1. Init => Inv
  BY InitInv
<1>2. Inv /\ [Next]_vars => Inv'
  BY NextInv
<1>3. Inv => CompleteIsWhole
  BY DEF Inv, Files, Whole, CompleteIsWhole
<1>. QED
  BY <1>1, <1>2, <1>3, PTL DEF Spec

-----------------------------------------------------------------------------
(* A download that was answered RCE_INITIALIZED stays the one in the file   *)
(* until it is cancelled, expires or is applied, unless a task overwrites    *)
(* what the other has written: however the two tasks meet in the file and    *)
(* wherever power or buffers fail.                                           *)

\* File v is that of the download that was accepted, if it stands.
Held(v) == accepted # None => v.stream = accepted /\ v.status # "NOT_INITIALIZED"

\* The data have the form the steps rely on.
Formed ==
  /\ IsFile(nv) /\ IsFile(mine) /\ IsFile(nvImage.nv) /\ queue \in Seq(Command)
  /\ app = [op |-> app.op, vars |-> app.vars, stream |-> app.stream]

\* The file in the NV image, while it may be copied back, is of the same download.
Imaged == nv.state = "COPY_NV_IMAGE_TO_NV" =>
            Held(nvImage.nv) /\ nvImage.nv.stream = nv.stream

\* What a handler has read is the file, or it is known to be stale; and no CANCEL
\* waits behind the back of a handler that could accept a download.
Reading ==
  app.op # "none" =>
    /\ app.vars.stream = nv.stream
    /\ "app" \notin stale => app.vars = nv
    /\ app.op = "initSave" => app.vars.state \in Open
    /\ "app" \notin stale /\ app.vars.state \in Open /\ pc \notin {"confirm", "reset"} =>
         Without("CANCEL", queue)
    /\ pc \notin {"off", "gasp", "copy", "init"}

\* A CANCEL that waits is for a download that does not stand any more, or the
\* report of a restart is about to overwrite the one that does.
Cancelled ==
  \/ pc = "reset" \/ accepted = None \/ Without("CANCEL", queue)
  \/ pc = "confirm" /\ "dfw" \in stale

\* What the DFW task will write back is of the download in the file, or it is
\* known to be stale.
Copied ==
  pc \in InUse /\ "dfw" \notin stale =>
    /\ mine.stream = nv.stream /\ Held(mine)
    /\ pc \in {"confirm", "decrypt", "build", "waitIdle", "swapSave"} /\
         mine.status = "NOT_INITIALIZED" => nv.status = "NOT_INITIALIZED"
    /\ pc = "confirm" => nv.confirm # "NONE"

\* The states of the file and of the copy in the phases of the DFW task.
Phased ==
  /\ pc \in {"start", "pend"} => nv.state # "COPY_NV_IMAGE_TO_NV"
  /\ pc \in {"confirm", "save"} => mine.state # "COPY_NV_IMAGE_TO_NV"
  /\ pc \in {"patch", "decrypt", "build", "waitIdle", "swapSave"} => nv.state \notin Open
  /\ pc \in {"saveRun", "decrypt", "build", "waitIdle", "swapSave"} =>
       mine.state \in {"EXEC_PGM_COMMANDS", "DO_FLASH_SWAP"}
  /\ pc = "clear" => mine.state = nv.state /\ nv.state \in {"IDLE", "EXEC_NV_COMMANDS"}
  /\ pc = "copyNv" => nv.state = "COPY_NV_IMAGE_TO_NV"

Stays == Formed /\ Held(nv) /\ Imaged /\ Reading /\ Cancelled /\ Copied /\ Phased

-----------------------------------------------------------------------------
\* What Track says of a step after which nothing is overwritten.
LEMMA StaleFacts ==
  ASSUME NEW task \in {"app", "dfw"}, Track(task), ~ overwritten'
  PROVE  /\ ~ overwritten /\ (nv' # nv => task \notin stale)
         /\ task = "app" /\ app.op = "initSave" => "app" \notin stale
         /\ task = "dfw" /\ pc = "confirm" /\ pc' = "pend" => "dfw" \notin stale
         /\ app'.op # "none" =>
              ("app" \in stale' <=> "app" \in stale \/ (task = "dfw" /\ nv' # nv))
         /\ pc' \in InUse =>
              ("dfw" \in stale' <=> "dfw" \in stale \/ (task = "app" /\ nv' # nv))
<1>1. /\ ~ overwritten /\ (nv' # nv => task \notin stale)
      /\ task = "app" /\ app.op = "initSave" => "app" \notin stale
      /\ task = "dfw" /\ pc = "confirm" /\ pc' = "pend" => "dfw" \notin stale
  BY DEF Track
<1>2. stale' = {t \in stale \union (IF nv' # nv THEN {"app", "dfw"} \ {task} ELSE {}) :
                  IF t = "dfw" THEN pc' \in InUse ELSE app'.op # "none"}
  BY DEF Track, Holds
<1>3. app'.op # "none" =>
        ("app" \in stale' <=> "app" \in stale \/ (task = "dfw" /\ nv' # nv))
  BY <1>2
<1>4. pc' \in InUse =>
        ("dfw" \in stale' <=> "dfw" \in stale \/ (task = "app" /\ nv' # nv))
  BY <1>2
<1>. QED
  BY <1>1, <1>3, <1>4

\* A handler begins.
LEMMA HandleStays ==
  ASSUME Stays, NEW op, Handle(op), op \in {"init", "packet", "cancel", "verify", "apply"}
  PROVE  Stays'
<1>1. /\ UNCHANGED <<nv, mine, nvImage, queue, pc, accepted, stale>>
      /\ app' = [op |-> op, vars |-> nv, stream |-> None]
  BY DEF Handle, flash, history, races
<1>2. Formed' /\ Held(nv)' /\ Imaged' /\ Cancelled' /\ Copied' /\ Phased'
  BY <1>1 DEF Stays, Formed, Held, Imaged, Cancelled, Copied, Phased
<1>3. Reading'
  <2>1. pc \notin {"off", "gasp", "copy", "init"}
    BY DEF Handle, Quiet
  <2>2. nv.state \in Open /\ pc \notin {"confirm", "reset"} => Without("CANCEL", queue)
    BY EmptyFacts DEF Handle, Quiet, Stays, Phased
  <2>. QED
    BY <1>1, <2>1, <2>2 DEF Reading
<1>. QED
  BY <1>2, <1>3 DEF Stays

\* A handler ends without a change, or changes the file it has read, which is open.
LEMMA HandledStays ==
  ASSUME Stays, ~ overwritten', NEW op, op \notin {"none", "initSave"}, Handling(op),
         app' = NoHandler, Track("app"), accepted' \in {accepted, None},
         queue' \in Seq(Command),
         accepted' # None /\ Without("CANCEL", queue) => Without("CANCEL", queue'),
         \/ nv' = nv
         \/ /\ nv' # nv /\ app.vars.state \in Open
            /\ app.vars = nv => /\ IsFile(nv') /\ nv'.stream = nv.stream
                                /\ nv'.state \in Open
                                /\ nv'.status # "NOT_INITIALIZED" \/ accepted' = None
  PROVE  Stays'
<1>. USE DEF Handling, flash, world, ram
<1>1. /\ ~ overwritten /\ (nv' # nv => "app" \notin stale)
      /\ pc \in InUse => ("dfw" \in stale' <=> "dfw" \in stale \/ nv' # nv)
  BY StaleFacts
<1>2. UNCHANGED <<mine, nvImage, pc>> /\ app.op = op /\ Quiet(pc)
  OBVIOUS
<1>3. CASE nv' = nv
  <2>1. Formed' /\ Held(nv)' /\ Imaged' /\ Reading'
    BY <1>2, <1>3 DEF Stays, Formed, Held, Imaged, Reading, NoHandler
  <2>2. Cancelled' /\ Copied' /\ Phased'
    BY <1>1, <1>2, <1>3 DEF Stays, Cancelled, Copied, Phased, Held, InUse
  <2>. QED
    BY <2>1, <2>2 DEF Stays
<1>4. CASE nv' # nv
  <2>1. /\ app.vars = nv /\ nv.state \in Open /\ IsFile(nv') /\ nv'.stream = nv.stream
        /\ nv'.state \in Open /\ (nv'.status # "NOT_INITIALIZED" \/ accepted' = None)
        /\ pc \in {"confirm", "pend", "reset"}
    BY <1>1, <1>2, <1>4 DEF Stays, Reading, Phased, Quiet
  <2>2. Formed' /\ Held(nv)' /\ Imaged' /\ Reading'
    BY <1>2, <2>1 DEF Stays, Formed, Held, Imaged, Reading, NoHandler, Open
  <2>3. Cancelled' /\ Copied' /\ Phased'
    BY <1>1, <1>2, <1>4, <2>1 DEF Stays, Cancelled, Copied, Phased, Held, InUse, Open
  <2>. QED
    BY <2>2, <2>3 DEF Stays
<1>. QED
  BY <1>3, <1>4

\* A post adds no CANCEL, unless it is one.
LEMMA PostedStays ==
  ASSUME queue \in Seq(Command), NEW c \in Cmds \ {"CANCEL"}, NEW n \in Int,
         queue' = queue \/ queue' = Append(queue, [cmd |-> c, arg |-> n])
  PROVE  queue' \in Seq(Command) /\ (Without("CANCEL", queue) => Without("CANCEL", queue'))
BY QueueFacts

\* The handlers of the head end's messages.
LEMMA DownloadInitStays ==
  ASSUME Stays, ~ overwritten', NEW s \in Streams, DownloadInit(s)
  PROVE  Stays'
<1>1. /\ Handling("init") /\ Track("app") /\ UNCHANGED <<nv, queue, accepted>>
  BY DEF DownloadInit, history
<1>2. CASE app' = NoHandler
  BY <1>1, <1>2, HandledStays DEF Stays, Formed
<1>3. CASE app' # NoHandler
  <2>1. /\ app.op = "init" /\ app' = [app EXCEPT !.op = "initSave", !.stream = s]
        /\ app.vars.state \in Open /\ UNCHANGED <<mine, nvImage, pc>>
    BY <1>3 DEF DownloadInit, Handling, MayReplace, flash
  <2>2. app' = [op |-> "initSave", vars |-> app.vars, stream |-> s]
    BY <2>1 DEF Stays, Formed
  <2>3. /\ "app" \in stale' <=> "app" \in stale
        /\ pc \in InUse => ("dfw" \in stale' <=> "dfw" \in stale)
    BY <1>1, <2>1, <2>2, StaleFacts
  <2>4. Formed' /\ Held(nv)' /\ Imaged' /\ Reading'
    BY <1>1, <2>1, <2>2, <2>3 DEF Stays, Formed, Held, Imaged, Reading
  <2>5. Cancelled' /\ Copied' /\ Phased'
    BY <1>1, <2>1, <2>3 DEF Stays, Cancelled, Copied, Phased, Held, InUse
  <2>. QED
    BY <2>4, <2>5 DEF Stays
<1>. QED
  BY <1>2, <1>3

\* The new download is accepted on a file that is not stale.
LEMMA DownloadInitSaveStays ==
  ASSUME Stays, ~ overwritten', DownloadInitSave
  PROVE  Stays'
<1>1. /\ app.op = "initSave" /\ Quiet(pc) /\ UNCHANGED <<mine, nvImage, pc>>
      /\ app' = NoHandler /\ accepted' = app.stream
      /\ queue' = queue \/ queue' = Append(queue, [cmd |-> "CANCEL_APPLY", arg |-> 0])
  BY DEF DownloadInitSave, Handling, flash, Post, Short
<1>2. /\ "app" \notin stale
      /\ pc \in InUse => ("dfw" \in stale' <=> "dfw" \in stale \/ nv' # nv)
  BY <1>1, StaleFacts DEF DownloadInitSave
<1>3. /\ app.vars = nv /\ nv.state \in Open /\ pc \in {"confirm", "pend", "reset"}
      /\ pc = "pend" => Without("CANCEL", queue)
  BY <1>1, <1>2 DEF Stays, Reading, Phased, Quiet
<1>4. \E d : nv' = [status |-> "INCOMPLETE", state |-> "IDLE", mode |-> nv.mode, confirm |-> "NONE",
                    schedule |-> 0, stream |-> app.stream, decrypt |-> d, error |-> FALSE]
  BY <1>3 DEF DownloadInitSave, Stays, Formed, IsFile
<1>5. /\ IsFile(nv') /\ nv'.stream = app.stream /\ nv'.status = "INCOMPLETE"
      /\ nv'.state = "IDLE" /\ nv'.confirm = "NONE"
  BY <1>4 DEF IsFile
<1>6. queue' \in Seq(Command) /\ (Without("CANCEL", queue) => Without("CANCEL", queue'))
  <2>1. queue \in Seq(Command) /\ "CANCEL_APPLY" \in Cmds \ {"CANCEL"} /\ 0 \in Int
    BY DEF Stays, Formed, Cmds
  <2>. QED
    BY <1>1, <2>1, PostedStays
<1>7. Formed' /\ Held(nv)' /\ Imaged' /\ Reading'
  BY <1>1, <1>5, <1>6 DEF Stays, Formed, Held, Imaged, Reading, NoHandler
<1>8. pc = "confirm" => "dfw" \in stale'
  BY <1>2, <1>5 DEF Stays, Copied, InUse
<1>9. Cancelled' /\ Copied' /\ Phased'
  BY <1>1, <1>3, <1>5, <1>6, <1>8 DEF Stays, Cancelled, Copied, Phased, InUse
<1>. QED
  BY <1>7, <1>9 DEF Stays

LEMMA DownloadPacketStays ==
  ASSUME Stays, ~ overwritten', NEW s \in Streams, NEW p \in Packets, NEW differs \in BOOLEAN,
         DownloadPacket(s, p, differs)
  PROVE  Stays'
<1>1. /\ Handling("packet") /\ app' = NoHandler /\ Track("app") /\ accepted' \in {accepted, None}
      /\ queue' = queue \/ queue' = Append(queue, [cmd |-> "PREPATCH", arg |-> 0])
  BY DEF DownloadPacket, Post, Short, Forget, history
<1>2. queue' \in Seq(Command) /\ (Without("CANCEL", queue) => Without("CANCEL", queue'))
  <2>1. queue \in Seq(Command) /\ "PREPATCH" \in Cmds \ {"CANCEL"} /\ 0 \in Int
    BY DEF Stays, Formed, Cmds
  <2>. QED
    BY <1>1, <2>1, PostedStays
<1>3. ASSUME nv' # nv
      PROVE  /\ app.vars.state \in Open
             /\ app.vars = nv => /\ IsFile(nv') /\ nv'.stream = nv.stream /\ nv'.state \in Open
                                 /\ nv'.status # "NOT_INITIALIZED" \/ accepted' = None
  <2>1. /\ app.vars.state = "IDLE"
        /\ \/ /\ nv' = [app.vars EXCEPT !.status = "NOT_INITIALIZED", !.error = TRUE]
              /\ accepted' = None
           \/ nv' = [app.vars EXCEPT !.status = "INCOMPLETE"]
    BY <1>3 DEF DownloadPacket, Incomplete, Forget
  <2>2. ASSUME app.vars = nv
        PROVE  /\ IsFile(nv') /\ nv'.stream = nv.stream /\ nv'.state = nv.state
               /\ nv'.status # "NOT_INITIALIZED" \/ accepted' = None
    BY <2>1, <2>2 DEF Stays, Formed, IsFile
  <2>. QED
    BY <2>1, <2>2 DEF Open
<1>. QED
  BY <1>1, <1>2, <1>3, HandledStays

LEMMA DownloadCancelStays ==
  ASSUME Stays, ~ overwritten', NEW s \in Streams, DownloadCancel(s)
  PROVE  Stays'
<1>1. Handling("cancel") /\ app' = NoHandler /\ Track("app") /\ nv' = nv
  BY DEF DownloadCancel
<1>2. \/ queue' = queue /\ accepted' = accepted
      \/ /\ queue' = Append(queue, [cmd |-> "CANCEL", arg |-> 0]) /\ app.vars.stream = s
         /\ accepted' = IF s = accepted THEN None ELSE accepted
  BY DEF DownloadCancel, Post, Short, IsStream
<1>3. queue' \in Seq(Command)
  <2>1. queue \in Seq(Command) /\ [cmd |-> "CANCEL", arg |-> 0] \in Command
    BY DEF Stays, Formed, Command, Cmds
  <2>. QED
    BY <1>2, <2>1
<1>4. accepted' \in {accepted, None} /\ (queue' = queue \/ accepted' = None)
  BY <1>1, <1>2 DEF Stays, Held, Reading, Handling
<1>. QED
  BY <1>1, <1>3, <1>4, HandledStays

LEMMA DownloadVerifyStays ==
  ASSUME Stays, ~ overwritten', DownloadVerify
  PROVE  Stays'
<1>1. /\ Handling("verify") /\ app' = NoHandler /\ Track("app") /\ queue' = queue
      /\ \/ nv' = nv /\ accepted' = accepted
         \/ app.vars.state \in Open /\ nv' = SetExpired(app.vars) /\ accepted' = None
  BY DEF DownloadVerify, Forget, history
<1>2. ASSUME app.vars = nv, nv' = SetExpired(app.vars)
      PROVE  IsFile(nv') /\ nv'.stream = nv.stream /\ nv'.state \in Open
  BY <1>2 DEF Stays, Formed, SetExpired, IsFile, Open
<1>3. queue \in Seq(Command)
  BY DEF Stays, Formed
<1>. QED
  BY <1>1, <1>2, <1>3, HandledStays

LEMMA DownloadApplyStays ==
  ASSUME Stays, ~ overwritten', NEW s \in Streams, NEW t \in Times, DownloadApply(s, t)
  PROVE  Stays'
<1>1. /\ Handling("apply") /\ app' = NoHandler /\ Track("app")
      /\ queue' = queue \/ queue' = Append(queue, [cmd |-> "FULL_APPLY", arg |-> t])
      /\ \/ nv' = nv /\ accepted' = accepted
         \/ app.vars.state \in Open /\ nv' = SetExpired(app.vars) /\ accepted' = None
  BY DEF DownloadApply, Apply, Applicable, Post, Short
<1>2. ASSUME app.vars = nv, nv' = SetExpired(app.vars)
      PROVE  IsFile(nv') /\ nv'.stream = nv.stream /\ nv'.state \in Open
  BY <1>2 DEF Stays, Formed, SetExpired, IsFile, Open
<1>3. queue' \in Seq(Command) /\ (Without("CANCEL", queue) => Without("CANCEL", queue'))
  <2>1. queue \in Seq(Command) /\ "FULL_APPLY" \in Cmds \ {"CANCEL"} /\ t \in Int
    BY DEF Stays, Formed, Cmds, Times
  <2>. QED
    BY <1>1, <2>1, PostedStays
<1>. QED
  BY <1>1, <1>2, <1>3, HandledStays

-----------------------------------------------------------------------------
\* A step of the DFW task that leaves the file with the same download.
LEMMA TaskStays ==
  ASSUME Stays, ~ overwritten', Track("dfw"), app' = app,
         IsFile(nv'), IsFile(mine'), IsFile(nvImage'.nv), queue' \in Seq(Command),
         Without("CANCEL", queue) => Without("CANCEL", queue'),
         nv'.stream = nv.stream, accepted' \in {accepted, None},
         Held(nv)', Imaged', Copied', Phased',
         pc \notin {"reset", "off", "gasp", "copy", "init"},
         pc' \notin {"off", "gasp", "copy", "init"},
         pc = "confirm" => nv' # nv /\ "dfw" \notin stale
  PROVE  Stays'
<1>1. app.op # "none" => ("app" \in stale' <=> "app" \in stale \/ nv' # nv)
  BY StaleFacts
<1>2. Formed'
  BY DEF Stays, Formed
<1>3. Reading'
  BY <1>1 DEF Stays, Reading
<1>4. Cancelled'
  BY DEF Stays, Cancelled
<1>. QED
  BY <1>2, <1>3, <1>4 DEF Stays

\* What the DFW task writes back is of the download in the file.
LEMMA WriteBack ==
  ASSUME Stays, ~ overwritten', Track("dfw"), pc \in InUse, accepted' \in {accepted, None},
         nv'.stream = mine.stream, nv'.state # "COPY_NV_IMAGE_TO_NV",
         \/ nv'.status # "NOT_INITIALIZED" \/ nv'.status = mine.status \/ accepted' = None
  PROVE  nv'.stream = nv.stream /\ Held(nv)' /\ Imaged'
<1>1. nv' # nv => "dfw" \notin stale
  BY StaleFacts
<1>. QED
  BY <1>1 DEF Stays, Held, Imaged, Copied

\* A copy that is stale stays so while it is in use.
LEMMA StillStale ==
  ASSUME Track("dfw"), ~ overwritten', pc' \in InUse, "dfw" \notin stale'
  PROVE  "dfw" \notin stale
BY StaleFacts

\* After a restart: the schedule may have expired.
LEMMA StartStays ==
  ASSUME Stays, ~ overwritten', NEW known \in BOOLEAN, Start(known)
  PROVE  Stays'
<1>. DEFINE again == nv.state = "EXEC_PGM_COMMANDS" /\ nv.decrypt \in {"READY", "DONE"}
            own == IF again /\ queue' # queue THEN [nv EXCEPT !.state = "IDLE"] ELSE nv
<1>1. /\ pc = "start" /\ Track("dfw") /\ UNCHANGED <<app, nvImage>>
      /\ IF nv.confirm # "NONE" THEN pc' = "confirm" /\ mine' = own
                                ELSE pc' = "pend" /\ mine' = Blank
      /\ \/ nv' = own /\ accepted' = accepted
         \/ nv' = SetExpired(nv) /\ own = nv /\ accepted' = None
      /\ \/ queue' = queue \/ queue' = Append(queue, [cmd |-> "PREPATCH", arg |-> 0])
         \/ queue' = Append(queue, [cmd |-> "FULL_APPLY", arg |-> nv.schedule])
  <2>1. /\ pc = "start" /\ Track("dfw") /\ UNCHANGED <<app, nvImage>>
        /\ IF nv.confirm # "NONE" THEN pc' = "confirm" /\ mine' = own
                                  ELSE pc' = "pend" /\ mine' = Blank
    BY DEF Start, flash
  <2>2. CASE again
    BY <2>1, <2>2 DEF Start, Post, Short, history
  <2>3. CASE ~ again
    BY <2>1, <2>3 DEF Start, Apply, Post, Short, history
  <2>. QED
    BY <2>1, <2>2, <2>3
<1>2. /\ IsFile(own) /\ own.stream = nv.stream /\ own.status = nv.status
      /\ own.state \in {nv.state, "IDLE"} /\ own.confirm = nv.confirm
  BY DEF Stays, Formed, IsFile
<1>. HIDE DEF own
<1>3. /\ IsFile(nv') /\ nv'.stream = nv.stream /\ nv'.state \in {nv.state, "IDLE"}
      /\ nv'.confirm = nv.confirm
      /\ nv'.status = nv.status \/ (nv'.status = "NOT_INITIALIZED" /\ accepted' = None)
  <2>1. CASE nv' = own
    BY <1>2, <2>1
  <2>2. CASE nv' = SetExpired(nv) /\ accepted' = None
    BY <2>2 DEF Stays, Formed, SetExpired, IsFile
  <2>. QED
    BY <1>1, <2>1, <2>2
<1>4. nv.state # "COPY_NV_IMAGE_TO_NV" /\ accepted' \in {accepted, None}
  BY <1>1 DEF Stays, Phased
<1>5. queue' \in Seq(Command) /\ (Without("CANCEL", queue) => Without("CANCEL", queue'))
  <2>1. /\ queue \in Seq(Command) /\ nv.schedule \in Int /\ 0 \in Int
        /\ "PREPATCH" \in Cmds \ {"CANCEL"} /\ "FULL_APPLY" \in Cmds \ {"CANCEL"}
    BY DEF Stays, Formed, IsFile, Cmds
  <2>. QED
    BY <1>1, <2>1, PostedStays
<1>6. Held(nv)' /\ Imaged'
  BY <1>3, <1>4 DEF Stays, Held, Imaged
<1>7. IsFile(mine')
  BY <1>1, <1>2, BlankFacts DEF Sane
<1>8. Copied' /\ Phased'
  BY <1>1, <1>2, <1>3, <1>4 DEF Stays, Held, Copied, Phased, InUse
<1>. QED
  BY <1>1, <1>3, <1>4, <1>5, <1>6, <1>7, <1>8, TaskStays DEF Stays, Formed

\* The report of a restart writes what was read at the start.
LEMMA ConfirmStays ==
  ASSUME Stays, ~ overwritten', Confirm
  PROVE  Stays'
<1>1. /\ pc = "confirm" /\ pc' = "pend" /\ mine' = Blank /\ Track("dfw")
      /\ nv' = [mine EXCEPT !.confirm = "NONE"] /\ UNCHANGED <<nvImage, queue, app, accepted>>
  BY DEF Confirm, flash, history
<1>2. "dfw" \notin stale /\ pc \in InUse
  BY <1>1, StaleFacts DEF InUse
<1>3. /\ IsFile(nv') /\ nv'.stream = mine.stream /\ nv'.status = mine.status
      /\ nv'.state = mine.state /\ nv'.confirm = "NONE"
  BY <1>1 DEF Stays, Formed, IsFile
<1>4. nv' # nv /\ mine.state # "COPY_NV_IMAGE_TO_NV"
  BY <1>1, <1>2, <1>3 DEF Stays, Copied, Phased
<1>5. nv'.stream = nv.stream /\ Held(nv)' /\ Imaged'
  BY <1>1, <1>2, <1>3, <1>4, WriteBack
<1>6. Copied' /\ Phased' /\ IsFile(mine')
  BY <1>1, <1>3, <1>4, BlankFacts DEF Copied, Phased, InUse, Sane
<1>. QED
  BY <1>1, <1>2, <1>3, <1>4, <1>5, <1>6, TaskStays DEF Stays, Formed

\* A command is taken from the queue and changes a copy of the file.
LEMMA CommandStays ==
  ASSUME Stays, ~ overwritten', NEW c, Dequeue(c), Track("dfw"), accepted' = accepted,
         \/ Rejected
         \/ /\ pc' \in {"save", "saveRun"} /\ IsFile(mine') /\ mine'.stream = nv.stream
            /\ mine'.status # "NOT_INITIALIZED" \/ mine'.status = nv.status \/ accepted = None
            /\ mine'.state # "COPY_NV_IMAGE_TO_NV"
            /\ pc' = "saveRun" => mine'.state \in {"EXEC_PGM_COMMANDS", "DO_FLASH_SWAP"}
  PROVE  Stays'
<1>1. /\ pc = "pend" /\ UNCHANGED <<nv, nvImage, app>> /\ queue' \in Seq(Command)
      /\ Without("CANCEL", queue) => Without("CANCEL", queue')
      /\ nv.state # "COPY_NV_IMAGE_TO_NV"
  BY QueueFacts DEF Dequeue, flash, Stays, Formed, Phased
<1>2. CASE Rejected
  <2>1. pc' = "pend" /\ IsFile(mine')
    BY <1>2, BlankFacts DEF Rejected, GoOnWith, Sane
  <2>2. Held(nv)' /\ Imaged' /\ Copied' /\ Phased'
    BY <1>1, <2>1 DEF Stays, Held, Imaged, Copied, Phased, InUse
  <2>. QED
    BY <1>1, <2>1, <2>2, TaskStays DEF Stays, Formed
<1>3. CASE ~ Rejected
  <2>1. Held(nv)' /\ Imaged' /\ Copied' /\ Phased'
    BY <1>1, <1>3 DEF Stays, Held, Imaged, Copied, Phased, InUse
  <2>. QED
    BY <1>1, <1>3, <2>1, TaskStays DEF Stays, Formed
<1>. QED
  BY <1>2, <1>3

LEMMA CommandsStays ==
  ASSUME Stays, ~ overwritten', Commands
  PROVE  Stays'
<1>. DEFINE Saves(p) ==
       /\ pc' = p /\ IsFile(mine') /\ mine'.stream = nv.stream
       /\ mine'.status # "NOT_INITIALIZED" \/ mine'.status = nv.status \/ accepted = None
       /\ mine'.state # "COPY_NV_IMAGE_TO_NV"
       /\ p = "saveRun" => mine'.state \in {"EXEC_PGM_COMMANDS", "DO_FLASH_SWAP"}
<1>1. IsFile(nv) /\ (pc = "pend" => nv.state # "COPY_NV_IMAGE_TO_NV")
  BY DEF Stays, Formed, Phased
<1>2. CASE AlarmMessage
  <2>1. Dequeue("TIME") /\ Track("dfw") /\ accepted' = accepted
    BY <1>2 DEF AlarmMessage, history
  <2>2. Rejected \/ (pc' = "saveRun" /\ mine' = [nv EXCEPT !.state = "DO_FLASH_SWAP"])
    BY <1>2 DEF AlarmMessage, GoOnWith
  <2>3. Rejected \/ Saves("saveRun")
    BY <1>1, <2>2 DEF IsFile
  <2>. QED
    BY <2>1, <2>3, CommandStays
<1>3. CASE Prepatch
  <2>1. Dequeue("PREPATCH") /\ Track("dfw") /\ accepted' = accepted
    BY <1>3 DEF Prepatch, history
  <2>2. \/ Rejected
        \/ /\ pc' = "saveRun"
           /\ mine' = [nv EXCEPT !.status = "COMPLETE", !.state = "EXEC_PGM_COMMANDS",
                                 !.mode = "PREPATCH", !.error = FALSE]
    BY <1>3 DEF Prepatch, GoOnWith
  <2>3. Rejected \/ Saves("saveRun")
    BY <1>1, <2>2 DEF IsFile
  <2>. QED
    BY <2>1, <2>3, CommandStays
<1>4. CASE FullApply
  <2>. DEFINE t == Head(queue).arg  v == [nv EXCEPT !.schedule = t, !.mode = "FULL_APPLY"]
  <2>1. /\ Dequeue("FULL_APPLY") /\ Track("dfw") /\ accepted' = accepted
        /\ queue # <<>> /\ pc = "pend"
    BY <1>4 DEF FullApply, history, Dequeue
  <2>2. t \in Int
    BY <2>1, QueueFacts DEF Stays, Formed, Command
  <2>3. \/ Rejected
        \/ pc' = "save" /\ mine' = v
        \/ pc' = "saveRun" /\ \E x \in {"EXEC_PGM_COMMANDS", "DO_FLASH_SWAP"} :
                                mine' = [v EXCEPT !.state = x]
    BY <1>4 DEF FullApply, GoOnWith
  <2>. HIDE DEF t
  <2>4. Rejected \/ Saves("save") \/ Saves("saveRun")
    BY <1>1, <2>1, <2>2, <2>3 DEF IsFile
  <2>. QED
    BY <2>1, <2>4, CommandStays
<1>5. CASE Cancel
  <2>1. /\ Dequeue("CANCEL") /\ Track("dfw") /\ accepted' = accepted
        /\ queue # <<>> /\ Head(queue).cmd = "CANCEL" /\ pc = "pend"
    BY <1>5 DEF Cancel, Dequeue, history
  <2>2. accepted = None
    BY <2>1, QueueFacts DEF Stays, Formed, Cancelled
  <2>3. Rejected \/ (pc' = "save" /\ mine' = IdleWithoutReport(nv))
    BY <1>5 DEF Cancel, GoOnWith
  <2>4. Rejected \/ Saves("save")
    BY <1>1, <2>2, <2>3 DEF IsFile, IdleWithoutReport
  <2>. QED
    BY <2>1, <2>4, CommandStays
<1>6. CASE CancelApply
  <2>1. Dequeue("CANCEL_APPLY") /\ Track("dfw") /\ accepted' = accepted /\ Rejected
    BY <1>6 DEF CancelApply, history
  <2>. QED
    BY <2>1, CommandStays
<1>. QED
  BY <1>2, <1>3, <1>4, <1>5, <1>6 DEF Commands

LEMMA SaveStays ==
  ASSUME Stays, ~ overwritten', Save
  PROVE  Stays'
<1>1. /\ pc \in {"save", "saveRun"} /\ pc' = (IF pc = "save" THEN "pend" ELSE "patch")
      /\ nv' = mine /\ mine' = Blank /\ UNCHANGED <<nvImage, queue, app, accepted>>
      /\ Track("dfw")
  BY DEF Save, flash
<1>2. /\ pc = "save" => mine.state # "COPY_NV_IMAGE_TO_NV"
      /\ pc = "saveRun" => mine.state \in {"EXEC_PGM_COMMANDS", "DO_FLASH_SWAP"}
  BY DEF Stays, Phased
<1>3. nv'.stream = nv.stream /\ Held(nv)' /\ Imaged'
  BY <1>1, <1>2, WriteBack DEF InUse
<1>4. Copied' /\ Phased' /\ IsFile(mine')
  BY <1>1, <1>2, BlankFacts DEF Copied, Phased, InUse, Sane, Open
<1>. QED
  BY <1>1, <1>3, <1>4, TaskStays DEF Stays, Formed

-----------------------------------------------------------------------------
\* The end of doPatch: v is the file, or the copy the DFW task has of it.
LEMMA ReturnStays ==
  ASSUME Stays, ~ overwritten', NEW v, NEW failed \in BOOLEAN, Return(v, failed), IsFile(v),
         Track("dfw"), UNCHANGED <<queue, app, accepted>>, IsFile(nvImage'.nv),
         pc \in {"patch", "build", "clear"},
         \/ v.stream = nv.stream /\ v.status = nv.status
         \/ pc \in InUse /\ v.stream = mine.stream /\ v.status = mine.status
  PROVE  Stays'
<1>1. /\ IsFile(nv') /\ nv'.stream = v.stream /\ nv'.state \in {"IDLE", "WAIT_FOR_APPLY"}
      /\ nv'.status = v.status \/ nv'.status = "WITH_ERROR"
  BY DEF Return, IsFile
<1>2. mine' = Blank /\ pc' \in {"start", "pend"}
  BY DEF Return
<1>3. nv'.stream = nv.stream /\ Held(nv)' /\ Imaged'
  <2>1. CASE v.stream = nv.stream /\ v.status = nv.status
    BY <1>1, <2>1 DEF Stays, Held, Imaged
  <2>2. CASE pc \in InUse /\ v.stream = mine.stream /\ v.status = mine.status
    BY <1>1, <2>2, WriteBack
  <2>. QED
    BY <2>1, <2>2
<1>4. Copied' /\ Phased' /\ IsFile(mine')
  BY <1>1, <1>2, BlankFacts DEF Copied, Phased, InUse, Sane
<1>. QED
  BY <1>1, <1>2, <1>3, <1>4, TaskStays DEF Stays, Formed

\* A step of doPatch that reads the file, or goes on with its copy.
LEMMA PatchStays ==
  ASSUME Stays, ~ overwritten', Track("dfw"), UNCHANGED <<queue, app>>,
         IsFile(nv'), IsFile(mine'), IsFile(nvImage'.nv), accepted' \in {accepted, None},
         nv'.stream = nv.stream, Held(nv)', Imaged', Copied', Phased',
         pc \in {"patch", "decrypt", "build", "waitIdle", "swapSave", "clear", "copyNv",
                 "copyRest", "copied"},
         pc' \notin {"off", "gasp", "copy", "init"}
  PROVE  Stays'
BY TaskStays DEF Stays, Formed

LEMMA ValidateStays ==
  ASSUME Stays, ~ overwritten', Validate
  PROVE  Stays'
<1>. DEFINE v == IF stage = "ready" THEN Report(nv) ELSE nv
<1>1. /\ pc = "patch" /\ nv.state = "EXEC_PGM_COMMANDS" /\ Track("dfw") /\ IsFile(nv)
      /\ UNCHANGED <<nvImage, queue, app, accepted>> /\ IsFile(nvImage.nv)
  BY DEF Validate, Running, Stays, Formed, history
<1>2. CASE Return(v, TRUE)
  <2>1. IsFile(v) /\ v.stream = nv.stream /\ v.status = nv.status
    BY <1>1 DEF Report, IsFile
  <2>. HIDE DEF v
  <2>. QED
    BY <1>1, <1>2, <2>1, ReturnStays
<1>3. CASE ~ Return(v, TRUE)
  <2>1. /\ mine' = nv' /\ pc' \in {"decrypt", "build"}
        /\ nv' = nv \/ nv' = [nv EXCEPT !.decrypt = "DECRYPTING"]
    BY <1>3 DEF Validate, GoOnWith
  <2>2. /\ IsFile(nv') /\ nv'.stream = nv.stream /\ nv'.state = nv.state
        /\ nv'.status = nv.status
    BY <1>1, <2>1 DEF IsFile
  <2>3. Held(nv)' /\ Imaged' /\ Copied' /\ Phased'
    BY <1>1, <2>1, <2>2 DEF Stays, Held, Imaged, Copied, Phased, InUse, Open
  <2>. QED
    BY <1>1, <2>1, <2>2, <2>3, PatchStays
<1>. QED
  BY <1>2, <1>3

LEMMA DecryptStays ==
  ASSUME Stays, ~ overwritten', Decrypt
  PROVE  Stays'
<1>1. /\ pc = "decrypt" /\ pc' = "build" /\ Track("dfw") /\ IsFile(mine) /\ mine' = nv'
      /\ nv' = [mine EXCEPT !.decrypt = "DONE"]
      /\ UNCHANGED <<nvImage, queue, app, accepted>> /\ IsFile(nvImage.nv)
      /\ mine.state \in {"EXEC_PGM_COMMANDS", "DO_FLASH_SWAP"}
  BY DEF Decrypt, Running, GoOnWith, Stays, Formed, Phased, history
<1>2. /\ IsFile(nv') /\ nv'.stream = mine.stream /\ nv'.state = mine.state
      /\ nv'.status = mine.status
  BY <1>1 DEF IsFile
<1>3. nv'.stream = nv.stream /\ Held(nv)' /\ Imaged'
  BY <1>1, <1>2, WriteBack DEF InUse
<1>4. Copied' /\ Phased'
  BY <1>1, <1>2, <1>3 DEF Copied, Phased, Held, InUse, Open
<1>. QED
  BY <1>1, <1>2, <1>3, <1>4, PatchStays

LEMMA BuildStays ==
  ASSUME Stays, ~ overwritten', Build
  PROVE  Stays'
<1>. DEFINE r == Report(mine)  w == [r EXCEPT !.state = "WAIT_FOR_APPLY"]
<1>1. /\ pc = "build" /\ pc \in InUse /\ Track("dfw") /\ IsFile(mine)
      /\ UNCHANGED <<nvImage, queue, app, accepted>> /\ IsFile(nvImage.nv)
  BY DEF Build, Running, Stays, Formed, InUse, history
<1>2. IsFile(r) /\ r.stream = mine.stream /\ r.status = mine.status
  BY <1>1 DEF Report, IsFile
<1>. HIDE DEF r
<1>3. CASE Return(w, FALSE)
  <2>1. IsFile(w) /\ w.stream = mine.stream /\ w.status = mine.status
    BY <1>2 DEF IsFile
  <2>. HIDE DEF w
  <2>. QED
    BY <1>1, <1>3, <2>1, ReturnStays
<1>4. CASE Return(r, TRUE)
  BY <1>1, <1>2, <1>4, ReturnStays
<1>5. CASE nv' = [mine EXCEPT !.state = "DO_FLASH_SWAP"] /\ pc' = "patch" /\ mine' = Blank
  <2>1. /\ IsFile(nv') /\ nv'.stream = mine.stream /\ nv'.state = "DO_FLASH_SWAP"
        /\ nv'.status = mine.status
    BY <1>1, <1>5 DEF IsFile
  <2>2. nv'.stream = nv.stream /\ Held(nv)' /\ Imaged'
    BY <1>1, <2>1, WriteBack
  <2>3. Copied' /\ Phased' /\ IsFile(mine')
    BY <1>5, <2>1, BlankFacts DEF Copied, Phased, InUse, Open, Sane
  <2>. QED
    BY <1>1, <1>5, <2>1, <2>2, <2>3, PatchStays
<1>. QED
  BY <1>3, <1>4, <1>5 DEF Build, GoOnWith, r

\* The steps of the swap.
LEMMA SwapStays ==
  ASSUME Stays, ~ overwritten', WaitForSysIdle \/ OrderSwap \/ OrderSwapSave
  PROVE  Stays'
<1>1. IsFile(nv) /\ IsFile(mine) /\ IsFile(nvImage.nv)
  BY DEF Stays, Formed
<1>2. CASE WaitForSysIdle \/ OrderSwap
  <2>1. /\ UNCHANGED <<nv, nvImage, queue, app, accepted>> /\ Track("dfw")
        /\ \/ pc = "patch" /\ pc' = "waitIdle" /\ mine' = nv /\ nv.state = "DO_FLASH_SWAP"
           \/ pc = "waitIdle" /\ pc' = "swapSave" /\ mine' = mine
    BY <1>2 DEF WaitForSysIdle, OrderSwap, Running, GoOnWith, flash, history
  <2>2. "dfw" \notin stale' => "dfw" \notin stale
    BY <2>1, StillStale DEF InUse
  <2>3. Held(nv)' /\ Imaged' /\ Copied' /\ Phased'
    BY <2>1, <2>2 DEF Stays, Held, Imaged, Copied, Phased, InUse, Open
  <2>. QED
    BY <1>1, <2>1, <2>3, PatchStays
<1>3. CASE OrderSwapSave
  <2>1. /\ UNCHANGED <<nvImage, queue, app, accepted>> /\ Track("dfw")
        /\ pc = "swapSave" /\ pc' = "reset" /\ mine' = Blank
        /\ nv' = [mine EXCEPT !.state = "BL_SWAP"]
    BY <1>3 DEF OrderSwapSave, Running, GoOnWith, flash, history
  <2>2. /\ IsFile(nv') /\ nv'.stream = mine.stream /\ nv'.status = mine.status
        /\ nv'.state = "BL_SWAP"
    BY <1>1, <2>1 DEF IsFile
  <2>3. nv'.stream = nv.stream /\ Held(nv)' /\ Imaged'
    BY <2>1, <2>2, WriteBack DEF InUse
  <2>4. Copied' /\ Phased' /\ IsFile(mine')
    BY <2>1, BlankFacts DEF Copied, Phased, InUse, Sane
  <2>. QED
    BY <1>1, <2>1, <2>2, <2>3, <2>4, PatchStays
<1>. QED
  BY <1>2, <1>3

LEMMA AfterSwapStays ==
  ASSUME Stays, ~ overwritten', AfterSwap
  PROVE  Stays'
<1>1. /\ UNCHANGED <<nvImage, queue, app>> /\ Track("dfw") /\ pc = "patch" /\ pc' = "clear"
      /\ mine' = nv' /\ IsFile(nv) /\ IsFile(nvImage.nv)
      /\ \/ nv' = SetDfwToIdle(nv) /\ accepted' = None
         \/ nv' = [nv EXCEPT !.state = "EXEC_NV_COMMANDS"] /\ accepted' = accepted
  BY DEF AfterSwap, Running, GoOnWith, Forget, flash, history, Stays, Formed
<1>2. /\ IsFile(nv') /\ nv'.stream = nv.stream /\ nv'.state \in {"IDLE", "EXEC_NV_COMMANDS"}
      /\ nv'.status = nv.status \/ accepted' = None
  BY <1>1 DEF SetDfwToIdle, IdleWithoutReport, IsFile
<1>3. Held(nv)' /\ Imaged' /\ Copied' /\ Phased'
  BY <1>1, <1>2 DEF Stays, Held, Imaged, Copied, Phased, InUse
<1>. QED
  BY <1>1, <1>2, <1>3, PatchStays

LEMMA ClearOrderStays ==
  ASSUME Stays, ~ overwritten', ClearOrder
  PROVE  Stays'
<1>1. /\ UNCHANGED <<nvImage, queue, app, accepted>> /\ Track("dfw") /\ pc = "clear"
      /\ pc \in InUse /\ IsFile(nv) /\ IsFile(mine) /\ IsFile(nvImage.nv)
      /\ mine.state = nv.state /\ nv.state \in {"IDLE", "EXEC_NV_COMMANDS"}
  BY DEF ClearOrder, Running, history, Stays, Formed, Phased, InUse
<1>2. CASE Return(mine, FALSE)
  BY <1>1, <1>2, ReturnStays
<1>3. CASE ~ Return(mine, FALSE)
  <2>1. mine' = Blank /\ pc' = "patch" /\ nv' = nv /\ nv.state = "EXEC_NV_COMMANDS"
    BY <1>1, <1>3 DEF ClearOrder, GoOnWith
  <2>2. Held(nv)' /\ Imaged' /\ Copied' /\ Phased' /\ IsFile(mine')
    BY <1>1, <2>1, BlankFacts DEF Stays, Held, Imaged, Copied, Phased, InUse, Open, Sane
  <2>. QED
    BY <1>1, <2>1, <2>2, PatchStays
<1>. QED
  BY <1>2, <1>3

\* The conversion of the NV data.
LEMMA ConversionStays ==
  ASSUME Stays, ~ overwritten', ExecNvCommands \/ CopyNvImage \/ CopyNvRest
  PROVE  Stays'
<1>1. /\ IsFile(nv) /\ IsFile(mine) /\ IsFile(nvImage.nv) /\ Track("dfw")
      /\ UNCHANGED <<queue, app>>
  BY DEF Stays, Formed, ExecNvCommands, CopyNvImage, CopyNvRest, Running
<1>2. CASE ExecNvCommands
  <2>1. /\ pc = "patch" /\ mine' = mine
        /\ \/ /\ nvImage'.nv = nv /\ nv' = [nv EXCEPT !.state = "COPY_NV_IMAGE_TO_NV"]
              /\ pc' = "patch" /\ accepted' = accepted
           \/ nv' = SetDfwToIdle(nv) /\ pc' = "reset" /\ accepted' = None /\ nvImage' = nvImage
           \/ nv' = nv /\ pc' = "brick" /\ accepted' = accepted /\ nvImage' = nvImage
    BY <1>2 DEF ExecNvCommands, Running, Forget, history
  <2>2. /\ IsFile(nv') /\ nv'.stream = nv.stream
        /\ nv'.status = nv.status \/ accepted' = None
        /\ pc' = "patch" => nv'.state = "COPY_NV_IMAGE_TO_NV"
        /\ pc' = "reset" => nv'.state = "IDLE"
    BY <1>1, <2>1 DEF SetDfwToIdle, IdleWithoutReport, IsFile
  <2>3. Held(nv)' /\ Imaged' /\ Copied' /\ Phased' /\ IsFile(nvImage'.nv)
    BY <1>1, <2>1, <2>2 DEF Stays, Held, Imaged, Copied, Phased, InUse, Open
  <2>. QED
    BY <1>1, <2>1, <2>2, <2>3, PatchStays
<1>3. CASE CopyNvImage
  <2>1. /\ pc = "patch" /\ pc' = "copyNv" /\ mine' = nv /\ nv.state = "COPY_NV_IMAGE_TO_NV"
        /\ UNCHANGED <<nv, nvImage, accepted>>
    BY <1>3 DEF CopyNvImage, Running, GoOnWith, history
  <2>2. Held(nv)' /\ Imaged' /\ Copied' /\ Phased'
    BY <2>1 DEF Stays, Held, Imaged, Copied, Phased, InUse
  <2>. QED
    BY <1>1, <2>1, <2>2, PatchStays
<1>4. CASE CopyNvRest
  <2>1. /\ pc = "copyRest" /\ pc' = "copied" /\ mine' = mine
        /\ UNCHANGED <<nv, nvImage, accepted>>
    BY <1>4 DEF CopyNvRest, Running, GoOnWith, history
  <2>2. "dfw" \notin stale' => "dfw" \notin stale
    BY <1>1, <2>1, StillStale DEF InUse
  <2>3. Held(nv)' /\ Imaged' /\ Copied' /\ Phased'
    BY <2>1, <2>2 DEF Stays, Held, Imaged, Copied, Phased, InUse
  <2>. QED
    BY <1>1, <2>1, <2>3, PatchStays
<1>. QED
  BY <1>2, <1>3, <1>4

\* The file as it was when the image was made comes back.
LEMMA CopyNvFileStays ==
  ASSUME Stays, ~ overwritten', CopyNvFile
  PROVE  Stays'
<1>1. /\ UNCHANGED <<nvImage, queue, app, accepted>> /\ Track("dfw")
      /\ pc = "copyNv" /\ pc' = "copyRest" /\ mine' = mine /\ nv' = nvImage.nv
      /\ IsFile(mine) /\ IsFile(nvImage.nv) /\ nv.state = "COPY_NV_IMAGE_TO_NV"
  BY DEF CopyNvFile, Running, GoOnWith, flash, history, Stays, Formed, Phased
<1>2. Held(nvImage.nv) /\ nvImage.nv.stream = nv.stream
  BY <1>1 DEF Stays, Imaged
<1>3. "dfw" \notin stale' => "dfw" \notin stale
  BY <1>1, StillStale DEF InUse
<1>4. Held(nv)' /\ Imaged' /\ Copied' /\ Phased'
  BY <1>1, <1>2, <1>3 DEF Stays, Held, Imaged, Copied, Phased, InUse
<1>. QED
  BY <1>1, <1>2, <1>4, PatchStays

LEMMA CopyNvDoneStays ==
  ASSUME Stays, ~ overwritten', CopyNvDone
  PROVE  Stays'
<1>1. /\ UNCHANGED <<nvImage, queue, app>> /\ Track("dfw") /\ pc = "copied" /\ pc' = "reset"
      /\ mine' = Blank /\ nv' = SetDfwToIdle(mine) /\ accepted' = None
      /\ IsFile(mine) /\ IsFile(nvImage.nv)
  BY DEF CopyNvDone, Running, GoOnWith, Forget, flash, Stays, Formed
<1>2. IsFile(nv') /\ nv'.stream = mine.stream /\ nv'.state = "IDLE"
  BY <1>1 DEF SetDfwToIdle, IdleWithoutReport, IsFile
<1>3. nv'.stream = nv.stream /\ Held(nv)' /\ Imaged'
  BY <1>1, <1>2, WriteBack DEF InUse
<1>4. Copied' /\ Phased' /\ IsFile(mine')
  BY <1>1, BlankFacts DEF Copied, Phased, InUse, Sane
<1>. QED
  BY <1>1, <1>2, <1>3, <1>4, PatchStays

-----------------------------------------------------------------------------
\* Power is lost, or the unit resets: no task has a copy, and no command waits.
LEMMA LoseRamStays ==
  ASSUME Stays, LoseRam, pc' \in {"off", "gasp"}, UNCHANGED <<nv, nvImage, accepted>>
  PROVE  Stays'
<1>1. mine' = Blank /\ queue' = <<>> /\ app' = NoHandler
  BY DEF LoseRam
<1>2. Formed'
  BY <1>1, BlankFacts, EmptyFacts DEF Stays, Formed, NoHandler, Sane
<1>3. Held(nv)' /\ Imaged' /\ Reading' /\ Cancelled' /\ Copied' /\ Phased'
  BY <1>1, EmptyFacts DEF Stays, Held, Imaged, Reading, Cancelled, Copied, Phased, InUse,
     NoHandler
<1>. QED
  BY <1>2, <1>3 DEF Stays

LEMMA DfwaInitStays ==
  ASSUME Stays, DfwaInit
  PROVE  Stays'
<1>1. /\ UNCHANGED <<nvImage, mine, queue, app, accepted>> /\ pc = "init"
      /\ app.op = "none" /\ IsFile(nv)
      /\ \/ /\ pc' = "start"
            /\ nv' = [nv EXCEPT !.status = "WITH_ERROR", !.state = "IDLE",
                        !.mode = "DO_NOTHING", !.confirm = "DL_COMPLETE", !.error = TRUE]
         \/ pc' \in {"patch", "brick"} /\ nv' = nv /\ nv.state \notin Open
         \/ pc' = "start" /\ nv' = nv /\ nv.state \in Open \union {"EXEC_PGM_COMMANDS"}
  BY DEF DfwaInit, flash, ram, history, Stays, Formed, Reading
<1>2. /\ IsFile(nv') /\ nv'.stream = nv.stream
      /\ nv'.status = nv.status \/ nv'.status = "WITH_ERROR"
      /\ nv'.state = nv.state \/ nv'.state = "IDLE"
      /\ pc' = "start" => nv'.state # "COPY_NV_IMAGE_TO_NV"
  BY <1>1 DEF IsFile, Open
<1>3. Formed' /\ Held(nv)' /\ Imaged'
  BY <1>1, <1>2 DEF Stays, Formed, Held, Imaged
<1>4. Reading' /\ Cancelled' /\ Copied' /\ Phased'
  BY <1>1, <1>2 DEF Stays, Reading, Cancelled, Copied, Phased, InUse
<1>. QED
  BY <1>3, <1>4 DEF Stays

\* Steps that touch neither files nor commands.
LEMMA ElsewhereStays ==
  ASSUME Stays,
         \/ BootAfterGasp \/ Boot \/ BootCopied \/ BootFailed \/ AppReady \/ Tick
         \/ UNCHANGED vars
  PROVE  Stays'
<1>1. /\ UNCHANGED <<nv, nvImage, mine, queue, app, accepted, stale>>
      /\ pc' = pc \/ (pc \in {"off", "gasp", "copy"} /\ pc' \in {"off", "copy", "init"})
  BY DEF BootAfterGasp, Boot, BootCopied, BootFailed, AppReady, Tick, vars, flash, ram,
     history, races
<1>2. Formed' /\ Held(nv)' /\ Imaged'
  BY <1>1 DEF Stays, Formed, Held, Imaged
<1>3. Reading' /\ Cancelled' /\ Copied' /\ Phased'
  BY <1>1 DEF Stays, Reading, Cancelled, Copied, Phased, Held, InUse
<1>. QED
  BY <1>2, <1>3 DEF Stays

LEMMA RingStays ==
  ASSUME Stays, NEW id \in Alarms, Ring(id)
  PROVE  Stays'
<1>1. /\ UNCHANGED <<nv, nvImage, mine, pc, app, accepted, stale>>
      /\ queue' = Append(queue, [cmd |-> "TIME", arg |-> id])
  BY DEF Ring, Post, flash, history, races
<1>2. queue' \in Seq(Command) /\ (Without("CANCEL", queue) => Without("CANCEL", queue'))
  <2>1. queue \in Seq(Command) /\ "TIME" \in Cmds \ {"CANCEL"} /\ id \in Int
    BY DEF Stays, Formed, Cmds, Alarms
  <2>. QED
    BY <1>1, <2>1, PostedStays
<1>3. Formed' /\ Held(nv)' /\ Imaged'
  BY <1>1, <1>2 DEF Stays, Formed, Held, Imaged
<1>4. Reading' /\ Cancelled' /\ Copied' /\ Phased'
  BY <1>1, <1>2 DEF Stays, Reading, Cancelled, Copied, Phased, Held
<1>. QED
  BY <1>3, <1>4 DEF Stays

LEMMA StaysInit == Init => Stays
BY BlankFacts, EmptyFacts
DEF Init, Stays, Formed, Held, Imaged, Reading, Cancelled, Copied, Phased, InUse, NoHandler,
    Sane, Open

LEMMA InvalidStays ==
  ASSUME Stays, InvalidState
  PROVE  FALSE
BY DEF Stays, Phased, InvalidState, Running

\* Every step keeps the invariant, as long as nothing is overwritten.
LEMMA NextStays ==
  ASSUME Stays, [Next]_vars, ~ overwritten'
  PROVE  Stays'
<1>1. CASE Handlers
  BY <1>1, HandleStays, DownloadInitStays, DownloadInitSaveStays, DownloadPacketStays,
     DownloadCancelStays, DownloadVerifyStays, DownloadApplyStays
  DEF Handlers
<1>2. CASE DoPatch
  BY <1>2, ValidateStays, DecryptStays, BuildStays, InvalidStays, SwapStays, AfterSwapStays,
     ClearOrderStays, ConversionStays, CopyNvFileStays, CopyNvDoneStays
  DEF DoPatch
<1>3. CASE Restart
  <2>1. CASE Reset
    BY <2>1, LoseRamStays DEF Reset, flash, history
  <2>. QED
    BY <1>3, <2>1, ElsewhereStays, DfwaInitStays, ConfirmStays, StartStays DEF Restart
<1>4. CASE Outside
  <2>1. CASE PowerLoss
    BY <2>1, LoseRamStays DEF PowerLoss, flash, history
  <2>. QED
    BY <1>4, <2>1, ElsewhereStays, RingStays DEF Outside
<1>. QED
  BY <1>1, <1>2, <1>3, <1>4, CommandsStays, SaveStays, ElsewhereStays DEF Next

\* What has been overwritten stays overwritten.
LEMMA OnceOverwritten ==
  ASSUME [Next]_vars, overwritten
  PROVE  overwritten'
<1>1. \A task \in {"app", "dfw"} : Track(task) => overwritten'
  BY DEF Track
<1>2. UNCHANGED races => overwritten'
  BY DEF races
<1>3. LoseRam => overwritten'
  BY DEF LoseRam
<1>4. CASE Handlers
  BY <1>1, <1>2, <1>4 DEF Handlers, Handle, DownloadInit, DownloadInitSave, DownloadPacket,
     DownloadCancel, DownloadVerify, DownloadApply
<1>5. CASE Commands \/ Save
  BY <1>1, <1>5 DEF Commands, AlarmMessage, Prepatch, FullApply, Cancel, CancelApply, Save
<1>6. CASE DoPatch
  BY <1>1, <1>6 DEF DoPatch, Validate, Decrypt, Build, InvalidState, WaitForSysIdle, OrderSwap,
     OrderSwapSave, AfterSwap, ClearOrder, ExecNvCommands, CopyNvImage, CopyNvFile, CopyNvRest,
     CopyNvDone
<1>7. CASE Restart
  BY <1>1, <1>2, <1>3, <1>7 DEF Restart, Reset, BootAfterGasp, Boot, BootCopied, DfwaInit,
     AppReady, Confirm, Start
<1>8. CASE Outside
  BY <1>2, <1>3, <1>8 DEF Outside, PowerLoss, BootFailed, Tick, Ring
<1>9. CASE UNCHANGED vars
  BY <1>2, <1>9 DEF vars, races
<1>. QED
  BY <1>4, <1>5, <1>6, <1>7, <1>8, <1>9 DEF Next

-----------------------------------------------------------------------------
\* However the two tasks meet in the file, wherever power fails and whichever
\* post finds no buffer: a download that was answered RCE_INITIALIZED stays the
\* one in the file, unless a task has written a copy of it that was stale.
THEOREM LostByOverwritingOnly == Spec => []LostOnlyByOverwriting
<1>. DEFINE I == overwritten \/ Stays
<1>1. Init => I
  BY StaysInit
<1>2. I /\ [Next]_vars => I'
  BY NextStays, OnceOverwritten
<1>3. I => LostOnlyByOverwriting
  BY DEF Stays, Held, LostOnlyByOverwriting, InitSticks
<1>. QED
  BY <1>1, <1>2, <1>3, PTL DEF Spec

-----------------------------------------------------------------------------
\* Where no handler runs while a report waits, and no command is taken in the
\* midst of one, a handler that may write does so while the DFW task has no copy.
Apart ==
  /\ ~ overwritten /\ "dfw" \notin stale
  /\ "app" \in stale => app.op # "none" /\ app.vars.state \notin Open
  /\ app.op # "none" /\ app.vars.state \in Open => pc \in {"pend", "reset"}

\* A handler writes only a file it has found open.
LEMMA HandlerWrites ==
  ASSUME Stays, Handlers, ~ \E op : Handle(op)
  PROVE  /\ Track("app") /\ pc' = pc /\ app.op # "none"
         /\ nv' # nv \/ app.op = "initSave" => app.vars.state \in Open
         /\ app'.op = "none" \/ (app'.op # "none" /\ app'.vars = app.vars)
<1>. USE DEF Handling, NoHandler
<1>1. app.op = "initSave" => app.vars.state \in Open
  BY DEF Stays, Reading
<1>2. CASE \E s \in Streams : DownloadInit(s)
  <2>1. PICK s \in Streams : DownloadInit(s)
    BY <1>2
  <2>2. /\ Track("app") /\ pc' = pc /\ app.op = "init" /\ nv' = nv
        /\ app' = NoHandler \/ app' = [app EXCEPT !.op = "initSave", !.stream = s]
    BY <2>1 DEF DownloadInit
  <2>3. CASE app' = [app EXCEPT !.op = "initSave", !.stream = s]
    <3>1. app' = [op |-> "initSave", vars |-> app.vars, stream |-> s]
      BY <2>3 DEF Stays, Formed
    <3>. QED
      BY <2>2, <3>1
  <2>. QED
    BY <2>2, <2>3
<1>3. CASE DownloadInitSave
  BY <1>1, <1>3 DEF DownloadInitSave
<1>4. CASE \E s \in Streams, p \in Packets, differs \in BOOLEAN : DownloadPacket(s, p, differs)
  BY <1>4 DEF DownloadPacket, Open
<1>5. CASE \E s \in Streams : DownloadCancel(s)
  BY <1>5 DEF DownloadCancel
<1>6. CASE DownloadVerify
  BY <1>6 DEF DownloadVerify
<1>7. CASE \E s \in Streams, t \in Times : DownloadApply(s, t)
  BY <1>7 DEF DownloadApply, Apply, Applicable
<1>. QED
  BY <1>2, <1>3, <1>4, <1>5, <1>6, <1>7 DEF Handlers

LEMMA HandlersApart ==
  ASSUME Overlap = {}, Stays, Apart, Handlers
  PROVE  Apart'
<1>1. ASSUME NEW op, Handle(op)
      PROVE  Apart'
  <2>1. /\ UNCHANGED <<pc, overwritten, stale>> /\ app'.vars = nv /\ Quiet(pc)
        /\ app.op = "none"
    BY <1>1 DEF Handle, races
  <2>2. nv.state \in Open => pc \in {"pend", "reset"}
    BY <2>1 DEF Quiet, Stays, Phased
  <2>. QED
    BY <2>1, <2>2 DEF Apart
<1>2. CASE ~ \E op : Handle(op)
  <2>1. /\ Track("app") /\ pc' = pc /\ app.op # "none"
        /\ nv' # nv \/ app.op = "initSave" => app.vars.state \in Open
        /\ app'.op = "none" \/ (app'.op # "none" /\ app'.vars = app.vars)
    BY <1>2, HandlerWrites
  <2>2. /\ nv' # nv \/ app.op = "initSave" => pc \in {"pend", "reset"} /\ "app" \notin stale
        /\ ~ overwritten /\ "dfw" \notin stale
    BY <2>1 DEF Apart
  <2>3. ~ overwritten'
    BY <2>1, <2>2 DEF Track
  <2>4. "dfw" \notin stale'
    BY <2>1, <2>2 DEF Track, Holds, InUse
  <2>5. "app" \in stale' => "app" \in stale /\ app'.op # "none"
    BY <2>1 DEF Track, Holds
  <2>. QED
    BY <2>1, <2>3, <2>4, <2>5 DEF Apart
<1>. QED
  BY <1>1, <1>2

\* A step of the DFW task: no handler that may write is in progress.
LEMMA TaskApart ==
  ASSUME Apart, Track("dfw"), app' = app,
         pc \notin {"pend", "reset"} \/ app.op = "none"
  PROVE  Apart'
<1>1. ~ overwritten' /\ "dfw" \notin stale'
  BY DEF Apart, Track
<1>2. app.op = "none" \/ app.vars.state \notin Open
  BY DEF Apart
<1>3. "app" \in stale' => app'.op # "none"
  BY DEF Track, Holds
<1>. QED
  BY <1>1, <1>2, <1>3 DEF Apart

LEMMA NextApart ==
  ASSUME Overlap = {}, Stays, Apart, [Next]_vars
  PROVE  Apart'
<1>1. CASE Commands
  <2>1. Track("dfw") /\ \E c : Dequeue(c)
    BY <1>1 DEF Commands, AlarmMessage, Prepatch, FullApply, Cancel, CancelApply
  <2>. QED
    BY <2>1, TaskApart DEF Dequeue
<1>2. CASE Save
  BY <1>2, TaskApart DEF Save
<1>3. CASE DoPatch
  <2>1. Track("dfw") /\ app' = app /\ pc \notin {"pend", "reset"}
    BY <1>3 DEF DoPatch, Running, Validate, Decrypt, Build, InvalidState, WaitForSysIdle,
       OrderSwap, OrderSwapSave, AfterSwap, ClearOrder, ExecNvCommands, CopyNvImage,
       CopyNvFile, CopyNvRest, CopyNvDone
  <2>. QED
    BY <2>1, TaskApart
<1>4. CASE Confirm \/ \E known \in BOOLEAN : Start(known)
  BY <1>4, TaskApart DEF Confirm, Start
<1>5. CASE Reset \/ PowerLoss
  BY <1>5 DEF Reset, PowerLoss, LoseRam, NoHandler, Apart
<1>6. CASE \/ BootAfterGasp \/ Boot \/ BootCopied \/ BootFailed \/ DfwaInit \/ AppReady
           \/ Tick \/ (\E id \in Alarms : Ring(id)) \/ UNCHANGED vars
  <2>1. UNCHANGED <<app, races>> /\ (pc' = pc \/ pc \notin {"pend", "reset"})
    BY <1>6 DEF BootAfterGasp, Boot, BootCopied, BootFailed, DfwaInit, AppReady, Tick, Ring,
       vars
  <2>. QED
    BY <2>1 DEF Apart, races
<1>. QED
  BY <1>1, <1>2, <1>3, <1>4, <1>5, <1>6, HandlersApart DEF Next, Restart, Outside

\* Where the two tasks keep apart, no copy is ever written back late, ...
THEOREM NeverOverwritten ==
  ASSUME Overlap = {}
  PROVE  Spec => []NothingOverwritten
<1>. DEFINE I == Stays /\ Apart
<1>1. Init => I
  BY StaysInit DEF Init, Apart, NoHandler
<1>2. I /\ [Next]_vars => I'
  BY NextStays, NextApart DEF Apart
<1>3. I => NothingOverwritten
  BY DEF Apart, NothingOverwritten
<1>. QED
  BY <1>1, <1>2, <1>3, PTL DEF Spec

\* ... and so an accepted download always stays.
THEOREM AcceptedSticks ==
  ASSUME Overlap = {}
  PROVE  Spec => []InitSticks
<1>1. LostOnlyByOverwriting /\ NothingOverwritten => InitSticks
  BY DEF LostOnlyByOverwriting, NothingOverwritten
<1>. QED
  BY <1>1, LostByOverwritingOnly, NeverOverwritten, PTL

-----------------------------------------------------------------------------
(* The code and the layout of the NV data are exchanged both or not at all. *)
(* The update has six parts, told from each other by the boot loader's order, *)
(* the code, the layout and the state in the file.                           *)

\* A file that says the patch is complete names the download, and one whose
\* image was built has it.
Known(v) == v.status = "COMPLETE" => v.stream \in Streams
Built(v) == v.state \in {"WAIT_FOR_APPLY", "DO_FLASH_SWAP"} => image = "new"

\* No PREPATCH waits.
NoPrepatch == pc # "reset" => Without("PREPATCH", queue)

\* Power was lost once between the order to the boot loader and the file that
\* says so.
Lost == losses >= 1 /\ "swapSave" \in CrashPhases

\* The new code is there, or the boot loader is copying it, or will again.
Swapping == \/ firmware = "new" /\ (pc = "copy" => blInfo \in {"ready", "done"})
            \/ firmware = "torn" /\ pc \in {"off", "copy"} /\ blInfo \in {"ready", "done"}

\* The old firmware runs.
Before ==
  /\ firmware = "old" /\ config = "old" /\ blInfo = "none"
  /\ pc \notin {"clear", "swapSave", "copyNv", "copyRest", "copied", "copy"}
  /\ \A v \in {nv, mine} :
       /\ v.state \in {"IDLE", "WAIT_FOR_APPLY", "EXEC_PGM_COMMANDS", "DO_FLASH_SWAP"}
       /\ Known(v) /\ Built(v)
  /\ NoPrepatch \/ nv.stream \in Streams
  /\ pc \in {"save", "saveRun", "confirm", "decrypt", "build"} => mine.stream = nv.stream
  /\ pc \in {"decrypt", "build"} =>
       /\ nv.state = "EXEC_PGM_COMMANDS" /\ mine.state = "EXEC_PGM_COMMANDS"
       /\ Verdict[mine.stream] # "patch"
  /\ pc = "waitIdle" => nv.state = "DO_FLASH_SWAP" /\ mine.state = "DO_FLASH_SWAP"

\* The boot loader has its order, but need not have had it when it was run.
Ordered ==
  /\ config = "old" /\ blInfo = "ready" /\ image = "new"
  /\ nv.state \in {"DO_FLASH_SWAP", "BL_SWAP"}
  /\ \/ /\ pc \in {"waitIdle", "swapSave"}
        /\ nv.state = "DO_FLASH_SWAP" /\ mine.state = "DO_FLASH_SWAP"
     \/ pc \in {"reset", "off", "gasp", "copy", "init", "patch"} /\ NoPrepatch
  /\ \/ firmware = "old" /\ pc # "copy"
     \/ Swapping /\ pc \in {"swapSave", "reset", "off", "copy"} /\ stage = "starting"
  /\ firmware = "new" \/ (nv.state = "DO_FLASH_SWAP" /\ pc # "swapSave") => Lost

\* ... and what it did not do is given up.
GivenUp ==
  /\ firmware = "old" /\ config = "old" /\ blInfo = "ready"
  /\ pc = "clear" /\ NoPrepatch
  /\ \A v \in {nv, mine} : v.status = "NOT_INITIALIZED" /\ v.state = "IDLE"

\* The new code is there and the other NV data are old.
Swapped ==
  /\ config = "old" /\ blInfo = "done" /\ image = "new" /\ Swapping
  /\ stage = "starting" /\ pc \in {"off", "copy", "init", "patch", "waitIdle"} /\ NoPrepatch
  /\ nv.state \in {"DO_FLASH_SWAP", "BL_SWAP"}
  /\ pc = "waitIdle" => nv.state = "DO_FLASH_SWAP" /\ mine.state = "DO_FLASH_SWAP"
  /\ nv.state = "DO_FLASH_SWAP" => Lost

\* The other NV data are converted.
Converting ==
  /\ blInfo \in {"none", "done"} /\ (blInfo = "done" => image = "new") /\ Swapping
  /\ stage = "starting" /\ NoPrepatch
  /\ \/ nv.state = "EXEC_NV_COMMANDS" /\ config = "old"
        /\ pc \in {"clear", "off", "copy", "init", "patch"}
     \/ nv.state = "COPY_NV_IMAGE_TO_NV" /\ config \in {"old", "torn"}
        /\ nvImage.layout = "new" /\ nvImage.nv.state = "EXEC_NV_COMMANDS"
        /\ pc \in {"copyNv", "off", "copy", "init", "patch"}
     \/ nv.state = "EXEC_NV_COMMANDS" /\ nvImage.layout = "new" /\ pc = "copyRest"
     \/ nv.state = "EXEC_NV_COMMANDS" /\ config = "new" /\ pc = "copied"

\* The new firmware runs.
After ==
  /\ config = "new" /\ Swapping
  /\ blInfo \in {"none", "done"} /\ (blInfo = "done" => image = "new")
  /\ pc \notin {"clear", "waitIdle", "swapSave", "copyNv", "copyRest", "copied", "decrypt",
               "build", "patch", "saveRun"}
  /\ \A v \in {nv, mine} : v.status = "NOT_INITIALIZED" /\ v.state = "IDLE"
  /\ app.op # "initSave" /\ NoPrepatch

\* The unit runs, and until DFWA_init is done no task does.
Starting ==
  /\ pc # "brick"
  /\ pc \in {"off", "gasp", "copy", "init"} => stage = "starting"

\* A patch that is applied is not being decrypted any more, and none that is
\* still decrypted will be applied: its PREPATCH does not wait.
Plain(v) == v.status = "COMPLETE" /\ v.decrypt = "DECRYPTING" => v.state = "EXEC_PGM_COMMANDS"

Deciphered ==
  /\ Plain(nv) /\ Plain(mine) /\ Plain(nvImage.nv)
  /\ pc \in {"saveRun", "build"} => mine.decrypt # "DECRYPTING"
  /\ pc = "patch" => nv.decrypt # "DECRYPTING"
  /\ pc \in {"save", "saveRun", "confirm"} => mine.decrypt = nv.decrypt
  /\ NoPrepatch \/ nv.decrypt # "DECRYPTING" \/ pc = "decrypt"

Update == /\ losses \in Nat /\ Starting /\ Deciphered
          /\ Before \/ Ordered \/ GivenUp \/ Swapped \/ Converting \/ After

\* Where the DFW task can be in which part.
LEMMA Parts ==
  ASSUME Inv, Update
  PROVE  /\ pc \in {"pend", "start", "confirm", "save"} => Before \/ After
         /\ pc \in {"saveRun", "decrypt", "build"} => Before
         /\ pc = "waitIdle" => Before \/ Ordered \/ Swapped
         /\ pc = "swapSave" => Ordered
         /\ pc = "clear" => GivenUp \/ Converting
         /\ pc \in {"copyNv", "copyRest", "copied"} => Converting
         /\ pc = "patch" => Before \/ Ordered \/ Swapped \/ Converting
         /\ pc = "reset" => Before \/ Ordered \/ After
         /\ pc = "gasp" => Before \/ Ordered \/ After
BY DEF Inv, PhaseFacts, Update, Before, Ordered, GivenUp, Swapped, Converting, After, Open

\* Steps that leave the file and the flash as they are.
LEMMA UpdateKept ==
  ASSUME Inv, Update, UNCHANGED <<nv, flash, losses, pc, mine>>,
         stage' = stage \/ (stage = "tasks" /\ stage' = "ready"),
         \/ Without("PREPATCH", queue) => Without("PREPATCH", queue')
         \/ /\ nv.stream \in Streams /\ nv.decrypt # "DECRYPTING"
            /\ nv.status # "NOT_INITIALIZED" /\ nv.state \in Open,
         app'.op = "initSave" => app.op = "initSave" \/ firmware = "old"
  PROVE  Update'
<1>1. UNCHANGED <<image, blInfo, firmware, config, nvImage>>
  BY DEF flash
<1>2. losses' \in Nat /\ Starting' /\ Deciphered'
  BY <1>1 DEF Update, Starting, Deciphered, NoPrepatch, Plain
<1>3. CASE Before
  BY <1>1, <1>2, <1>3 DEF Before, Known, Built, NoPrepatch, Update
<1>4. CASE Ordered
  BY <1>1, <1>2, <1>4 DEF Ordered, NoPrepatch, Swapping, Lost, Update, Open
<1>5. CASE GivenUp
  BY <1>1, <1>2, <1>5 DEF GivenUp, NoPrepatch, Update
<1>6. CASE Swapped
  BY <1>1, <1>2, <1>6 DEF Swapped, NoPrepatch, Swapping, Lost, Update, Open
<1>7. CASE Converting
  BY <1>1, <1>2, <1>7 DEF Converting, NoPrepatch, Swapping, Update, Open
<1>8. CASE After
  BY <1>1, <1>2, <1>8 DEF After, NoPrepatch, Swapping, Update
<1>. QED
  BY <1>3, <1>4, <1>5, <1>6, <1>7, <1>8 DEF Update

\* A command that is posted is not the PREPATCH, unless it is.
LEMMA Posted ==
  ASSUME Inv, NEW c \in Cmds, NEW n \in Int, Post(c, n), c # "PREPATCH"
  PROVE  Without("PREPATCH", queue) => Without("PREPATCH", queue')
<1>1. queue \in Seq(Command) /\ queue' = Append(queue, [cmd |-> c, arg |-> n])
  BY DEF Inv, Orders, Post
<1>. QED
  BY <1>1, QueueFacts

\* What the head end's messages do to the file and to the commands.
LEMMA HandlersDo ==
  ASSUME Inv, Handlers
  PROVE  /\ UNCHANGED <<flash, losses, stage, pc, mine>>
         /\ \/ nv' = nv
            \/ /\ nv'.state = "IDLE" /\ nv'.status # "COMPLETE"
               /\ nv.state \in Open /\ pc \in {"pend", "reset"}
               /\ nv.status # "NOT_INITIALIZED" \/ app.op = "initSave"
               /\ NoPrepatch /\ app'.op # "initSave"
               /\ Without("PREPATCH", queue) => Without("PREPATCH", queue')
         /\ \/ Without("PREPATCH", queue) => Without("PREPATCH", queue')
            \/ /\ nv.stream \in Streams /\ nv.decrypt # "DECRYPTING"
               /\ nv.status # "NOT_INITIALIZED" /\ nv.state \in Open
         /\ app'.op = "initSave" => app.op = "initSave" \/ firmware = "old"
<1>. USE DEF flash, world
<1>0. "CANCEL" \in Cmds /\ "CANCEL_APPLY" \in Cmds /\ "FULL_APPLY" \in Cmds /\ 0 \in Int
  BY DEF Cmds
<1>9. ASSUME app.op # "none", app.vars.state \in Open
      PROVE  app.vars = nv /\ Sane(nv) /\ pc \in {"pend", "reset"} /\ NoPrepatch
  BY <1>9, OpenFacts DEF Inv, Handler, NoPrepatch
<1>1. CASE \E op \in {"init", "packet", "cancel", "verify", "apply"} : Handle(op)
  BY <1>1 DEF Handle
<1>2. CASE \E s \in Streams : DownloadInit(s)
  <2>1. UNCHANGED <<flash, losses, stage, pc, mine, nv, queue>>
    BY <1>2 DEF DownloadInit, Handling
  <2>2. app' = NoHandler \/ firmware = "old"
    BY <1>2 DEF DownloadInit
  <2>. QED
    BY <2>1, <2>2 DEF NoHandler
<1>3. CASE DownloadInitSave
  <2>1. /\ UNCHANGED <<flash, losses, stage, pc, mine>> /\ app' = NoHandler
        /\ queue' = queue \/ Post("CANCEL_APPLY", 0)
        /\ app.op = "initSave"
    BY <1>3 DEF DownloadInitSave, Handling, Short
  <2>2. app.vars.state \in Open
    BY <2>1 DEF Inv, Handler
  <2>3. nv'.state = "IDLE" /\ nv'.status = "INCOMPLETE"
    BY <1>3, <1>9, <2>1, <2>2 DEF DownloadInitSave, Sane, IsFile
  <2>4. Without("PREPATCH", queue) => Without("PREPATCH", queue')
    BY <1>0, <2>1, Posted
  <2>. QED
    BY <1>9, <2>1, <2>2, <2>3, <2>4 DEF NoHandler
<1>4. CASE \E s \in Streams, p \in Packets, differs \in BOOLEAN : DownloadPacket(s, p, differs)
  <2>1. PICK s \in Streams, p \in Packets, differs \in BOOLEAN : DownloadPacket(s, p, differs)
    BY <1>4
  <2>2. /\ UNCHANGED <<flash, losses, stage, pc, mine>> /\ app' = NoHandler /\ app.op = "packet"
    BY <2>1 DEF DownloadPacket, Handling
  <2>. DEFINE v == app.vars
  <2>3. CASE UNCHANGED <<nv, queue>>
    BY <2>2, <2>3 DEF NoHandler
  <2>4. CASE ~ UNCHANGED <<nv, queue>>
    <3>1. v.status # "NOT_INITIALIZED" /\ v.state = "IDLE"
      BY <2>1, <2>4 DEF DownloadPacket
    <3>2. v = nv /\ Sane(nv) /\ pc \in {"pend", "reset"} /\ NoPrepatch
      BY <1>9, <2>2, <3>1 DEF Open
    <3>3. \/ /\ queue' = queue
             /\ nv' = [nv EXCEPT !.status = "NOT_INITIALIZED", !.error = TRUE]
          \/ queue' = queue /\ nv' = [nv EXCEPT !.status = "INCOMPLETE"]
          \/ nv' = nv /\ nv.stream = s /\ nv.decrypt # "DECRYPTING"
      BY <2>1, <2>4, <3>1, <3>2 DEF DownloadPacket, Incomplete, IsStream, Short
    <3>4. CASE nv' = nv /\ nv.stream = s /\ nv.decrypt # "DECRYPTING"
      BY <2>2, <3>1, <3>2, <3>4 DEF Open, NoHandler
    <3>5. CASE queue' = queue /\ nv' # nv
      <4>1. nv'.state = "IDLE" /\ nv'.status # "COMPLETE"
        BY <3>1, <3>2, <3>3, <3>5 DEF Sane, IsFile
      <4>. QED
        BY <2>2, <3>1, <3>2, <3>5, <4>1 DEF Open, NoHandler
    <3>. QED
      BY <2>4, <3>3, <3>4, <3>5
  <2>. QED
    BY <2>3, <2>4
<1>5. CASE \E s \in Streams : DownloadCancel(s)
  <2>1. /\ UNCHANGED <<flash, losses, stage, pc, mine, nv>> /\ app' = NoHandler
        /\ queue' = queue \/ Post("CANCEL", 0)
    BY <1>5 DEF DownloadCancel, Handling, Short
  <2>. QED
    BY <1>0, <2>1, Posted DEF NoHandler
<1>6. CASE DownloadVerify
  <2>1. /\ UNCHANGED <<flash, losses, stage, pc, mine, queue>> /\ app' = NoHandler /\ app.op # "none"
        /\ \/ nv' = nv
           \/ /\ app.vars.state \in Open /\ app.vars.status # "NOT_INITIALIZED"
              /\ nv' = SetExpired(app.vars)
    BY <1>6 DEF DownloadVerify, Handling
  <2>2. CASE nv' = nv
    BY <2>1, <2>2 DEF NoHandler
  <2>3. CASE nv' # nv
    <3>1. app.vars = nv /\ Sane(nv) /\ pc \in {"pend", "reset"} /\ NoPrepatch
      BY <1>9, <2>1, <2>3
    <3>2. nv'.state = "IDLE" /\ nv'.status # "COMPLETE"
      BY <2>1, <2>3, <3>1 DEF SetExpired, Sane, IsFile
    <3>. QED
      BY <2>1, <2>3, <3>1, <3>2 DEF NoHandler
  <2>. QED
    BY <2>2, <2>3
<1>7. CASE \E s \in Streams, t \in Times : DownloadApply(s, t)
  <2>1. PICK s \in Streams, t \in Times : DownloadApply(s, t)
    BY <1>7
  <2>2. /\ UNCHANGED <<flash, losses, stage, pc, mine>> /\ app' = NoHandler /\ app.op # "none"
        /\ queue' = queue \/ Post("FULL_APPLY", t)
        /\ \/ nv' = nv
           \/ /\ app.vars.state \in Open /\ app.vars.status # "NOT_INITIALIZED"
              /\ nv' = SetExpired(app.vars)
    BY <2>1 DEF DownloadApply, Handling, Apply, Applicable, Short
  <2>3. Without("PREPATCH", queue) => Without("PREPATCH", queue')
    BY <1>0, <2>2, Posted DEF Times
  <2>4. CASE nv' = nv
    BY <2>2, <2>3, <2>4 DEF NoHandler
  <2>5. CASE nv' # nv
    <3>1. app.vars = nv /\ Sane(nv) /\ pc \in {"pend", "reset"} /\ NoPrepatch
      BY <1>9, <2>2, <2>5
    <3>2. nv'.state = "IDLE" /\ nv'.status # "COMPLETE"
      BY <2>2, <2>5, <3>1 DEF SetExpired, Sane, IsFile
    <3>. QED
      BY <2>2, <2>3, <2>5, <3>1, <3>2 DEF NoHandler
  <2>. QED
    BY <2>4, <2>5
<1>. QED
  BY <1>1, <1>2, <1>3, <1>4, <1>5, <1>6, <1>7 DEF Handlers

LEMMA HandlersUpdate ==
  ASSUME Inv, Update, Handlers
  PROVE  Update'
<1>1. CASE nv' = nv
  BY <1>1, HandlersDo, UpdateKept
<1>2. CASE nv' # nv
  <2>1. /\ UNCHANGED <<flash, losses, stage, pc, mine>>
        /\ nv'.state = "IDLE" /\ nv'.status # "COMPLETE"
        /\ nv.state \in Open /\ pc \in {"pend", "reset"}
        /\ nv.status # "NOT_INITIALIZED" \/ app.op = "initSave"
        /\ NoPrepatch
        /\ Without("PREPATCH", queue) => Without("PREPATCH", queue')
    BY <1>2, HandlersDo
  <2>2. NoPrepatch'
    BY <2>1 DEF NoPrepatch
  <2>3. Before
    BY <2>1 DEF Update, Before, Ordered, GivenUp, Swapped, Converting, After, Open
  <2>4. Deciphered' /\ Starting' /\ losses' \in Nat
    BY <2>1, <2>2 DEF Deciphered, Plain, Update, Starting, flash
  <2>. QED
    BY <2>1, <2>2, <2>3, <2>4 DEF Before, Known, Built, Update, flash
<1>. QED
  BY <1>1, <1>2

\* What a command makes of the file, for the copy of the DFW task.
LEMMA CommandsDo ==
  ASSUME Inv, Update, Commands
  PROVE  /\ UNCHANGED <<nv, flash, losses, stage, app>> /\ pc = "pend"
         /\ Without("PREPATCH", queue) => Without("PREPATCH", queue')
         /\ \/ pc' = "pend" /\ mine' = Blank
            \/ /\ pc' = "save" /\ mine'.stream = nv.stream /\ mine'.decrypt = nv.decrypt
               /\ \/ mine'.state = nv.state /\ mine'.status = nv.status
                  \/ /\ mine'.state = "IDLE" /\ mine'.status = "NOT_INITIALIZED"
                     /\ nv.status # "NOT_INITIALIZED"
            \/ /\ pc' = "saveRun" /\ mine'.stream = nv.stream /\ mine'.decrypt = nv.decrypt
               /\ mine'.status = "COMPLETE"
               /\ \/ mine'.state = "EXEC_PGM_COMMANDS" /\ nv.status = "COMPLETE"
                     /\ nv.state = "IDLE"
                  \/ mine'.state = "EXEC_PGM_COMMANDS" /\ ~ NoPrepatch
                  \/ mine'.state = "DO_FLASH_SWAP" /\ nv.status = "COMPLETE"
                     /\ nv.state = "WAIT_FOR_APPLY"
<1>. USE DEF flash, world, GoOnWith, Rejected
<1>1. IsFile(nv) /\ queue \in Seq(Command) /\ (nv.state # "IDLE" => nv.status = "COMPLETE")
  BY DEF Inv, Files, Sane, Orders
<1>2. queue # <<>> => \A d : Without(d, queue) => Without(d, Tail(queue)) /\ Head(queue).cmd # d
  BY <1>1, QueueFacts
<1>3. PICK c \in Cmds : Dequeue(c) /\ (c = "PREPATCH" => Prepatch)
  BY DEF Commands, AlarmMessage, Prepatch, FullApply, Cancel, CancelApply, Cmds
<1>4. /\ UNCHANGED <<nv, flash, losses, stage, app>> /\ pc = "pend"
      /\ Without("PREPATCH", queue) => Without("PREPATCH", queue')
  BY <1>2, <1>3 DEF Dequeue
<1>5. CASE AlarmMessage
  BY <1>1, <1>4, <1>5 DEF AlarmMessage, IsFile
<1>6. CASE Prepatch
  <2>1. ~ NoPrepatch
    BY <1>2, <1>6 DEF Prepatch, Dequeue, NoPrepatch
  <2>. QED
    BY <1>1, <1>4, <1>6, <2>1 DEF Prepatch, IsFile
<1>7. CASE FullApply
  <2>1. CASE mine' = Blank /\ pc' = "pend"
    BY <1>4, <2>1
  <2>2. CASE ~ (mine' = Blank /\ pc' = "pend")
    <3>. DEFINE t == Head(queue).arg
                v == [nv EXCEPT !.schedule = t, !.mode = "FULL_APPLY"]
    <3>1. \A w \in {v, [v EXCEPT !.state = IF nv.state = "IDLE" THEN "EXEC_PGM_COMMANDS"
                                            ELSE "DO_FLASH_SWAP"]} :
            w.status = nv.status /\ w.stream = nv.stream /\ w.decrypt = nv.decrypt
      BY <1>1 DEF IsFile
    <3>3. /\ v.state = nv.state
          /\ [v EXCEPT !.state = IF nv.state = "IDLE" THEN "EXEC_PGM_COMMANDS"
                                 ELSE "DO_FLASH_SWAP"].state
               = IF nv.state = "IDLE" THEN "EXEC_PGM_COMMANDS" ELSE "DO_FLASH_SWAP"
      BY <1>1 DEF IsFile
    <3>2. \/ pc' = "save" /\ mine' = v
          \/ /\ pc' = "saveRun" /\ nv.status = "COMPLETE" /\ nv.state \in Open
             /\ mine' = [v EXCEPT !.state =
                           IF nv.state = "IDLE" THEN "EXEC_PGM_COMMANDS" ELSE "DO_FLASH_SWAP"]
      BY <1>7, <2>2 DEF FullApply
    <3>. HIDE DEF v
    <3>. QED
      BY <1>4, <3>1, <3>2, <3>3 DEF Open
  <2>. QED
    BY <2>1, <2>2
<1>8. CASE Cancel
  BY <1>1, <1>4, <1>8 DEF Cancel, IsFile, IdleWithoutReport
<1>9. CASE CancelApply
  BY <1>4, <1>9 DEF CancelApply
<1>. QED
  BY <1>5, <1>6, <1>7, <1>8, <1>9 DEF Commands

LEMMA CommandsUpdate ==
  ASSUME Inv, Update, Commands
  PROVE  Update'
<1>1. /\ UNCHANGED <<nv, flash, losses, stage, app>> /\ pc = "pend"
      /\ pc' \in {"pend", "save", "saveRun"}
      /\ NoPrepatch => NoPrepatch'
  BY CommandsDo DEF NoPrepatch
<1>2. losses' \in Nat /\ Starting' /\ (nv.state # "IDLE" => nv.status = "COMPLETE")
  BY <1>1 DEF Update, Starting, Inv, Files, Sane
<1>3. Deciphered'
  BY <1>1, CommandsDo, BlankFacts DEF Deciphered, Update, Plain, flash
<1>4. CASE Before
  BY <1>1, <1>2, <1>3, <1>4, CommandsDo, BlankFacts DEF Before, Known, Built, Update, flash
<1>5. CASE After
  <2>1. \A v \in {nv, mine'} : v.status = "NOT_INITIALIZED" /\ v.state = "IDLE"
    BY <1>5, CommandsDo, BlankFacts DEF After
  <2>2. pc' # "saveRun"
    BY <1>5, CommandsDo DEF After
  <2>. QED
    BY <1>1, <1>2, <1>3, <1>5, <2>1, <2>2 DEF After, Swapping, Update, flash
<1>. QED
  BY <1>1, <1>4, <1>5, Parts

\* The copy is saved.
LEMMA SaveUpdate ==
  ASSUME Inv, Update, Save
  PROVE  Update'
<1>1. /\ UNCHANGED <<flash, losses, stage, queue, app>> /\ pc \in {"save", "saveRun"}
      /\ nv' = mine /\ mine' = Blank
      /\ pc' = IF pc = "save" THEN "pend" ELSE "patch"
  BY DEF Save, world
<1>2. losses' \in Nat /\ Starting' /\ (NoPrepatch => NoPrepatch')
  BY <1>1 DEF Update, Starting, NoPrepatch
<1>3. Deciphered'
  BY <1>1, <1>2, BlankFacts DEF Deciphered, Update, Plain, flash
<1>4. CASE Before
  BY <1>1, <1>2, <1>3, <1>4, BlankFacts DEF Before, Known, Built, Update, flash
<1>5. CASE After
  BY <1>1, <1>2, <1>3, <1>5, BlankFacts DEF After, Swapping, Update, flash
<1>. QED
  BY <1>1, <1>4, <1>5, Parts

\* DFWA_task begins: a patch that was interrupted has a stream.
LEMMA StartUpdate ==
  ASSUME Inv, Update, NEW known \in BOOLEAN, Start(known)
  PROVE  Update'
<1>. DEFINE again == nv.state = "EXEC_PGM_COMMANDS" /\ nv.decrypt \in {"READY", "DONE"}
            posted == again /\ queue' # queue
            own   == IF posted THEN [nv EXCEPT !.state = "IDLE"] ELSE nv
            due   == nv.status = "COMPLETE" /\ nv.state = "WAIT_FOR_APPLY" /\ nv.mode = "FULL_APPLY"
<1>1. /\ UNCHANGED <<flash, losses, stage, app>> /\ pc = "start"
      /\ \/ pc' = "confirm" /\ mine' = own
         \/ pc' = "pend" /\ mine' = Blank
  BY DEF Start, world
<1>2. Sane(nv) /\ nv.schedule \in Int
  BY DEF Inv, Files, Sane, IsFile
<1>3. /\ own.state = IF posted THEN "IDLE" ELSE nv.state
      /\ own.status = nv.status /\ own.stream = nv.stream /\ own.decrypt = nv.decrypt
  BY <1>2 DEF Sane, IsFile
<1>4. \/ posted /\ nv' = own
      \/ /\ ~ posted
         /\ \/ nv' = nv
            \/ nv.status = "COMPLETE" /\ nv' = SetExpired(nv)
         /\ Without("PREPATCH", queue) => Without("PREPATCH", queue')
  <2>1. CASE again
    BY <2>1 DEF Start
  <2>2. CASE ~ again /\ due /\ known
    <3>1. Apply(nv, nv.stream, nv.schedule)
      BY <2>2 DEF Start
    <3>2. queue' = queue \/ Post("FULL_APPLY", nv.schedule)
      BY <3>1 DEF Apply, Short
    <3>3. "FULL_APPLY" \in Cmds /\ "FULL_APPLY" # "PREPATCH"
      BY DEF Cmds
    <3>4. Without("PREPATCH", queue) => Without("PREPATCH", queue')
      BY <1>2, <3>2, <3>3, Posted
    <3>. QED
      BY <2>2, <3>1, <3>4 DEF Apply
  <2>3. CASE ~ again /\ ~ (due /\ known)
    BY <2>3 DEF Start
  <2>. QED
    BY <2>1, <2>2, <2>3
<1>. HIDE DEF own
<1>5. losses' \in Nat /\ Starting'
  BY <1>1 DEF Update, Starting
<1>6. /\ nv'.stream = nv.stream /\ nv'.decrypt = nv.decrypt
      /\ \/ nv'.state = nv.state /\ nv'.status = nv.status /\ ~ posted
         \/ nv'.state = "IDLE" /\ nv'.status = nv.status /\ posted
         \/ /\ nv'.state = "IDLE" /\ nv'.status = "NOT_INITIALIZED" /\ ~ posted
            /\ nv.status = "COMPLETE"
      /\ ~ posted => (NoPrepatch => NoPrepatch')
  BY <1>1, <1>2, <1>3, <1>4 DEF Sane, IsFile, SetExpired, NoPrepatch
<1>7. /\ mine'.state \in {nv.state, "IDLE"}
      /\ \/ mine' = Blank /\ pc' = "pend"
         \/ /\ mine'.status = nv.status /\ mine'.stream = nv.stream /\ pc' = "confirm"
            /\ mine'.decrypt = nv.decrypt
            /\ mine'.state = IF posted THEN "IDLE" ELSE nv.state
  BY <1>1, <1>3, BlankFacts
<1>8. Deciphered'
  BY <1>1, <1>6, <1>7, BlankFacts DEF Deciphered, Update, Plain, flash
<1>9. CASE Before
  <2>1. posted => nv.stream \in Streams
    BY <1>2, <1>9 DEF Before, Known, Sane
  <2>. HIDE DEF posted
  <2>. QED
    BY <1>1, <1>5, <1>6, <1>7, <1>8, <1>9, <2>1, BlankFacts
    DEF Before, Known, Built, Update, flash
<1>10. CASE After
  BY <1>1, <1>5, <1>6, <1>7, <1>8, <1>10, BlankFacts DEF After, Swapping, Update, flash
<1>. QED
  BY <1>1, <1>9, <1>10, Parts

\* The report that was due has been sent.
LEMMA ConfirmUpdate ==
  ASSUME Inv, Update, Confirm
  PROVE  Update'
<1>1. /\ UNCHANGED <<flash, losses, stage, queue, app>> /\ pc = "confirm"
      /\ mine' = Blank /\ pc' = "pend"
  BY DEF Confirm, world
<1>2. /\ nv'.state = mine.state /\ nv'.status = mine.status /\ nv'.stream = mine.stream
      /\ nv'.decrypt = mine.decrypt
  BY DEF Inv, Files, Sane, IsFile, Confirm
<1>3. losses' \in Nat /\ Starting' /\ (NoPrepatch => NoPrepatch')
  BY <1>1 DEF Update, Starting, NoPrepatch
<1>4. Deciphered'
  BY <1>1, <1>2, <1>3, BlankFacts DEF Deciphered, Update, Plain, flash
<1>5. CASE Before
  BY <1>1, <1>2, <1>3, <1>4, <1>5, BlankFacts DEF Before, Known, Built, Update, flash
<1>6. CASE After
  BY <1>1, <1>2, <1>3, <1>4, <1>6, BlankFacts DEF After, Swapping, Update, flash
<1>. QED
  BY <1>1, <1>5, <1>6, Parts

\* The patch is verified and the image is built: the old firmware runs.
LEMMA ValidateUpdate ==
  ASSUME Inv, Update, Validate
  PROVE  Update'
<1>1. /\ UNCHANGED <<blInfo, firmware, config, nvImage, losses, queue, app>>
      /\ pc = "patch" /\ nv.state = "EXEC_PGM_COMMANDS"
  BY DEF Validate, Running, world
<1>2. Before /\ Sane(nv)
  BY <1>1 DEF Update, Before, Ordered, GivenUp, Swapped, Converting, After, Inv, Files, Open
<1>3. /\ nv'.stream = nv.stream
      /\ \/ /\ pc' \in {"start", "pend"} /\ mine' = Blank /\ image' = image
            /\ nv'.state = "IDLE" /\ nv'.status = "WITH_ERROR" /\ nv'.decrypt = nv.decrypt
         \/ /\ Verdict[nv.stream] # "patch" /\ nv'.state = "EXEC_PGM_COMMANDS"
            /\ nv'.status = nv.status /\ mine' = nv'
            /\ \/ pc' = "decrypt"
               \/ pc' = "build" /\ nv'.decrypt = nv.decrypt
  <2>1. CASE ~ PatchIsRight
    BY <1>1, <1>2, <2>1 DEF Validate, Return, Report, Sane, IsFile
  <2>2. CASE PatchIsRight
    BY <1>1, <1>2, <2>2 DEF Validate, GoOnWith, PatchIsRight, Sane, IsFile
  <2>. QED
    BY <2>1, <2>2
<1>4. losses' \in Nat /\ Starting' /\ (NoPrepatch => NoPrepatch')
  BY <1>1, <1>3 DEF Update, Starting, NoPrepatch
<1>5. Deciphered'
  BY <1>1, <1>3, <1>4, BlankFacts DEF Deciphered, Update, Plain
<1>. QED
  BY <1>1, <1>2, <1>3, <1>4, <1>5, BlankFacts DEF Before, Known, Built, Update

LEMMA DecryptUpdate ==
  ASSUME Inv, Update, Decrypt
  PROVE  Update'
<1>1. /\ UNCHANGED <<blInfo, firmware, config, nvImage, losses, queue, app, stage>>
      /\ pc = "decrypt" /\ pc' = "build" /\ mine' = nv'
  BY DEF Decrypt, Running, GoOnWith, world
<1>2. Before
  BY <1>1, Parts
<1>3. /\ nv'.stream = mine.stream /\ nv'.state = mine.state /\ nv'.status = mine.status
      /\ nv'.decrypt = "DONE"
  BY DEF Decrypt, Inv, Files, Sane, IsFile
<1>4. losses' \in Nat /\ Starting' /\ (NoPrepatch => NoPrepatch')
  BY <1>1 DEF Update, Starting, NoPrepatch
<1>5. Deciphered'
  BY <1>1, <1>3, <1>4 DEF Deciphered, Update, Plain
<1>. QED
  BY <1>1, <1>2, <1>3, <1>4, <1>5 DEF Before, Known, Built, Update

LEMMA BuildUpdate ==
  ASSUME Inv, Update, Build
  PROVE  Update'
<1>1. /\ UNCHANGED <<blInfo, firmware, config, nvImage, losses, queue, app>>
      /\ pc = "build" /\ received = Packets
      /\ image' = IF Verdict[mine.stream] = "ok" /\ received = Packets THEN "new" ELSE "bad"
  BY DEF Inv, Files, Sane, Whole, PhaseFacts, Open, Build, Running, world
<1>2. Before /\ Sane(mine) /\ mine.state = "EXEC_PGM_COMMANDS" /\ Verdict[mine.stream] # "patch"
  BY <1>1, Parts DEF Inv, Files, Before
<1>3. mine.status = "COMPLETE" /\ mine.stream \in Streams
  BY <1>2 DEF Before, Known, Sane
<1>4. /\ nv'.stream = mine.stream /\ nv'.decrypt = mine.decrypt /\ mine' = Blank
      /\ pc' \in {"pend", "start", "patch"}
      /\ nv'.status \in {mine.status, "WITH_ERROR"}
      /\ \/ nv'.state = "IDLE"
         \/ nv'.state \in {"DO_FLASH_SWAP", "WAIT_FOR_APPLY"} /\ Verdict[mine.stream] # "image"
  <2>1. CASE ~ ImageIsRight(mine.stream)
    BY <1>2, <2>1 DEF Build, Return, Report, Sane, IsFile
  <2>2. CASE ImageIsRight(mine.stream) /\ mine.mode = "FULL_APPLY"
    BY <1>2, <2>2 DEF Build, GoOnWith, ImageIsRight, Sane, IsFile
  <2>3. CASE ImageIsRight(mine.stream) /\ mine.mode # "FULL_APPLY"
    <3>. DEFINE w == [Report(mine) EXCEPT !.state = "WAIT_FOR_APPLY"]
    <3>1. IsFile(w) /\ w.stream = mine.stream /\ w.decrypt = mine.decrypt
          /\ w.state = "WAIT_FOR_APPLY" /\ w.status = mine.status
      BY <1>2 DEF Report, Sane, IsFile
    <3>2. Return(w, FALSE)
      BY <2>3 DEF Build
    <3>. HIDE DEF w
    <3>. QED
      BY <2>3, <3>1, <3>2 DEF Return, IsFile, ImageIsRight
  <2>. QED
    BY <2>1, <2>2, <2>3
<1>5. nv'.state \in {"DO_FLASH_SWAP", "WAIT_FOR_APPLY"} => image' = "new"
  BY <1>1, <1>2, <1>3, <1>4, StreamsAssumption
<1>6. losses' \in Nat /\ Starting' /\ (NoPrepatch => NoPrepatch')
  BY <1>1, <1>4 DEF Update, Starting, NoPrepatch
<1>7. Deciphered'
  BY <1>1, <1>4, <1>6, BlankFacts DEF Deciphered, Update, Plain
<1>. QED
  BY <1>1, <1>2, <1>3, <1>4, <1>5, <1>6, <1>7, BlankFacts DEF Before, Known, Built, Update

\* The boot loader gets its order, with an image that is built.
LEMMA WaitForSysIdleUpdate ==
  ASSUME Inv, Update, WaitForSysIdle
  PROVE  Update'
<1>1. /\ UNCHANGED <<nv, flash, losses, queue, app, stage>>
      /\ pc = "patch" /\ pc' = "waitIdle" /\ nv.state = "DO_FLASH_SWAP" /\ mine' = nv
  BY DEF WaitForSysIdle, Running, GoOnWith, world
<1>2. losses' \in Nat /\ Starting' /\ (NoPrepatch => NoPrepatch')
  BY <1>1 DEF Update, Starting, NoPrepatch
<1>3. Deciphered'
  BY <1>1, <1>2 DEF Deciphered, Update, Plain, flash
<1>4. CASE Before
  BY <1>1, <1>2, <1>3, <1>4 DEF Before, Known, Built, Update, flash
<1>5. CASE Ordered
  BY <1>1, <1>2, <1>3, <1>5 DEF Ordered, Swapping, Lost, Update, flash
<1>6. CASE Swapped
  BY <1>1, <1>2, <1>3, <1>6 DEF Swapped, Swapping, Lost, Update, flash
<1>. QED
  BY <1>1, <1>4, <1>5, <1>6 DEF Update, GivenUp, Converting, After

LEMMA OrderSwapUpdate ==
  ASSUME Inv, Update, OrderSwap
  PROVE  Update'
<1>1. /\ UNCHANGED <<nv, image, firmware, config, nvImage, losses, queue, app, stage, mine>>
      /\ pc = "waitIdle" /\ pc' = "swapSave" /\ blInfo' = "ready"
  BY DEF OrderSwap, Running, GoOnWith, world
<1>2. losses' \in Nat /\ Starting'
  BY <1>1 DEF Update, Starting
<1>3. Deciphered'
  BY <1>1 DEF Deciphered, Update, Plain, NoPrepatch
<1>4. CASE Before
  BY <1>1, <1>2, <1>3, <1>4 DEF Before, Built, Ordered, Update
<1>5. CASE Ordered \/ Swapped
  BY <1>1, <1>2, <1>3, <1>5 DEF Ordered, Swapped, Swapping, Lost, Update
<1>. QED
  BY <1>1, <1>4, <1>5, Parts

LEMMA OrderSwapSaveUpdate ==
  ASSUME Inv, Update, OrderSwapSave
  PROVE  Update'
<1>1. /\ UNCHANGED <<flash, losses, queue, app, stage>>
      /\ pc = "swapSave" /\ pc' = "reset" /\ mine' = Blank
  BY DEF OrderSwapSave, Running, GoOnWith, world
<1>2. Ordered /\ Sane(mine)
  BY <1>1, Parts DEF Inv, Files
<1>3. /\ nv'.state = "BL_SWAP" /\ nv'.status = mine.status /\ nv'.decrypt = mine.decrypt
      /\ mine.state = "DO_FLASH_SWAP"
  BY <1>1, <1>2 DEF OrderSwapSave, Sane, IsFile, Ordered
<1>4. losses' \in Nat /\ Starting' /\ NoPrepatch'
  BY <1>1 DEF Update, Starting, NoPrepatch
<1>5. Deciphered'
  BY <1>1, <1>3, <1>4, BlankFacts DEF Deciphered, Update, Plain, flash
<1>. QED
  BY <1>1, <1>2, <1>3, <1>4, <1>5 DEF Ordered, Swapping, Lost, Update, flash

\* Whether the boot loader was run is told by its order.
LEMMA AfterSwapUpdate ==
  ASSUME Inv, Update, AfterSwap
  PROVE  Update'
<1>1. /\ UNCHANGED <<flash, losses, queue, app, stage>> /\ pc = "patch" /\ pc' = "clear"
      /\ nv.state = "BL_SWAP" /\ mine' = nv' /\ Sane(nv)
  BY DEF AfterSwap, Running, GoOnWith, world, Inv, Files
<1>2. /\ nv'.decrypt = nv.decrypt
      /\ IF blInfo = "ready"
         THEN nv'.state = "IDLE" /\ nv'.status = "NOT_INITIALIZED"
         ELSE nv'.state = "EXEC_NV_COMMANDS"
  BY <1>1 DEF AfterSwap, SwapIgnored, SetDfwToIdle, IdleWithoutReport, Sane, IsFile
<1>3. losses' \in Nat /\ Starting' /\ (NoPrepatch => NoPrepatch')
  BY <1>1 DEF Update, Starting, NoPrepatch
<1>4. Deciphered'
  BY <1>1, <1>2, <1>3 DEF Deciphered, Update, Plain, flash
<1>5. CASE Ordered
  BY <1>1, <1>2, <1>3, <1>4, <1>5 DEF Ordered, GivenUp, Swapping, Update, flash
<1>6. CASE Swapped
  BY <1>1, <1>2, <1>3, <1>4, <1>6 DEF Swapped, Converting, Swapping, Update, flash
<1>. QED
  BY <1>1, <1>5, <1>6 DEF Update, Before, GivenUp, Converting, After, Open

LEMMA ClearOrderUpdate ==
  ASSUME Inv, Update, ClearOrder
  PROVE  Update'
<1>1. /\ UNCHANGED <<firmware, config, nvImage, losses, queue, app>>
      /\ pc = "clear" /\ blInfo' = "none" /\ Sane(mine) /\ mine.state = nv.state
  BY DEF ClearOrder, Running, world, Inv, Files, PhaseFacts
<1>2. mine' = Blank
  BY DEF ClearOrder, GoOnWith, Return
<1>3. CASE GivenUp
  <2>1. /\ nv'.state = "IDLE" /\ nv'.status = "NOT_INITIALIZED" /\ nv'.decrypt = mine.decrypt
        /\ pc' \in {"start", "pend"}
    BY <1>1, <1>3 DEF ClearOrder, Return, Sane, IsFile, GivenUp
  <2>2. losses' \in Nat /\ Starting' /\ NoPrepatch'
    BY <1>1, <1>3, <2>1 DEF Update, Starting, NoPrepatch, GivenUp
  <2>3. Deciphered'
    BY <1>1, <1>2, <2>1, <2>2, BlankFacts DEF Deciphered, Update, Plain
  <2>. QED
    BY <1>1, <1>2, <1>3, <2>1, <2>2, <2>3, BlankFacts DEF GivenUp, Before, Known, Built, Update
<1>4. CASE Converting
  <2>1. nv' = nv /\ stage' = stage /\ pc' = "patch"
    BY <1>1, <1>4 DEF ClearOrder, GoOnWith, Converting
  <2>2. losses' \in Nat /\ Starting' /\ NoPrepatch' /\ nv.state = "EXEC_NV_COMMANDS"
    BY <1>1, <1>4, <2>1 DEF Update, Starting, NoPrepatch, Converting
  <2>3. Deciphered'
    BY <1>1, <1>2, <2>1, <2>2, BlankFacts DEF Deciphered, Update, Plain, Inv, Files, Sane
  <2>. QED
    BY <1>1, <1>2, <1>4, <2>1, <2>2, <2>3 DEF Converting, Swapping, Update
<1>. QED
  BY <1>1, <1>3, <1>4, Parts

\* The NV data are converted for the new firmware.
LEMMA ExecNvCommandsUpdate ==
  ASSUME Inv, Update, ExecNvCommands
  PROVE  Update'
<1>1. /\ UNCHANGED <<image, blInfo, config, firmware, losses, queue, app, stage, mine>>
      /\ pc = "patch" /\ nv.state = "EXEC_NV_COMMANDS" /\ Sane(nv)
  BY DEF ExecNvCommands, Running, world, Inv, Files
<1>2. Converting /\ firmware = "new" /\ config = "old"
  BY <1>1 DEF Update, Before, Ordered, GivenUp, Swapped, Converting, After, Swapping, Open
<1>3. /\ pc' = pc /\ nvImage'.nv = nv /\ nvImage'.layout = "new"
      /\ nv'.state = "COPY_NV_IMAGE_TO_NV" /\ nv'.status = nv.status /\ nv'.decrypt = nv.decrypt
  BY <1>1, <1>2 DEF ExecNvCommands, Converted, Sane, IsFile
<1>4. losses' \in Nat /\ Starting' /\ (NoPrepatch => NoPrepatch')
  BY <1>1, <1>3 DEF Update, Starting, NoPrepatch
<1>5. Deciphered'
  BY <1>1, <1>3, <1>4 DEF Deciphered, Update, Plain
<1>. QED
  BY <1>1, <1>2, <1>3, <1>4, <1>5 DEF Converting, Swapping, Update

LEMMA CopyNvImageUpdate ==
  ASSUME Inv, Update, CopyNvImage
  PROVE  Update'
<1>1. /\ UNCHANGED <<nv, image, blInfo, nvImage, firmware, losses, queue, app, stage>>
      /\ pc = "patch" /\ pc' = "copyNv" /\ nv.state = "COPY_NV_IMAGE_TO_NV" /\ mine' = nv
      /\ config' = "torn"
  BY DEF CopyNvImage, Running, GoOnWith, world
<1>2. Converting
  BY <1>1 DEF Update, Before, Ordered, GivenUp, Swapped, After, Open
<1>3. losses' \in Nat /\ Starting' /\ (NoPrepatch => NoPrepatch')
  BY <1>1 DEF Update, Starting, NoPrepatch
<1>4. Deciphered'
  BY <1>1, <1>3 DEF Deciphered, Update, Plain
<1>. QED
  BY <1>1, <1>2, <1>3, <1>4 DEF Converting, Swapping, Update

LEMMA CopyNvFileUpdate ==
  ASSUME Inv, Update, CopyNvFile
  PROVE  Update'
<1>1. /\ UNCHANGED <<image, blInfo, nvImage, firmware, losses, queue, app, stage, mine>>
      /\ pc = "copyNv" /\ pc' = "copyRest" /\ nv' = nvImage.nv /\ config' = config
  BY DEF CopyNvFile, Running, GoOnWith, world, flash
<1>2. Converting
  BY <1>1, Parts
<1>3. losses' \in Nat /\ Starting' /\ NoPrepatch'
  BY <1>1, <1>2 DEF Update, Starting, NoPrepatch, Converting
<1>4. Deciphered'
  BY <1>1, <1>3 DEF Deciphered, Update, Plain
<1>. QED
  BY <1>1, <1>2, <1>3, <1>4 DEF Converting, Swapping, Update

LEMMA CopyNvRestUpdate ==
  ASSUME Inv, Update, CopyNvRest
  PROVE  Update'
<1>1. /\ UNCHANGED <<nv, image, blInfo, nvImage, firmware, losses, queue, app, stage, mine>>
      /\ pc = "copyRest" /\ pc' = "copied" /\ config' = nvImage.layout
  BY DEF CopyNvRest, Running, GoOnWith, world
<1>2. Converting
  BY <1>1, Parts
<1>3. losses' \in Nat /\ Starting' /\ NoPrepatch'
  BY <1>1, <1>2 DEF Update, Starting, NoPrepatch, Converting
<1>4. Deciphered'
  BY <1>1, <1>3 DEF Deciphered, Update, Plain
<1>. QED
  BY <1>1, <1>2, <1>3, <1>4 DEF Converting, Swapping, Update

LEMMA CopyNvDoneUpdate ==
  ASSUME Inv, Update, CopyNvDone
  PROVE  Update'
<1>1. /\ UNCHANGED <<flash, losses, queue, app, stage>>
      /\ pc = "copied" /\ pc' = "reset" /\ mine' = Blank /\ app.op # "initSave"
  BY DEF CopyNvDone, Running, GoOnWith, world, Inv, Handler
<1>2. Converting
  BY <1>1, Parts
<1>3. nv'.state = "IDLE" /\ nv'.status = "NOT_INITIALIZED"
  BY DEF CopyNvDone, SetDfwToIdle, IdleWithoutReport, Inv, Files, Sane, IsFile
<1>4. losses' \in Nat /\ Starting' /\ NoPrepatch'
  BY <1>1 DEF Update, Starting, NoPrepatch
<1>5. Deciphered'
  BY <1>1, <1>3, <1>4, BlankFacts DEF Deciphered, Update, Plain, flash
<1>. QED
  BY <1>1, <1>2, <1>3, <1>4, <1>5, BlankFacts DEF Converting, After, Swapping, Update, flash

\* Restarts: the boot loader does what it was told, and DFWA_init what is left.
LEMMA ResetUpdate ==
  ASSUME Inv, Update, Reset
  PROVE  Update'
<1>1. /\ UNCHANGED <<nv, flash, losses>> /\ pc = "reset" /\ pc' = "off" /\ stage' = "starting"
      /\ mine' = Blank /\ queue' = <<>> /\ app' = NoHandler
  BY DEF Reset, LoseRam, world
<1>2. losses' \in Nat /\ Starting' /\ NoPrepatch' /\ app'.op # "initSave"
  BY <1>1, EmptyFacts DEF Update, Starting, NoPrepatch, NoHandler
<1>3. Deciphered'
  BY <1>1, <1>2, BlankFacts DEF Deciphered, Update, Plain, flash
<1>4. CASE Before
  BY <1>1, <1>2, <1>3, <1>4, BlankFacts DEF Before, Known, Built, Update, flash
<1>5. CASE Ordered
  BY <1>1, <1>2, <1>3, <1>5 DEF Ordered, Swapping, Lost, Update, flash
<1>6. CASE After
  BY <1>1, <1>2, <1>3, <1>6, BlankFacts DEF After, Swapping, Update, flash
<1>. QED
  BY <1>1, <1>4, <1>5, <1>6, Parts

LEMMA BootAfterGaspUpdate ==
  ASSUME Inv, Update, BootAfterGasp
  PROVE  Update'
<1>1. /\ UNCHANGED <<nv, flash, losses, stage, mine, queue, app>> /\ pc = "gasp" /\ pc' = "init"
  BY DEF BootAfterGasp, world
<1>2. losses' \in Nat /\ Starting' /\ (NoPrepatch => NoPrepatch')
  BY <1>1 DEF Update, Starting, NoPrepatch
<1>3. Deciphered'
  BY <1>1, <1>2 DEF Deciphered, Update, Plain, flash
<1>4. CASE Before
  BY <1>1, <1>2, <1>3, <1>4 DEF Before, Known, Built, Update, flash
<1>5. CASE Ordered
  BY <1>1, <1>2, <1>3, <1>5 DEF Ordered, Lost, Update, flash
<1>6. CASE After
  BY <1>1, <1>2, <1>3, <1>6 DEF After, Swapping, Update, flash
<1>. QED
  BY <1>1, <1>4, <1>5, <1>6, Parts

LEMMA BootUpdate ==
  ASSUME Inv, Update, Boot
  PROVE  Update'
<1>1. /\ UNCHANGED <<nv, image, blInfo, config, nvImage, losses, stage, mine, queue, app>>
      /\ pc = "off"
      /\ IF blInfo \in {"ready", "done"}
         THEN pc' = "copy" /\ firmware' = "torn"
         ELSE pc' = "init" /\ firmware' = firmware
  BY DEF Boot, world
<1>2. losses' \in Nat /\ Starting' /\ (NoPrepatch => NoPrepatch') /\ stage' = "starting"
  BY <1>1 DEF Update, Starting, NoPrepatch
<1>3. Deciphered'
  BY <1>1, <1>2 DEF Deciphered, Update, Plain
<1>4. CASE Before
  BY <1>1, <1>2, <1>3, <1>4 DEF Before, Known, Built, Update
<1>5. CASE Ordered
  BY <1>1, <1>2, <1>3, <1>5 DEF Ordered, Swapping, Lost, Update
<1>6. CASE Swapped
  BY <1>1, <1>2, <1>3, <1>6 DEF Swapped, Swapping, Lost, Update
<1>7. CASE Converting
  BY <1>1, <1>2, <1>3, <1>7 DEF Converting, Swapping, Update
<1>8. CASE After
  BY <1>1, <1>2, <1>3, <1>8 DEF After, Swapping, Update
<1>. QED
  BY <1>1, <1>4, <1>5, <1>6, <1>7, <1>8 DEF Update, GivenUp

LEMMA BootCopiedUpdate ==
  ASSUME Inv, Update, BootCopied
  PROVE  Update'
<1>1. /\ UNCHANGED <<nv, image, config, nvImage, losses, stage, mine, queue, app>>
      /\ pc = "copy" /\ pc' = "init" /\ firmware' = image /\ blInfo' = "done"
  BY DEF BootCopied, world
<1>2. losses' \in Nat /\ Starting' /\ (NoPrepatch => NoPrepatch') /\ stage' = "starting"
  BY <1>1 DEF Update, Starting, NoPrepatch
<1>3. Deciphered'
  BY <1>1, <1>2 DEF Deciphered, Update, Plain
<1>4. CASE Ordered
  BY <1>1, <1>2, <1>3, <1>4 DEF Ordered, Swapped, Swapping, Lost, Update
<1>5. CASE Swapped
  BY <1>1, <1>2, <1>3, <1>5 DEF Swapped, Swapping, Lost, Update
<1>6. CASE Converting
  BY <1>1, <1>2, <1>3, <1>6 DEF Converting, Swapping, Update
<1>7. CASE After
  BY <1>1, <1>2, <1>3, <1>7 DEF After, Swapping, Update
<1>. QED
  BY <1>1, <1>4, <1>5, <1>6, <1>7 DEF Update, Before, GivenUp

LEMMA BootFailedUpdate ==
  ASSUME Inv, Update, BootFailed
  PROVE  Update'
<1>1. /\ UNCHANGED <<nv, image, firmware, config, nvImage, stage, mine, queue, app>>
      /\ pc = "copy" /\ pc' = "off" /\ blInfo' = "done" /\ losses' = losses + 1
  BY DEF BootFailed
<1>2. /\ losses' \in Nat /\ Starting' /\ (NoPrepatch => NoPrepatch') /\ stage' = "starting"
      /\ Lost => Lost'
  BY <1>1 DEF Update, Starting, NoPrepatch, Lost
<1>3. Deciphered'
  BY <1>1, <1>2 DEF Deciphered, Update, Plain
<1>4. CASE Ordered
  BY <1>1, <1>2, <1>3, <1>4 DEF Ordered, Swapped, Swapping, Update
<1>5. CASE Swapped
  BY <1>1, <1>2, <1>3, <1>5 DEF Swapped, Swapping, Update
<1>6. CASE Converting
  BY <1>1, <1>2, <1>3, <1>6 DEF Converting, Swapping, Update
<1>7. CASE After
  BY <1>1, <1>2, <1>3, <1>7 DEF After, Swapping, Update
<1>. QED
  BY <1>1, <1>4, <1>5, <1>6, <1>7 DEF Update, Before, GivenUp

LEMMA DfwaInitUpdate ==
  ASSUME Inv, Update, DfwaInit
  PROVE  Update'
<1>1. /\ UNCHANGED <<flash, losses, mine, queue, app>> /\ pc = "init" /\ mine = Blank
      /\ Sane(nv)
  BY DEF DfwaInit, world, Inv, PhaseFacts, Files
<1>2. pc' # "brick"
  BY ResumesWhole
<1>3. \/ /\ nv.state \notin Open /\ nv.decrypt = "DECRYPTING" /\ pc' = "start"
         /\ nv'.state = "IDLE" /\ nv'.status = "WITH_ERROR" /\ nv'.decrypt = nv.decrypt
         /\ nv'.stream = nv.stream
      \/ /\ nv.state \notin Open \union {"EXEC_PGM_COMMANDS"} /\ nv.decrypt # "DECRYPTING"
         /\ nv' = nv /\ stage' = stage /\ pc' = "patch"
      \/ /\ nv.state \in Open \union {"EXEC_PGM_COMMANDS"} /\ nv' = nv /\ pc' = "start"
  <2>1. CASE nv.state \notin Open /\ nv.decrypt = "DECRYPTING"
    BY <1>1, <2>1 DEF DfwaInit, Sane, IsFile
  <2>2. CASE nv.state \notin Open \union {"EXEC_PGM_COMMANDS"} /\ nv.decrypt # "DECRYPTING"
    BY <1>2, <2>2 DEF DfwaInit
  <2>3. CASE nv.state \in Open \union {"EXEC_PGM_COMMANDS"} /\ nv' = nv /\ pc' = "start"
    BY <2>3
  <2>. QED
    BY <2>1, <2>2, <2>3 DEF DfwaInit
<1>4. losses' \in Nat /\ Starting' /\ (NoPrepatch => NoPrepatch')
  BY <1>1, <1>3 DEF Update, Starting, NoPrepatch
<1>5. Deciphered'
  BY <1>1, <1>3, <1>4 DEF Deciphered, Update, Plain, flash
<1>6. CASE Before
  BY <1>1, <1>3, <1>4, <1>5, <1>6 DEF Before, Known, Built, Update, flash
<1>7. CASE Ordered \/ Swapped \/ Converting
  <2>1. nv.state \notin Open \union {"EXEC_PGM_COMMANDS"} /\ nv.decrypt # "DECRYPTING"
    BY <1>1, <1>7 DEF Ordered, Swapped, Converting, Open, Update, Deciphered, Plain, Sane
  <2>2. nv' = nv /\ stage' = stage /\ pc' = "patch"
    BY <1>3, <2>1
  <2>3. CASE Ordered
    BY <1>1, <1>4, <1>5, <2>2, <2>3 DEF Ordered, Swapping, Lost, Update, flash
  <2>4. CASE Swapped
    BY <1>1, <1>4, <1>5, <2>2, <2>4 DEF Swapped, Swapping, Lost, Update, flash
  <2>5. CASE Converting
    BY <1>1, <1>4, <1>5, <2>2, <2>5 DEF Converting, Swapping, Update, flash
  <2>. QED
    BY <1>7, <2>3, <2>4, <2>5
<1>8. CASE After
  <2>1. nv' = nv /\ pc' = "start"
    BY <1>3, <1>8 DEF After, Open
  <2>. QED
    BY <1>1, <1>4, <1>5, <1>8, <2>1 DEF After, Swapping, Update, flash
<1>. QED
  BY <1>1, <1>6, <1>7, <1>8 DEF Update, GivenUp

\* Power is lost.  Between the order to the boot loader and the file that says
\* so, a failure leaves the swap to be ordered twice, so the unit must not sit
\* out a second last gasp without a boot.  The other phases left out are the
\* short ones after the copy of the NV data and before the order is cleared.
LEMMA PowerLossUpdate ==
  ASSUME Inv, Update, PowerLoss,
         "erase" \notin CrashPhases, "abort" \notin CrashPhases,
         "copyRest" \notin CrashPhases, "copied" \notin CrashPhases,
         MaxGasps <= 1 \/ "swapSave" \notin CrashPhases
  PROVE  Update'
<1>1. /\ UNCHANGED <<nv, flash>> /\ losses' = losses + 1 /\ stage' = "starting"
      /\ mine' = Blank /\ queue' = <<>> /\ app' = NoHandler
      /\ \/ pc' = "off"
         \/ pc' = "gasp" /\ (stage = "ready" \/ pc = "reset") /\ losses' <= MaxGasps
  BY DEF PowerLoss, LoseRam
<1>2. /\ losses' \in Nat /\ losses' >= 1 /\ Starting' /\ NoPrepatch' /\ app'.op # "initSave"
  BY <1>1, EmptyFacts DEF Update, Starting, NoPrepatch, NoHandler
<1>3. Deciphered'
  BY <1>1, <1>2, BlankFacts DEF Deciphered, Update, Plain, flash
<1>4. CASE Before
  BY <1>1, <1>2, <1>3, <1>4, BlankFacts DEF Before, Known, Built, Update, flash
<1>5. CASE Ordered
  <2>1. pc = "swapSave" => "swapSave" \in CrashPhases
    BY DEF PowerLoss, Phase, Inv, Handler
  <2>2. Lost => Lost'
    BY <1>1 DEF Lost, Update
  <2>3. nv.state = "DO_FLASH_SWAP" => Lost'
    BY <1>2, <1>5, <2>1, <2>2 DEF Ordered, Lost
  <2>4. CASE pc' = "off"
    BY <1>1, <1>2, <1>3, <1>5, <2>2, <2>3, <2>4 DEF Ordered, Swapping, Update, flash
  <2>5. CASE pc' = "gasp"
    <3>1. ~ Lost /\ firmware = "old" /\ losses' <= MaxGasps
      BY <1>1, <1>2, <1>5, <2>5, BoundsAssumption DEF Lost, Ordered, Swapping, Update
    <3>. QED
      BY <1>1, <1>2, <1>3, <1>5, <2>3, <2>5, <3>1 DEF Ordered, Update, flash
  <2>. QED
    BY <1>1, <2>4, <2>5
<1>6. CASE GivenUp
  BY <1>6 DEF GivenUp, PowerLoss, Phase, Inv, Handler, PhaseFacts
<1>7. CASE Swapped
  <2>1. pc' = "off"
    BY <1>1, <1>7 DEF Swapped
  <2>. QED
    BY <1>1, <1>2, <1>3, <1>7, <2>1 DEF Swapped, Swapping, Lost, Update, flash
<1>8. CASE Converting
  <2>1. pc' = "off" /\ pc \notin {"copyRest", "copied"}
    BY <1>1, <1>8 DEF Converting, PowerLoss, Phase, Inv, Handler
  <2>. QED
    BY <1>1, <1>2, <1>3, <1>8, <2>1 DEF Converting, Swapping, Update, flash
<1>9. CASE After
  <2>1. pc' = "gasp" => firmware = "new"
    BY <1>1, <1>9 DEF After, Swapping, Update, Starting
  <2>. QED
    BY <1>1, <1>2, <1>3, <1>9, <2>1, BlankFacts DEF After, Swapping, Update, flash
<1>. QED
  BY <1>4, <1>5, <1>6, <1>7, <1>8, <1>9 DEF Update

\* Steps that change neither the file nor the flash.
LEMMA ElsewhereUpdate ==
  ASSUME Inv, Update, AppReady \/ Tick \/ (\E id \in Alarms : Ring(id))
  PROVE  Update'
<1>1. CASE AppReady
  BY <1>1, UpdateKept DEF AppReady, world
<1>2. CASE Tick
  BY <1>2, UpdateKept DEF Tick
<1>3. ASSUME NEW id \in Alarms, Ring(id)
      PROVE  Update'
  <2>1. "TIME" \in Cmds /\ "TIME" # "PREPATCH" /\ id \in Int
    BY DEF Cmds, Alarms
  <2>2. Without("PREPATCH", queue) => Without("PREPATCH", queue')
    BY <1>3, <2>1, Posted DEF Ring
  <2>. QED
    BY <1>3, <2>2, UpdateKept DEF Ring, world
<1>. QED
  BY <1>1, <1>2, <1>3

LEMMA UpdateInit == Init => Update
BY BlankFacts, EmptyFacts
DEF Init, Update, Starting, Deciphered, Plain, NoPrepatch, Before, Known, Built

LEMMA NextUpdate ==
  ASSUME "erase" \notin CrashPhases, "abort" \notin CrashPhases,
         "copyRest" \notin CrashPhases, "copied" \notin CrashPhases,
         MaxGasps <= 1 \/ "swapSave" \notin CrashPhases,
         Inv, Update, [Next]_vars
  PROVE  Update'
<1>1. CASE UNCHANGED vars
  BY <1>1, UpdateKept DEF vars, world
<1>2. CASE Handlers
  BY <1>2, HandlersUpdate
<1>3. CASE Commands
  BY <1>3, CommandsUpdate
<1>4. CASE DoPatch
  BY <1>4, ValidateUpdate, DecryptUpdate, BuildUpdate, NeverInvalid, WaitForSysIdleUpdate,
     OrderSwapUpdate, OrderSwapSaveUpdate, AfterSwapUpdate, ClearOrderUpdate,
     ExecNvCommandsUpdate, CopyNvImageUpdate, CopyNvFileUpdate, CopyNvRestUpdate,
     CopyNvDoneUpdate
  DEF DoPatch
<1>5. CASE Restart
  BY <1>5, ResetUpdate, BootAfterGaspUpdate, BootUpdate, BootCopiedUpdate, DfwaInitUpdate,
     ElsewhereUpdate, ConfirmUpdate, StartUpdate
  DEF Restart
<1>6. CASE Outside
  BY <1>6, PowerLossUpdate, BootFailedUpdate, ElsewhereUpdate DEF Outside
<1>. QED
  BY <1>1, <1>2, <1>3, <1>4, <1>5, <1>6, SaveUpdate DEF Next

\* Whenever the tasks run, the code and the layout of the NV data are both of the
\* old version or both of the new one, wherever power failed, except in the four
\* phases named and in a second gasp after a loss between the order and the file.
THEOREM FirmwareAlwaysFits ==
  ASSUME Overlap = {}, "erase" \notin CrashPhases, "abort" \notin CrashPhases,
         "copyRest" \notin CrashPhases, "copied" \notin CrashPhases,
         MaxGasps <= 1 \/ "swapSave" \notin CrashPhases
  PROVE  Spec => []FirmwareFitsNv
<1>1. Init => Inv /\ Update
  BY InitInv, UpdateInit
<1>2. Inv /\ Update /\ [Next]_vars => Inv' /\ Update'
  BY NextInv, NextUpdate
<1>3. Inv /\ Update => FirmwareFitsNv
  BY DEF Inv, PhaseFacts, Update, Starting, Before, Ordered, GivenUp, Swapped, Converting,
     After, Swapping, FirmwareFitsNv
<1>. QED
  BY <1>1, <1>2, <1>3, PTL DEF Spec

\* Under the same hypotheses the unit never ends in brick(): DFWA_init finds every
\* patch it goes on with whole, and the code is that of one of the two versions
\* whenever the NV data are to be converted.
THEOREM NeverBricks ==
  ASSUME Overlap = {}, "erase" \notin CrashPhases, "abort" \notin CrashPhases,
         "copyRest" \notin CrashPhases, "copied" \notin CrashPhases,
         MaxGasps <= 1 \/ "swapSave" \notin CrashPhases
  PROVE  Spec => []NeverBricked
<1>1. Init => Inv /\ Update
  BY InitInv, UpdateInit
<1>2. Inv /\ Update /\ [Next]_vars => Inv' /\ Update'
  BY NextInv, NextUpdate
<1>3. Update => NeverBricked
  BY DEF Update, Starting, NeverBricked
<1>. QED
  BY <1>1, <1>2, <1>3, PTL DEF Spec

-----------------------------------------------------------------------------
(* What is swapped in was asked for.                                         *)

AskedFor(s) == \E t \in 0 .. clock : <<s, t>> \in asked

\* A file that will be swapped in, or scheduled again, is one that was asked for.
Wanted(v) ==
  /\ v.state = "DO_FLASH_SWAP" => AskedFor(v.stream)
  /\ v.state = "EXEC_PGM_COMMANDS" /\ v.mode = "FULL_APPLY" => AskedFor(v.stream)
  /\ v.state = "WAIT_FOR_APPLY" /\ v.mode = "FULL_APPLY" => <<v.stream, v.schedule>> \in asked

\* A file of a download says whether its patch is encrypted.
Decided(v) == v.status # "NOT_INITIALIZED" => v.decrypt \in {"READY", "DECRYPTING", "DONE"}

\* The commands that wait in queue q.
In(q) == {q[i] : i \in 1 .. Len(q)}

\* Before a command that is about one download in particular only alarms wait.
Calls     == {"PREPATCH", "FULL_APPLY", "CANCEL_APPLY"}
Rings(q)  == \A x \in In(q) : x.cmd = "TIME"
Calm(q)   == \A x \in In(q) : x.cmd \notin Calls
InTurn(q) == \A i, j \in 1 .. Len(q) : i < j /\ q[j].cmd \in Calls => q[i].cmd = "TIME"

\* An alarm that rings behind an apply has not been given away since it rang.
Kept(q, a) == \A i, j \in 1 .. Len(q) :
                i < j /\ q[i].cmd = "FULL_APPLY" /\ q[j].cmd = "TIME" /\ q[j].arg \in Alarms
                  => a[q[j].arg] = Rung

\* The alarm that is set was asked for, and so was the one that rings, unless the
\* file is of no download or the alarm is about to be deleted.
AlarmAsked ==
  \/ alarmId \notin Alarms \/ nv.status = "NOT_INITIALIZED"
  \/ \E x \in In(queue) : x.cmd = "CANCEL_APPLY"
  \/ /\ alarms[alarmId] \in 1 .. LastTime => <<nv.stream, alarms[alarmId]>> \in asked
     /\ \A x \in In(queue) : x.cmd = "TIME" /\ x.arg = alarmId => AskedFor(nv.stream)

\* The commands that wait, unless a restart will empty the queue.
CommandsAsked ==
  \A x \in In(queue) :
    /\ x.cmd = "FULL_APPLY" => <<nv.stream, x.arg>> \in asked
    /\ x.cmd = "PREPATCH" => nv.status # "NOT_INITIALIZED"
    /\ x.cmd = "CANCEL_APPLY" =>
         pc = "pend" /\ nv.state = "IDLE" /\ nv.status # "NOT_INITIALIZED" /\ app.op = "none"

QueueAsks ==
  pc # "reset" => InTurn(queue) /\ Kept(queue, alarms) /\ AlarmAsked /\ CommandsAsked

\* Before DFWA_task waits for commands there are none.
Early == pc \in {"off", "gasp", "copy", "init", "start"} \/ stage = "starting"
AtRest == queue = <<>> /\ app.op = "none" /\ alarmId = 0 /\ \A a \in Alarms : alarms[a] = Free

\* What the phase tells of the files, the commands and the alarms.
Late == {"BL_SWAP", "EXEC_NV_COMMANDS", "COPY_NV_IMAGE_TO_NV"}

\* The state of a file while DFWA_task waits for commands: a patch that found no
\* buffer for its command does not run.
Waiting == Open \union {"EXEC_PGM_COMMANDS"}

PhaseAsks ==
  /\ Early => AtRest
  /\ pc \in {"off", "gasp", "copy", "init", "clear", "copyNv", "copyRest", "copied"} =>
       stage = "starting"
  /\ pc = "patch" /\ nv.state \in Late => stage = "starting"
  /\ pc = "clear" => nv.state \in {"IDLE", "EXEC_NV_COMMANDS"}
  /\ pc \in {"start", "confirm", "pend", "save", "saveRun"} => stage # "starting"
  /\ pc = "start" => \/ nv.state \in Open
                     \/ nv.state = "EXEC_PGM_COMMANDS" /\ nv.decrypt # "DECRYPTING"
  /\ pc \in {"confirm", "pend", "save"} => nv.state \in Waiting
  /\ pc = "pend" /\ nv.state \notin Open => Calm(queue)
  /\ pc = "confirm" => mine.state \in Waiting /\ (mine.state \notin Open => Calm(queue))
  /\ pc = "save" => mine.state \in Open
  /\ pc \in {"waitIdle", "swapSave"} => mine.state = "DO_FLASH_SWAP"
  /\ pc = "saveRun" => mine.state \in {"EXEC_PGM_COMMANDS", "DO_FLASH_SWAP"}
  /\ pc \in {"decrypt", "build"} => mine.state = "EXEC_PGM_COMMANDS"
  /\ pc = "confirm" => alarmId = 0 /\ (mine.status = "NOT_INITIALIZED" => nv.status = "NOT_INITIALIZED")
  /\ pc \in {"save", "saveRun"} /\ nv.status = "NOT_INITIALIZED" => mine.status = "NOT_INITIALIZED"
  /\ pc = "save" => Calm(queue)
  /\ app.op # "none" /\ app.vars.state \in Open /\ pc = "pend" => Rings(queue)

\* The two tasks keep apart.
Sticks == Stays /\ Apart

AlarmsTyped == alarms \in [Alarms -> Int] /\ alarmId \in Alarms \union {0}

Asks == /\ clock \in Times /\ asked \subseteq Streams \X Times /\ AlarmsTyped
        /\ \A v \in {nv, mine} : Wanted(v) /\ Decided(v)
        /\ Decided(nvImage.nv) /\ nvImage.nv.state \in {"IDLE", "EXEC_NV_COMMANDS"}
        /\ QueueAsks /\ PhaseAsks

\* So the copy that the DFW task will write back is of the download in the file.
LEMMA CopyFacts ==
  ASSUME Sticks, pc \in InUse
  PROVE  mine.stream = nv.stream
BY DEF Sticks, Apart, Stays, Copied

\* What is posted, ...
LEMMA PostedAsks ==
  ASSUME queue \in Seq(Command), NEW c \in Cmds, NEW n \in Int, Post(c, n)
  PROVE  /\ \E x : x.cmd = c /\ x.arg = n /\ In(queue') = In(queue) \union {x}
         /\ InTurn(queue) /\ c \notin Calls => InTurn(queue')
         /\ Rings(queue) => InTurn(queue')
         /\ Kept(queue, alarms) /\ c # "TIME" => Kept(queue', alarms)
         /\ Rings(queue) => \A a : Kept(queue', a)
<1>1. PICK x : x = [cmd |-> c, arg |-> n]
  OBVIOUS
<1>2. x \in Command /\ x.cmd = c /\ x.arg = n /\ queue' = Append(queue, x)
  BY <1>1 DEF Command, Post
<1>3. /\ queue' \in Seq(Command) /\ Len(queue) \in Nat /\ Len(queue') = Len(queue) + 1
      /\ queue'[Len(queue) + 1] = x
      /\ \A i \in 1 .. Len(queue) : queue'[i] = queue[i]
  BY <1>2
<1>4. In(queue') = In(queue) \union {x}
  BY <1>3 DEF In
<1>5. InTurn(queue) /\ c \notin Calls => InTurn(queue')
  BY <1>2, <1>3 DEF InTurn
<1>6. Rings(queue) => InTurn(queue')
  BY <1>2, <1>3 DEF InTurn, Rings, In
<1>7. Kept(queue, alarms) /\ c # "TIME" => Kept(queue', alarms)
  <2>1. ASSUME Kept(queue, alarms), c # "TIME",
               NEW i \in 1 .. Len(queue'), NEW j \in 1 .. Len(queue'), i < j,
               queue'[i].cmd = "FULL_APPLY", queue'[j].cmd = "TIME", queue'[j].arg \in Alarms
        PROVE  alarms[queue'[j].arg] = Rung
    <3>1. j # Len(queue) + 1
      BY <1>2, <1>3, <2>1
    <3>2. /\ i \in 1 .. Len(queue) /\ j \in 1 .. Len(queue)
          /\ queue'[i] = queue[i] /\ queue'[j] = queue[j]
      BY <1>3, <2>1, <3>1
    <3>. QED
      BY <2>1, <3>2 DEF Kept
  <2>. QED
    BY <2>1 DEF Kept
<1>8. Rings(queue) => \A a : Kept(queue', a)
  BY <1>2, <1>3 DEF Kept, Rings, In
<1>. QED
  BY <1>2, <1>4, <1>5, <1>6, <1>7, <1>8

\* ... and what is left when a command is taken.
LEMMA TakenAsks ==
  ASSUME queue \in Seq(Command), queue # <<>>, queue' = Tail(queue)
  PROVE  /\ Head(queue) \in In(queue) /\ Head(queue).arg \in Int /\ In(queue') \subseteq In(queue)
         /\ \A x \in In(queue) : x = Head(queue) \/ x \in In(queue')
         /\ InTurn(queue) => InTurn(queue')
         /\ Kept(queue, alarms) => Kept(queue', alarms)
         /\ InTurn(queue) /\ Head(queue).cmd # "TIME" => Calm(queue')
         /\ Kept(queue, alarms) /\ Head(queue).cmd = "FULL_APPLY" =>
              \A x \in In(queue') : x.cmd = "TIME" /\ x.arg \in Alarms => alarms[x.arg] = Rung
<1>1. /\ Len(queue) \in Nat \ {0} /\ Head(queue) = queue[1] /\ Head(queue) \in Command
      /\ Len(queue') = Len(queue) - 1
      /\ \A i \in 1 .. Len(queue) - 1 : queue'[i] = queue[i + 1]
  OBVIOUS
<1>2. Head(queue) \in In(queue) /\ Head(queue).arg \in Int /\ In(queue') \subseteq In(queue)
  BY <1>1 DEF In, Command
<1>3. \A x \in In(queue) : x = Head(queue) \/ x \in In(queue')
  <2>1. \A i \in 1 .. Len(queue) : i = 1 \/ queue[i] \in In(queue')
    <3>1. ASSUME NEW i \in 1 .. Len(queue), i # 1
          PROVE  queue[i] \in In(queue')
      <4>1. i - 1 \in 1 .. Len(queue') /\ queue'[i - 1] = queue[i]
        BY <1>1, <3>1
      <4>. QED
        BY <4>1 DEF In
    <3>. QED
      BY <3>1
  <2>. QED
    BY <1>1, <2>1 DEF In
<1>4. InTurn(queue) => InTurn(queue')
  BY <1>1 DEF InTurn
<1>5. Kept(queue, alarms) => Kept(queue', alarms)
  BY <1>1 DEF Kept
<1>6. ASSUME InTurn(queue), Head(queue).cmd # "TIME"
      PROVE  Calm(queue')
  <2>1. \A i \in 1 .. Len(queue) - 1 : queue[i + 1].cmd \notin Calls
    BY <1>1, <1>6 DEF InTurn
  <2>. QED
    BY <1>1, <2>1 DEF Calm, In
<1>7. ASSUME Kept(queue, alarms), Head(queue).cmd = "FULL_APPLY"
      PROVE  \A x \in In(queue') : x.cmd = "TIME" /\ x.arg \in Alarms => alarms[x.arg] = Rung
  <2>1. \A i \in 1 .. Len(queue) - 1 : queue[i + 1].cmd = "TIME" /\ queue[i + 1].arg \in Alarms
                                         => alarms[queue[i + 1].arg] = Rung
    BY <1>1, <1>7 DEF Kept
  <2>. QED
    BY <1>1, <2>1 DEF In
<1>. QED
  BY <1>2, <1>3, <1>4, <1>5, <1>6, <1>7

\* No apply waits in a calm queue.
LEMMA CalmIsKept ==
  ASSUME NEW q, NEW a, Calm(q)
  PROVE  Kept(q, a) /\ \A x \in In(q) : x.cmd \notin {"FULL_APPLY", "PREPATCH", "CANCEL_APPLY"}
BY DEF Calm, Kept, In, Calls

\* After a restart there is nothing to ask of the commands.
LEMMA RestAsks ==
  ASSUME queue' = <<>>, alarmId' = 0
  PROVE  QueueAsks'
<1>1. In(queue') = {} /\ InTurn(queue') /\ Kept(queue', alarms')
  BY DEF In, InTurn, Kept
<1>2. AlarmAsked'
  BY DEF AlarmAsked, Alarms
<1>. QED
  BY <1>1, <1>2 DEF QueueAsks, CommandsAsked

\* What was asked for stays so.
LEMMA WantedKept ==
  ASSUME NEW v, Wanted(v), clock \in Times, clock' \in Times, clock' >= clock,
         asked \subseteq asked'
  PROVE  Wanted(v)' /\ \A s : AskedFor(s) => AskedFor(s)'
BY DEF Wanted, AskedFor, Times

\* A file that will not be swapped in need not be asked for.
LEMMA NothingWanted ==
  ASSUME NEW v, \/ v.state \in {"IDLE"} \union Late
                \/ v.mode = "DO_NOTHING" /\ v.state = "WAIT_FOR_APPLY"
  PROVE  Wanted(v)
BY DEF Wanted, Late

\* What a handler that read an open file knows.
LEMMA OpenAsks ==
  ASSUME Inv, Asks, app.op # "none", app.vars.state \in Open
  PROVE  /\ app.vars = nv /\ Sane(nv) /\ pc \in {"pend", "reset"} /\ mine = Blank
         /\ pc = "pend" => Rings(queue)
BY OpenFacts DEF Inv, Handler, PhaseFacts, Asks, PhaseAsks

\* What a handler may do when it ends.
LEMMA HandledAsks ==
  ASSUME Inv, Asks, NEW op, op # "none", Handling(op), app' = NoHandler,
         \/ nv' = nv /\ asked \subseteq asked'
         \/ app.vars.state \in Open /\ nv'.state = "IDLE" /\ Decided(nv'),
         asked' \subseteq Streams \X Times,
         pc # "reset" => InTurn(queue') /\ Kept(queue', alarms) /\ AlarmAsked' /\ CommandsAsked',
         pc = "pend" /\ nv'.state \notin Open => Calm(queue')
  PROVE  Asks'
<1>1. /\ UNCHANGED <<nvImage, clock, stage, pc, mine, alarms, alarmId>>
      /\ app.op # "none" /\ app'.op = "none" /\ AlarmsTyped' /\ pc \notin {"save", "confirm"}
  BY DEF Handling, Quiet, Inv, flash, world, ram, NoHandler, Asks, AlarmsTyped
<1>2. \A v \in {nv', mine'} : Wanted(v)' /\ Decided(v)
  <2>1. CASE nv' = nv /\ asked \subseteq asked'
    BY <1>1, <2>1, WantedKept DEF Asks, Times
  <2>2. CASE app.vars.state \in Open /\ nv'.state = "IDLE" /\ Decided(nv')
    <3>1. mine' = Blank
      BY <1>1, <2>2, OpenAsks
    <3>. QED
      BY <2>2, <3>1, BlankFacts DEF Wanted, Decided
  <2>. QED
    BY <2>1, <2>2
<1>3. QueueAsks'
  BY <1>1 DEF QueueAsks
<1>4. PhaseAsks'
  <2>1. ~ Early
    BY <1>1 DEF Asks, PhaseAsks, AtRest
  <2>2. CASE nv' = nv
    BY <1>1, <2>1, <2>2 DEF Asks, PhaseAsks, Early
  <2>3. CASE app.vars.state \in Open /\ nv'.state = "IDLE"
    <3>1. pc \in {"pend", "reset"}
      BY <1>1, <2>3, OpenAsks
    <3>. QED
      BY <1>1, <2>1, <2>3, <3>1 DEF Asks, PhaseAsks, Early, Open, Waiting
  <2>. QED
    BY <2>2, <2>3
<1>. QED
  BY <1>1, <1>2, <1>3, <1>4 DEF Asks

\* A handler begins.
LEMMA HandleAsks ==
  ASSUME Inv, Asks, NEW op, Handle(op),
         op \in {"init", "packet", "cancel", "verify", "apply"}
  PROVE  Asks'
<1>1. /\ UNCHANGED <<nv, nvImage, clock, stage, pc, mine, alarms, alarmId, queue, asked>>
      /\ stage = "ready" /\ Quiet(pc) /\ (pc = "pend" => queue = <<>>) /\ app.op = "none"
      /\ pc # "confirm"
  BY DEF Handle, Inv, Quiet, flash, world, ram, history
<1>2. /\ pc = "pend" => In(queue) = {}
      /\ ~ Early
  BY <1>1 DEF In, Early, Quiet, Inv
<1>3. \A v \in {nv', mine'} : Wanted(v)' /\ Decided(v)
  BY <1>1, WantedKept DEF Asks, Times
<1>4. QueueAsks'
  <2>1. AlarmAsked => AlarmAsked'
    BY <1>1 DEF AlarmAsked, AskedFor
  <2>. QED
    BY <1>1, <1>2, <2>1 DEF Asks, QueueAsks, CommandsAsked
<1>5. PhaseAsks'
  BY <1>1, <1>2 DEF Asks, PhaseAsks, Early, Rings
<1>. QED
  BY <1>1, <1>3, <1>4, <1>5 DEF Asks, AlarmsTyped

\* A handler that leaves the file, the commands and what was asked for.
LEMMA IdlyHandledAsks ==
  ASSUME Inv, Asks, NEW op, op # "none", Handling(op), app' = NoHandler,
         UNCHANGED <<nv, queue, asked>>
  PROVE  Asks'
<1>1. UNCHANGED <<pc, alarms, alarmId, clock>>
  BY DEF Handling, world, ram
<1>2. pc # "reset" => InTurn(queue') /\ Kept(queue', alarms) /\ AlarmAsked' /\ CommandsAsked'
  BY <1>1 DEF Asks, QueueAsks, AlarmAsked, AskedFor, CommandsAsked, NoHandler
<1>3. (pc = "pend" /\ nv'.state \notin Open => Calm(queue')) /\ asked' \subseteq Streams \X Times
  BY DEF Asks, PhaseAsks
<1>. QED
  BY <1>2, <1>3, HandledAsks

\* A handler that drops the download it read.
LEMMA DroppedAsks ==
  ASSUME Inv, Asks, NEW op, op # "none", Handling(op), app' = NoHandler,
         app.vars.state \in Open, nv'.status = "NOT_INITIALIZED", nv'.state = "IDLE",
         queue' = queue, asked' = {} \/ asked' = asked
  PROVE  Asks'
<1>1. UNCHANGED <<pc, alarms, alarmId, clock>> /\ app.op # "none"
  BY DEF Handling, world, ram
<1>2. pc \in {"pend", "reset"} /\ (pc = "pend" => Rings(queue))
  BY <1>1, OpenAsks
<1>3. pc # "reset" => InTurn(queue') /\ Kept(queue', alarms) /\ AlarmAsked' /\ CommandsAsked'
  BY <1>1, <1>2 DEF Asks, QueueAsks, AlarmAsked, CommandsAsked, Rings
<1>4. Decided(nv') /\ asked' \subseteq Streams \X Times /\ nv'.state \in Open
  BY <1>2 DEF Decided, Asks, Open
<1>. QED
  BY <1>3, <1>4, HandledAsks

\* The handlers of the head end's messages.
LEMMA DownloadInitAsks ==
  ASSUME Inv, Asks, NEW s \in Streams, DownloadInit(s)
  PROVE  Asks'
<1>1. Handling("init") /\ UNCHANGED <<nv, queue, asked>>
  BY DEF DownloadInit, history
<1>2. CASE app' = NoHandler
  BY <1>1, <1>2, IdlyHandledAsks
<1>3. CASE app' # NoHandler
  <2>1. /\ app' = [app EXCEPT !.op = "initSave", !.stream = s] /\ app.op = "init"
        /\ UNCHANGED <<nvImage, clock, stage, pc, mine, alarms, alarmId>>
    BY <1>1, <1>3 DEF DownloadInit, Handling, flash, world, ram
  <2>2. app'.op = "initSave" /\ app'.vars = app.vars
    BY <2>1 DEF Inv, Handler
  <2>3. \A v \in {nv', mine'} : Wanted(v)' /\ Decided(v)
    BY <1>1, <2>1, WantedKept DEF Asks, Times
  <2>4. QueueAsks'
    BY <1>1, <2>1 DEF Asks, QueueAsks, AlarmAsked, AskedFor, CommandsAsked
  <2>5. PhaseAsks'
    BY <1>1, <2>1, <2>2 DEF Asks, PhaseAsks, Early, AtRest
  <2>. QED
    BY <1>1, <2>1, <2>3, <2>4, <2>5 DEF Asks, AlarmsTyped
<1>. QED
  BY <1>2, <1>3

\* The apply that was asked for is going to be cancelled.
LEMMA DownloadInitSaveAsks ==
  ASSUME "init" \notin Shortages, Inv, Asks, DownloadInitSave
  PROVE  Asks'
<1>1. /\ Handling("initSave") /\ app' = NoHandler /\ Post("CANCEL_APPLY", 0) /\ asked' = {}
      /\ UNCHANGED <<pc, alarms, alarmId>>
  BY DEF DownloadInitSave, Short, Handling, world, ram
<1>2. app.vars.state \in Open /\ app.op # "none" /\ queue \in Seq(Command)
  BY <1>1 DEF Handling, Inv, Handler, Orders
<1>3. app.vars = nv /\ Sane(nv) /\ pc \in {"pend", "reset"} /\ (pc = "pend" => Rings(queue))
  BY <1>2, OpenAsks
<1>4. nv'.state = "IDLE" /\ nv'.status = "INCOMPLETE" /\ nv'.decrypt \in {"READY", "DONE"}
  BY <1>3 DEF DownloadInitSave, Sane, IsFile
<1>5. /\ \E x : x.cmd = "CANCEL_APPLY" /\ In(queue') = In(queue) \union {x}
      /\ Rings(queue) => InTurn(queue') /\ Kept(queue', alarms)
  <2>1. "CANCEL_APPLY" \in Cmds /\ 0 \in Int
    BY DEF Cmds
  <2>. QED
    BY <1>1, <1>2, <2>1, PostedAsks
<1>6. pc # "reset" => InTurn(queue') /\ Kept(queue', alarms) /\ AlarmAsked' /\ CommandsAsked'
  BY <1>1, <1>3, <1>4, <1>5 DEF AlarmAsked, CommandsAsked, NoHandler, Rings
<1>. QED
  BY <1>1, <1>2, <1>3, <1>4, <1>6, HandledAsks DEF Decided, Open

LEMMA DownloadPacketAsks ==
  ASSUME Inv, Asks, NEW s \in Streams, NEW p \in Packets, NEW differs \in BOOLEAN,
         DownloadPacket(s, p, differs)
  PROVE  Asks'
<1>1. /\ Handling("packet") /\ app' = NoHandler /\ UNCHANGED <<pc, alarms, alarmId, clock>>
  BY DEF DownloadPacket, Handling, world, ram
<1>2. CASE UNCHANGED <<nv, queue, asked>>
  BY <1>1, <1>2, IdlyHandledAsks
<1>3. CASE ~ UNCHANGED <<nv, queue, asked>>
  <2>1. app.vars.state = "IDLE" /\ app.vars.status # "NOT_INITIALIZED" /\ app.op # "none"
    BY <1>1, <1>3 DEF DownloadPacket, Incomplete, Handling, history
  <2>2. /\ app.vars = nv /\ Sane(nv) /\ app.vars.state \in Open /\ queue \in Seq(Command)
        /\ pc \in {"pend", "reset"} /\ (pc = "pend" => Rings(queue))
    BY <2>1, OpenAsks DEF Open, Inv, Orders
  <2>3. \/ /\ nv' = [nv EXCEPT !.status = "NOT_INITIALIZED", !.error = TRUE]
           /\ asked' = {} /\ queue' = queue
        \/ nv' = nv /\ asked' = asked /\ Post("PREPATCH", 0)
        \/ nv' = [nv EXCEPT !.status = "INCOMPLETE"] /\ asked' = asked /\ queue' = queue
    BY <1>3, <2>1, <2>2 DEF DownloadPacket, Incomplete, Short, Forget, history
  <2>4. CASE /\ nv' = [nv EXCEPT !.status = "NOT_INITIALIZED", !.error = TRUE]
             /\ asked' = {} /\ queue' = queue
    <3>1. nv'.status = "NOT_INITIALIZED" /\ nv'.state = "IDLE"
      BY <2>1, <2>2, <2>4 DEF Sane, IsFile
    <3>. QED
      BY <1>1, <2>2, <2>4, <3>1, DroppedAsks
  <2>5. CASE nv' = nv /\ asked' = asked /\ Post("PREPATCH", 0)
    <3>1. /\ \E x : x.cmd = "PREPATCH" /\ In(queue') = In(queue) \union {x}
          /\ Rings(queue) => InTurn(queue') /\ Kept(queue', alarms)
      <4>1. "PREPATCH" \in Cmds /\ 0 \in Int
        BY DEF Cmds
      <4>. QED
        BY <2>2, <2>5, <4>1, PostedAsks
    <3>2. pc # "reset" => InTurn(queue') /\ Kept(queue', alarms) /\ AlarmAsked' /\ CommandsAsked'
      BY <1>1, <2>1, <2>2, <2>5, <3>1
      DEF Asks, QueueAsks, AlarmAsked, AskedFor, CommandsAsked, NoHandler
    <3>3. asked' \subseteq Streams \X Times /\ nv'.state \in Open /\ asked \subseteq asked'
      BY <2>2, <2>5 DEF Asks
    <3>. QED
      BY <1>1, <2>5, <3>2, <3>3, HandledAsks
  <2>6. CASE nv' = [nv EXCEPT !.status = "INCOMPLETE"] /\ asked' = asked /\ queue' = queue
    <3>1. /\ nv'.status = "INCOMPLETE" /\ nv'.state = "IDLE" /\ nv'.stream = nv.stream
          /\ nv'.decrypt = nv.decrypt /\ asked' = asked /\ queue' = queue
      BY <2>1, <2>2, <2>6 DEF Sane, IsFile
    <3>2. pc # "reset" => InTurn(queue') /\ Kept(queue', alarms) /\ AlarmAsked' /\ CommandsAsked'
      BY <1>1, <2>1, <2>2, <3>1
      DEF Asks, QueueAsks, AlarmAsked, AskedFor, CommandsAsked, NoHandler
    <3>3. asked' \subseteq Streams \X Times /\ nv'.state \in Open /\ Decided(nv')
      BY <2>1, <2>2, <3>1 DEF Asks, Decided, Open
    <3>. QED
      BY <1>1, <2>2, <3>1, <3>2, <3>3, HandledAsks
  <2>. QED
    BY <2>3, <2>4, <2>5, <2>6
<1>. QED
  BY <1>2, <1>3

LEMMA DownloadCancelAsks ==
  ASSUME Inv, Asks, NEW s \in Streams, DownloadCancel(s)
  PROVE  Asks'
<1>1. /\ Handling("cancel") /\ app' = NoHandler /\ UNCHANGED <<nv, asked>>
      /\ UNCHANGED <<pc, alarms, alarmId, clock>> /\ queue \in Seq(Command)
      /\ queue' = queue \/ Post("CANCEL", 0)
  BY DEF DownloadCancel, Short, Handling, world, ram, Inv, Orders
<1>2. CASE queue' = queue
  BY <1>1, <1>2, IdlyHandledAsks
<1>3. CASE Post("CANCEL", 0)
  <2>1. /\ \E x : x.cmd = "CANCEL" /\ In(queue') = In(queue) \union {x}
        /\ InTurn(queue) => InTurn(queue')
        /\ Kept(queue, alarms) => Kept(queue', alarms)
    <3>1. "CANCEL" \in Cmds /\ 0 \in Int /\ "CANCEL" \notin Calls
      BY DEF Cmds, Calls
    <3>. HIDE DEF Cmds, Calls
    <3>. QED
      BY <1>1, <1>3, <3>1, PostedAsks
  <2>2. pc # "reset" => InTurn(queue') /\ Kept(queue', alarms) /\ AlarmAsked' /\ CommandsAsked'
    BY <1>1, <2>1 DEF Asks, QueueAsks, AlarmAsked, AskedFor, CommandsAsked, NoHandler
  <2>3. /\ pc = "pend" /\ nv'.state \notin Open => Calm(queue')
        /\ asked' \subseteq Streams \X Times
    BY <1>1, <2>1 DEF Asks, PhaseAsks, Calm, Calls
  <2>. QED
    BY <1>1, <2>2, <2>3, HandledAsks
<1>. QED
  BY <1>1, <1>2, <1>3

LEMMA DownloadVerifyAsks ==
  ASSUME Inv, Asks, DownloadVerify
  PROVE  Asks'
<1>1. /\ Handling("verify") /\ app' = NoHandler /\ queue' = queue /\ app.op # "none"
      /\ \/ nv' = nv /\ asked' = asked
         \/ app.vars.state \in Open /\ nv' = SetExpired(app.vars) /\ asked' = {}
  BY DEF DownloadVerify, Handling, Forget, history
<1>2. CASE nv' = nv /\ asked' = asked
  BY <1>1, <1>2, IdlyHandledAsks
<1>3. CASE app.vars.state \in Open /\ nv' = SetExpired(app.vars) /\ asked' = {}
  <2>1. nv'.status = "NOT_INITIALIZED" /\ nv'.state = "IDLE"
    BY <1>1, <1>3, OpenAsks DEF SetExpired, Sane, IsFile
  <2>. QED
    BY <1>1, <1>3, <2>1, DroppedAsks
<1>. QED
  BY <1>1, <1>2, <1>3

\* An apply that is accepted is asked for.
LEMMA DownloadApplyAsks ==
  ASSUME Inv, Asks, NEW s \in Streams, NEW t \in Times, DownloadApply(s, t)
  PROVE  Asks'
<1>1. /\ Handling("apply") /\ app' = NoHandler /\ app.op # "none"
      /\ UNCHANGED <<pc, alarms, alarmId, clock>> /\ queue \in Seq(Command)
  BY DEF DownloadApply, Handling, world, ram, Inv, Orders
<1>2. \/ UNCHANGED <<nv, queue, asked>>
      \/ /\ app.vars.state \in Open /\ nv' = SetExpired(app.vars) /\ UNCHANGED <<queue, asked>>
      \/ /\ app.vars.state \in Open /\ app.vars.stream = s /\ nv' = nv
         /\ app.vars.status # "NOT_INITIALIZED"
         /\ asked' = asked \union {<<s, t>>} /\ Post("FULL_APPLY", t)
  BY <1>1 DEF DownloadApply, Apply, Accepts, Applicable, Short, Post
<1>3. CASE UNCHANGED <<nv, queue, asked>>
  BY <1>1, <1>3, IdlyHandledAsks
<1>4. CASE app.vars.state \in Open /\ nv' = SetExpired(app.vars) /\ UNCHANGED <<queue, asked>>
  <2>1. nv'.status = "NOT_INITIALIZED" /\ nv'.state = "IDLE"
    BY <1>1, <1>4, OpenAsks DEF SetExpired, Sane, IsFile
  <2>. QED
    BY <1>1, <1>4, <2>1, DroppedAsks
<1>5. CASE /\ app.vars.state \in Open /\ app.vars.stream = s /\ nv' = nv
           /\ app.vars.status # "NOT_INITIALIZED"
           /\ asked' = asked \union {<<s, t>>} /\ Post("FULL_APPLY", t)
  <2>1. app.vars = nv /\ pc \in {"pend", "reset"} /\ (pc = "pend" => Rings(queue))
    BY <1>1, <1>5, OpenAsks
  <2>2. /\ \E x : x.cmd = "FULL_APPLY" /\ x.arg = t /\ In(queue') = In(queue) \union {x}
        /\ Rings(queue) => InTurn(queue') /\ Kept(queue', alarms)
    <3>1. "FULL_APPLY" \in Cmds /\ t \in Int
      BY DEF Cmds, Times
    <3>. QED
      BY <1>1, <1>5, <3>1, PostedAsks
  <2>3. pc # "reset" => InTurn(queue') /\ Kept(queue', alarms) /\ AlarmAsked' /\ CommandsAsked'
    BY <1>1, <1>5, <2>1, <2>2
    DEF Asks, QueueAsks, AlarmAsked, AskedFor, CommandsAsked, NoHandler, Rings
  <2>4. asked \subseteq asked' /\ asked' \subseteq Streams \X Times /\ nv'.state \in Open
    BY <1>5, <2>1 DEF Asks
  <2>. QED
    BY <1>1, <1>5, <2>3, <2>4, HandledAsks
<1>. QED
  BY <1>2, <1>3, <1>4, <1>5

\* What a command finds when it is taken.
LEMMA DequeueAsks ==
  ASSUME Inv, Asks, NEW c, Dequeue(c)
  PROVE  /\ pc = "pend" /\ app.op = "none" /\ Sane(nv) /\ nv.state \in Waiting
         /\ c \in Calls => nv.state \in Open
         /\ nv.state \notin Open => Calm(queue')
         /\ stage # "starting" /\ Wanted(nv) /\ Decided(nv)
         /\ UNCHANGED <<nv, nvImage, stage, app, clock>>
         /\ Head(queue) \in In(queue) /\ Head(queue).cmd = c /\ Head(queue).arg \in Int
         /\ In(queue') \subseteq In(queue)
         /\ \A x \in In(queue) : x.cmd = c \/ x \in In(queue')
         /\ InTurn(queue') /\ Kept(queue', alarms) /\ (c # "TIME" => Calm(queue'))
         /\ c = "FULL_APPLY" =>
              \A x \in In(queue') : x.cmd = "TIME" /\ x.arg \in Alarms => alarms[x.arg] = Rung
         /\ AlarmAsked /\ CommandsAsked
<1>1. /\ queue \in Seq(Command) /\ queue # <<>> /\ queue' = Tail(queue) /\ Head(queue).cmd = c
      /\ pc = "pend" /\ app.op = "none" /\ UNCHANGED <<nv, nvImage, stage, app, clock>>
  BY DEF Inv, Orders, Dequeue, flash, world
<1>2. /\ nv.state \in Waiting /\ (nv.state \notin Open => Calm(queue)) /\ Sane(nv)
      /\ stage # "starting" /\ Wanted(nv) /\ Decided(nv)
  BY <1>1 DEF Inv, Files, Asks, PhaseAsks
<1>3. AlarmAsked /\ CommandsAsked /\ InTurn(queue) /\ Kept(queue, alarms)
  BY <1>1 DEF Asks, QueueAsks
<1>4. Head(queue) \in In(queue) /\ In(queue') \subseteq In(queue)
  BY <1>1, TakenAsks
<1>5. (c \in Calls => nv.state \in Open) /\ (nv.state \notin Open => Calm(queue'))
  BY <1>1, <1>2, <1>4 DEF Calm
<1>. QED
  BY <1>1, <1>2, <1>3, <1>5, TakenAsks

\* What a command may make of the copy of the DFW task.
LEMMA CommandAsks ==
  ASSUME Inv, Asks, NEW c, Dequeue(c), UNCHANGED asked, AlarmsTyped',
         \/ pc' = "pend" /\ mine' = Blank
         \/ /\ pc' \in {"save", "saveRun"} /\ Wanted(mine') /\ Decided(mine')
            /\ nv.status = "NOT_INITIALIZED" => mine'.status = "NOT_INITIALIZED"
            /\ pc' = "save" => c # "TIME" /\ mine'.state \in Open
            /\ pc' = "saveRun" => mine'.state \in {"EXEC_PGM_COMMANDS", "DO_FLASH_SWAP"}
            /\ c # "TIME" \/ nv.state # "IDLE",
         Kept(queue', alarms'), AlarmAsked'
  PROVE  Asks'
<1>. USE DequeueAsks
<1>1. \A v \in {nv', mine'} : Wanted(v)' /\ Decided(v)
  <2>1. Wanted(Blank) /\ Decided(Blank)
    BY BlankFacts DEF Wanted, Decided
  <2>. QED
    BY <2>1, WantedKept DEF Asks, Times
<1>2. QueueAsks'
  <2>1. CommandsAsked'
    <3>1. \A x \in In(queue') : x.cmd # "CANCEL_APPLY" \/ pc' = "pend"
      BY DEF CommandsAsked, Calm, Calls
    <3>. QED
      BY <3>1 DEF CommandsAsked
  <2>. QED
    BY <2>1 DEF QueueAsks
<1>3. PhaseAsks'
  BY DEF PhaseAsks, Early, AtRest
<1>. QED
  BY <1>1, <1>2, <1>3 DEF Asks

\* The alarm stays when another command is taken.
LEMMA AlarmStays ==
  ASSUME Inv, Asks, NEW c, Dequeue(c), c # "CANCEL_APPLY", UNCHANGED <<alarms, alarmId, asked>>
  PROVE  AlarmAsked' /\ Kept(queue', alarms') /\ AlarmsTyped'
<1>1. AlarmAsked'
  BY DequeueAsks DEF AlarmAsked, AskedFor
<1>. QED
  BY <1>1, DequeueAsks DEF Asks, AlarmsTyped

\* The alarm is deleted: what rings afterwards is not taken for it.
LEMMA AlarmDeleted ==
  ASSUME Inv, Asks, NEW c, Dequeue(c), c # "TIME", DeleteAlarm
  PROVE  AlarmAsked' /\ Kept(queue', alarms') /\ AlarmsTyped'
<1>1. AlarmAsked'
  BY DEF AlarmAsked, DeleteAlarm, Alarms
<1>2. Kept(queue', alarms')
  BY DequeueAsks, CalmIsKept
<1>3. AlarmsTyped'
  BY DEF Asks, AlarmsTyped, DeleteAlarm, Free
<1>. QED
  BY <1>1, <1>2, <1>3

\* The alarm that rings was set for an apply that was asked for.
LEMMA AlarmMessageAsks ==
  ASSUME Inv, Asks, AlarmMessage
  PROVE  Asks'
<1>1. Dequeue("TIME") /\ UNCHANGED <<alarms, alarmId, asked>>
  BY DEF AlarmMessage, ram, history
<1>2. AlarmAsked' /\ Kept(queue', alarms') /\ AlarmsTyped'
  BY <1>1, AlarmStays
<1>3. CASE pc' = "pend" /\ mine' = Blank
  BY <1>1, <1>2, <1>3, CommandAsks
<1>4. CASE ~ (pc' = "pend" /\ mine' = Blank)
  <2>1. /\ Head(queue).arg = alarmId /\ alarmId # 0 /\ nv.state = "WAIT_FOR_APPLY"
        /\ pc' = "saveRun" /\ mine' = [nv EXCEPT !.state = "DO_FLASH_SWAP"]
    BY <1>4 DEF AlarmMessage, IsAlarm, GoOnWith, Rejected
  <2>2. /\ mine'.state = "DO_FLASH_SWAP" /\ mine'.status = nv.status /\ nv.status = "COMPLETE"
        /\ mine'.stream = nv.stream /\ mine'.decrypt = nv.decrypt
    BY <1>1, <2>1, DequeueAsks DEF Sane, IsFile
  <2>3. AskedFor(nv.stream)
    <3>1. \A x \in In(queue) : x.cmd # "CANCEL_APPLY"
      BY <1>1, <2>1, DequeueAsks DEF CommandsAsked
    <3>2. alarmId \in Alarms
      BY <2>1 DEF Asks, AlarmsTyped
    <3>. QED
      BY <1>1, <2>1, <2>2, <3>1, <3>2, DequeueAsks DEF AlarmAsked
  <2>4. Wanted(mine') /\ Decided(mine')
    BY <1>1, <2>2, <2>3, DequeueAsks DEF Wanted, Decided
  <2>. QED
    BY <1>1, <1>2, <2>1, <2>2, <2>4, CommandAsks
<1>. QED
  BY <1>3, <1>4

\* The interrupted patch was decided on when it was declared complete.
LEMMA PrepatchAsks ==
  ASSUME Inv, Asks, Prepatch
  PROVE  Asks'
<1>1. Dequeue("PREPATCH") /\ UNCHANGED <<alarms, alarmId, asked>>
  BY DEF Prepatch, history
<1>2. AlarmAsked' /\ Kept(queue', alarms') /\ AlarmsTyped'
  BY <1>1, AlarmStays
<1>3. nv.status # "NOT_INITIALIZED"
  BY <1>1, DequeueAsks DEF CommandsAsked
<1>4. CASE pc' = "pend" /\ mine' = Blank
  BY <1>1, <1>2, <1>4, CommandAsks
<1>5. CASE ~ (pc' = "pend" /\ mine' = Blank)
  <2>1. /\ pc' = "saveRun"
        /\ mine' = [nv EXCEPT !.status = "COMPLETE", !.state = "EXEC_PGM_COMMANDS",
                              !.mode = "PREPATCH", !.error = FALSE]
    BY <1>5 DEF Prepatch, GoOnWith, Rejected
  <2>2. /\ mine'.state = "EXEC_PGM_COMMANDS" /\ mine'.mode = "PREPATCH"
        /\ mine'.decrypt = nv.decrypt
    BY <1>1, <2>1, DequeueAsks DEF Sane, IsFile
  <2>3. Wanted(mine') /\ Decided(mine')
    BY <1>1, <1>3, <2>2, DequeueAsks DEF Wanted, Decided
  <2>. QED
    BY <1>1, <1>2, <1>3, <2>1, <2>2, <2>3, CommandAsks
<1>. QED
  BY <1>4, <1>5

\* An apply that is taken was asked for; it runs, or the alarm is set for it.
LEMMA FullApplyAsks ==
  ASSUME Inv, Asks, FullApply
  PROVE  Asks'
<1>. DEFINE t    == Head(queue).arg
            v    == [nv EXCEPT !.schedule = t, !.mode = "FULL_APPLY"]
            w    == [v EXCEPT !.state =
                       IF nv.state = "IDLE" THEN "EXEC_PGM_COMMANDS" ELSE "DO_FLASH_SWAP"]
            free == {a \in Alarms : alarms[a] = Free}
            id   == IF free = {} THEN 0 ELSE CHOOSE a \in free : \A b \in free : a <= b
<1>1. Dequeue("FULL_APPLY") /\ asked' = asked /\ Sane(nv)
  BY DequeueAsks DEF FullApply, history
<1>2. <<nv.stream, t>> \in asked /\ t \in Times /\ nv.state \in Open
  BY <1>1, DequeueAsks DEF CommandsAsked, Asks, Calls
<1>3. /\ v.state = nv.state /\ v.status = nv.status /\ v.stream = nv.stream
      /\ v.schedule = t /\ v.decrypt = nv.decrypt
      /\ w.state = IF nv.state = "IDLE" THEN "EXEC_PGM_COMMANDS" ELSE "DO_FLASH_SWAP"
      /\ w.status = nv.status /\ w.stream = nv.stream /\ w.decrypt = nv.decrypt
  BY <1>1 DEF Sane, IsFile
<1>. HIDE DEF v, w
<1>4. CASE t <= clock
  <2>1. /\ UNCHANGED <<alarms, alarmId>>
        /\ \/ pc' = "pend" /\ mine' = Blank
           \/ pc' = "saveRun" /\ mine' = w /\ nv.status = "COMPLETE" /\ nv.state \in Open
    BY <1>4 DEF FullApply, Due, GoOnWith, Rejected, v, w
  <2>2. AlarmAsked' /\ Kept(queue', alarms') /\ AlarmsTyped'
    BY <1>1, <2>1, AlarmStays
  <2>3. Wanted(w) /\ Decided(w)
    <3>1. t \in 0 .. clock
      BY <1>2, <1>4 DEF Asks, Times
    <3>2. AskedFor(nv.stream)
      BY <1>2, <3>1 DEF AskedFor
    <3>. QED
      BY <1>1, <1>3, <3>2, DequeueAsks DEF Wanted, Decided
  <2>. HIDE DEF t
  <2>. QED
    BY <1>1, <1>3, <2>1, <2>2, <2>3, CommandAsks
<1>5. CASE ~ (t <= clock)
  <2>1. /\ pc' = "save" /\ mine' = v /\ alarmId' = id
        /\ alarms' = IF id = 0 THEN alarms ELSE [alarms EXCEPT ![id] = t]
    BY <1>5 DEF FullApply, Due, GoOnWith, v
  <2>2. id = 0 \/ (id \in Alarms /\ alarms[id] = Free)
    <3>1. CASE free # {}
      <4>1. free \in SUBSET Nat
        BY DEF Alarms
      <4>2. \E a \in free : \A b \in free : a <= b
        <5>. HIDE DEF free
        <5>. QED
          BY <3>1, <4>1, Least
      <4>3. id \in free
        <5>. HIDE DEF free
        <5>. QED
          BY <3>1, <4>2
      <4>. QED
        BY <4>3
    <3>. QED
      BY <3>1
  <2>. HIDE DEF id
  <2>3. AlarmsTyped' /\ (id # 0 => alarms'[id] = t) /\ t \in Int
    BY <1>2, <2>1, <2>2 DEF Asks, AlarmsTyped, Times
  <2>4. id # 0 => \A x \in In(queue') : x.cmd = "TIME" => x.arg # id
    BY <1>1, <2>2, DequeueAsks, BoundsAssumption DEF Rung, Free, Alarms
  <2>5. nv' = nv
    BY <1>1, DequeueAsks
  <2>6. AlarmAsked'
    BY <1>1, <1>2, <2>1, <2>2, <2>3, <2>4, <2>5 DEF AlarmAsked, Alarms
  <2>7. Kept(queue', alarms')
    BY <1>1, DequeueAsks, CalmIsKept
  <2>8. Wanted(v) /\ Decided(v)
    BY <1>1, <1>2, <1>3, DequeueAsks DEF Wanted, Decided, Open
  <2>. HIDE DEF t
  <2>. QED
    BY <1>1, <1>2, <1>3, <2>1, <2>3, <2>6, <2>7, <2>8, DequeueAsks, CommandAsks
<1>. QED
  BY <1>4, <1>5

LEMMA CancelAsks ==
  ASSUME Inv, Asks, Cancel
  PROVE  Asks'
<1>1. Dequeue("CANCEL") /\ asked' = asked /\ Sane(nv)
  BY DequeueAsks DEF Cancel, history
<1>2. CASE nv.status # "NOT_INITIALIZED"
  <2>1. pc' = "save" /\ mine' = IdleWithoutReport(nv) /\ DeleteAlarm
    BY <1>2 DEF Cancel, GoOnWith
  <2>2. mine'.status = "NOT_INITIALIZED" /\ mine'.state = "IDLE"
    BY <1>1, <2>1 DEF Sane, IsFile, IdleWithoutReport
  <2>3. Wanted(mine') /\ Decided(mine')
    BY <2>2 DEF Wanted, Decided
  <2>. QED
    BY <1>1, <2>1, <2>2, <2>3, AlarmDeleted, CommandAsks DEF Open
<1>3. CASE nv.status = "NOT_INITIALIZED"
  <2>1. pc' = "pend" /\ mine' = Blank /\ UNCHANGED <<alarms, alarmId>>
    BY <1>3 DEF Cancel, GoOnWith, Rejected
  <2>. QED
    BY <1>1, <2>1, AlarmStays, CommandAsks
<1>. QED
  BY <1>2, <1>3

LEMMA CancelApplyAsks ==
  ASSUME Inv, Asks, CancelApply
  PROVE  Asks'
<1>1. Dequeue("CANCEL_APPLY") /\ asked' = asked /\ pc' = "pend" /\ mine' = Blank
  BY DEF CancelApply, GoOnWith, Rejected, history
<1>2. DeleteAlarm
  BY <1>1, DequeueAsks DEF CancelApply, CommandsAsked
<1>. QED
  BY <1>1, <1>2, AlarmDeleted, CommandAsks

\* What is given up is not asked for any more.
LEMMA SaveAsks ==
  ASSUME Inv, Sticks, Asks, Save
  PROVE  Asks'
<1>1. /\ pc \in {"save", "saveRun"} /\ nv' = mine /\ mine' = Blank
      /\ pc' = IF pc = "save" THEN "pend" ELSE "patch"
      /\ asked' = IF mine.status = "NOT_INITIALIZED" THEN {} ELSE asked
      /\ UNCHANGED <<nvImage, clock, stage, alarms, alarmId, queue, app>>
  BY DEF Save, flash, world, ram
<1>2. mine.stream = nv.stream /\ Sane(mine) /\ (pc = "saveRun" => mine.status # "NOT_INITIALIZED")
  BY <1>1, CopyFacts DEF InUse, Inv, Files, Sane, Asks, PhaseAsks
<1>3. /\ Wanted(mine) /\ Decided(mine) /\ AlarmAsked /\ CommandsAsked
      /\ InTurn(queue) /\ Kept(queue, alarms)
      /\ nv.status = "NOT_INITIALIZED" => mine.status = "NOT_INITIALIZED"
      /\ pc = "save" => Calm(queue)
      /\ \A x \in In(queue) : x.cmd # "CANCEL_APPLY"
  BY <1>1 DEF Asks, QueueAsks, PhaseAsks, CommandsAsked
<1>4. \A v \in {nv', mine'} : Wanted(v)' /\ Decided(v)
  <2>1. Decided(Blank) /\ Wanted(Blank)'
    BY BlankFacts DEF Wanted, Decided
  <2>2. CASE mine.status = "NOT_INITIALIZED"
    BY <1>1, <1>2, <1>3, <2>1, <2>2 DEF Wanted, Sane
  <2>3. CASE mine.status # "NOT_INITIALIZED"
    BY <1>1, <1>3, <2>1, <2>3, WantedKept DEF Asks, Times
  <2>. QED
    BY <2>2, <2>3
<1>5. AlarmAsked'
  BY <1>1, <1>2, <1>3 DEF AlarmAsked, AskedFor
<1>6. CommandsAsked'
  BY <1>1, <1>2, <1>3 DEF CommandsAsked, Calm, Calls
<1>7. PhaseAsks'
  <2>1. app.op = "none" \/ app.vars.state \notin Open
    BY <1>1 DEF Inv, Handler
  <2>. QED
    BY <1>1, <2>1 DEF Asks, PhaseAsks, Early, Late, AtRest, Open, Waiting
<1>. QED
  BY <1>1, <1>3, <1>4, <1>5, <1>6, <1>7 DEF Asks, QueueAsks, AlarmsTyped

\* Steps that leave the commands and the alarms.
LEMMA RunAsks ==
  ASSUME Asks, pc \notin {"pend", "reset"},
         UNCHANGED <<queue, alarms, alarmId, app, clock>>,
         \/ /\ asked' = asked /\ nv'.stream = nv.stream
            /\ nv.status = "NOT_INITIALIZED" <=> nv'.status = "NOT_INITIALIZED"
         \/ AtRest /\ asked' \in {asked, {}},
         \A v \in {nv', mine'} : Wanted(v)' /\ Decided(v),
         Decided(nvImage'.nv), nvImage'.nv.state \in {"IDLE", "EXEC_NV_COMMANDS"},
         PhaseAsks'
  PROVE  Asks'
<1>1. clock' \in Times /\ asked' \subseteq Streams \X Times /\ AlarmsTyped'
  BY DEF Asks, AlarmsTyped
<1>2. QueueAsks'
  <2>1. CASE AtRest
    BY <2>1, RestAsks DEF AtRest
  <2>2. CASE /\ asked' = asked /\ nv'.stream = nv.stream
             /\ nv.status = "NOT_INITIALIZED" <=> nv'.status = "NOT_INITIALIZED"
    <3>1. AlarmAsked'
      BY <2>2 DEF Asks, QueueAsks, CommandsAsked, AlarmAsked, AskedFor
    <3>2. CommandsAsked'
      BY <2>2 DEF Asks, QueueAsks, CommandsAsked
    <3>. QED
      BY <3>1, <3>2 DEF Asks, QueueAsks
  <2>. QED
    BY <2>1, <2>2
<1>. QED
  BY <1>1, <1>2 DEF Asks

\* The end of doPatch schedules nothing.
LEMMA ReturnAsks ==
  ASSUME Inv, Asks, NEW v, NEW failed \in BOOLEAN, Return(v, failed),
         Sane(v), Decided(v), v.stream = nv.stream, pc \notin {"pend", "reset"},
         \/ v.status # "NOT_INITIALIZED" /\ nv.status # "NOT_INITIALIZED"
         \/ stage = "starting" /\ ~ failed,
         UNCHANGED <<queue, alarms, alarmId, app, clock, asked, nvImage>>
  PROVE  Asks'
<1>1. /\ nv'.state \in Open /\ nv'.mode = "DO_NOTHING" /\ nv'.stream = nv.stream
      /\ nv'.decrypt = v.decrypt
      /\ nv'.status = IF failed THEN "WITH_ERROR" ELSE v.status
      /\ mine' = Blank
      /\ \/ stage = "starting" /\ pc' = "start" /\ stage' = "tasks"
         \/ stage # "starting" /\ pc' = "pend" /\ stage' = stage
  BY DEF Return, Sane, IsFile, Open
<1>2. \A w \in {nv', mine'} : Wanted(w)' /\ Decided(w)
  BY <1>1, BlankFacts DEF Wanted, Decided, Open
<1>3. stage = "starting" => AtRest
  BY DEF Asks, PhaseAsks, Early
<1>4. PhaseAsks'
  <2>1. app.op = "none" \/ app.vars.state \notin Open
    BY DEF Inv, Handler
  <2>. QED
    BY <1>1, <1>3, <2>1 DEF Asks, PhaseAsks, Early, AtRest, Late, Waiting
<1>5. AtRest \/ (nv.status # "NOT_INITIALIZED" /\ nv'.status # "NOT_INITIALIZED")
  BY <1>1, <1>3
<1>. QED
  BY <1>1, <1>2, <1>4, <1>5, RunAsks DEF Asks

\* The file of a patch that runs, and its copies.
LEMMA PatchAsks ==
  ASSUME Inv, Sticks, Asks, pc \in {"patch", "decrypt", "build", "waitIdle", "swapSave"}
  PROVE  /\ Sane(nv) /\ Sane(mine) /\ nv.status = "COMPLETE"
         /\ Wanted(nv) /\ Decided(nv) /\ Wanted(mine) /\ Decided(mine)
         /\ pc # "patch" => mine.status = "COMPLETE" /\ mine.stream = nv.stream
         /\ pc = "patch" => mine = Blank
         /\ pc \in {"decrypt", "build"} => mine.state = "EXEC_PGM_COMMANDS"
         /\ pc \in {"waitIdle", "swapSave"} => mine.state = "DO_FLASH_SWAP"
         /\ app.op = "none" \/ app.vars.state \notin Open
         /\ stage = "starting" => AtRest
         /\ Decided(nvImage.nv) /\ nvImage.nv.state \in {"IDLE", "EXEC_NV_COMMANDS"}
         /\ clock \in Times
BY CopyFacts DEF Inv, Files, Sane, PhaseFacts, Handler, Open, InUse, Asks, PhaseAsks, Early

\* The steps of doPatch.
LEMMA ValidateAsks ==
  ASSUME Inv, Sticks, Asks, Validate
  PROVE  Asks'
<1>. USE PatchAsks
<1>1. /\ pc = "patch" /\ nv.state = "EXEC_PGM_COMMANDS"
      /\ UNCHANGED <<queue, alarms, alarmId, app, clock, asked, nvImage>>
  BY DEF Validate, Running, world, history
<1>. DEFINE v == IF stage = "ready" THEN Report(nv) ELSE nv
<1>2. CASE Return(v, TRUE)
  <2>1. v = nv \/ v = [nv EXCEPT !.confirm = "NONE"]
    BY DEF Report
  <2>2. Sane(v) /\ v.stream = nv.stream /\ v.status = nv.status /\ v.decrypt = nv.decrypt
    BY <1>1, <2>1 DEF Sane, IsFile
  <2>. HIDE DEF v
  <2>3. Decided(v) /\ v.status # "NOT_INITIALIZED"
    BY <1>1, <2>2 DEF Decided
  <2>. QED
    BY <1>1, <1>2, <2>2, <2>3, ReturnAsks
<1>3. CASE ~ Return(v, TRUE)
  <2>1. /\ mine' = nv' /\ pc' \in {"decrypt", "build"} /\ stage' = stage
        /\ nv' = nv \/ nv' = [nv EXCEPT !.decrypt = "DECRYPTING"]
    BY <1>3 DEF Validate, GoOnWith
  <2>2. /\ nv'.stream = nv.stream /\ nv'.state = nv.state /\ nv'.status = nv.status
        /\ nv'.mode = nv.mode /\ nv'.decrypt \in {nv.decrypt, "DECRYPTING"}
    BY <1>1, <2>1 DEF Sane, IsFile
  <2>3. \A w \in {nv', mine'} : Wanted(w)' /\ Decided(w)
    BY <1>1, <2>1, <2>2 DEF Wanted, Decided, AskedFor
  <2>4. PhaseAsks'
    BY <1>1, <2>1, <2>2 DEF PhaseAsks, Early, AtRest
  <2>. HIDE DEF v
  <2>. QED
    BY <1>1, <2>2, <2>3, <2>4, RunAsks
<1>. QED
  BY <1>2, <1>3

LEMMA DecryptAsks ==
  ASSUME Inv, Sticks, Asks, Decrypt
  PROVE  Asks'
<1>. USE PatchAsks
<1>1. /\ pc = "decrypt" /\ pc' = "build" /\ mine' = nv' /\ stage' = stage
      /\ nv' = [mine EXCEPT !.decrypt = "DONE"]
      /\ UNCHANGED <<queue, alarms, alarmId, app, clock, asked, nvImage>>
  BY DEF Decrypt, Running, GoOnWith, world, history
<1>2. /\ nv'.stream = nv.stream /\ nv'.state = "EXEC_PGM_COMMANDS" /\ mine.state = "EXEC_PGM_COMMANDS"
      /\ nv'.status = "COMPLETE"
      /\ nv'.mode = mine.mode /\ nv'.decrypt = "DONE" /\ nv'.stream = mine.stream
  BY <1>1 DEF Sane, IsFile
<1>3. \A w \in {nv', mine'} : Wanted(w)' /\ Decided(w)
  <2>1. mine' = nv' /\ UNCHANGED <<clock, asked>> /\ Wanted(mine)
    BY <1>1
  <2>2. ASSUME NEW w, w = nv'
        PROVE  Wanted(w)' /\ Decided(w)
    BY <1>2, <2>1, <2>2 DEF Wanted, Decided, AskedFor
  <2>. QED
    BY <2>1, <2>2
<1>4. PhaseAsks'
  BY <1>1, <1>2 DEF PhaseAsks, Early, AtRest
<1>. QED
  BY <1>1, <1>2, <1>3, <1>4, RunAsks

\* The image is complete; an apply that waits for it was asked for.
LEMMA BuildAsks ==
  ASSUME Inv, Sticks, Asks, Build
  PROVE  Asks'
<1>. USE PatchAsks
<1>1. /\ pc = "build" /\ mine.state \notin Open
      /\ UNCHANGED <<queue, alarms, alarmId, app, clock, asked, nvImage>>
  BY DEF Build, Running, world, history, Inv, PhaseFacts
<1>. DEFINE r == Report(mine)  w == [r EXCEPT !.state = "WAIT_FOR_APPLY"]
<1>2. /\ Sane(r) /\ r.stream = nv.stream /\ r.status = "COMPLETE" /\ r.decrypt = mine.decrypt
      /\ r.state = mine.state
  BY <1>1 DEF Report, Sane, IsFile
<1>3. Decided(r)
  BY <1>1, <1>2 DEF Decided
<1>4. CASE Return(r, TRUE)
  <2>. HIDE DEF r
  <2>. QED
    BY <1>1, <1>2, <1>3, <1>4, ReturnAsks
<1>5. CASE Return(w, FALSE)
  <2>1. Sane(w) /\ w.stream = nv.stream /\ w.status = "COMPLETE" /\ w.decrypt = mine.decrypt
    <3>. HIDE DEF r
    <3>. QED
      BY <1>2 DEF Sane, IsFile
  <2>. HIDE DEF w
  <2>2. Decided(w)
    BY <1>1, <2>1 DEF Decided
  <2>. QED
    BY <1>1, <1>5, <2>1, <2>2, ReturnAsks
<1>6. CASE /\ mine.mode = "FULL_APPLY" /\ nv' = [mine EXCEPT !.state = "DO_FLASH_SWAP"]
           /\ pc' = "patch" /\ mine' = Blank /\ stage' = stage
  <2>1. /\ nv'.stream = nv.stream /\ nv'.state = "DO_FLASH_SWAP" /\ nv'.status = "COMPLETE"
        /\ nv'.decrypt = mine.decrypt
    BY <1>1, <1>6 DEF Sane, IsFile
  <2>2. \A x \in {nv', mine'} : Wanted(x)' /\ Decided(x)
    <3>1. mine' = Blank /\ UNCHANGED <<clock, asked>>
      BY <1>1, <1>6
    <3>2. ASSUME NEW x, x = nv'
          PROVE  Wanted(x)' /\ Decided(x)
      BY <1>1, <1>6, <2>1, <3>1, <3>2 DEF Wanted, Decided, AskedFor
    <3>3. Wanted(Blank)' /\ Decided(Blank)
      BY BlankFacts DEF Wanted, Decided
    <3>. QED
      BY <3>1, <3>2, <3>3
  <2>3. PhaseAsks'
    BY <1>1, <1>6, <2>1 DEF PhaseAsks, Early, AtRest, Late
  <2>. HIDE DEF r
  <2>. QED
    BY <1>1, <2>1, <2>2, <2>3, RunAsks
<1>. QED
  BY <1>4, <1>5, <1>6 DEF Build, GoOnWith

LEMMA WaitForSysIdleAsks ==
  ASSUME Inv, Sticks, Asks, WaitForSysIdle
  PROVE  Asks'
<1>. USE PatchAsks
<1>1. /\ pc = "patch" /\ pc' = "waitIdle" /\ mine' = nv /\ nv' = nv /\ stage' = stage
      /\ nv.state = "DO_FLASH_SWAP"
      /\ UNCHANGED <<queue, alarms, alarmId, app, clock, asked, nvImage>>
  BY DEF WaitForSysIdle, Running, GoOnWith, flash, world, history
<1>2. \A w \in {nv', mine'} : Wanted(w)' /\ Decided(w)
  BY <1>1, WantedKept DEF Times
<1>3. PhaseAsks'
  BY <1>1 DEF PhaseAsks, Early, AtRest
<1>. QED
  BY <1>1, <1>2, <1>3, RunAsks

LEMMA OrderSwapAsks ==
  ASSUME Inv, Sticks, Asks, OrderSwap
  PROVE  Asks'
<1>. USE PatchAsks
<1>1. /\ pc = "waitIdle" /\ pc' = "swapSave" /\ mine' = mine /\ nv' = nv /\ stage' = stage
      /\ UNCHANGED <<queue, alarms, alarmId, app, clock, asked, nvImage>>
  BY DEF OrderSwap, Running, GoOnWith, world, history
<1>2. \A w \in {nv', mine'} : Wanted(w)' /\ Decided(w)
  BY <1>1, WantedKept DEF Times
<1>3. PhaseAsks'
  BY <1>1 DEF PhaseAsks, Early, AtRest
<1>. QED
  BY <1>1, <1>2, <1>3, RunAsks

LEMMA OrderSwapSaveAsks ==
  ASSUME Inv, Sticks, Asks, OrderSwapSave
  PROVE  Asks'
<1>. USE PatchAsks
<1>1. /\ pc = "swapSave" /\ pc' = "reset" /\ mine' = Blank /\ stage' = stage
      /\ nv' = [mine EXCEPT !.state = "BL_SWAP"]
      /\ UNCHANGED <<queue, alarms, alarmId, app, clock, asked, nvImage>>
  BY DEF OrderSwapSave, Running, GoOnWith, world, flash, history
<1>2. /\ nv'.stream = nv.stream /\ nv'.state = "BL_SWAP" /\ nv'.status = "COMPLETE"
      /\ nv'.decrypt = mine.decrypt
  BY <1>1 DEF Sane, IsFile
<1>3. \A w \in {nv', mine'} : Wanted(w)' /\ Decided(w)
  BY <1>1, <1>2, BlankFacts DEF Wanted, Decided
<1>4. PhaseAsks'
  BY <1>1 DEF PhaseAsks, Early, AtRest
<1>. QED
  BY <1>1, <1>2, <1>3, <1>4, RunAsks

\* After the swap the system has not started.
LEMMA LateAsks ==
  ASSUME Inv, Asks, stage = "starting", pc \notin {"pend", "reset"},
         UNCHANGED <<queue, alarms, alarmId, app, clock, stage>>, asked' \in {asked, {}},
         \A v \in {nv', mine'} : v.state \in {"IDLE"} \union Late /\ Decided(v),
         Decided(nvImage'.nv), nvImage'.nv.state \in {"IDLE", "EXEC_NV_COMMANDS"},
         pc' \notin {"start", "confirm", "pend", "save", "saveRun", "decrypt", "build",
                     "waitIdle", "swapSave"},
         pc' = "clear" => nv'.state \in {"IDLE", "EXEC_NV_COMMANDS"}
  PROVE  Asks'
<1>1. AtRest
  BY DEF Asks, PhaseAsks, Early
<1>2. \A v \in {nv', mine'} : Wanted(v)' /\ Decided(v)
  BY DEF Wanted, Late
<1>3. PhaseAsks'
  BY <1>1 DEF PhaseAsks, AtRest
<1>. QED
  BY <1>1, <1>2, <1>3, RunAsks

\* The files before such a step.
LEMMA LateFacts ==
  ASSUME Inv, Asks,
         \/ pc \in {"clear", "copyNv", "copyRest", "copied"}
         \/ pc = "patch" /\ nv.state \in Late
  PROVE  /\ stage = "starting" /\ Sane(nv) /\ Sane(mine) /\ Decided(nv) /\ Decided(mine)
         /\ Decided(nvImage.nv) /\ nvImage.nv.state \in {"IDLE", "EXEC_NV_COMMANDS"}
         /\ pc = "patch" => mine = Blank
BY DEF Inv, Files, PhaseFacts, Asks, PhaseAsks

LEMMA AfterSwapAsks ==
  ASSUME Inv, Asks, AfterSwap
  PROVE  Asks'
<1>1. /\ pc = "patch" /\ nv.state \in Late /\ pc' = "clear" /\ mine' = nv'
      /\ nv' = SetDfwToIdle(nv) \/ nv' = [nv EXCEPT !.state = "EXEC_NV_COMMANDS"]
      /\ UNCHANGED <<queue, alarms, alarmId, app, clock, stage, nvImage>> /\ asked' \in {asked, {}}
  BY DEF AfterSwap, Running, GoOnWith, Forget, world, flash, history, Late
<1>2. nv'.state \in {"IDLE", "EXEC_NV_COMMANDS"} /\ Decided(nv')
  BY <1>1, LateFacts DEF SetDfwToIdle, IdleWithoutReport, Sane, IsFile, Decided
<1>. QED
  BY <1>1, <1>2, LateFacts, LateAsks DEF Late

LEMMA ClearOrderAsks ==
  ASSUME Inv, Sticks, Asks, ClearOrder
  PROVE  Asks'
<1>1. /\ pc = "clear" /\ mine.state = nv.state /\ mine.stream = nv.stream
      /\ UNCHANGED <<queue, alarms, alarmId, app, clock, asked, nvImage>>
  BY CopyFacts DEF ClearOrder, Running, Inv, PhaseFacts, InUse, world, history
<1>2. CASE Return(mine, FALSE)
  BY <1>1, <1>2, LateFacts, ReturnAsks
<1>3. CASE mine.state # "IDLE" /\ pc' = "patch" /\ mine' = Blank /\ UNCHANGED <<nv, stage>>
  <2>1. nv.state = "EXEC_NV_COMMANDS"
    BY <1>1, <1>3 DEF Asks, PhaseAsks
  <2>. QED
    BY <1>1, <1>3, <2>1, LateFacts, LateAsks, BlankFacts DEF Decided, Late
<1>. QED
  BY <1>2, <1>3 DEF ClearOrder, GoOnWith

LEMMA ExecNvCommandsAsks ==
  ASSUME Inv, Asks, ExecNvCommands
  PROVE  Asks'
<1>1. /\ pc = "patch" /\ nv.state = "EXEC_NV_COMMANDS" /\ mine' = mine
      /\ pc' \in {"patch", "reset", "brick"}
      /\ UNCHANGED <<queue, alarms, alarmId, app, clock, stage>> /\ asked' \in {asked, {}}
      /\ \/ nv' = SetDfwToIdle(nv) /\ nvImage' = nvImage
         \/ nv' = nv /\ nvImage' = nvImage
         \/ nv' = [nv EXCEPT !.state = "COPY_NV_IMAGE_TO_NV"] /\ nvImage'.nv = nv
  BY DEF ExecNvCommands, Running, Forget, world, history
<1>2. /\ nv'.state \in {"IDLE"} \union Late /\ Decided(nv')
      /\ mine' = Blank /\ Decided(Blank) /\ Blank.state = "IDLE"
      /\ Decided(nvImage'.nv) /\ nvImage'.nv.state \in {"IDLE", "EXEC_NV_COMMANDS"}
  BY <1>1, LateFacts, BlankFacts
  DEF Late, SetDfwToIdle, IdleWithoutReport, Sane, IsFile, Decided
<1>. QED
  BY <1>1, <1>2, LateFacts, LateAsks DEF Late

LEMMA CopyNvImageAsks ==
  ASSUME Inv, Asks, CopyNvImage
  PROVE  Asks'
<1>1. /\ pc = "patch" /\ nv.state \in Late /\ pc' = "copyNv" /\ nv' = nv /\ mine' = nv
      /\ UNCHANGED <<queue, alarms, alarmId, app, clock, stage, nvImage, asked>>
  BY DEF CopyNvImage, Running, GoOnWith, world, history, Late
<1>. QED
  BY <1>1, LateFacts, LateAsks

LEMMA CopyNvFileAsks ==
  ASSUME Inv, Asks, CopyNvFile
  PROVE  Asks'
<1>1. /\ pc = "copyNv" /\ pc' = "copyRest" /\ nv' = nvImage.nv /\ mine' = mine
      /\ UNCHANGED <<queue, alarms, alarmId, app, clock, stage, nvImage, asked>>
      /\ mine.state = "COPY_NV_IMAGE_TO_NV"
  BY DEF CopyNvFile, Running, GoOnWith, flash, world, history, Inv, PhaseFacts
<1>. QED
  BY <1>1, LateFacts, LateAsks DEF Late

LEMMA CopyNvRestAsks ==
  ASSUME Inv, Asks, CopyNvRest
  PROVE  Asks'
<1>1. /\ pc = "copyRest" /\ pc' = "copied" /\ nv' = nv /\ mine' = mine
      /\ UNCHANGED <<queue, alarms, alarmId, app, clock, stage, nvImage, asked>>
  BY DEF CopyNvRest, Running, GoOnWith, flash, world, history
<1>2. stage = "starting" /\ AtRest
  BY <1>1 DEF Asks, PhaseAsks, Early
<1>3. \A v \in {nv', mine'} : Wanted(v)' /\ Decided(v)
  BY <1>1, WantedKept DEF Asks, Times
<1>4. PhaseAsks'
  BY <1>1, <1>2 DEF PhaseAsks, Early, AtRest
<1>. QED
  BY <1>1, <1>2, <1>3, <1>4, RunAsks DEF Asks

LEMMA CopyNvDoneAsks ==
  ASSUME Inv, Asks, CopyNvDone
  PROVE  Asks'
<1>1. /\ pc = "copied" /\ pc' = "reset" /\ nv' = SetDfwToIdle(mine) /\ mine' = Blank /\ asked' = {}
      /\ UNCHANGED <<queue, alarms, alarmId, app, clock, stage, nvImage>>
  BY DEF CopyNvDone, Running, GoOnWith, Forget, world, flash
<1>2. nv'.state = "IDLE" /\ Decided(nv') /\ Decided(Blank)
  BY <1>1, LateFacts, BlankFacts DEF SetDfwToIdle, IdleWithoutReport, Sane, IsFile, Decided
<1>. QED
  BY <1>1, <1>2, LateFacts, LateAsks, BlankFacts

-----------------------------------------------------------------------------
\* A restart loses the commands and the alarms.
LEMMA LoseRamAsks ==
  ASSUME Inv, Asks, LoseRam, UNCHANGED <<nv, nvImage, clock, asked>>, pc' \in {"off", "gasp"}
  PROVE  Asks'
<1>1. /\ queue' = <<>> /\ alarmId' = 0 /\ mine' = Blank /\ stage' = "starting"
      /\ alarms' = [a \in Alarms |-> Free] /\ app'.op = "none"
  BY DEF LoseRam, NoHandler
<1>2. AlarmsTyped' /\ \A a \in Alarms : alarms'[a] = Free
  BY <1>1 DEF AlarmsTyped, Free
<1>3. AtRest'
  BY <1>1, <1>2 DEF AtRest
<1>4. \A v \in {nv', mine'} : Wanted(v)' /\ Decided(v)
  <2>1. Wanted(Blank)' /\ Decided(Blank)
    BY BlankFacts DEF Wanted, Decided
  <2>. QED
    BY <1>1, <2>1, WantedKept DEF Asks, Times
<1>5. PhaseAsks'
  BY <1>1, <1>3 DEF PhaseAsks
<1>. QED
  BY <1>1, <1>2, <1>4, <1>5, RestAsks DEF Asks

LEMMA RestartAsks ==
  ASSUME Inv, Asks, Reset \/ PowerLoss
  PROVE  Asks'
BY LoseRamAsks DEF Reset, PowerLoss, flash, world, history

\* The boot loader and DFWA_init run before there are commands.
LEMMA BootAsks ==
  ASSUME Inv, Asks, BootAfterGasp \/ Boot \/ BootCopied \/ BootFailed \/ DfwaInit
  PROVE  Asks'
<1>1. /\ pc \in {"off", "gasp", "copy", "init"} /\ mine = Blank /\ mine' = mine
      /\ UNCHANGED <<queue, alarms, alarmId, app, clock, asked, nvImage>>
      /\ Sane(nv) /\ Wanted(nv) /\ Decided(nv)
  BY DEF BootAfterGasp, Boot, BootCopied, BootFailed, DfwaInit, flash, world, ram, history,
     Inv, Files, PhaseFacts, Asks
<1>2. AtRest /\ stage = "starting"
  BY <1>1 DEF Asks, PhaseAsks, Early
<1>3. \/ nv' = nv /\ pc' \in {"off", "gasp", "copy", "init", "patch"} /\ stage' = stage
      \/ nv' = nv /\ pc' = "start" /\ stage' = "tasks" /\ nv.state \in Open
      \/ /\ nv' = nv /\ pc' = "start" /\ stage' = "tasks"
         /\ nv.state = "EXEC_PGM_COMMANDS" /\ nv.decrypt # "DECRYPTING"
      \/ /\ pc' = "start" /\ stage' = "tasks" /\ nv'.state = "IDLE" /\ nv'.decrypt = nv.decrypt
         /\ nv.status # "NOT_INITIALIZED"
  <2>1. CASE BootAfterGasp \/ Boot \/ BootCopied \/ BootFailed
    BY <2>1 DEF BootAfterGasp, Boot, BootCopied, BootFailed
  <2>2. CASE DfwaInit
    <3>1. pc' # "brick"
      BY <2>2, ResumesWhole
    <3>. QED
      BY <1>1, <2>2, <3>1 DEF DfwaInit, Sane, IsFile, Open
  <2>. QED
    BY <2>1, <2>2
<1>4. \A v \in {nv', mine'} : Wanted(v)' /\ Decided(v)
  <2>1. Wanted(Blank)' /\ Decided(Blank)
    BY BlankFacts DEF Wanted, Decided
  <2>2. CASE nv' = nv
    BY <1>1, <2>1, <2>2, WantedKept DEF Asks, Times
  <2>3. CASE nv'.state = "IDLE" /\ nv'.decrypt = nv.decrypt /\ nv.status # "NOT_INITIALIZED"
    BY <1>1, <2>1, <2>3 DEF Wanted, Decided
  <2>. QED
    BY <1>3, <2>2, <2>3
<1>5. PhaseAsks'
  BY <1>1, <1>2, <1>3 DEF PhaseAsks, Early, AtRest, Open
<1>6. Decided(nvImage.nv) /\ nvImage.nv.state \in {"IDLE", "EXEC_NV_COMMANDS"}
  BY DEF Asks
<1>. QED
  BY <1>1, <1>2, <1>4, <1>5, <1>6, RunAsks

\* The report that was due has been sent; no alarm is set yet.
LEMMA ConfirmAsks ==
  ASSUME Inv, Sticks, Asks, Confirm
  PROVE  Asks'
<1>1. /\ pc = "confirm" /\ pc' = "pend" /\ mine' = Blank /\ nv' = [mine EXCEPT !.confirm = "NONE"]
      /\ UNCHANGED <<queue, alarms, alarmId, app, clock, asked, nvImage, stage>>
      /\ app.op = "none" /\ Sane(mine) /\ mine.stream = nv.stream /\ stage = "ready"
  BY CopyFacts DEF Confirm, flash, world, ram, history, Inv, Files, InUse
<1>2. /\ nv'.stream = mine.stream /\ nv'.state = mine.state /\ nv'.mode = mine.mode
      /\ nv'.status = mine.status /\ nv'.schedule = mine.schedule /\ nv'.decrypt = mine.decrypt
  BY <1>1 DEF Sane, IsFile
<1>3. /\ Wanted(mine) /\ Decided(mine) /\ mine.state \in Waiting /\ alarmId = 0
      /\ mine.state \notin Open => Calm(queue)
      /\ mine.status = "NOT_INITIALIZED" => nv.status = "NOT_INITIALIZED"
      /\ InTurn(queue) /\ Kept(queue, alarms) /\ CommandsAsked
  BY <1>1 DEF Asks, PhaseAsks, QueueAsks
<1>4. \A w \in {nv', mine'} : Wanted(w)' /\ Decided(w)
  <2>1. mine' = Blank /\ UNCHANGED <<clock, asked>>
    BY <1>1
  <2>2. ASSUME NEW w, w = nv'
        PROVE  Wanted(w)' /\ Decided(w)
    BY <1>2, <1>3, <2>1, <2>2 DEF Wanted, Decided, AskedFor
  <2>3. Wanted(Blank)' /\ Decided(Blank)
    BY BlankFacts DEF Wanted, Decided
  <2>. QED
    BY <2>1, <2>2, <2>3
<1>5. QueueAsks'
  <2>1. AlarmAsked'
    BY <1>1, <1>3 DEF AlarmAsked, Alarms
  <2>2. CommandsAsked'
    BY <1>1, <1>2, <1>3 DEF CommandsAsked
  <2>. QED
    BY <1>1, <1>3, <2>1, <2>2 DEF QueueAsks
<1>6. PhaseAsks'
  BY <1>1, <1>2, <1>3 DEF PhaseAsks, Early
<1>. QED
  BY <1>1, <1>4, <1>5, <1>6 DEF Asks, AlarmsTyped

\* What DFWA_task posts first: the patch that was interrupted, or the apply that is due.
LEMMA StartAsks ==
  ASSUME Inv, Asks, NEW known \in BOOLEAN, Start(known)
  PROVE  Asks'
<1>. DEFINE again == nv.state = "EXEC_PGM_COMMANDS" /\ nv.decrypt \in {"READY", "DONE"}
            own   == IF again /\ queue' # queue THEN [nv EXCEPT !.state = "IDLE"] ELSE nv
            due   == nv.status = "COMPLETE" /\ nv.state = "WAIT_FOR_APPLY" /\ nv.mode = "FULL_APPLY"
<1>1. /\ UNCHANGED <<alarms, alarmId, app, clock, asked, nvImage, stage>>
      /\ pc = "start" /\ app.op = "none" /\ alarmId = 0 /\ stage # "starting"
      /\ queue = <<>> /\ queue \in Seq(Command) /\ Sane(nv) /\ Wanted(nv) /\ Decided(nv)
      /\ nv.state \in Open \/ again
      /\ \/ pc' = "pend" /\ mine' = Blank
         \/ /\ pc' = "confirm" /\ mine' = own
  <2>1. AtRest
    BY DEF Start, Asks, PhaseAsks, Early
  <2>2. Sane(nv) /\ queue \in Seq(Command)
    BY DEF Inv, Files, Orders
  <2>3. nv.state \in Open \/ again
    BY <2>2 DEF Start, Asks, PhaseAsks, Decided, Sane
  <2>. QED
    BY <2>1, <2>2, <2>3 DEF Start, Apply, flash, world, ram, history, Asks, PhaseAsks, AtRest
<1>2. /\ own.status = nv.status /\ own.stream = nv.stream /\ own.decrypt = nv.decrypt
      /\ own = nv \/ own.state = "IDLE"
  BY <1>1 DEF Sane, IsFile, Open
<1>3. /\ \/ again /\ Post("PREPATCH", 0) /\ own.state = "IDLE"
         \/ queue' = queue
         \/ nv' = nv /\ due /\ Post("FULL_APPLY", nv.schedule)
      /\ nv' = own \/ (nv' = SetExpired(nv) /\ due /\ queue' = queue)
  BY <1>1 DEF Start, Apply, Accepts, Applicable, Short, Post, Sane, IsFile
<1>4. Rings(queue) /\ In(queue) = {} /\ InTurn(queue) /\ \A a : Kept(queue, a)
  BY <1>1 DEF Rings, In, InTurn, Kept
<1>. HIDE DEF own
<1>5. /\ nv'.stream = nv.stream
      /\ nv'.status = nv.status \/ nv'.status = "NOT_INITIALIZED"
      /\ nv'.decrypt = nv.decrypt
      /\ nv' = nv \/ nv'.state = "IDLE"
  BY <1>1, <1>2, <1>3 DEF SetExpired, Sane, IsFile
<1>9. /\ {nv.state, nv'.state, own.state} \subseteq Waiting
      /\ nv'.state \notin Open \/ own.state \notin Open => Calm(queue')
  <2>1. {nv.state, nv'.state, own.state} \subseteq Waiting
    BY <1>1, <1>2, <1>5 DEF Open, Waiting
  <2>2. Calm(queue)
    BY <1>1 DEF Calm, In
  <2>3. CASE queue' = queue
    BY <2>1, <2>2, <2>3 DEF Calm, In
  <2>4. CASE again /\ Post("PREPATCH", 0) /\ own.state = "IDLE"
    <3>1. nv' = own \/ nv'.state = "IDLE"
      BY <1>1, <1>3 DEF SetExpired, Sane, IsFile
    <3>. QED
      BY <2>1, <2>4, <3>1 DEF Open
  <2>5. CASE nv' = nv /\ due
    <3>1. own = nv \/ own.state = "IDLE"
      BY <1>2
    <3>. QED
      BY <2>1, <2>5, <3>1 DEF Open
  <2>. QED
    BY <1>3, <2>1, <2>3, <2>4, <2>5
<1>6. \A w \in {nv', mine'} : Wanted(w)' /\ Decided(w)
  <2>1. Wanted(own) /\ Decided(own)
    BY <1>1, <1>2 DEF Wanted, Decided
  <2>2. Wanted(nv') /\ Decided(nv')
    BY <1>1, <1>5 DEF Wanted, Decided
  <2>3. Wanted(Blank) /\ Decided(Blank)
    BY BlankFacts DEF Wanted, Decided
  <2>. QED
    BY <1>1, <2>1, <2>2, <2>3, WantedKept DEF Asks, Times
<1>7. QueueAsks'
  <2>1. AlarmAsked'
    BY <1>1 DEF AlarmAsked, Alarms
  <2>2. CASE queue' = queue
    BY <1>4, <2>1, <2>2 DEF QueueAsks, CommandsAsked
  <2>3. CASE again /\ Post("PREPATCH", 0)
    <3>1. "PREPATCH" \in Cmds /\ 0 \in Int
      BY DEF Cmds
    <3>2. InTurn(queue') /\ Kept(queue', alarms') /\ \E x : x.cmd = "PREPATCH" /\ In(queue') = {x}
      BY <1>1, <1>4, <2>3, <3>1, PostedAsks
    <3>3. nv'.status = "COMPLETE"
      BY <1>1, <1>2, <1>3, <2>3 DEF Sane
    <3>4. CommandsAsked'
      BY <3>2, <3>3 DEF CommandsAsked
    <3>. QED
      BY <2>1, <3>2, <3>4 DEF QueueAsks
  <2>4. CASE nv' = nv /\ due /\ Post("FULL_APPLY", nv.schedule)
    <3>1. "FULL_APPLY" \in Cmds /\ nv.schedule \in Int
      BY <1>1 DEF Cmds, Sane, IsFile
    <3>2. /\ InTurn(queue') /\ Kept(queue', alarms')
          /\ \E x : x.cmd = "FULL_APPLY" /\ x.arg = nv.schedule /\ In(queue') = {x}
      BY <1>1, <1>4, <2>4, <3>1, PostedAsks
    <3>3. <<nv'.stream, nv.schedule>> \in asked'
      BY <1>1, <2>4 DEF Wanted
    <3>4. CommandsAsked'
      BY <3>2, <3>3 DEF CommandsAsked
    <3>. QED
      BY <2>1, <3>2, <3>4 DEF QueueAsks
  <2>. QED
    BY <1>3, <2>2, <2>3, <2>4
<1>8. PhaseAsks'
  <2>. HIDE DEF again, due
  <2>1. pc' = "confirm" /\ mine'.status = "NOT_INITIALIZED" => nv'.status = "NOT_INITIALIZED"
    BY <1>1, <1>2, <1>5
  <2>. QED
    BY <1>1, <1>9, <2>1 DEF PhaseAsks, Early
<1>. QED
  BY <1>1, <1>6, <1>7, <1>8 DEF Asks, AlarmsTyped

-----------------------------------------------------------------------------
\* An alarm that rings had been set for an apply.
LEMMA RingAsks ==
  ASSUME Inv, Asks, NEW id \in Alarms, Ring(id)
  PROVE  Asks'
<1>1. /\ UNCHANGED <<nv, nvImage, clock, stage, pc, mine, alarmId, app, asked>>
      /\ alarms[id] \in 1 .. clock /\ alarms' = [alarms EXCEPT ![id] = Rung]
      /\ Post("TIME", id) /\ queue \in Seq(Command)
  BY DEF Ring, flash, world, history, Inv, Orders
<1>2. /\ \E x : x.cmd = "TIME" /\ x.arg = id /\ In(queue') = In(queue) \union {x}
      /\ InTurn(queue) => InTurn(queue')
  <2>1. "TIME" \in Cmds /\ id \in Int /\ "TIME" \notin Calls
    BY DEF Cmds, Alarms, Calls
  <2>. HIDE DEF Cmds, Calls
  <2>. QED
    BY <1>1, <2>1, PostedAsks
<1>3. /\ AlarmsTyped' /\ alarms'[id] = Rung
      /\ \A a \in Alarms : a = id \/ alarms'[a] = alarms[a]
  BY <1>1, BoundsAssumption DEF Asks, AlarmsTyped, Rung
<1>4. Kept(queue, alarms) => Kept(queue', alarms')
  <2>1. /\ queue' = Append(queue, [cmd |-> "TIME", arg |-> id])
        /\ [cmd |-> "TIME", arg |-> id] \in Command
    BY <1>1 DEF Post, Command, Cmds, Alarms
  <2>2. /\ Len(queue) \in Nat /\ Len(queue') = Len(queue) + 1
        /\ queue'[Len(queue) + 1].arg = id
        /\ \A i \in 1 .. Len(queue) : queue'[i] = queue[i]
    BY <1>1, <2>1
  <2>. QED
    BY <1>3, <2>2 DEF Kept
<1>5. ~ Early
  BY <1>1 DEF Asks, PhaseAsks, AtRest, Free, Times
<1>6. \A w \in {nv', mine'} : Wanted(w)' /\ Decided(w)
  BY <1>1, WantedKept DEF Asks, Times
<1>7. QueueAsks'
  <2>1. SUFFICES ASSUME pc # "reset"
                 PROVE  InTurn(queue') /\ Kept(queue', alarms') /\ AlarmAsked' /\ CommandsAsked'
    BY <1>1 DEF QueueAsks
  <2>2. InTurn(queue) /\ Kept(queue, alarms) /\ AlarmAsked /\ CommandsAsked
    BY <2>1 DEF Asks, QueueAsks
  <2>3. CommandsAsked'
    BY <1>1, <1>2, <2>2 DEF CommandsAsked
  <2>4. AlarmAsked'
    <3>1. clock \in Nat /\ clock <= LastTime
      BY BoundsAssumption DEF Asks, Times
    <3>2. CASE alarmId = id
      <4>1. alarms[id] \in 1 .. LastTime /\ alarms'[id] \notin 1 .. LastTime
        BY <1>1, <1>3, <3>1, BoundsAssumption DEF Rung
      <4>2. \/ alarmId \notin Alarms \/ nv.status = "NOT_INITIALIZED"
            \/ \E x \in In(queue) : x.cmd = "CANCEL_APPLY"
            \/ AskedFor(nv.stream)
        BY <1>1, <2>2, <3>1, <3>2, <4>1 DEF AlarmAsked, AskedFor
      <4>. QED
        BY <1>1, <1>2, <3>2, <4>1, <4>2 DEF AlarmAsked, AskedFor
    <3>3. CASE alarmId # id
      BY <1>1, <1>2, <1>3, <2>2, <3>3 DEF AlarmAsked, AskedFor
    <3>. QED
      BY <3>2, <3>3
  <2>. QED
    BY <1>2, <1>4, <2>2, <2>3, <2>4
<1>8. PhaseAsks'
  BY <1>1, <1>2, <1>5 DEF Asks, PhaseAsks, Early, Calm, Calls, Rings
<1>. QED
  BY <1>1, <1>3, <1>6, <1>7, <1>8 DEF Asks

\* The application message task starts, or time passes.
LEMMA IdleAsks ==
  ASSUME Inv, Asks, AppReady \/ Tick \/ UNCHANGED vars
  PROVE  Asks'
<1>1. /\ UNCHANGED <<nv, nvImage, pc, mine, queue, alarms, alarmId, app, asked>>
      /\ stage' = stage \/ (stage = "tasks" /\ stage' = "ready")
      /\ clock' = clock \/ (clock < LastTime /\ clock' = clock + 1)
  BY DEF AppReady, Tick, vars, flash, world, ram, history
<1>2. clock' \in Times /\ clock \in Times /\ clock' >= clock
  BY <1>1, BoundsAssumption DEF Asks, Times
<1>3. (\A v \in {nv', mine'} : Wanted(v)' /\ Decided(v)) /\ (\A s : AskedFor(s) => AskedFor(s)')
  BY <1>1, <1>2, WantedKept DEF Asks
<1>4. QueueAsks'
  <2>1. AlarmAsked => AlarmAsked'
    BY <1>1, <1>3 DEF AlarmAsked
  <2>. QED
    BY <1>1, <2>1 DEF Asks, QueueAsks, CommandsAsked
<1>5. PhaseAsks'
  BY <1>1 DEF Asks, PhaseAsks, Early, AtRest
<1>. QED
  BY <1>1, <1>2, <1>3, <1>4, <1>5 DEF Asks, AlarmsTyped

\* At first nothing is asked and nothing wanted.
LEMMA AsksInit == Init => Asks
<1>. SUFFICES ASSUME Init PROVE Asks
  OBVIOUS
<1>1. /\ nv = Blank /\ mine = Blank /\ nvImage.nv = Blank /\ asked = {} /\ queue = <<>>
      /\ clock = 0 /\ stage = "ready" /\ pc = "pend" /\ alarmId = 0 /\ app.op = "none"
  BY DEF Init, NoHandler
<1>2. clock \in Times /\ AlarmsTyped
  BY <1>1, BoundsAssumption DEF Init, Times, AlarmsTyped, Free
<1>3. Wanted(Blank) /\ Decided(Blank)
  BY BlankFacts DEF Wanted, Decided
<1>4. QueueAsks
  BY <1>1 DEF QueueAsks, InTurn, Kept, In, AlarmAsked, CommandsAsked, Alarms
<1>5. PhaseAsks
  BY <1>1, BlankFacts DEF PhaseAsks, Early, Open, Waiting
<1>. QED
  BY <1>1, <1>2, <1>3, <1>4, <1>5, BlankFacts DEF Asks

\* Every step keeps the invariant.
LEMMA NextAsks ==
  ASSUME "init" \notin Shortages, Inv, Sticks, Asks, [Next]_vars
  PROVE  Asks'
<1>1. CASE Handlers
  BY <1>1, HandleAsks, DownloadInitAsks, DownloadInitSaveAsks, DownloadPacketAsks,
     DownloadCancelAsks, DownloadVerifyAsks, DownloadApplyAsks
  DEF Handlers
<1>2. CASE Commands
  BY <1>2, AlarmMessageAsks, PrepatchAsks, FullApplyAsks, CancelAsks, CancelApplyAsks
  DEF Commands
<1>3. CASE DoPatch
  BY <1>3, ValidateAsks, DecryptAsks, BuildAsks, NeverInvalid, WaitForSysIdleAsks,
     OrderSwapAsks, OrderSwapSaveAsks, AfterSwapAsks, ClearOrderAsks, ExecNvCommandsAsks,
     CopyNvImageAsks, CopyNvFileAsks, CopyNvRestAsks, CopyNvDoneAsks
  DEF DoPatch
<1>4. CASE Restart
  BY <1>4, RestartAsks, BootAsks, IdleAsks, ConfirmAsks, StartAsks DEF Restart
<1>. QED
  BY <1>1, <1>2, <1>3, <1>4, SaveAsks, RestartAsks, BootAsks, IdleAsks, RingAsks
  DEF Next, Outside

\* Only one step gives the boot loader its order.
LEMMA OnlyOrderSwap ==
  ASSUME Inv, [Next]_vars, blInfo = "none", blInfo' = "ready"
  PROVE  OrderSwap
<1>1. ~ UNCHANGED blInfo
  OBVIOUS
<1>2. ~ UNCHANGED vars
  BY <1>1 DEF vars, flash
<1>3. ~ Handlers
  BY <1>1 DEF Handlers, Handle, DownloadInit, DownloadInitSave, DownloadPacket,
     DownloadCancel, DownloadVerify, DownloadApply, Handling, flash
<1>4. ~ Commands
  BY <1>1 DEF Commands, AlarmMessage, Prepatch, FullApply, Cancel, CancelApply, Dequeue, flash
<1>5. ~ Restart
  BY <1>1 DEF Restart, Reset, BootAfterGasp, Boot, BootCopied, DfwaInit, AppReady, Confirm,
     Start, flash
<1>6. ~ (Save \/ PowerLoss \/ BootFailed \/ Tick \/ \E id \in Alarms : Ring(id))
  BY DEF Save, PowerLoss, BootFailed, Tick, Ring, flash
<1>7. DoPatch => OrderSwap
  BY <1>1 DEF DoPatch, Validate, Decrypt, Build, InvalidState, WaitForSysIdle, OrderSwapSave,
     AfterSwap, ClearOrder, ExecNvCommands, CopyNvImage, CopyNvFile, CopyNvRest, CopyNvDone,
     flash
<1>. QED
  BY <1>2, <1>3, <1>4, <1>5, <1>6, <1>7 DEF Next, Outside

-----------------------------------------------------------------------------
\* The boot loader is told to swap only for the download in the file, if the head
\* end asked for it to be applied, at a time it gave or later: an alarm that was
\* left, a schedule read back after a restart or a command that waits swaps in
\* nothing else.  There must be a buffer for the command of a new download that
\* cancels the alarm of the one before, and the two tasks keep apart; power may fail
\* at any other time than between the erase of a patch and the file of the next.
THEOREM SwapsOnlyAsAsked ==
  ASSUME Overlap = {}, "init" \notin Shortages, "erase" \notin CrashPhases
  PROVE  Spec => SwapsAsAsked
<1>. DEFINE I == Inv /\ Sticks /\ Asks
<1>1. Init => I
  BY InitInv, StaysInit, AsksInit DEF Init, Sticks, Apart, NoHandler
<1>2. I /\ [Next]_vars => I'
  <2>1. Sticks /\ [Next]_vars => Sticks'
    BY NextStays, NextApart DEF Sticks, Apart
  <2>. QED
    BY <2>1, NextInv, NextAsks
<1>3. I /\ [Next]_vars =>
        [blInfo = "none" /\ blInfo' = "ready" =>
           \E t \in 0 .. clock : <<mine.stream, t>> \in asked]_vars
  <2>1. I /\ OrderSwap => \E t \in 0 .. clock : <<mine.stream, t>> \in asked
    BY DEF OrderSwap, Running, Asks, PhaseAsks, Wanted, AskedFor
  <2>. QED
    BY <2>1, OnlyOrderSwap
<1>. QED
  BY <1>1, <1>2, <1>3, PTL DEF Spec, SwapsAsAsked

=============================================================================
