# TLA+ models of the Aclara RF endpoint firmware

This directory specifies parts of the firmware under `src/` in TLA+, checks
them with TLC on small instances, and proves the most important results with
TLAPS for every value of the constants. `PROJECT.json` lists the components,
the runs, the source lines each definition translates, the hazards of the code,
and the theorems.

1. [The system](#1-the-system)
2. [Modules and what they model](#2-modules-and-what-they-model)
3. [Runs, bounds and results](#3-runs-bounds-and-results)
4. [Where the code and its documentation disagree](#4-where-the-code-and-its-documentation-disagree)
5. [Fairness and deadlock](#5-fairness-and-deadlock)
6. [Proofs](#6-proofs)
7. [What is not modelled](#7-what-is-not-modelled)
8. [Plan](#8-plan)

## 1. The system

The firmware runs on a meter's communication module ("EP", endpoint) or on a
data collector ("DCU"), over FreeRTOS or MQX. About thirty tasks with fixed
priorities (`src/MTU/Common/Task.c`) exchange buffers through message queues
and share drivers under mutexes. A software timer task (`timer_util.c`) runs
timer callbacks at the second-highest priority. There is no memory protection,
power may fail at any time, and the radio loses, delays and repeats frames.

The components that carry the program's own logic, with what each keeps, does,
and must guarantee:

| Component | State | Operations | Interacts with | Hard behaviours | Correct when |
|---|---|---|---|---|---|
| Banked NV driver (`dvr_banked.c`) | RAM offset and sequence number of the current bank; sequence number in each bank in flash | open, read, write (copy, merge, number, advance), erase, scan after restart | flash driver below; cache and file layer above | power loss or error in every step; one-byte sequence wraps; erase unit is larger than a bank | a restart finds the last successful write or the one in progress, never torn or older data |
| External flash driver (`dvr_extflash.c`) | flash contents, one sector-sized RAM buffer | compare and skip, program, read-erase-rewrite, sector erase | SPI, banked driver | read-erase-rewrite is not atomic and covers neighbours | a write changes only what it names |
| Cache, encryption, pre-erase, partitions, files | cached images, partition table, file offsets | open, read, write, flush | stacked on the drivers | flush on power down; erase-ahead | the cached and the stored image agree after a flush |
| System-busy arbiter (`sys_busy.c`) | counter, state, mutex | set, clear, read, lock if idle, unlock | demand, interval data, meter communication, DTLS (workers); firmware patch, resets (lockers) | check and use in separate critical sections | a task told the system is locked holds the lock; nobody works while it is held |
| Fixed-block pools (`BUF_MemoryBuffers.c`) | free list through the blocks' first words, counts | get, put | MAC transmit queue and frames | free list aliases the user's data | blocks are neither lost nor doubled |
| MAC transmit (`MAC_PacketManagement.c`, `MAC.c`) | priority queue of packets, tracking of the packet at the head, frame queue, radio phase | data, purge, flush, pause; segmentation, retries; confirms of the radio | stack above, PHY below | lost and late confirms, retries, withdrawal of a packet in progress | success means every segment went out; every accepted request is answered; priority order |
| MAC receive (`MAC_FrameManagement.c`) | reassembly buffers, segment pool, (address, id) pairs of delivered packets, stale list, counters | data indication, assembly, timeouts | PHY below, timer task, transmit side (reads `UnicastCount`) | loss, repetition, interleaved senders, two-bit packet ids, callbacks of a task of higher priority | packets are delivered whole, at most once, in order; every buffer comes back |
| Software timers (`timer_util.c`) | delta list of running timers, timer table | add, delete, start, stop, reset, tick | every component; callbacks run under the module's mutex | a callback that re-enters; ids that outlive their timer | a running timer fires once, no earlier than asked |
| Buffer manager and queues (`buffer.c`, `MessageQ.c`) | pools of several sizes with statistics, queue links | allocate, free, post, pend | every task | counters shared by interrupts and tasks | a buffer has one owner; counts match |
| PHY (`PHY.c`) and radio drivers | state per radio, transmit and receive buffers | start, stop, data, CCA, get/set | MAC, radio interrupts | hardware paced | every request is confirmed |
| IP stack, stack manager, communication | start/stop handshakes, pending requests | data request/confirm, start, stop | MAC, applications, DTLS | handshakes with timeouts | requests are confirmed in order |
| DTLS/MTLS, security element | session, keys, last-message counters | connect, receive, reconnect | IP stack, crypto chip | session restored after reset | one session at a time |
| Firmware download (`dfw_app.c`), boot loader | download state, packet bitmap, patch state in NV | init, packet, apply, cancel; copy image | busy arbiter, partitions, boot loader | restart at any step of a patch | an image is swapped only if complete and verified; the swap survives power loss |
| Power (`pwr_task.c`, last gasp, restore) | power state, NV locks | power down, last gasp, restore | NV writers, busy arbiter | lock order; capacitor energy runs out | no NV write is cut short by shutdown |
| Time (`time_sys.c`, `time_sync.c`, `time_DST.c`) | system time, alarm table, drift | set, get, periodic and calendar alarms | interval data, event log | time jumps backwards or forwards across an alarm | an alarm fires once per period |
| Event log (`EVL_event_log.c`) | two rings in NV, meta data, indices | log, query, acknowledge | NV, applications | restart between data and meta data | no event of the high-priority ring is lost unacknowledged |
| Interval data, demand, history | channel rings, demand state, billing snapshots | sample, shift, reset | time, meter, NV, busy arbiter | reset racing a shift; lost power | one record per interval |
| Host meter communication (`HMC/*`) | session, toggle bit, retries, queue of tables | read/write table, procedures | serial port, busy arbiter | timeouts and retries | an answer belongs to its request |
| Application messages, command lines, diagnostics, utilities, board support, vendored libraries | – | formatting, dispatch, hardware access, pure functions | – | – | – |

`PROJECT.json` gives each component's source files, its status and the reason
when it is not modelled, and under "hazards" every place where this code is hard
to test, with the properties that cover it.

## 2. Modules and what they model

```
DurableRegister <--- BankedStore <--- MC_BankedStore     SysBusy <--- MC_SysBusy
   (abstract)                              ^                ^
                                  BankedStore_proofs  SysBusy_proofs

TimerList ---> TimerService (abstract)
    ^
TimerList_proofs

BufferPool ---> MacTransmit ---> DataService       MacReassembly ---> LossyLink
                     ^            (abstract)             ^            (abstract)
              MC_MacTransmit,                      MC_MacReassembly,
           MacTransmit_proofs                    MacReassembly_proofs

BufferManager ---> BufferExchange (abstract)       Download
     ^                                                ^
MC_BufferManager,                                MC_Download,
BufferManager_proofs                             Download_proofs

ListFacts: lemmas on sequences, for BankedStore_proofs, TimerList_proofs,
           MacTransmit_proofs, MacReassembly_proofs and Download_proofs
```

**`BankedStore`** — `dvr_banked.c` on the write path of `dvr_extflash.c`.
`flash` is the partition: for each bank its data chunks and its sequence
number (0 when erased). `bank` and `sequence` are the RAM meta data
`BankOffset` and `CurrentBankSequence`. `pc` is the phase of the write:

| Phase | Code | Actions |
|---|---|---|
| idle | between calls | `WriteBegin`, `EraseBegin` |
| chunk | loop of `bnk_write`: read, merge, number the last chunk, compare in `dvr_write` | `ReadModify`, `FailRead`, `FailCompare` |
| program | `localWrite` on erased bytes | `Program`, `FailWrite` |
| erase, rewrite | `localWrite` with `bEraseBeforeWrite` | `EraseSector`, `RewriteUnerased`, `RewriteSector`, `FailWrite`, `FailRewrite` |
| autoErase | erase of the previous sector after the switch of banks | `EraseOld` |
| partition | `parErase` of the whole partition, sector by sector | `ErasePartition` |
| down | no power | `Open` (`bnk_open`, `findCurrentBank`) |

`PowerLoss` may come in any phase of the constant `CrashPhases`, and leaves what
`AfterPowerLoss` says: a torn chunk, an erased sector not yet written back, and
so on. Programming the last chunk counts as a phase of its own, "commit", and as
"enter" if the bank is the first of a sector that has to be erased behind it. An
error may come in any phase of `FailPhases`. A rewrite that fails or is cut short leaves
the sector written back up to some chunk (`PartlyWritten`). Of an erase of the
partition any sectors may be missed ("partition"), as `dvr_extflash.c` discards what
`localErase` returns; and `localErase` itself may report success for an erase that was
not done, because the loop that ends it overwrites the status (`dvr_extflash.c:1122`):
that is `RewriteUnerased`, an "error" that the caller does not see ("maskedErase").
The sequence number is the last byte of its bank, and is assumed to be programmed at once
and after the rest of its chunk. `CurrentBank` is the scan of
`findCurrentBank` in declarative form; `MC_BankedStore` has the loop itself
(`ScanBank` is its body) and compares the two. `DurableRegister` is the promise to the layer above: one
value that survives restarts.

**`SysBusy`** — `sys_busy.c` with the loop of `DFWA_WaitForSysIdle`. A function
that holds `busyMutex_` from end to end is one step. `SYSBUSY_lockIfIdle` is
two, `LockIfIdle` and `Status`, because it reads the state for its result after
the mutex may have been released.

**`BufferPool`** — the operators `NewPool`, `CanGet`, `AfterGet`, `Put` of
`BUF_MemoryBuffers.c`. The link of the free list is kept per block, as the code
keeps it in the block's first word: that is what a flush of the queue trips over.

**`MacTransmit`** — the MAC task's transmit half. Requests are `DataReq`
(`MAC_Transaction_Create`, `PrioritizeAndInsert`), `Purge`, `Flush`, `PauseTx`.
`GetNextTxMsg` makes a frame of the packet at the head, `StartFrame`,
`Transmit`, `NoTransmit` are the radio phases of `MAC_Task`, and `Confirm`,
`ConfirmBusy`, `ConfirmTimeout`, `ConfirmLate` the ways a PHY data request
ends. When no confirm comes, `CheckPHYTimeout` queues a failed one that the MAC made up,
and `ConfirmTimeout` handles it; the PHY's own may still come, with any status, and is then
taken for the frame that is there. `late` counts the confirms that are still to come (no
more than `MaxLate` at once) and says whether a made-up one is queued. `PhyDataConfirm` and `Acknowledge` are the functions of those names.
`tracking` is `CurrentPacketTracking`. The clear-channel assessment with its
back-offs is one phase with two ends. `DataService` is the promise to the
user of the MAC: an accepted request is answered at most once, with success
only if every part of it was transmitted.

**`MacReassembly`** — the receive half of `MAC_FrameManagement.c`. `rx` is its
static data; the functions are operators from `rx` to `rx` under their own names
(`EmptyRxBuffer`, `AddRxAssemblyTimer`, `AssemblePacket`, ...). A frame is
handled in two steps, `Find` and `Handle`, between which the timer task may run
`RxTimerExpires` or `PairTimerExpires`. With a `PacketTimeout` of 0 a delivered packet's pair
is put on record without a timer. `CheckTimeouts` empties the
stale list. `SendFrame`, `SendAgain` and `BeginPacket` are the nodes in range,
which send as `MacTransmit` does, over an air that loses frames. A payload is
recorded as the number of the packet each stored part came from, so that a
packet put together from two is seen. `LossyLink` is the promise to the layer
above: packets are delivered whole, at most once, in order.

**`TimerList`** — `timer_util.c`. `list` is the chain from `_TMR_headNode`,
`timer` the table `_sTimer`, with `ticks` counted from the timer before in the
list. The actions are the functions of the same names; `Tick` is the handler up
to its loop and `Fire` one turn of the loop, callback included, during
which `firing` keeps everybody else out as the mutex does.
`TimerService` is the promise: timers that count down each on its own.

**`BufferManager`** — `buffer.c` on the message queues of the FreeRTOS port.
A step is one access to what tasks share. Each task has two threads of
control, its own code and its call of `DBG_log`, as the latter has a buffer of its own
to handle; `pc`, `at`, `hand` say where each is, on which queue it works and
what it holds.

| Stage | Code | Actions |
|---|---|---|
| rest | a task's own code | `Alloc`, `Pend`, `Send`, `Free`, `DebugPrint`, `ShowAlloc` |
| pend, dequeue | `OS_MSGQ_Pend`: the semaphore, the queue; then the marks and statistics of `bufAlloc` | `Take`, `Dequeue` |
| post, give | `OS_MSGQ_Post`, `OS_MSGQ_Post_RetStatus`: the queue, the semaphore | `Enqueue`, `Give` |
| lockFree, load, store, unlockBuf | `BM_Free` under `bufMutex_` | `LockFree`, `Load`, `Store`, `UnlockBuf` |
| report, lockLog | a call of `DBG_log`, which may come from within `BM_Free` | `LockLog` |
| stopped | a firmware error or the use of a NULL buffer | – |

Calls of `DBG_printf` that follow one another under one mutex are one step, and `LockFree`
marks the buffer in the step that logs. `OS_MSGQ_Post_RetStatus` refuses a buffer that is marked
free or queued; `Enqueue` leaves that out, because `OnePlace` says that no
buffer in somebody's hands is so marked when it is posted.
`BufferExchange` is the promise: a buffer is free, in one pair of hands, or in
one queue, and queues hand buffers on in order.

**`Download`** — `dfw_interface.c`, `dfw_app.c` and the boot loader, for a patch of
the application on the RA6 target. `nv` is the file `DFW_vars_t`, which the
handlers of the application message task (`app`) and the DFW task (`mine`) each
read, change in a copy and write back. `queue` holds the commands to the
DFW task, `alarms` the slots of `time_sys.c` it uses.

No mutex keeps the two tasks apart; what does, mostly, is their priorities. The DFW task
has the higher one (`Task.c:434, 442`), so a handler runs only while that task waits, and is
interrupted only when it is woken; a write of the file is a step, as `bnk_write` holds
`bankMutex_` throughout. `Overlap` says in which of the two cases that remain the tasks may
meet in the file: "report", a handler runs while `DFWA_task` waits, for ten seconds or
more, with the copy it will write back after the report of a restart; and "preempt", a
command, such as the alarm of a scheduled apply, is taken in the midst of a handler.
`Shortages` says for which posts `BM_alloc` may find no buffer: each handler has such a
branch, and each only logs the error.

| Part | Code | Actions |
|---|---|---|
| messages of the head end | `DFWI_DownloadInit`, `Packet`, `Cancel`, `Verify`, `Apply` | `Handle`, then `DownloadInit` and `DownloadInitSave`, `DownloadPacket`, ... |
| once after a restart | `DFWA_init`, the start of `DFWA_task` | `DfwaInit`, `Start`, `Confirm` |
| message loop | `DFWA_task` | `AlarmMessage`, `Prepatch`, `FullApply`, `Cancel`, `CancelApply`, then `Save` |
| patch | `doPatch` by `ePatchState` | `Validate`, `Decrypt`, `Build`, `InvalidState`; `WaitForSysIdle`, `OrderSwap`, `OrderSwapSave`; `AfterSwap`, `ClearOrder`; `ExecNvCommands`; `CopyNvImage`, `CopyNvFile`, `CopyNvRest`, `CopyNvDone` |
| restart | reset, power loss, `BL_MAIN_Main` | `Reset`, `PowerLoss`, `Boot`, `BootCopied`, `BootFailed`, `BootAfterGasp`, `AppReady` |

`firmware` and `config` are what the update is about: the code, and the layout
the other non-volatile data are in. A patch is reduced to its `Verdict`, what
the checks of header and image would find. A restart in the last gasp runs the
application without the boot loader's copy. `stale` and `overwritten` are history:
`Track`, a part of every step that may write the file, notes which task's copy is older than the
file, and whether such a copy was written back.

Definitions whose name says what goes wrong (`PlaceLast`,
`EmptyKeepingBlocks`, ...) and whose comment starts with "Mutant" are
plausible bugs: each stands beside the definition it corrupts, and substituting
it makes the property it is paired with fail.

## 3. Runs, bounds and results

| Run | Instance | Shows |
|---|---|---|
| `banked_store` | 6 banks in 3 sectors, automatic erase, 2 chunks, numbers to 7, 2 values; power loss while idle, in the loop, programming a chunk and committing; read errors | the scan finds the last write or the one in progress; reads return the last successful write; no two banks share a number; implements `DurableRegister` |
| `banked_errors` | 4 banks in 2 sectors, 1 value; automatic erase, erase of the partition, also cut short; an error in every phase, missed and covered-up erases included | `CurrentBank` is the loop of `findCurrentBank` on every flash these lead to, gaps and repeated numbers included |
| `banked_retry` (violation) | one failed device write | see section 4 |
| `sys_busy` | 2 workers, 2 lockers, 1 retry | the counter counts the workers; nobody works while the lock is held; every wait returns |
| `sys_busy_grant` (violation) | the same | see section 4 |
| `mac_tx` | 3 requests of 2 priorities, 1 or 2 segments, 0 or 1 retries, 3 blocks; lost confirms, late ones of any status, pauses; fairness | types; blocks conserved; queue by priority, FIFO among equals, head in progress not overtaken; success means sent, late confirms apart; implements `DataService`; every accepted request is answered or withdrawn |
| `mac_rx` | 2 senders, 3 packets with ids modulo 2 from one and 1 from the other, each sent twice; 2 buffers, 3 segments, 2 pairs; loss; no free message buffer | counters equal buffers in use; segments conserved; every buffer is reclaimable and returns; implements `LossyLink` |
| `mac_rx_expiry` (violation) | the same, a timer may expire while its frame is handled | see section 4 |
| `timers` | 3 timers of every kind, durations of 1 and 3 ticks | the first timer of the list is never due when a tick decrements it; the list holds the active timers, each once; implements `TimerService` |
| `buffers` | 2 workers and the debug task; 1 application buffer in the larger of 2 pools, 4 debug buffers, a debug queue of 3, a task queue of 1 | every buffer is in one place and its marks say which; queues never run ahead of their semaphores; `currAlloc` errs downwards only and never below zero; the debug log needs no second mutex; every call returns; implements `BufferExchange` |
| `download` | a right, encrypted patch and one that gives a wrong image, 2 packets each, 3 times, 2 alarms, 2 waiting commands; 2 power failures, the first of which may be a last gasp, or failed copies of the code; no buffer for the posts of packet, cancel and apply | code and data are converted both or not at all; the unit is never left in `brick()`; a file that says complete has its patch; no copy of the file is written back over what the other task wrote; only what was asked for is swapped in; a patch that has begun ends |
| `download_overlap` | the same, the two tasks meet in the file in both ways; 2 power failures in any phase, without exception; no buffer for the posts of packet, cancel, apply and restart | an accepted download is lost in one way only, and a swap nobody asked for is ordered after that only: a copy older than the file was written back; until then a file that says complete has all the packets, or none if the erase was cut off |

Why the bounds are enough:

- *Banks.* Every behaviour of a write depends on whether the next bank is in the
  same sector, whether the ring wraps and whether the sequence number wraps. 4
  banks in 2 sectors with the largest number 5 make them all happen, in every
  relative position, within two turns of the ring. Two chunks separate
  the chunk that carries the number from one that does not. The code's largest
  number is 255, and the model asks only that it exceeds the number of banks.
- *Values.* 0 is an erased chunk and 1 a written one, `Torn` a chunk that power
  interrupted. Writing 0 or the value already there takes the code's
  compare-and-skip path.
- *Transmit.* Three packets are the least in which one waits while another is
  placed between it and the one in progress; there are higher, lower and equal
  priorities, and packets of two segments with and without a retry. Blocks are
  reused; with one for every packet no request is refused. One confirm may be late at a
  time (`MaxLate`), beside one that the MAC made up; it is taken for the frame of the retry or
  for the next packet's.
- *Receive.* Ids modulo 2 instead of 4 make the third packet carry the
  first one's id. 3 segments for two senders of two make the pool run dry.
  `QueueSize` 1 loses a frame that finds the MAC busy, like any lost one.
- *Timers.* A timer that is inserted or deleted changes itself and its neighbour
  behind it: three timers put it first, between and last. With durations of 1
  and 5 ms and ticks of 2 ms both are rounded up, and what is left takes every
  value from 0 to 3 ticks, so that timers end together, before and after one another.
- *Each packet submitted once, finitely many packets sent*: these bound the
  counters; there is no other state constraint in any run.
- *Buffers.* A pool that is empty beside one that is not makes an allocation
  go on to the larger one. Four debug buffers for a queue of three make
  both the queue and the pool the limit, and two workers and the debug task
  interleave any two calls with a third. One application buffer passes
  through a worker's hands, a queue and its pool; the debug buffers, of
  which there are several, show the order.
- *Downloads.* A second download replaces, overtakes or is refused by the
  first. Three times order the apply, the expiry and the schedule in every way.
  Two power failures are enough to interrupt a restart that already goes on with
  what a first one interrupted. `QueueRoom` bounds the commands that wait:
  a handler starts, and an alarm rings, only while fewer do.

What the passing runs leave out, on purpose and as constants of the modules:

- `banked_store` does not let power fail, or a device error
  end, an erase or a rewrite. There `RestartFindsCurrent` does not hold:
  between the erase of a sector and the rewrite of its saved contents the other
  banks of the sector exist only in RAM, and an automatic erase that does not
  happen leaves old numbers in the ring. Nor does it hold after errors between
  numbering and commit (section 4), nor for an erase of the partition, after
  which the RAM meta data still points at a bank in the middle of the ring.
  `ReadsLastWrite` holds with every error except a failed, missed or covered-up erase
  and a failed rewrite, and this is a theorem (section 6).
- `banked_store` also leaves out power loss in the commit of the first bank of a
  sector, phase "enter". That bank may then be committed and the old sector not
  erased, and old numbers follow it, as above. A ring without the automatic erase is
  the subject of the theorems (section 6).
- `mac_tx` withdraws packets that wait, not the one in
  progress: a purge leaves `CurrentPacketTracking` as it is, and the next
  packet goes on where the purged one stopped. It flushes a queue of one:
  `MAC_PacketManag_Flush` takes the next element from a block it has already
  given back, whose first word links the free list by then, and so leaves
  packets of a longer queue behind. Only a command of the debug port calls it.
- A confirm that comes after its timeout is taken for one of the frame that is
  there by then, of a later try or of another packet. `misled` records the packets
  this happens to: `SuccessMeansSent` and `DataService` speak of the others.
- `mac_rx` assumes `Timely`: a sender does not reuse an id while the receiver
  still holds what it knew under that id. The defaults are a reassembly timeout
  of 60 s and a pair timeout of 2 s against the time of four packets. It has a pair for
  every sender: with fewer, a repetition is delivered again. It has a timer for
  everyone, and no timer expires between `Find` and `Handle`.
- `download` leaves out four phases in which a power failure breaks what it checks:
  "erase" (section 4); "copyRest" and "copied", after the file was copied back
  with the converted data and before the file says that all is done, whereupon the data
  are converted a second time; and "abort", in which a file that
  says idle is written before the order to the boot loader is taken back, whereupon the
  code is swapped later with nobody to convert the data. `FirmwareFitsNv`
  fails with each of the last three. It also fails with `MaxGasps` 2: after a power failure
  between the order and the file that says so ("swapSave") the swap is done and
  then ordered again, and if power fails once more and the unit sits that out in its
  last gasp, the boot loader is passed by and the swap done before is
  taken for one that was not.
- `download` has an empty `Overlap`: its properties are about tasks that do not meet in the
  file, and with "report" or "preempt" most of them are false of the code. With "report" an
  accepted download is lost (`InitSticks`, item 5 of section 4) and a copy is written
  back late (`NothingOverwritten`). With "preempt" an alarm that rings while
  `DFWI_DownloadInit` erases the old patch breaks `CompleteIsWhole` (item 6). The apply
  it starts swaps in the image that was built before, and the restart that does so finds
  the patch erased and ends in `brick()`: `NeverBricked` fails too, with no
  power failure. So do `InitSticks` and `SwapsAsAsked`. What does hold wherever the tasks meet is the subject of
  `download_overlap`, which leaves out nothing but the shortage of item 7.
- `download` leaves out two of the five shortages: without a buffer in
  `DFWI_DownloadInit` `SwapsAsAsked` fails (item 7), and without one at a restart
  `PatchEnds` does (item 8). The other safety properties hold whatever post finds no
  buffer (section 6).

## 4. Where the code and its documentation disagree

The first three are runs that find the stated property violated. The others have no run of their
own: TLC finds the property violated when the named constant of `MC_Download.cfg` is changed as
said.

1. `banked_retry` / `RestartFindsCurrent`. `bnk_write` advances
   `CurrentBankSequence` (`dvr_banked.c:417`) before the device write has
   succeeded and does not take it back. After a failed write and a successful one
   the ring has a gap in its numbers, and the scan stops before it: a restart
   returns older contents, though the comment (`dvr_banked.c:638-641`) says
   the scan finds the most current information.
2. `sys_busy_grant` / `GrantMeansLocked`. `SYSBUSY_lockIfIdle` can return
   `eSYS_IDLE` without holding the mutex, when the last worker clears the state
   between the unlock and the read (`sys_busy.c:230`). Its header says "System
   was idle and locked".
3. `mac_rx_expiry` / `CountsAreBuffers`. The timer task outranks the MAC task,
   so a buffer can be put on the stale list while its frame is handled. It is
   emptied twice, and the two counters, 16 bits wide, wrap below zero. The
   transmit side waits for `UnicastCount` to be zero (`MAC.c:1454`).
4. `"erase"` in `CrashPhases` / `CompleteIsWhole`. `DFWI_DownloadInit` erases the patch of the
   download before (`dfw_interface.c:2674`) and writes the file of the new one
   only at line 2693. After a power failure in between the file still says
   `eDFWS_INITIALIZED_COMPLETE`, "All packets received - Waiting for apply
   command" (`dfw_app.h:180`). An apply, the scheduled one included, is accepted, the image
   built before is swapped in, and at the next restart `DFWA_init` finds the
   patch not right and stops in `brick()` (`dfw_app.c:767`): `NeverBricked`
   fails with this phase as well.
5. `Overlap = {"report"}` / `InitSticks`, `NothingOverwritten`. `DFWA_task` reads the file after a restart
   (`dfw_app.c:864`), waits until messages are handled and ten seconds more (910), sends
   the report that was due, and writes its copy back (930). A download
   accepted meanwhile, answered "RCE initialized for download" (`dfw_interface.h:160`), is
   overwritten: the file says again that there is none.
6. `Overlap = {"preempt"}` / `CompleteIsWhole`, `NeverBricked`. `DFWI_DownloadInit` reads the file
   (`dfw_interface.c:2584`), erases the patch (2674) and writes the file (2693), in a task of
   lower priority than the DFW task (`Task.c:434, 442`). The alarm of a scheduled
   apply in between makes the DFW task save a file that says "All packets received"
   for the erased patch. No power failure is needed.
7. `"init"` in `Shortages` / `SwapsAsAsked`. "Cancel previous Apply schedule if exists"
   (`dfw_interface.c:2695`): if `BM_alloc` has no buffer for that command, the handler logs it
   (2707) and answers RCE_INITIALIZED all the same. The alarm of the download before rings
   when the new one waits for its apply, and the swap is ordered.
8. `"start"` in `Shortages` / `PatchEnds`. "If download completed, but still need to decrypt or if
   decryption has completed, send message to task to (re)start execution" (`dfw_app.c:866`): if there
   is no buffer for the message (883), nothing tries again. The file stays in
   EXEC_PGM_COMMANDS, in which new downloads are refused, until a restart or a cancel.

## 5. Fairness and deadlock

`Spec` has no fairness anywhere; `FairSpec` adds what the code's scheduling
gives:

- *`SysBusy`*: strong fairness of `LockIfIdle`, as FreeRTOS gives a mutex to its
  highest waiter when released, and workers release it after each call; weak
  fairness of the next step of a task that runs, and of a locker that has the
  system giving it up or resetting, as its task does in every path.
- *`MacTransmit`*: the MAC task's loop runs for ever, woken at least by its
  message timeout: strong fairness of making and starting a frame, because
  a pause disables them for a while; weak fairness of the end of the channel
  assessment, whose back-offs are counted; strong fairness of a confirm or the one made up in
  its place, whose time the MAC computes itself (`CheckPHYTimeout`), so that the PHY's "busy"
  does not repeat for ever; and a pause is followed by a resume, which
  its callers do. No fairness for requests, purges or late confirms.
- *`BufferManager`*: weak fairness of a task's steps, as FreeRTOS runs a ready
  task in the end; strong fairness of its taking a mutex, which a holder,
  inheriting the priority of who waits, releases to the highest waiter. None for calls.
- *`Download`*: weak fairness of the DFW task, of a handler that has begun, and of the
  restart. None for the head end, time, alarms or the loss of power.
- *`MacReassembly`*: weak fairness of the MAC task's steps; strong fairness of a
  timer's expiry, which every frame of the packet restarts. None for the nodes.

Deadlock is checked in every run but three: in `mac_rx` and `mac_rx_expiry` the
nodes send finitely many packets and the receiver then rests, and in `download_overlap` a
unit may end in `brick()` at the last time the clock shows.

## 6. Proofs

`tlapm` checks eight modules: `BankedStore_proofs`, `SysBusy_proofs`, `TimerList_proofs`,
`MacTransmit_proofs`, `MacReassembly_proofs`, `BufferManager_proofs`, `Download_proofs`,
and `ListFacts`, which holds lemmas that five of them share. They prove, for every
value of the constants that satisfies the assumptions of the module they are about and
the hypotheses in the table:

| Theorem | Statement | Argument |
|---|---|---|
| `TypeCorrect` | `Spec => []TypeOK` for the banked driver | one lemma per group of actions; `CurrentBankExists` shows that the `CHOOSE` of `CurrentBank` has a witness among the written banks: the first written bank starts the chain, and a finite set of chain members has a greatest one |
| `AutoEraseIsSafe` | `Spec => AutoEraseSparesCurrent` | modular arithmetic: the previous sector differs from the current bank's, as the ring has at least two sectors |
| `ScanIsLoop` | `Spec => []ScanMatchesLoop` | `Known`, below, by induction over the banks |
| `ReadsAreCurrent` | `Spec => []ReadsLastWrite` if `ErasesWork`: `FailPhases` has none of "erase", "rewrite", "maskedErase", "partition" | the inductive invariant `CopyInv`, below |
| `RestartIsCurrent` | `Spec => []RestartFindsCurrent` if `Sheltered` | the inductive invariant `RingInv`, below, on top of `CopyInv` |
| `NumbersAreDistinct` | `Spec => []SequencesDistinct` if `Sheltered` | the numbers along a chain differ, as there are more numbers than banks |
| `BankedIsDurable` | `Spec => DurableRegister` if `Sheltered` | each action maps to a step of the register or to a stutter; `Open` is a restart because the scan ends on a candidate |
| `CounterCorrect` | `Spec => []CounterIsWorkers` | `Inv`, below, with the library's facts on cardinalities |
| `HeldExcludesWork` | `Spec => []HeldMeansIdle` | the same `Inv` |
| `ListAgreesWithMarks` | `Spec => []ListedAreActive` for the timers | `Agree`, below |
| `TimersTyped` | `Spec => []TypeOK` for the timers | `Sound`, below: no ticks are negative |
| `HeadIsNeverDue` | `Spec => []HeadNotDue` | the same `Sound` |
| `TimersCountDown` | `Spec => TimerService` | what each timer has left is a sum along the list, and every action changes these sums as the timers' own countdowns would |
| `BlocksAreConserved` | `Spec => []BlocksConserved` for the transmit side if `FlushLimit <= 1` | the inductive invariant `QueueSound`, below |
| `QueueIsByPriority` | `Spec => []QueueByPriority` under the same hypothesis | the same `QueueSound` |
| `NothingOvertakes` | `Spec => NoOvertaking` under the same hypothesis | from `QueueSound`, step by step: only an insertion moves packets, behind the head and behind their equals |
| `TransmitTyped` | `Spec => []TypeOK` if also `Withdrawable # "any"` | the inductive invariant `TrackingSound`, below, on top of `QueueSound` |
| `SuccessIsSent` | `Spec => []SuccessMeansSent` under the same hypotheses | the same `TrackingSound` |
| `FramesFit` | `Spec => []FramesFitTogether` under the same hypotheses | the same `TrackingSound` |
| `MacServesData` | `Spec => DataService` under the same hypotheses | each action answers one request, truthfully, or none |
| `KnownInOnePlace` | `Spec => []OnePlacePerNode` for the receive side, whatever goes wrong | `Single`, below |
| `DeliversAsALink` | `Spec => LossyLink` if `Mishaps` has no "noTimer", `PacketTimeout # 0` and there are as many pairs as nodes | the inductive invariant `LinkInv`, below |
| `ReceiverTyped` | `Spec => []TypeOK` if `Mishaps` has neither "noTimer" nor "expiry", `PacketTimeout # 0` and there are fewer than 65536 buffers | the inductive invariant `TidyInv`, below |
| `CountersAreRight` | `Spec => []CountsAreBuffers` under the same hypotheses | the same `TidyInv` |
| `SegmentsAreConserved` | `Spec => []SegmentsConserved` under the same hypotheses | the same `TidyInv` |
| `BuffersAreReclaimable` | `Spec => []Reclaimable` under the same hypotheses | the same `TidyInv` |
| `SemaphoresBacked` | `Spec => []SemaphoreBacked` for the buffer manager | the inductive invariant `Inv`, below; `Undisturbed` and `Moved` keep the balance of semaphore and queue for every action |
| `LogIsLockFree` | `Spec => []LogNeedsNoLock` | `Calling`, a part of the same `Inv` |
| `BuffersApart` | `Spec => []Apart` | the inductive invariant `Placed`, below, on top of `Inv` |
| `BuffersExchanged` | `Spec => BufferExchange` | `Dequeue` is a get or a receive, `Enqueue` a release or a send, everything else a stutter |
| `AllocationsNotOvercounted` | `Spec => []NeverOvercounted` | `Guarded`, `Homes` and `Counted`, below |
| `OnlyInboxOverflows` | `Spec => []OnlyInbox`: only a post to a task's full message queue ends in a firmware error | `Homes`: a pool is never given more than its own buffers, and `Calling`: the debug queue has room |
| `MarksAreRight` | `Spec => [](Running => OnePlace)`; `Running` says that no firmware error has ended the program | `Exact`, below |
| `BuffersTyped` | `Spec => [](Running => TypeOK)` | the same `Exact` |
| `RoomSuffices` | `Spec => [](TypeOK /\ OnePlace)` if `Roomy`: a message queue takes all application buffers there are | then `Running` holds for ever |
| `LostByOverwritingOnly` | `Spec => []LostOnlyByOverwriting` for the download, with no hypothesis | the inductive invariant `overwritten \/ Stays`, below |
| `NeverOverwritten` | `Spec => []NothingOverwritten` if `Overlap = {}` | `Stays /\ Apart`, below |
| `AcceptedSticks` | `Spec => []InitSticks` if `Overlap = {}` | the two theorems above |
| `CompleteAlwaysWhole` | `Spec => []CompleteIsWhole` if `Overlap = {}` and `CrashPhases` has no "erase" | the inductive invariant `Inv`, below |
| `FirmwareAlwaysFits` | `Spec => []FirmwareFitsNv` if `Overlap = {}`, `CrashPhases` has none of "erase", "copyRest", "copied", "abort", and `MaxGasps <= 1` or it has no "swapSave" | the inductive invariant `Update`, below, on top of `Inv` |
| `NeverBricks` | `Spec => []NeverBricked` under the same hypotheses | the same `Inv` and `Update` |
| `SwapsOnlyAsAsked` | `Spec => SwapsAsAsked` if `Overlap = {}`, `"init" \notin Shortages` and `"erase" \notin CrashPhases` | the inductive invariant `Asks`, below, on top of `Inv` and `Sticks` |

**The banked driver.** `ReadsLastWrite` is not inductive: it speaks of idle states only, and says
nothing of a write half done. `CopyInv` adds what the loop of `bnk_write`
maintains: the current bank still holds `committed`, the chunks of the next
bank written so far hold those of `attempt`, the saved sector is a copy of the
flash, and the buffer holds the chunk to come. An erase that is not done breaks
the first of these, hence the hypothesis, which is named in the theorem.

`Sheltered` is the hypothesis of the three theorems about the ring: no `AutoErase`, no
erase of the partition, `CrashPhases` within idle, chunk, program and commit, and of the
device's errors only those of reads. The run
`banked_store` checks the same three properties for a ring with the automatic erase. The hypothesis
cannot be dropped: sections 3 and 4 say what an erase cut short, an erased partition and a failed write do to them.
`RingInv` says that the bank in use is the end of a chain (`ChainTo`): the
written banks are those from 1 on, or all of them, and each holds the number
that was given as many writes ago as it lies behind the bank in use around
the ring. It also says where the RAM sequence number stands (it runs ahead of the flash
from the last chunk on), that a bank being programmed without an erase is still
blank in that chunk, and that a sector being rewritten differs from its saved copy in that
it is erased. The proof has three parts: the arithmetic of
the ring (`Ages`, `BackFacts`), the scan (`ScanFindsChainEnd`: every bank of
the chain up to its end continues it, the one behind the end does not, since
the next number is in no bank), and one lemma per group of actions, whose
core is `ChainGrows`: the commit of a bank makes it the new end of the chain.

The theorems above speak of the declarative `CurrentBank`; `ScanIsLoop` ties it to the code's
loop, on any flash whatever. `Known` says what the loop's variables hold before
bank `i`: the last bank of the chain met so far, its number and the next one, and
whether a written bank has broken the chain. One turn of the loop takes
`Known(f, i)` to `Known(f, i + 1)`. The induction is by `Climb` of `ListFacts`,
which says of a set that it contains an interval if it contains its first number
and with each the next: the least number outside would have a predecessor inside.

**The busy counter.** `HeldMeansIdle` needs `CounterIsWorkers` (a mutex is kept only if the state is
idle, and only the counter ties that to nobody at work) and `TypeOK`: `Inv` is
their conjunction. The assumption `CounterAssumption`, fewer workers
than the counter can count, is what keeps `SetBusy` from saturating.

**The timers.** `Agree` is `ListedAreActive` with the types of the list, the durations
and the marks; it says nothing of ticks. Insertion and removal change those of
two neighbours, and whatever they become, the list stays without repetition
(`InsertFacts`, `RemoveFacts`, `TailFacts`) and the marks stay as they are.
`Sound` adds the ticks. What a timer has left is `Total`, the sum of the ticks along the
list up to its place, or its own ticks if it is stopped. The lemmas on insertion and
removal say that `Total` of no other timer changes: what is added before one
neighbour is taken from the next. So a tick, which decrements the head only, decrements what
every running timer has left (`HeadNotDue` is what makes that a decrement), and
`View`, the table of those totals, takes exactly the steps of `TimerService`. The sums
are a recursive function over the places of the list; `Climb` gives the induction.

**The transmit side.** The free list is a chain through the blocks. `Walks` names the blocks it
meets, in order and each once, and `Holds(pool, F)` says that they are those of
`F`: a get takes the first, a put adds one in front. `QueueSound` says that the blocks not in
the queue are what the pool holds, that the queue has no block and no packet twice, that only its
head is ever in progress, and `QueueByPriority`. A flush of two or more packets
follows the link of a block it has already given back, which is why `FlushLimit <= 1`
is a hypothesis (section 3). `TrackingSound` says whose `CurrentPacketTracking` is:
nothing is begun, or it belongs to the packet at the head (`HeadSound`), each segment it marks as
sent was on the air or a late confirm was taken for it (`Trying`); the frame
that exists is the head's current segment (`FrameSound`); and nothing of a packet
that waits was sent (`SilentTillBegun`). A purge of the packet in progress hands its
tracking on to the next, hence `Withdrawable # "any"`. Late confirms, retries, timeouts
and pauses need no hypothesis.

**The receive side.** `Single`, at most one buffer or pair per node, is kept because a step that
takes a buffer or a pair for a node has found none, and all the other functions
leave in use less than there was (`Fewer`). `LinkInv` is about one node at a time: a buffer
that collects has parts of one packet only (`GoodBuffer`), newer than all that was
delivered and not newer than what is on the air; a pair remembers a packet as new as any
delivered (`GoodPair`); and what comes from a node that is not remembered is not a
repetition (`Fresh`), which is where a pair for every node is needed: TLC finds a packet
delivered twice with one pair less. The code has 10 pairs on the end point and 800 on the
data collector (`MAC_FrameManagement.c:45, 57`). A timer that expires between
`Find` and `Handle` is allowed for: `HandGood` says that the buffer found still has the
same parts, even if it has been put on the stale list. That ids are reused late enough is `Timely`, a
guard of the model (section 3). `TidyInv` says that the counters, the pool of segments and
each buffer's timer and blocks agree between the steps, and that each stale buffer is
queued once; inside a handler, where the calls follow one another, `Tidy(r, b)`
says so of all but the buffer `b` in work. It fails under "expiry", which is item 3 of
section 4, and under "noTimer", where a buffer in use has no timer and is never given
back (`SegmentsConserved` holds there nevertheless, as TLC finds). The bound on buffers
keeps the 16-bit counters from wrapping; the code has 5 and 850.

**The buffer manager.** `SemaphoreBacked` counts the threads between the two halves
of a post or a pend. It is inductive only with what keeps those halves apart:
`Calling` says where a task is in its own code and in `DBG_log`, and that only the
holder of `logPrintf_mutex_` posts to the debug queue, which then has room, as
nothing else does; `Holding` says that whoever is about to post has a buffer.
`Placed` adds that buffers in queues and hands are all different (`Apart`), that a
buffer marked as free is in a pool or on its way to one (`Marked`: this is why
`LockFree` never meets its own "already freed" branch, which would lose the buffer), and
at which stages a task has no buffer (`EmptyHanded`: else `Dequeue` would overwrite
it). None of this needs `bufMutex_`. The mutex protects the statistics and the marks:
`Guarded` says that whoever frees a buffer holds it, so two never do at once; `Homes` that a
buffer is only in its own pool, in a message queue if it is an application's, or in the
hands of one who will put it there; and `Counted` that what `BM_Free` has read of
`currAlloc` is not above what the count is by then, as allocations only add to it and nobody
else subtracts. `NeverOvercounted` follows for any interleaving, firmware errors
included. `OnePlace` and `TypeOK` fail once `OS_MSGQ_Post` has met a full queue, where the code
stops with a firmware error; until then `Exact` holds, by which every
buffer is somewhere and counted as queued exactly where it is. `RoomSuffices` says
what would exclude that error. `WorkersAssumption` is there because semaphores
are counted against sets of threads.

**The download.** `LostByOverwritingOnly` has no hypothesis: it holds however the tasks meet in
the file, whatever post finds no buffer, and wherever power fails. Its invariant `Stays` says, as
long as nothing was overwritten, of every copy of the file that is not stale that it is of the
download the file is of: the handler's (`Reading`), the DFW task's (`Copied`) and the one in the
NV image (`Imaged`); that a CANCEL that waits is for a download that does not stand any more
(`Cancelled`); and in which states of the file each phase works (`Phased`). A stale copy need
only be written back, and then the disjunct `overwritten` holds for ever.
`NeverOverwritten` is the other half, and there `Overlap = {}` is needed: by `Apart` a handler
that has found the file open, and so may write, does so while the DFW task waits for commands or
for its reset and has no copy; a handler that runs while `doPatch` works on a copy has found
the file closed and does not write. So what keeps the tasks apart there is the state in the file,
which is what the theorem is about. `AcceptedSticks` is both together.

`CompleteIsWhole` is about three records at once: the file, the DFW
task's copy of it, and the file in the image of the NV data, which is copied back at
the end of a patch. `Files` says of each that it waits or works only for a complete patch
without an error, and tells the truth about the packets. `Handler` is what keeps that
true under a new download: a handler that read a file it may replace runs alone, and
what it read is still the file. `Orders` is the other half: a PREPATCH that waits finds
all packets, since a handler begins only when the DFW task, of the higher priority, has
emptied the queue, or just before a restart that empties it. `PhaseFacts` says what the
phase of the DFW task tells of file and copy. All this holds for
any number of streams, packets, alarms, waiting commands and power failures, in any
phase but "erase"; neither that phase nor an `Overlap` can be allowed, as items 4 and 6
of section 4 show.

`FirmwareFitsNv` looks at two variables, but which values they may take together
is told by four others that are written one at a time: the boot loader's order, the
image, the state in the file, and the phase. `Update` distinguishes six parts of an update:
`Before`; `Ordered`, the boot loader has its order, but may have been passed by in a
last gasp; `GivenUp`, it was; `Swapped`; `Converting`; and `After`. Each says what the
file and the flash then hold (a failed copy of the code leaves the order done and the code torn), and each action leads from a part to itself or to the next ones,
or back from `GivenUp` to `Before`. Three facts carry it: a file that waits for the swap has the image
(`Built`); the code is torn only while the boot loader is copying, or off with the
order still there (`Swapping`), so that it begins again; and the file in the NV image says
that the conversion is to be done, so a copy that is cut short is done again.
`Deciphered` keeps `DFWA_init` from dropping a patch beyond its image: none is still
marked as being decrypted. `Lost` is why the hypothesis on gasps is there: a power failure between the
order and the file that says so leaves `DO_FLASH_SWAP` in the file while the boot loader
does what it was told; the swap is then ordered a second time, and with one gasp at most,
which such a failure has used up or come after, the boot loader is not passed by again.
Without the hypothesis, and with "copyRest", "copied" or "abort", TLC finds `FirmwareFitsNv`
violated (section 3). The hypothesis on "erase" comes from `Inv`; TLC
finds no violation with that phase. `NeverBricked` follows from `Inv` for `DfwaInit`, which
stops for a patch that is not whole, and from `Update` for `ExecNvCommands`, which stops for a
code of neither version: in the part `Converting` it is the new one.

`SwapsAsAsked` follows a time on its way: from the apply message into the command
FULL_APPLY, into the file and an alarm, from the alarm into a command TIME, and from there to the
swap, or, after a restart, from the file into an alarm again. `Asks` says at each station that
the time was asked for, for the stream in the file: `Wanted` of the file and of the task's copy,
`CommandsAsked` of what waits, `AlarmAsked` of the alarm that is set and of the one that
rings. The hard part is what a cancel or a new download leaves behind. An alarm that rang
before it still waits in the queue, so `AlarmAsked` excepts what cannot do harm: the
file is of no download, or a CANCEL_APPLY that will delete the alarm waits. `InTurn` says that only
alarms wait in front of a command about one download, so such a command is about the
download in the file when its turn comes; `Kept`, that an alarm which rings behind an
apply has not been given away since; `PhaseAsks`, that before `DFWA_task` waits for
commands there are neither commands nor alarms (`AtRest`), and that no handler works on
a file while more than alarms wait. The hypothesis on "init" is that there is a CANCEL_APPLY
to except the alarm of a download that was replaced: item 7 of section 4 shows what happens
without. The other four shortages are allowed.

Only model-checked: the ring of banks with the automatic
erase; and all liveness properties (`WaitReturns`, `AcceptedIsAnswered`, `BuffersReturn`,
`CallsReturn`, `PatchEnds`), which are out of the prover's reach, as fairness and `ENABLED` are;
and `AskedUnlessOverwritten` and `CompleteIsAllOrNothing`.
Every other property of the passing runs is stated by a theorem. The theorems `AutoEraseIsSafe`,
`FramesFit`, `KnownInOnePlace` and `AcceptedSticks` are about properties that need no run besides.

## 7. What is not modelled

- In the banked driver: erasing a part of a bank, `bnk_restore` and `bnk_dump`,
  a read error during the scan, and a second client of one partition without
  the mutex. In the flash driver: partial sector erase, power modes, busy polling.
- In the MAC: ping, time, get, set, start, stop and reset requests, the throttle, the
  choice of channels, the hold of transmission while a unicast packet is being
  received, ACK frames, and the bit layout of a frame. The phases of the clear-channel
  assessment are one, in which requests are taken as they are in each of them.
- The PHY, the radio, signal processing and codes; the security element and the TLS
  handshake (cryptography, and a vendored library); message formatting,
  command lines, diagnostics, pure byte utilities, board support;
  FreeRTOS, MQX, wolfSSL and the vendor support packages, which are third-party code.
- In the buffer manager: static buffers, the other statistics, and the watchdog that resets
  the unit when an allocation has failed for too long. It passes its two times to
  `OS_TICK_Get_Diff_InMinutes` in the wrong order (`buffer.c:543`, as do
  `MAC.c:1192` and `radio.c:3918`), so its difference is not the time that passed.
- In the download: the other targets (the boot loader itself, the flash swap of the
  K24, end devices of a meter), the macro commands one by one, XZ patches, time
  diversity, the writing of the boot loader sector by sector, and errors of the flash:
  one in writing the order to the boot loader (`dfw_app.c:2047`) leaves the file
  in `DO_FLASH_SWAP` with an error, which the next restart answers with `brick()`, and one
  in copying the NV data calls it at once. The `brick()` for code of neither version
  (`dfw_app.c:2250`) is in `ExecNvCommands`. A failed copy by the boot loader is
  `BootFailed`, without the count the boot loader keeps of such failures. One
  update from the old to the new firmware is followed.
- In the timers: the semaphore through which the tick interrupt wakes the handler
  (it holds 400 ticks), and the queries.
- The components of the plan, until they are written.

## 8. Plan

Done: `BankedStore` with `DurableRegister`, `SysBusy`, `BufferPool` and
`MacTransmit` with `DataService`, `MacReassembly` with `LossyLink`, `TimerList` with
`TimerService`, `BufferManager` with `BufferExchange`, `Download`. To come, in this order:

1. `MacStation`: `MacTransmit` and `MacReassembly` in one station, tied by
   `UnicastCount`, and two stations over a lossy air against one abstract link.
2. `PowerDown`: the two power mutexes and the NV writers; `PreErase` and `Cache`
   over the banked driver; `EventLog`.
3. `SystemTime`: periodic and calendar alarms under jumps of the clock.

Theorems to come, in order: the ring with erases, where the chain may be cut at its
old end (`RestartFindsCurrent` and `SequencesDistinct` with `AutoErase`);
`FirmwareFitsNv` without the hypothesis on "erase", of which it does not speak;
and, for each component to come, its invariants along with its module.
