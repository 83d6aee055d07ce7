---------------------------- MODULE BankedStore ----------------------------
(***************************************************************************)
(* The banked non-volatile driver, src/Common/driver/dvr_banked.c, on the   *)
(* external flash driver under it, src/Common/driver/dvr_extflash.c.        *)
(*                                                                          *)
(* A partition is a ring of equal banks.  A write copies the current bank,  *)
(* with the new bytes merged in, into the next bank chunk by chunk; the     *)
(* last chunk carries the bank's sequence number and so commits it.  After  *)
(* a restart findCurrentBank follows the sequence numbers to the newest     *)
(* bank.  Sequence number 0 means erased.  The flash erases whole sectors   *)
(* of BanksPerSector banks: a chunk that cannot be written over what is     *)
(* there costs a read-erase-rewrite of its sector, and a partition with     *)
(* AutoErase erases the previous sector each time it enters a new one.      *)
(*                                                                          *)
(* Power may fail in any phase of CrashPhases, and the device may report an *)
(* error in any phase of FailPhases.                                        *)
(***************************************************************************)
EXTENDS Integers, FiniteSets

CONSTANTS NumBanks,        \* sAttributes.NumOfBanks + 1
          BanksPerSector,  \* EXT_FLASH_SECTOR_SIZE / lSize
          Chunks,          \* lSize / sizeof(rdModWrBuf_)
          LastSequence,    \* 255: the largest sequence number of a uint8_t
          Values,          \* what a chunk may hold; 0 is the erased chunk
          AutoErase,       \* PartitionType.AutoEraseBank
          MayErase,        \* TRUE if the partition's owner erases all of it
          CrashPhases,     \* the phases in which power may fail
          FailPhases       \* the phases in which the device may fail

Torn == -1                 \* a chunk whose programming power interrupted

Phases == {"down", "idle", "chunk", "program", "erase", "rewrite", "autoErase", "partition"}

ASSUME BanksAssumption ==
  /\ NumBanks \in Nat /\ BanksPerSector \in Nat \ {0}
  /\ NumBanks >= 2 * BanksPerSector
  /\ NumBanks % BanksPerSector = 0
ASSUME ChunksAssumption == Chunks \in Nat \ {0}
ASSUME SequenceAssumption == LastSequence \in Nat /\ LastSequence > NumBanks
ASSUME ValuesAssumption == Values \subseteq Nat /\ 0 \in Values
ASSUME AutoEraseAssumption == AutoErase \in BOOLEAN /\ MayErase \in BOOLEAN

VARIABLES flash,       \* bank |-> its data chunks and its sequence number
          bank,        \* pMetaData->BankOffset / lSize
          sequence,    \* pMetaData->CurrentBankSequence
          pc,          \* the phase of the driver
          chunk,       \* indexIntoBank / sizeof(rdModWrBuf_)
          request,     \* the chunks and the value being written
          buffer,      \* rdModWrBuf_ of the chunk being written
          sector,      \* pExtSectBuf_: the sector saved while it is erased
          committed,   \* history: contents of the last successful write
          attempt,     \* history: contents of the write in progress
          candidates   \* history: contents a restart may come back with

driver  == <<bank, sequence, pc, chunk, request, buffer, sector>>
history == <<committed, attempt, candidates>>
vars    == <<flash, driver, history>>

Banks      == 0 .. NumBanks - 1
ChunkIds   == 1 .. Chunks
Sequences  == 0 .. LastSequence
Contents   == [ChunkIds -> Values]
Blank      == [c \in ChunkIds |-> 0]
ErasedBank == [data |-> Blank, seq |-> 0]
Requests   == [first : ChunkIds, last : ChunkIds, value : Values]
Nothing    == [first |-> 1, last |-> 1, value |-> 0]

\* Mutants: the erased number is not skipped; the numbers repeat too soon.
NextSequenceKeepsZero(s)  == (s + 1) % (LastSequence + 1)
NextSequencePerSector(s)  == IF s >= BanksPerSector THEN 1 ELSE s + 1

NextSequence(s) == IF s = LastSequence THEN 1 ELSE s + 1
NextBank(b)     == (b + 1) % NumBanks

\* The banks of the erase sector bank b lies in, and of the sector before it.
SectorOf(b)       == {x \in Banks : x \div BanksPerSector = b \div BanksPerSector}
PreviousSector(b) == SectorOf((NumBanks + b - BanksPerSector) % NumBanks)

\* What one chunk of a bank holds; the last one holds the sequence too.
Cell(b, c) == [data |-> flash[b].data[c],
               seq  |-> IF c = Chunks THEN flash[b].seq ELSE 0]

EmptyCell == [data |-> 0, seq |-> 0]

Put(contents, c, cell) ==
  [data |-> [contents.data EXCEPT ![c] = cell.data],
   seq  |-> IF c = Chunks THEN cell.seq ELSE contents.seq]

AllErased    == [b \in Banks |-> ErasedBank]
Erase(banks) == [b \in Banks |-> IF b \in banks THEN ErasedBank ELSE flash[b]]

-----------------------------------------------------------------------------
(* findCurrentBank: the written banks, taken in address order, are followed *)
(* as long as each continues the numbering of the one before it; the last   *)
(* one reached is current.                                                  *)

Written(f) == {b \in Banks : f[b].seq # 0}

Continues(f, b) ==
  \A a \in Written(f) :
     (a < b /\ ~ \E m \in Written(f) : a < m /\ m < b)
        => f[b].seq = NextSequence(f[a].seq)

\* Mutant: the highest number wins, without following the chain.
InChainByNumber(f, b) == b \in Written(f) /\ \A a \in Written(f) : f[a].seq <= f[b].seq

InChain(f, b) == b \in Written(f) /\ \A a \in Written(f) : a <= b => Continues(f, a)

CurrentBank(f) ==
  IF Written(f) = {} THEN 0
  ELSE CHOOSE b \in Banks : InChain(f, b) /\ \A a \in Banks : InChain(f, a) => a <= b

CurrentSequence(f) ==
  IF Written(f) = {} THEN 1 ELSE f[CurrentBank(f)].seq

-----------------------------------------------------------------------------
Init == /\ flash = AllErased
        /\ bank = 0 /\ sequence = 1
        /\ pc = "idle" /\ chunk = 1
        /\ request = Nothing
        /\ buffer = EmptyCell /\ sector = AllErased
        /\ committed = Blank /\ attempt = Blank /\ candidates = {Blank}

Merged(r, contents) ==
  [c \in ChunkIds |-> IF c \in r.first .. r.last THEN r.value ELSE contents[c]]

\* bnk_write is called with some bytes; the bank mutex is taken.
WriteBegin(r) ==
  /\ pc = "idle"
  /\ r.first <= r.last
  /\ pc' = "chunk" /\ chunk' = 1 /\ request' = r
  /\ attempt' = Merged(r, flash[bank].data)
  /\ candidates' = candidates \union {attempt'}
  /\ UNCHANGED <<flash, bank, sequence, buffer, sector, committed>>

\* bnk_write returns to its caller and the mutex is released.  What the two
\* static buffers still hold is never read again: it is forgotten.
Return == /\ pc' = "idle" /\ chunk' = 1 /\ request' = Nothing
          /\ buffer' = EmptyCell /\ sector' = AllErased
          /\ attempt' = Blank

ReturnSuccess == Return /\ committed' = attempt /\ candidates' = {attempt}
ReturnFailure == Return /\ UNCHANGED <<committed, candidates>>

\* The loop's next iteration; after the last chunk, the switch of banks.
ChunkDone ==
  IF chunk < Chunks
  THEN /\ pc' = "chunk" /\ chunk' = chunk + 1
       /\ buffer' = EmptyCell /\ sector' = AllErased
       /\ UNCHANGED <<bank, request, history>>
  ELSE /\ bank' = NextBank(bank)
       /\ IF AutoErase /\ bank' % BanksPerSector = 0
          THEN /\ pc' = "autoErase"
               /\ UNCHANGED <<chunk, request, buffer, sector, history>>
          ELSE ReturnSuccess

\* One iteration up to the flash driver's choice: read the current bank,
\* merge, number the bank if this is its last chunk, then compare with what
\* the flash holds there.
ReadModify ==
  LET last == chunk = Chunks
      seq  == IF last THEN NextSequence(sequence) ELSE 0
      cell == [data |-> IF chunk \in request.first .. request.last
                        THEN request.value ELSE flash[bank].data[chunk],
               seq  |-> seq]
      old  == Cell(NextBank(bank), chunk)
  IN /\ pc = "chunk"
     /\ sequence' = IF last THEN seq ELSE sequence
     /\ \/ /\ old = cell
           /\ ChunkDone
        \/ /\ old # cell
           /\ pc' = IF old = EmptyCell THEN "program" ELSE "erase"
           /\ buffer' = cell
           /\ UNCHANGED <<bank, chunk, request, sector, history>>
     /\ UNCHANGED flash

\* localWrite without erasing.
Program ==
  /\ pc = "program"
  /\ flash' = [flash EXCEPT ![NextBank(bank)] = Put(@, chunk, buffer)]
  /\ ChunkDone
  /\ UNCHANGED sequence

\* localWrite with bEraseBeforeWrite: the sector is saved, then erased ...
EraseSector ==
  /\ pc = "erase"
  /\ sector' = flash
  /\ flash' = Erase(SectorOf(NextBank(bank)))
  /\ pc' = "rewrite"
  /\ UNCHANGED <<bank, sequence, chunk, request, buffer, history>>

\* Mutant: the sector goes back without the new chunk in it.
RestoredUnchanged(b) == sector[b]

Restored(b) == IF b = NextBank(bank) THEN Put(sector[b], chunk, buffer) ELSE sector[b]

\* ... and written back with the new chunk in it.
RewriteSector ==
  /\ pc = "rewrite"
  /\ flash' = [b \in Banks |-> IF b \in SectorOf(NextBank(bank)) THEN Restored(b) ELSE flash[b]]
  /\ ChunkDone
  /\ UNCHANGED sequence

\* The erase of the previous sector, after the first bank of a sector; its
\* status is discarded.
EraseOld ==
  /\ pc = "autoErase"
  /\ \/ flash' = Erase(PreviousSector(bank))
     \/ "autoErase" \in FailPhases /\ UNCHANGED flash
  /\ ReturnSuccess
  /\ UNCHANGED <<bank, sequence>>

\* parErase of the whole partition: bnk_erase leaves the RAM meta data alone.
EraseBegin ==
  /\ MayErase /\ pc = "idle"
  /\ pc' = "partition"
  /\ attempt' = Blank /\ candidates' = candidates \union {Blank}
  /\ UNCHANGED <<flash, bank, sequence, chunk, request, buffer, sector, committed>>

\* Its sectors are erased one by one; what localErase returns of each is discarded.
ErasePartition ==
  /\ pc = "partition"
  /\ \/ flash' = AllErased
     \/ /\ "partition" \in FailPhases
        /\ \E missed \in SUBSET {SectorOf(b) : b \in Banks} : flash' = Erase(Banks \ UNION missed)
  /\ ReturnSuccess
  /\ UNCHANGED <<bank, sequence>>

-----------------------------------------------------------------------------
(* Device errors.  A failed devRead ends bnk_write before the bank is       *)
(* numbered.  A failed devWrite ends it after: the RAM sequence was advanced *)
(* first.  An error of localErase leaves the sector erased or not, and one   *)
(* of localWriteBytesToSPI leaves the sector partly written.                 *)

FailRead == /\ pc = "chunk" /\ "chunk" \in FailPhases
            /\ ReturnFailure
            /\ UNCHANGED <<flash, bank, sequence>>

\* dvr_write cannot read the flash to compare.
FailCompare == /\ pc = "chunk" /\ "compare" \in FailPhases
               /\ sequence' = IF chunk = Chunks THEN NextSequence(sequence) ELSE sequence
               /\ ReturnFailure
               /\ UNCHANGED <<flash, bank>>

FailWrite == /\ pc \in {"program", "erase"} /\ pc \in FailPhases
             /\ \/ UNCHANGED flash
                \/ pc = "erase" /\ flash' = Erase(SectorOf(NextBank(bank)))
             /\ ReturnFailure
             /\ UNCHANGED <<bank, sequence>>

\* The saved sector written back as far as chunk c of bank n, not included.
WrittenUpTo(n, c) ==
  [b \in Banks |->
     IF b \notin SectorOf(NextBank(bank)) \/ b > n THEN flash[b]
     ELSE IF b < n THEN Restored(b)
     ELSE [data |-> [i \in ChunkIds |-> IF i < c THEN Restored(b).data[i] ELSE flash[b].data[i]],
           seq  |-> flash[b].seq]]

PartlyWritten == {WrittenUpTo(n, c) : n \in 0 .. NumBanks, c \in ChunkIds}

FailRewrite == /\ pc = "rewrite" /\ pc \in FailPhases
               /\ flash' \in PartlyWritten
               /\ ReturnFailure
               /\ UNCHANGED <<bank, sequence>>

\* Programming over a value sets bits only: numbers are joined by "or".
Over(old, new) ==
  [data : {IF new.data = 0 THEN old.data ELSE IF old.data \in {0, new.data} THEN new.data ELSE Torn},
   seq  : IF old.seq \in {0, new.seq} THEN {new.seq}
          ELSE {s \in Sequences : s >= old.seq /\ s >= new.seq}]

\* The loop on busyCheck that ends localErase covers up an erase command that
\* was not sent: the sector is written over what it holds.
RewriteUnerased ==
  /\ pc = "erase" /\ "maskedErase" \in FailPhases
  /\ \E cell \in Over(Cell(NextBank(bank), chunk), buffer) :
       flash' = [flash EXCEPT ![NextBank(bank)] = Put(@, chunk, cell)]
  /\ ChunkDone
  /\ UNCHANGED sequence

-----------------------------------------------------------------------------
(* Power failure and restart.                                               *)

\* Programming the last chunk, with its sequence number, is a phase apart, and
\* so is doing it for the first bank of a sector that has to be erased behind it.
Phase == IF pc = "program" /\ chunk = Chunks
         THEN IF AutoErase /\ NextBank(bank) % BanksPerSector = 0 THEN "enter" ELSE "commit"
         ELSE pc

\* What the flash may hold after power is lost in the current phase.  The
\* sequence number is the last byte of its bank: it is taken to be programmed
\* at once, and after the rest of its chunk.
AfterPowerLoss ==
  LET next == NextBank(bank)
      torn == [data |-> Torn, seq |-> 0]
  IN CASE pc = "program" ->
            {flash} \union {[flash EXCEPT ![next] = Put(@, chunk, cell)] : cell \in {torn, buffer}}
       [] pc = "erase"     -> {flash, Erase(SectorOf(next))}
       [] pc = "rewrite"   -> PartlyWritten
       [] pc = "autoErase" -> {flash, Erase(PreviousSector(bank))}
       [] pc = "partition" ->
            {Erase({b \in Banks : b \div BanksPerSector < n}) : n \in 0 .. NumBanks}
       [] OTHER            -> {flash}

PowerLoss ==
  /\ pc # "down" /\ Phase \in CrashPhases
  /\ flash' \in AfterPowerLoss
  /\ pc' = "down"
  /\ bank' = 0 /\ sequence' = 1 /\ chunk' = 1
  /\ request' = Nothing /\ buffer' = EmptyCell /\ sector' = AllErased
  /\ attempt' = Blank
  /\ UNCHANGED <<committed, candidates>>

Open ==
  /\ pc = "down"
  /\ bank' = CurrentBank(flash) /\ sequence' = CurrentSequence(flash)
  /\ pc' = "idle"
  /\ committed' = flash[bank'].data /\ candidates' = {committed'}
  /\ UNCHANGED <<flash, chunk, request, buffer, sector, attempt>>

Next == \/ \E r \in Requests : WriteBegin(r)
        \/ ReadModify \/ Program \/ EraseSector \/ RewriteSector \/ EraseOld
        \/ EraseBegin \/ ErasePartition
        \/ FailRead \/ FailCompare \/ FailWrite \/ FailRewrite \/ RewriteUnerased
        \/ PowerLoss \/ Open

Spec == Init /\ [][Next]_vars
-----------------------------------------------------------------------------
Chunk == [data : Values \union {Torn}, seq : Sequences]
Bank  == [data : [ChunkIds -> Values \union {Torn}], seq : Sequences]

\* Every variable keeps to the values the code can give it.
TypeOK == /\ flash \in [Banks -> Bank]
          /\ bank \in Banks /\ sequence \in 1 .. LastSequence
          /\ pc \in Phases /\ chunk \in ChunkIds
          /\ request \in Requests /\ buffer \in Chunk
          /\ sector \in [Banks -> Bank]

\* A restart now, in any phase in which power may fail, would come back to a
\* value the caller may expect: findCurrentBank never falls back to a bank
\* older than the last successful write, nor lands on a torn one.
RestartFindsCurrent ==
  Phase \in CrashPhases => \A f \in AfterPowerLoss : f[CurrentBank(f)].data \in candidates

\* Between operations the bank reads use holds exactly what the last
\* successful write stored, whatever failed since.
ReadsLastWrite == pc = "idle" => flash[bank].data = committed

\* No two banks carry the same sequence number, so the chain has one end.
SequencesDistinct ==
  \A a, b \in Written(flash) : flash[a].seq = flash[b].seq => a = b

\* An erase of old banks never touches the bank in use.
AutoEraseSparesCurrent ==
  [][pc = "autoErase" => flash'[bank] = flash[bank]]_vars

\* The partition implements the durable register: a reader between writes
\* sees the current bank, a reader during one waits for the bank mutex.
Register == INSTANCE DurableRegister WITH
  value <- IF pc = "idle" THEN flash[bank].data ELSE committed,
  up    <- pc # "down"

DurableRegister == Register!RegSpec
=============================================================================
