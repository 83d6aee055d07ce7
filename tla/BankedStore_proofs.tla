------------------------- MODULE BankedStore_proofs -------------------------
(***************************************************************************)
(* Proofs about the banked driver, for any number of banks and of chunks,   *)
(* any size of sector and any failures, its scan for the current bank among *)
(* them; and, in the second part, about the ring of banks.                  *)
(***************************************************************************)
EXTENDS MC_BankedStore, ListFacts

LEMMA NatMax ==
  ASSUME NEW n \in Nat, NEW T \in SUBSET (0 .. n), T # {}
  PROVE  \E x \in T : \A y \in T : y <= x
<1>. DEFINE U == {n - y : y \in T}
<1>1. U \in SUBSET Nat /\ U # {}
  <2>1. \A y \in T : n - y \in Nat
    OBVIOUS
  <2>2. PICK t \in T : TRUE
    OBVIOUS
  <2>3. n - t \in U
    BY <2>2
  <2>. QED
    BY <2>1, <2>3
<1>2. PICK u \in U : \A v \in U : u <= v
  BY <1>1, Least
<1>3. PICK x \in T : u = n - x
  BY <1>2
<1>4. \A y \in T : n - y \in U
  OBVIOUS
<1>. QED
  BY <1>2, <1>3, <1>4

-----------------------------------------------------------------------------
(* The banks, and the scan that finds the current one                       *)

LEMMA BanksFacts == /\ NumBanks \in Nat \ {0}
                    /\ Banks = 0 .. (NumBanks - 1)
                    /\ 0 \in Banks
BY BanksAssumption DEF Banks

LEMMA NextBankType == ASSUME NEW b \in Banks PROVE NextBank(b) \in Banks
BY BanksFacts DEF NextBank

LEMMA NextSequenceType ==
  ASSUME NEW s \in 1 .. LastSequence PROVE NextSequence(s) \in 1 .. LastSequence
BY SequenceAssumption DEF NextSequence

\* findCurrentBank comes to an end, on a bank that is written if any is.
LEMMA CurrentBankIs ==
  ASSUME NEW f, Written(f) # {}
  PROVE  /\ CurrentBank(f) \in Banks /\ InChain(f, CurrentBank(f))
         /\ \A a \in Banks : InChain(f, a) => a <= CurrentBank(f)
<1>1. Written(f) \in SUBSET (0 .. (NumBanks - 1)) /\ NumBanks - 1 \in Nat
  BY BanksFacts DEF Written
<1>2. PICK first \in Written(f) : \A a \in Written(f) : first <= a
  BY <1>1, Least
<1>3. InChain(f, first)
  <2>1. ASSUME NEW a \in Written(f), a <= first PROVE Continues(f, a)
    BY <1>1, <1>2, <2>1 DEF Continues
  <2>. QED
    BY <2>1, <1>2 DEF InChain
<1>. DEFINE Chain == {b \in Banks : InChain(f, b)}
<1>4. Chain \in SUBSET (0 .. (NumBanks - 1)) /\ Chain # {}
  BY <1>1, <1>2, <1>3, BanksFacts DEF Written
<1>5. \E b \in Chain : \A a \in Chain : a <= b
  BY <1>1, <1>4, NatMax
<1>6. \E b \in Banks : InChain(f, b) /\ \A a \in Banks : InChain(f, a) => a <= b
  BY <1>5
<1>. QED
  BY <1>6 DEF CurrentBank

LEMMA CurrentBankExists ==
  ASSUME NEW f, Written(f) # {}
  PROVE  CurrentBank(f) \in Written(f)
BY CurrentBankIs DEF InChain

LEMMA CurrentTypes ==
  ASSUME NEW f \in [Banks -> Bank]
  PROVE  CurrentBank(f) \in Banks /\ CurrentSequence(f) \in 1 .. LastSequence
<1>1. CASE Written(f) = {}
  BY <1>1, BanksFacts, SequenceAssumption DEF CurrentBank, CurrentSequence
<1>2. CASE Written(f) # {}
  <2>1. CurrentBank(f) \in Written(f)
    BY <1>2, CurrentBankExists
  <2>2. CurrentSequence(f) = f[CurrentBank(f)].seq
    BY <1>2 DEF CurrentSequence
  <2>. QED
    BY <2>1, <2>2, SequenceAssumption DEF Written, Bank, Sequences
<1>. QED
  BY <1>1, <1>2

-----------------------------------------------------------------------------
(* Type correctness                                                         *)

LEMMA ContentTypes ==
  /\ ErasedBank \in Bank /\ EmptyCell \in Chunk
  /\ AllErased \in [Banks -> Bank]
  /\ Nothing \in Requests
  /\ 1 \in ChunkIds /\ Chunks \in ChunkIds /\ ChunkIds \in SUBSET Nat
<1>1. 1 \in ChunkIds /\ Chunks \in ChunkIds /\ ChunkIds \in SUBSET Nat
  BY ChunksAssumption DEF ChunkIds
<1>2. ErasedBank \in Bank /\ EmptyCell \in Chunk
  BY ValuesAssumption, SequenceAssumption
  DEF ErasedBank, Bank, Blank, EmptyCell, Chunk, Sequences
<1>. QED
  BY <1>1, <1>2, ValuesAssumption DEF AllErased, Nothing, Requests

LEMMA PutType ==
  ASSUME NEW contents \in Bank, NEW c \in ChunkIds, NEW cell \in Chunk
  PROVE  Put(contents, c, cell) \in Bank
BY DEF Put, Bank, Chunk

LEMMA EraseType ==
  ASSUME NEW banks, flash \in [Banks -> Bank]
  PROVE  Erase(banks) \in [Banks -> Bank]
BY ContentTypes DEF Erase

LEMMA TypeInit == Init => TypeOK
BY ContentTypes, BanksFacts, SequenceAssumption DEF Init, TypeOK, Phases

\* What bnk_write leaves behind when it returns.
LEMMA ReturnType ==
  ASSUME TypeOK, Return, flash' \in [Banks -> Bank],
         bank' \in Banks, sequence' \in 1 .. LastSequence
  PROVE  TypeOK'
BY ContentTypes DEF Return, TypeOK, Phases

LEMMA ChunkDoneType ==
  ASSUME TypeOK, ChunkDone, flash' \in [Banks -> Bank], sequence' \in 1 .. LastSequence
  PROVE  TypeOK'
<1>1. CASE chunk < Chunks
  <2>1. chunk + 1 \in ChunkIds
    BY <1>1, ChunksAssumption DEF TypeOK, ChunkIds
  <2>. QED
    BY <1>1, <2>1, ContentTypes DEF ChunkDone, TypeOK, Phases
<1>2. CASE ~ (chunk < Chunks)
  <2>1. bank' = NextBank(bank) /\ bank' \in Banks
    BY <1>2, NextBankType DEF ChunkDone, TypeOK
  <2>2. CASE AutoErase /\ bank' % BanksPerSector = 0
    BY <1>2, <2>1, <2>2 DEF ChunkDone, TypeOK, Phases
  <2>3. CASE ~ (AutoErase /\ bank' % BanksPerSector = 0)
    BY <1>2, <2>1, <2>3, ReturnType DEF ChunkDone, ReturnSuccess
  <2>. QED
    BY <2>2, <2>3
<1>. QED
  BY <1>1, <1>2

LEMMA ReadModifyType == TypeOK /\ ReadModify => TypeOK'
<1>. SUFFICES ASSUME TypeOK, ReadModify PROVE TypeOK'
  OBVIOUS
<1>. DEFINE seq  == IF chunk = Chunks THEN NextSequence(sequence) ELSE 0
            cell == [data |-> IF chunk \in request.first .. request.last
                              THEN request.value ELSE flash[bank].data[chunk],
                     seq  |-> seq]
<1>1. sequence' \in 1 .. LastSequence /\ seq \in Sequences
  BY NextSequenceType, SequenceAssumption DEF ReadModify, TypeOK, Sequences
<1>2. cell \in Chunk
  BY <1>1 DEF TypeOK, Chunk, Bank, Requests
<1>3. CASE ChunkDone
  BY <1>1, <1>3, ChunkDoneType DEF ReadModify, TypeOK
<1>4. CASE ~ ChunkDone
  <2>1. /\ pc' \in {"program", "erase"} /\ buffer' = cell
        /\ UNCHANGED <<flash, bank, chunk, request, sector>>
    BY <1>4 DEF ReadModify
  <2>. QED
    BY <1>1, <1>2, <2>1 DEF TypeOK, Phases
<1>. QED
  BY <1>3, <1>4

LEMMA RestoredType ==
  ASSUME TypeOK, NEW b \in Banks PROVE Restored(b) \in Bank
BY PutType DEF Restored, TypeOK

LEMMA RewriteType ==
  ASSUME TypeOK, NEW S
  PROVE  [b \in Banks |-> IF b \in S THEN Restored(b) ELSE flash[b]] \in [Banks -> Bank]
BY RestoredType DEF TypeOK

\* So has a sector that was written back only in part.
LEMMA PartlyType ==
  ASSUME TypeOK, NEW f \in PartlyWritten PROVE f \in [Banks -> Bank]
<1>1. PICK n \in 0 .. NumBanks, c \in ChunkIds : f = WrittenUpTo(n, c)
  BY DEF PartlyWritten
<1>2. ASSUME NEW b \in Banks
      PROVE  [data |-> [i \in ChunkIds |-> IF i < c THEN Restored(b).data[i] ELSE flash[b].data[i]],
              seq  |-> flash[b].seq] \in Bank
  <2>1. Restored(b) \in Bank /\ flash[b] \in Bank
    BY RestoredType DEF TypeOK
  <2>. QED
    BY <2>1 DEF Bank
<1>. QED
  BY <1>1, <1>2, RestoredType DEF WrittenUpTo, TypeOK

\* Whatever is left in the flash by a power failure has its type.
LEMMA PowerLossType ==
  ASSUME TypeOK, NEW f \in AfterPowerLoss PROVE f \in [Banks -> Bank]
<1>. DEFINE next == NextBank(bank)
            torn == [data |-> Torn, seq |-> 0]
<1>1. next \in Banks /\ torn \in Chunk /\ buffer \in Chunk /\ chunk \in ChunkIds
  BY NextBankType, SequenceAssumption DEF TypeOK, Chunk, Sequences
<1>2. CASE pc = "program"
  <2>1. ASSUME NEW cell \in {torn, buffer}
        PROVE  [flash EXCEPT ![next] = Put(@, chunk, cell)] \in [Banks -> Bank]
    BY <1>1, PutType DEF TypeOK
  <2>2. f = flash \/ \E cell \in {torn, buffer} : f = [flash EXCEPT ![next] = Put(@, chunk, cell)]
    BY <1>2 DEF AfterPowerLoss
  <2>. QED
    BY <2>1, <2>2 DEF TypeOK
<1>3. CASE pc = "erase"
  BY <1>3, EraseType DEF AfterPowerLoss, TypeOK
<1>4. CASE pc = "rewrite"
  BY <1>4, PartlyType DEF AfterPowerLoss
<1>5. CASE pc = "autoErase"
  BY <1>5, EraseType DEF AfterPowerLoss, TypeOK
<1>7. CASE pc = "partition"
  BY <1>7, EraseType DEF AfterPowerLoss, TypeOK
<1>6. CASE pc \notin {"program", "erase", "rewrite", "autoErase", "partition"}
  BY <1>6 DEF AfterPowerLoss, TypeOK
<1>. QED
  BY <1>2, <1>3, <1>4, <1>5, <1>6, <1>7

\* The driver's own steps.
LEMMA DriverType ==
  ASSUME TypeOK,
         (\E r \in Requests : WriteBegin(r)) \/ Program \/ EraseSector \/ RewriteSector
           \/ EraseOld \/ EraseBegin \/ ErasePartition
  PROVE  TypeOK'
<1>1. ASSUME NEW r \in Requests, WriteBegin(r) PROVE TypeOK'
  BY <1>1, ContentTypes DEF WriteBegin, TypeOK, Phases
<1>2. CASE Program
  <2>1. flash' \in [Banks -> Bank]
    BY <1>2, PutType, NextBankType DEF Program, TypeOK
  <2>. QED
    BY <1>2, <2>1, ChunkDoneType DEF Program, TypeOK
<1>3. CASE EraseSector
  <2>1. flash' \in [Banks -> Bank]
    BY <1>3, EraseType DEF EraseSector, TypeOK
  <2>. QED
    BY <1>3, <2>1 DEF EraseSector, TypeOK, Phases
<1>4. CASE RewriteSector
  <2>1. flash' \in [Banks -> Bank]
    BY <1>4, RewriteType DEF RewriteSector
  <2>. QED
    BY <1>4, <2>1, ChunkDoneType DEF RewriteSector, TypeOK
<1>5. CASE EraseOld
  <2>1. flash' \in [Banks -> Bank]
    BY <1>5, EraseType DEF EraseOld, TypeOK
  <2>. QED
    BY <1>5, <2>1, ReturnType DEF EraseOld, ReturnSuccess, TypeOK
<1>6. CASE EraseBegin
  BY <1>6, ContentTypes DEF EraseBegin, TypeOK, Phases
<1>7. CASE ErasePartition
  <2>1. flash' \in [Banks -> Bank]
    BY <1>7, EraseType, ContentTypes DEF ErasePartition, TypeOK
  <2>. QED
    BY <1>7, <2>1, ReturnType DEF ErasePartition, ReturnSuccess, TypeOK
<1>. QED
  BY <1>1, <1>2, <1>3, <1>4, <1>5, <1>6, <1>7

\* The device's failures.
LEMMA FailureType ==
  ASSUME TypeOK, FailRead \/ FailCompare \/ FailWrite \/ FailRewrite \/ RewriteUnerased
  PROVE  TypeOK'
<1>1. CASE FailRead
  BY <1>1, ReturnType DEF FailRead, ReturnFailure, TypeOK
<1>4. CASE FailRewrite
  <2>1. flash' \in [Banks -> Bank]
    BY <1>4, PartlyType DEF FailRewrite
  <2>. QED
    BY <1>4, <2>1, ReturnType DEF FailRewrite, ReturnFailure, TypeOK
<1>5. CASE RewriteUnerased
  <2>. DEFINE next == NextBank(bank)
  <2>1. PICK cell \in Over(Cell(next, chunk), buffer) :
          flash' = [flash EXCEPT ![next] = Put(@, chunk, cell)]
    BY <1>5 DEF RewriteUnerased
  <2>2. next \in Banks /\ chunk \in ChunkIds /\ buffer \in Chunk /\ Cell(next, chunk) \in Chunk
    BY NextBankType, SequenceAssumption DEF TypeOK, Cell, Chunk, Bank, Sequences
  <2>3. cell \in Chunk
    BY <2>1, <2>2 DEF Over, Chunk
  <2>4. flash' \in [Banks -> Bank]
    BY <2>1, <2>2, <2>3, PutType DEF TypeOK
  <2>. QED
    BY <1>5, <2>4, ChunkDoneType DEF RewriteUnerased, TypeOK
<1>2. CASE FailCompare
  <2>1. sequence' \in 1 .. LastSequence
    BY <1>2, NextSequenceType DEF FailCompare, TypeOK
  <2>. QED
    BY <1>2, <2>1, ReturnType DEF FailCompare, ReturnFailure, TypeOK
<1>3. CASE FailWrite
  <2>1. flash' \in [Banks -> Bank]
    BY <1>3, EraseType DEF FailWrite, TypeOK
  <2>. QED
    BY <1>3, <2>1, ReturnType DEF FailWrite, ReturnFailure, TypeOK
<1>. QED
  BY <1>1, <1>2, <1>3, <1>4, <1>5

LEMMA RestartType == TypeOK /\ (PowerLoss \/ Open) => TypeOK'
<1>1. ASSUME TypeOK, PowerLoss PROVE TypeOK'
  <2>1. flash' \in [Banks -> Bank]
    BY <1>1, PowerLossType DEF PowerLoss
  <2>. QED
    BY <1>1, <2>1, ContentTypes, BanksFacts, SequenceAssumption DEF PowerLoss, TypeOK, Phases
<1>2. ASSUME TypeOK, Open PROVE TypeOK'
  BY <1>2, CurrentTypes DEF Open, TypeOK, Phases
<1>. QED
  BY <1>1, <1>2

\* Every variable of the driver, and every byte of the flash, keeps to the
\* values the code can give it, through every failure and restart: the scan at
\* start-up always ends on a bank, with a sequence number that is not the
\* erased one.
THEOREM TypeCorrect == Spec => []TypeOK
<1>1. TypeOK /\ [Next]_vars => TypeOK'
  <2>. SUFFICES ASSUME TypeOK, [Next]_vars PROVE TypeOK'
    OBVIOUS
  <2>1. CASE UNCHANGED vars
    BY <2>1 DEF vars, driver, TypeOK
  <2>2. CASE Next
    BY <2>2, ReadModifyType, DriverType, FailureType, RestartType DEF Next
  <2>. QED
    BY <2>1, <2>2
<1>. QED
  BY TypeInit, <1>1, PTL DEF Spec

-----------------------------------------------------------------------------
(* The erase of old banks                                                   *)

LEMMA QuotientBounds ==
  ASSUME NEW a \in Nat, NEW n \in Nat \ {0}
  PROVE  /\ a \div n \in Nat
         /\ n * (a \div n) <= a /\ a < n * (a \div n) + n
OBVIOUS

LEMMA SameQuotient ==
  ASSUME NEW a \in Nat, NEW b \in Nat, NEW n \in Nat \ {0}, a \div n = b \div n
  PROVE  a - b < n
<1>. DEFINE m == n * (a \div n)
<1>1. m \in Nat /\ m <= a /\ a < m + n
  BY QuotientBounds
<1>2. m <= b
  BY QuotientBounds
<1>. HIDE DEF m
<1>. QED
  BY <1>1, <1>2

\* The offset bnk_write erases at lies a whole sector away from the bank.
LEMMA PreviousSectorIsAnother ==
  ASSUME NEW b \in Banks PROVE b \notin PreviousSector(b)
<1>. DEFINE x == (NumBanks + b - BanksPerSector) % NumBanks
<1>1. x = IF b >= BanksPerSector THEN b - BanksPerSector ELSE NumBanks + b - BanksPerSector
  BY BanksAssumption DEF Banks
<1>2. x \in Nat /\ b \in Nat /\ (b - x >= BanksPerSector \/ x - b >= BanksPerSector)
  BY <1>1, BanksAssumption DEF Banks
<1>. HIDE DEF x
<1>3. b \div BanksPerSector # x \div BanksPerSector
  BY <1>2, SameQuotient, BanksAssumption
<1>4. b \notin SectorOf(x)
  BY <1>3 DEF SectorOf
<1>. QED
  BY <1>4 DEF PreviousSector, x

\* Whatever the sizes of banks and sectors, the erase that follows the entry
\* into a new sector, complete or cut off by a power failure, leaves the bank
\* just written alone.
THEOREM AutoEraseIsSafe == Spec => AutoEraseSparesCurrent
<1>1. TypeOK /\ [Next]_vars => [pc = "autoErase" => flash'[bank] = flash[bank]]_vars
  <2>. SUFFICES ASSUME TypeOK, Next, pc = "autoErase" PROVE flash'[bank] = flash[bank]
    OBVIOUS
  <2>1. Erase(PreviousSector(bank))[bank] = flash[bank]
    BY PreviousSectorIsAnother DEF Erase, TypeOK
  <2>2. CASE EraseOld
    BY <2>1, <2>2 DEF EraseOld
  <2>3. CASE PowerLoss
    BY <2>1, <2>3 DEF PowerLoss, AfterPowerLoss
  <2>4. ASSUME ~ EraseOld, ~ PowerLoss PROVE FALSE
    BY <2>4 DEF Next, WriteBegin, ReadModify, Program, EraseSector, RewriteSector, EraseBegin,
                ErasePartition, FailRead, FailCompare, FailWrite, FailRewrite, RewriteUnerased, Open
  <2>. QED
    BY <2>2, <2>3, <2>4
<1>. QED
  BY TypeCorrect, <1>1, PTL DEF Spec, AutoEraseSparesCurrent

-----------------------------------------------------------------------------
(* The loop of findCurrentBank                                              *)

\* The banks of the chain the loop has met before bank i.
Followed(f, i) == {b \in Banks : b < i /\ InChain(f, b)}

\* The last of them.
Latest(f, i) == CHOOSE b \in Followed(f, i) : \A a \in Followed(f, i) : a <= b

\* A bank the loop has met that breaks the chain.
Broken(f, i) == \E a \in Written(f) : a < i /\ ~ InChain(f, a)

\* What the loop knows before it looks at bank i.
Known(f, i) ==
  IF Followed(f, i) = {} THEN [ScanStart EXCEPT !.stop = Broken(f, i)]
  ELSE [bank |-> Latest(f, i), seq |-> f[Latest(f, i)].seq, valid |-> TRUE,
        next |-> NextSequence(f[Latest(f, i)].seq), stop |-> Broken(f, i)]

LEMMA LatestIs ==
  ASSUME NEW f, NEW i, Followed(f, i) # {}
  PROVE  /\ Latest(f, i) \in Followed(f, i)
         /\ \A a \in Followed(f, i) : a <= Latest(f, i)
<1>1. Followed(f, i) \in SUBSET (0 .. (NumBanks - 1)) /\ NumBanks - 1 \in Nat
  BY BanksFacts DEF Followed
<1>2. \E b \in Followed(f, i) : \A a \in Followed(f, i) : a <= b
  BY <1>1, NatMax
<1>. QED
  BY <1>2 DEF Latest

\* Two sets of followed banks with one greatest member have one latest bank.
LEMMA LatestOnly ==
  ASSUME NEW f, NEW i, NEW b \in Followed(f, i), \A a \in Followed(f, i) : a <= b
  PROVE  Latest(f, i) = b
<1>1. Latest(f, i) \in Followed(f, i) /\ \A a \in Followed(f, i) : a <= Latest(f, i)
  BY LatestIs
<1>2. Followed(f, i) \subseteq Nat
  BY BanksFacts DEF Followed
<1>. QED
  BY <1>1, <1>2

\* As long as the chain is not broken, a bank follows if the last one of the
\* chain before it has the number before its own.
LEMMA FollowsLatest ==
  ASSUME NEW f, NEW i \in Banks, i \in Written(f), ~ Broken(f, i)
  PROVE  InChain(f, i) <=> \/ Followed(f, i) = {}
                           \/ f[i].seq = NextSequence(f[Latest(f, i)].seq)
<1>1. Banks \subseteq Nat /\ Written(f) \subseteq Banks
  BY BanksFacts DEF Written
<1>2. \A a \in Written(f) : a < i => InChain(f, a)
  BY DEF Broken
<1>3. Followed(f, i) = {a \in Written(f) : a < i}
  BY <1>1, <1>2 DEF Followed, InChain
<1>4. InChain(f, i) <=> Continues(f, i)
  <2>1. ASSUME NEW a \in Written(f), a <= i, Continues(f, i) PROVE Continues(f, a)
    <3>1. CASE a = i
      BY <2>1, <3>1
    <3>2. CASE a < i
      BY <1>1, <1>2, <3>2 DEF InChain
    <3>. QED
      BY <1>1, <2>1, <3>1, <3>2
  <2>. QED
    BY <1>1, <2>1 DEF InChain
<1>5. CASE Followed(f, i) = {}
  BY <1>3, <1>4, <1>5 DEF Continues
<1>6. CASE Followed(f, i) # {}
  <2>. DEFINE last == Latest(f, i)
  <2>1. last \in Written(f) /\ last < i /\ \A a \in Written(f) : a < i => a <= last
    BY <1>3, <1>6, LatestIs
  <2>. HIDE DEF last
  <2>2. ASSUME NEW a \in Written(f)
        PROVE  (a < i /\ ~ \E m \in Written(f) : a < m /\ m < i) <=> a = last
    BY <1>1, <2>1
  <2>3. Continues(f, i) <=> f[i].seq = NextSequence(f[last].seq)
    BY <2>1, <2>2 DEF Continues
  <2>. QED
    BY <1>4, <1>6, <2>3 DEF last
<1>. QED
  BY <1>5, <1>6

\* Past a break nothing follows.
LEMMA NoneFollows ==
  ASSUME NEW f, NEW i \in Banks, Broken(f, i)
  PROVE  ~ InChain(f, i)
<1>1. PICK a \in Written(f) : a < i /\ ~ InChain(f, a)
  BY DEF Broken
<1>2. Banks \subseteq Nat /\ Written(f) \subseteq Banks
  BY BanksFacts DEF Written
<1>3. PICK c \in Written(f) : c <= a /\ ~ Continues(f, c)
  BY <1>1 DEF InChain
<1>4. a \in Nat /\ c \in Nat /\ i \in Nat
  BY <1>2
<1>5. c <= i
  BY <1>1, <1>3, <1>4
<1>. QED
  BY <1>3, <1>5 DEF InChain

LEMMA StoppedIs ==
  ASSUME NEW b, NEW s, NEW v, NEW x, NEW y, NEW before,
         before = [bank |-> b, seq |-> s, valid |-> v, next |-> x, stop |-> y]
  PROVE  Stopped(before) = [bank |-> b, seq |-> s, valid |-> v, next |-> x, stop |-> TRUE]
<1>1. ASSUME NEW z
      PROVE  [before EXCEPT !.stop = z] = [bank |-> b, seq |-> s, valid |-> v, next |-> x, stop |-> z]
  OBVIOUS
<1>. QED
  BY <1>1, Zenon DEF Stopped

\* One iteration of the loop.
LEMMA ScanBankKnows ==
  ASSUME NEW f, NEW i \in Banks
  PROVE  ScanBank(f, i, Known(f, i)) = Known(f, i + 1)
<1>. DEFINE k == Known(f, i)  n == Known(f, i + 1)
<1>1. Banks \subseteq Nat /\ Written(f) \subseteq Banks /\ \A b \in Banks : b < i + 1 <=> b < i \/ b = i
  BY BanksFacts DEF Written
<1>2. Followed(f, i + 1) = Followed(f, i) \union (IF InChain(f, i) THEN {i} ELSE {})
  BY <1>1 DEF Followed
<1>3. Broken(f, i + 1) <=> Broken(f, i) \/ (i \in Written(f) /\ ~ InChain(f, i))
  BY <1>1 DEF Broken
<1>4. i \in Written(f) <=> f[i].seq # 0
  BY DEF Written
<1>5. k.stop = Broken(f, i) /\ (k.valid <=> Followed(f, i) # {})
  BY DEF Known, ScanStart
<1>6. CASE Broken(f, i) \/ f[i].seq = 0
  <2>1. ~ InChain(f, i)
    BY <1>4, <1>6, NoneFollows DEF InChain
  <2>2. Followed(f, i + 1) = Followed(f, i) /\ Broken(f, i + 1) = Broken(f, i)
    <3>1. Broken(f, i + 1) <=> Broken(f, i)
      BY <1>3, <1>4, <1>6
    <3>2. Broken(f, i + 1) \in BOOLEAN /\ Broken(f, i) \in BOOLEAN
      BY DEF Broken
    <3>. QED
      BY <1>2, <2>1, <3>1, <3>2
  <2>3. n = k
    BY <2>2 DEF Known, Latest
  <2>4. k.stop \/ f[i].seq = 0
    BY <1>5, <1>6
  <2>5. ScanBank(f, i, k) = k
    <3>. HIDE DEF k
    <3>. QED
      BY <2>4 DEF ScanBank
  <2>. QED
    BY <2>3, <2>5
<1>7. CASE ~ Broken(f, i) /\ f[i].seq # 0 /\ ~ InChain(f, i)
  <2>1. Followed(f, i) # {} /\ f[i].seq # NextSequence(f[Latest(f, i)].seq)
    BY <1>4, <1>7, FollowsLatest
  <2>2. k.valid /\ k.next # f[i].seq /\ ~ k.stop
    BY <1>5, <1>7, <2>1 DEF Known
  <2>3. Followed(f, i + 1) = Followed(f, i) /\ Broken(f, i + 1)
    BY <1>2, <1>3, <1>4, <1>7
  <2>4. n = Stopped(k)
    <3>1. Broken(f, i + 1) = TRUE
      BY <2>3 DEF Broken
    <3>2. Latest(f, i + 1) = Latest(f, i)
      BY <2>3 DEF Latest
    <3>. DEFINE l == Latest(f, i)  s == f[l].seq  x == NextSequence(s)
    <3>3. k = [bank |-> l, seq |-> s, valid |-> TRUE, next |-> x, stop |-> Broken(f, i)]
      BY <2>1 DEF Known
    <3>4. n = [bank |-> l, seq |-> s, valid |-> TRUE, next |-> x, stop |-> TRUE]
      BY <2>1, <2>3, <3>1, <3>2 DEF Known
    <3>. HIDE DEF k, n, l, s, x
    <3>5. Stopped(k) = [bank |-> l, seq |-> s, valid |-> TRUE, next |-> x, stop |-> TRUE]
      BY <3>3, StoppedIs, Zenon
    <3>. QED
      BY <3>4, <3>5, Zenon
  <2>5. ScanBank(f, i, k) = Stopped(k)
    <3>. HIDE DEF k
    <3>. QED
      BY <1>7, <2>2 DEF ScanBank
  <2>. QED
    BY <2>4, <2>5
<1>8. CASE ~ Broken(f, i) /\ f[i].seq # 0 /\ InChain(f, i)
  <2>1. Followed(f, i) = {} \/ f[i].seq = NextSequence(f[Latest(f, i)].seq)
    BY <1>4, <1>8, FollowsLatest
  <2>2. ~ (k.valid /\ k.next # f[i].seq) /\ ~ k.stop
    BY <1>5, <1>8, <2>1 DEF Known
  <2>3. Followed(f, i + 1) = Followed(f, i) \union {i} /\ ~ Broken(f, i + 1)
    BY <1>2, <1>3, <1>8
  <2>4. Latest(f, i + 1) = i
    BY <1>1, <2>3, LatestOnly DEF Followed
  <2>5. Broken(f, i + 1) = FALSE
    BY <2>3 DEF Broken
  <2>6. n = [bank |-> i, seq |-> f[i].seq, valid |-> TRUE,
             next |-> NextSequence(f[i].seq), stop |-> FALSE]
    BY <2>3, <2>4, <2>5 DEF Known
  <2>. QED
    BY <1>8, <2>2, <2>6 DEF ScanBank
<1>. QED
  BY <1>6, <1>7, <1>8

\* The whole loop.
LEMMA ScanKnows == ASSUME NEW f PROVE FindCurrentBank(f) = Known(f, NumBanks)
<1>. DEFINE Scan(g) == g = [i \in 0 .. NumBanks |->
                              IF i = 0 THEN ScanStart ELSE ScanBank(f, i - 1, g[i - 1])]
            scan == CHOOSE g : Scan(g)
            known == [i \in 0 .. NumBanks |-> Known(f, i)]
<1>1. NumBanks \in Nat /\ \A i \in 1 .. NumBanks : i - 1 \in Banks /\ i - 1 \in 0 .. NumBanks
  BY BanksFacts
<1>2. Known(f, 0) = ScanStart
  <2>1. Followed(f, 0) = {} /\ Broken(f, 0) = FALSE
    BY BanksFacts DEF Followed, Broken, Written
  <2>. QED
    BY <2>1 DEF Known, ScanStart
<1>3. ASSUME NEW i \in 1 .. NumBanks PROVE Known(f, i) = ScanBank(f, i - 1, Known(f, i - 1))
  <2>1. i - 1 \in Banks /\ (i - 1) + 1 = i
    BY <1>1
  <2>. QED
    BY <2>1, ScanBankKnows
<1>4. Scan(known)
  BY <1>1, <1>2, <1>3
<1>5. Scan(scan)
  <2>. HIDE DEF Scan, known
  <2>. QED
    BY <1>4
<1>. HIDE DEF scan
<1>6. \A i \in 0 .. NumBanks : scan[i] = IF i = 0 THEN ScanStart ELSE ScanBank(f, i - 1, scan[i - 1])
  BY <1>5
<1>7. 0 .. NumBanks \subseteq {i \in 0 .. NumBanks : scan[i] = Known(f, i)}
  <2>. DEFINE P == {i \in 0 .. NumBanks : scan[i] = Known(f, i)}
  <2>1. 0 \in P
    BY <1>1, <1>2, <1>6
  <2>2. ASSUME NEW i \in 1 .. NumBanks, i - 1 \in P PROVE i \in P
    <3>1. scan[i - 1] = Known(f, i - 1) /\ i \in 0 .. NumBanks /\ i # 0
      BY <1>1, <2>2
    <3>. QED
      BY <1>3, <1>6, <3>1
  <2>. HIDE DEF P
  <2>3. 0 .. NumBanks \subseteq P
    BY <1>1, <2>1, <2>2, Climb
  <2>. QED
    BY <2>3 DEF P
<1>8. scan[NumBanks] = Known(f, NumBanks)
  BY <1>1, <1>7
<1>. QED
  BY <1>8 DEF FindCurrentBank, scan

\* CurrentBank, on which everything said of restarts rests, is the result of
\* the loop of findCurrentBank, with the number found there, whatever writes,
\* erases, errors and power failures have left in the flash.
THEOREM ScanIsLoop == Spec => []ScanMatchesLoop
<1>1. ASSUME TypeOK PROVE ScanMatchesLoop
  <2>. DEFINE result == FindCurrentBank(flash)
  <2>1. result = Known(flash, NumBanks)
    BY ScanKnows
  <2>2. Followed(flash, NumBanks) = {b \in Banks : InChain(flash, b)}
    BY BanksFacts DEF Followed
  <2>3. CASE Written(flash) = {}
    <3>1. Followed(flash, NumBanks) = {}
      BY <2>2, <2>3 DEF InChain
    <3>2. result.bank = 0 /\ result.seq = 1
      BY <2>1, <3>1 DEF Known, ScanStart
    <3>. QED
      BY <2>3, <3>2 DEF ScanMatchesLoop, CurrentBank, CurrentSequence
  <2>4. CASE Written(flash) # {}
    <3>1. CurrentBank(flash) \in Followed(flash, NumBanks)
          /\ \A a \in Followed(flash, NumBanks) : a <= CurrentBank(flash)
      BY <2>2, <2>4, CurrentBankIs
    <3>2. Latest(flash, NumBanks) = CurrentBank(flash)
      BY <3>1, LatestOnly
    <3>3. result.bank = CurrentBank(flash) /\ result.seq = flash[CurrentBank(flash)].seq
      BY <2>1, <3>1, <3>2 DEF Known
    <3>. QED
      BY <2>4, <3>3 DEF ScanMatchesLoop, CurrentSequence
  <2>. QED
    BY <2>3, <2>4
<1>. QED
  BY TypeCorrect, <1>1, PTL

-----------------------------------------------------------------------------
(* What is read back                                                        *)

\* Where the banks are: in the flash, or in RAM while their sector is erased.
Saved == IF pc = "rewrite" THEN sector ELSE flash

\* A write leaves the current bank as it was, and copies it with the new bytes
\* merged in, chunk after chunk, to the next one.
CopyInv ==
  /\ pc \notin {"down", "autoErase"} => Saved[bank].data = committed
  /\ pc \in {"chunk", "program", "erase", "rewrite"} =>
       /\ attempt = Merged(request, committed)
       /\ \A c \in ChunkIds : c < chunk => Saved[NextBank(bank)].data[c] = attempt[c]
  /\ pc \in {"program", "erase", "rewrite"} => buffer.data = attempt[chunk]
  /\ pc = "rewrite" => bank \in SectorOf(NextBank(bank)) \/ flash[bank].data = committed
  /\ pc = "autoErase" => flash[bank].data = attempt
  /\ pc = "partition" => attempt = Blank

LEMMA NextBankIsAnother == ASSUME NEW b \in Banks PROVE NextBank(b) # b
BY BanksAssumption DEF NextBank, Banks

\* An iteration that has put its chunk in place.
LEMMA ChunkDoneCopies ==
  ASSUME TypeOK, ChunkDone, flash' \in [Banks -> Bank],
         flash'[bank].data = committed,
         attempt = Merged(request, committed),
         \A c \in ChunkIds : c <= chunk => flash'[NextBank(bank)].data[c] = attempt[c]
  PROVE  CopyInv'
<1>1. CASE chunk < Chunks
  <2>1. /\ pc' = "chunk" /\ chunk' = chunk + 1
        /\ UNCHANGED <<bank, request, committed, attempt>>
    BY <1>1 DEF ChunkDone, history
  <2>2. \A c \in ChunkIds : c < chunk + 1 => c <= chunk
    BY ContentTypes DEF TypeOK
  <2>. QED
    BY <2>1, <2>2 DEF CopyInv, Saved, NextBank, Merged
<1>2. CASE ~ (chunk < Chunks)
  <2>1. bank' = NextBank(bank) /\ bank' \in Banks
    BY <1>2, NextBankType DEF ChunkDone, TypeOK
  <2>2. \A c \in ChunkIds : c <= chunk
    BY <1>2, ChunksAssumption DEF TypeOK, ChunkIds
  <2>3. flash'[bank'].data = attempt
    <3>1. flash'[bank'].data \in [ChunkIds -> Values \union {Torn}]
      BY <2>1 DEF Bank
    <3>2. attempt = [c \in ChunkIds |-> attempt[c]]
      BY DEF Merged
    <3>. QED
      BY <2>1, <2>2, <3>1, <3>2
  <2>4. CASE AutoErase /\ bank' % BanksPerSector = 0
    BY <1>2, <2>3, <2>4 DEF ChunkDone, history, CopyInv
  <2>5. CASE ~ (AutoErase /\ bank' % BanksPerSector = 0)
    BY <1>2, <2>3, <2>5 DEF ChunkDone, ReturnSuccess, Return, CopyInv, Saved
  <2>. QED
    BY <2>4, <2>5
<1>. QED
  BY <1>1, <1>2

\* The chunks up to the one at hand are that one and those before it.
LEMMA UpToChunk ==
  ASSUME NEW k \in ChunkIds
  PROVE  \A c \in ChunkIds : c <= k => c = k \/ c < k
BY ChunksAssumption DEF ChunkIds

LEMMA ReadModifyCopies == TypeOK /\ CopyInv /\ ReadModify => CopyInv'
<1>. SUFFICES ASSUME TypeOK, CopyInv, ReadModify PROVE CopyInv'
  OBVIOUS
<1>. DEFINE cell == [data |-> IF chunk \in request.first .. request.last
                              THEN request.value ELSE flash[bank].data[chunk],
                     seq  |-> IF chunk = Chunks THEN NextSequence(sequence) ELSE 0]
            old  == Cell(NextBank(bank), chunk)
<1>1. /\ pc = "chunk" /\ UNCHANGED flash
      /\ flash[bank].data = committed /\ attempt = Merged(request, committed)
      /\ \A c \in ChunkIds : c < chunk => flash[NextBank(bank)].data[c] = attempt[c]
  BY DEF ReadModify, CopyInv, Saved
<1>2. chunk \in ChunkIds /\ cell.data = attempt[chunk]
  BY <1>1 DEF TypeOK, Merged
<1>3. CASE old = cell /\ ChunkDone
  <2>1. flash[NextBank(bank)].data[chunk] = attempt[chunk]
    BY <1>2, <1>3 DEF Cell
  <2>2. \A c \in ChunkIds : c <= chunk => c = chunk \/ c < chunk
    BY <1>2, UpToChunk
  <2>3. \A c \in ChunkIds : c <= chunk => flash[NextBank(bank)].data[c] = attempt[c]
    BY <1>1, <2>1, <2>2
  <2>. QED
    BY <1>1, <1>3, <2>3, ChunkDoneCopies DEF TypeOK
<1>4. CASE /\ pc' \in {"program", "erase"} /\ buffer' = cell
           /\ UNCHANGED <<bank, chunk, request, sector, history>>
  BY <1>1, <1>2, <1>4 DEF CopyInv, Saved, NextBank, Merged, history
<1>. QED
  BY <1>3, <1>4 DEF ReadModify

LEMMA PutChunk ==
  ASSUME NEW contents \in Bank, NEW c \in ChunkIds, NEW cell, NEW d \in ChunkIds
  PROVE  Put(contents, c, cell).data[d] = IF d = c THEN cell.data ELSE contents.data[d]
BY DEF Put, Bank

\* The flash driver puts the chunk in place, with an erase or without.
LEMMA WritingCopies ==
  ASSUME TypeOK, CopyInv, Program \/ EraseSector \/ RewriteSector PROVE CopyInv'
<1>. DEFINE next == NextBank(bank)
<1>1. /\ bank \in Banks /\ next \in Banks /\ next # bank /\ chunk \in ChunkIds
      /\ pc \in {"program", "erase", "rewrite"}
      /\ Saved[bank].data = committed /\ attempt = Merged(request, committed)
      /\ \A c \in ChunkIds : c < chunk => Saved[next].data[c] = attempt[c]
      /\ buffer.data = attempt[chunk]
  BY NextBankType, NextBankIsAnother DEF TypeOK, CopyInv, Program, EraseSector, RewriteSector
<1>2. \A c \in ChunkIds : c <= chunk => c = chunk \/ c < chunk
  BY <1>1, UpToChunk
<1>3. CASE Program
  <2>1. /\ flash' = [flash EXCEPT ![next] = Put(@, chunk, buffer)] /\ ChunkDone
        /\ flash' \in [Banks -> Bank] /\ Saved = flash
    BY <1>1, <1>3, PutType DEF Program, TypeOK, Saved
  <2>2. \A c \in ChunkIds : c <= chunk => flash'[next].data[c] = attempt[c]
    BY <1>1, <1>2, <2>1, PutChunk DEF TypeOK
  <2>3. flash'[bank].data = committed
    BY <1>1, <2>1 DEF TypeOK
  <2>. QED
    BY <1>1, <2>1, <2>2, <2>3, ChunkDoneCopies
<1>4. CASE EraseSector
  <2>1. bank \notin SectorOf(next) => flash'[bank] = flash[bank]
    BY <1>1, <1>4 DEF EraseSector, Erase
  <2>2. SectorOf(NextBank(bank)) = SectorOf(next) /\ Saved = flash /\ pc' = "rewrite"
        /\ Saved' = flash
    BY <1>4 DEF Saved, EraseSector
  <2>. QED
    BY <1>1, <1>4, <2>1, <2>2 DEF EraseSector, CopyInv, NextBank, Merged, SectorOf, history
<1>5. CASE RewriteSector
  <2>1. /\ flash' = [b \in Banks |-> IF b \in SectorOf(next) THEN Restored(b) ELSE flash[b]]
        /\ ChunkDone /\ flash' \in [Banks -> Bank] /\ Saved = sector
        /\ next \in SectorOf(next)
    BY <1>1, <1>5, RewriteType DEF RewriteSector, Saved, SectorOf
  <2>2. flash'[next] = Put(sector[next], chunk, buffer)
    BY <1>1, <2>1 DEF Restored
  <2>3. \A c \in ChunkIds : c <= chunk => flash'[next].data[c] = attempt[c]
    BY <1>1, <1>2, <2>1, <2>2, PutChunk DEF TypeOK
  <2>4. bank \in SectorOf(next) \/ flash[bank].data = committed
    BY <1>5 DEF RewriteSector, CopyInv
  <2>5. flash'[bank].data = committed
    BY <1>1, <2>1, <2>4 DEF Restored
  <2>. QED
    BY <1>1, <2>1, <2>3, <2>5, ChunkDoneCopies
<1>. QED
  BY <1>3, <1>4, <1>5

\* An erase does what it says: it leaves nothing unerased, and is followed by
\* the rewrite of all it erased.
ErasesWork == {"erase", "rewrite", "maskedErase", "partition"} \intersect FailPhases = {}

\* A write that returns with an error leaves the current bank in the flash.
LEMMA FailureCopies ==
  ASSUME TypeOK, CopyInv, ErasesWork,
         FailRead \/ FailCompare \/ FailWrite \/ FailRewrite \/ RewriteUnerased
  PROVE  CopyInv'
<1>1. /\ pc \in {"chunk", "program"} /\ ReturnFailure /\ UNCHANGED <<flash, bank>>
  BY DEF FailRead, FailCompare, FailWrite, FailRewrite, RewriteUnerased, ErasesWork
<1>. QED
  BY <1>1 DEF ReturnFailure, Return, CopyInv, Saved

LEMMA OtherCopies ==
  ASSUME TypeOK, CopyInv, ErasesWork,
         (\E r \in Requests : WriteBegin(r)) \/ EraseOld \/ EraseBegin \/ ErasePartition
           \/ PowerLoss \/ Open
  PROVE  CopyInv'
<1>1. ASSUME NEW r \in Requests, WriteBegin(r) PROVE CopyInv'
  <2>1. /\ pc = "idle" /\ pc' = "chunk" /\ chunk' = 1 /\ request' = r
        /\ flash[bank].data = committed /\ attempt' = Merged(r, committed)
        /\ UNCHANGED <<flash, bank, committed>>
    BY <1>1 DEF WriteBegin, CopyInv, Saved
  <2>2. \A c \in ChunkIds : ~ (c < 1)
    BY DEF ChunkIds
  <2>. QED
    BY <2>1, <2>2 DEF CopyInv, Saved, NextBank, Merged
<1>2. CASE EraseOld
  <2>1. flash'[bank] = flash[bank]
    BY <1>2, PreviousSectorIsAnother DEF EraseOld, Erase, TypeOK
  <2>. QED
    BY <1>2, <2>1 DEF EraseOld, ReturnSuccess, Return, CopyInv, Saved
<1>3. CASE ErasePartition
  <2>1. AllErased[bank].data = Blank
    BY DEF AllErased, ErasedBank, TypeOK
  <2>. QED
    BY <1>3, <2>1 DEF ErasePartition, ErasesWork, ReturnSuccess, Return, CopyInv, Saved
<1>6. CASE EraseBegin
  BY <1>6 DEF EraseBegin, CopyInv, Saved
<1>4. CASE PowerLoss
  BY <1>4 DEF PowerLoss, CopyInv
<1>5. CASE Open
  BY <1>5 DEF Open, CopyInv, Saved
<1>. QED
  BY <1>1, <1>2, <1>3, <1>4, <1>5, <1>6

LEMMA CopiesHold ==
  ASSUME ErasesWork
  PROVE  Spec => []CopyInv
<1>1. Init => CopyInv
  <2>1. AllErased[0].data = Blank
    BY BanksFacts DEF AllErased, ErasedBank
  <2>. QED
    BY <2>1 DEF Init, CopyInv, Saved
<1>2. TypeOK /\ CopyInv /\ [Next]_vars => CopyInv'
  <2>. SUFFICES ASSUME TypeOK, CopyInv, [Next]_vars PROVE CopyInv'
    OBVIOUS
  <2>1. CASE UNCHANGED vars
    BY <2>1 DEF vars, driver, history, CopyInv, Saved, NextBank, Merged, SectorOf
  <2>2. CASE Next
    BY <2>2, ReadModifyCopies, WritingCopies, FailureCopies, OtherCopies DEF Next
  <2>. QED
    BY <2>1, <2>2
<1>. QED
  BY TypeCorrect, <1>1, <1>2, PTL DEF Spec

\* A reader between two writes gets what the last successful write stored, in
\* any partition, after any failed reads, failed programming and power
\* failures.  It takes an erase that works: when a sector that holds the
\* current bank is erased and cannot be written back, the bank is lost.
THEOREM ReadsAreCurrent ==
  ASSUME ErasesWork
  PROVE  Spec => []ReadsLastWrite
<1>1. CopyInv => ReadsLastWrite
  BY DEF CopyInv, Saved, ReadsLastWrite
<1>. QED
  BY CopiesHold, <1>1, PTL

-----------------------------------------------------------------------------
(* The ring of banks: a restart finds the newest one, and the partition is  *)
(* a durable register.  What follows is about a partition without           *)
(* AutoEraseBank, whose owner does not erase it, in which a sector's erase  *)
(* and rewrite are not cut short and the device fails no write: what        *)
(* remains is any number of banks and chunks, read errors, and power lost   *)
(* between the chunks, while one is programmed and while a bank is          *)
(* committed.                                                               *)

Sheltered == /\ ~ AutoErase /\ ~ MayErase
             /\ CrashPhases \subseteq {"idle", "chunk", "program", "commit"}
             /\ FailPhases \subseteq {"chunk"}

\* How many writes ago bank b was written if bank k is the newest, and the
\* number that was given d writes before number s.
Age(b, k)  == IF b <= k THEN k - b ELSE k - b + NumBanks
Back(s, d) == IF d < s THEN s - d ELSE s - d + LastSequence

\* Bank k is the newest of flash f: nothing was written yet, or the banks from
\* 1 to k, or all of them, and their numbers are those of the last writes.
ChainTo(f, k) ==
  /\ k \in Banks
  /\ \/ Written(f) = {} /\ k = 0
     \/ /\ Written(f) = Banks \/ Written(f) = 1 .. k
        /\ k \in Written(f)
        /\ \A b \in Written(f) : f[b].seq = Back(f[k].seq, Age(b, k))

\* The number the next write counts on from.
NumberOf(f, k) == IF Written(f) = {} THEN 1 ELSE f[k].seq

\* The chain ends in the bank in use, whatever part of the next one has been
\* written; the numbers in RAM run ahead of it only from the last chunk on.
RingInv ==
  /\ pc \notin {"autoErase", "partition"}
  /\ pc = "down" => (\E k \in Banks : ChainTo(flash, k)) /\ flash[CurrentBank(flash)].data \in candidates
  /\ pc # "down" => ChainTo(Saved, bank)
  /\ pc \in {"idle", "chunk"} => sequence = NumberOf(Saved, bank)
  /\ pc \in {"program", "erase", "rewrite"} =>
       IF chunk = Chunks
       THEN sequence = NextSequence(NumberOf(Saved, bank)) /\ buffer.seq = sequence
       ELSE sequence = NumberOf(Saved, bank) /\ buffer.seq = 0
  /\ pc = "program" => Cell(NextBank(bank), chunk) = EmptyCell
  /\ pc = "rewrite" =>
       flash = [b \in Banks |-> IF b \in SectorOf(NextBank(bank)) THEN ErasedBank ELSE sector[b]]
  /\ committed \in candidates /\ candidates \subseteq Contents
  /\ pc \notin {"idle", "down"} => attempt \in candidates

-----------------------------------------------------------------------------
(* The arithmetic of the ring                                               *)

LEMMA NextBankIs ==
  ASSUME NEW k \in Banks
  PROVE  NextBank(k) = IF k = NumBanks - 1 THEN 0 ELSE k + 1
BY BanksAssumption DEF NextBank, Banks

LEMMA Ages ==
  ASSUME NEW k \in Banks, NEW b \in Banks
  PROVE  /\ Age(b, k) \in 0 .. NumBanks - 1
         /\ Age(k, k) = 0 /\ Age(NextBank(k), k) = NumBanks - 1
         /\ b # NextBank(k) => Age(b, NextBank(k)) = Age(b, k) + 1
BY NextBankIs, BanksAssumption DEF Age, Banks

LEMMA BackFacts ==
  ASSUME NEW s \in 1 .. LastSequence, NEW d \in 0 .. NumBanks - 1
  PROVE  /\ Back(s, d) \in 1 .. LastSequence
         /\ Back(s, 0) = s
         /\ Back(s, d) # NextSequence(s)
         /\ Back(NextSequence(s), d + 1) = Back(s, d)
         /\ d > 0 => Back(s, d - 1) = NextSequence(Back(s, d))
         /\ \A e \in 0 .. NumBanks - 1 : Back(s, d) = Back(s, e) => d = e
BY SequenceAssumption, BanksAssumption DEF Back, NextSequence

\* Two flashes with the same numbers have the same chain.
LEMMA SameNumbers ==
  ASSUME NEW f, NEW g, NEW k, ChainTo(f, k), \A b \in Banks : g[b].seq = f[b].seq
  PROVE  ChainTo(g, k) /\ NumberOf(g, k) = NumberOf(f, k)
<1>1. Written(g) = Written(f) /\ k \in Banks /\ Written(f) \in SUBSET Banks
  BY DEF ChainTo, Written
<1>2. NumberOf(g, k) = NumberOf(f, k)
  BY <1>1 DEF NumberOf
<1>3. ASSUME NEW b \in Written(f) PROVE g[b].seq = f[b].seq
  BY <1>1
<1>. QED
  BY <1>1, <1>2, <1>3 DEF ChainTo

LEMMA NumberType ==
  ASSUME NEW f \in [Banks -> Bank], NEW k, ChainTo(f, k)
  PROVE  /\ NumberOf(f, k) \in 1 .. LastSequence
         /\ Written(f) # {} => f[k].seq \in 1 .. LastSequence /\ NumberOf(f, k) = f[k].seq
<1>1. k \in Banks /\ f[k].seq \in 0 .. LastSequence
  BY DEF ChainTo, Bank, Sequences
<1>2. CASE Written(f) = {}
  BY <1>2, SequenceAssumption, BanksAssumption DEF NumberOf
<1>3. CASE Written(f) # {}
  <2>1. k \in Written(f)
    BY <1>3 DEF ChainTo
  <2>2. f[k].seq # 0 /\ NumberOf(f, k) = f[k].seq
    BY <1>3, <2>1 DEF Written, NumberOf
  <2>. QED
    BY <1>1, <2>2, SequenceAssumption
<1>. QED
  BY <1>2, <1>3

\* The number a write gives to the next bank is not there yet.
LEMMA NextIsFresh ==
  ASSUME NEW f \in [Banks -> Bank], NEW k, ChainTo(f, k)
  PROVE  f[NextBank(k)].seq # NextSequence(NumberOf(f, k))
<1>1. k \in Banks /\ NextBank(k) \in Banks /\ NumberOf(f, k) \in 1 .. LastSequence
  BY NextBankType, NumberType DEF ChainTo
<1>2. CASE NextBank(k) \notin Written(f)
  BY <1>1, <1>2, NextSequenceType DEF Written
<1>3. CASE NextBank(k) \in Written(f)
  <2>1. f[NextBank(k)].seq = Back(NumberOf(f, k), NumBanks - 1)
    BY <1>1, <1>3, Ages, NumberType DEF ChainTo
  <2>. QED
    BY <1>1, <2>1, BackFacts, BanksFacts
<1>. QED
  BY <1>2, <1>3

\* The chain grows by the bank that gets the next number.
LEMMA ChainGrows ==
  ASSUME NEW f \in [Banks -> Bank], NEW g \in [Banks -> Bank], NEW k, ChainTo(f, k),
         g[NextBank(k)].seq = NextSequence(NumberOf(f, k)),
         \A b \in Banks : b # NextBank(k) => g[b].seq = f[b].seq
  PROVE  ChainTo(g, NextBank(k)) /\ NumberOf(g, NextBank(k)) = NextSequence(NumberOf(f, k))
<1>. DEFINE next == NextBank(k)
            s    == NumberOf(f, k)
<1>1. k \in Banks /\ next \in Banks /\ next # k /\ s \in 1 .. LastSequence
      /\ NextSequence(s) \in 1 .. LastSequence
  BY NextBankType, NextBankIsAnother, NumberType, NextSequenceType DEF ChainTo
<1>2. Written(g) = Written(f) \union {next}
  BY <1>1 DEF Written
<1>3. Written(g) = Banks \/ Written(g) = 1 .. next
  <2>1. Banks = 0 .. NumBanks - 1 /\ NumBanks \in Nat /\ NumBanks >= 2
    BY BanksAssumption DEF Banks
  <2>2. CASE Written(f) = {}
    BY <1>1, <1>2, <2>1, <2>2, NextBankIs DEF ChainTo
  <2>3. CASE Written(f) = Banks
    BY <1>1, <1>2, <2>3
  <2>4. CASE Written(f) = 1 .. k
    BY <1>1, <1>2, <2>1, <2>4, NextBankIs
  <2>. QED
    BY <2>2, <2>3, <2>4 DEF ChainTo
<1>4. ASSUME NEW b \in Written(g) PROVE g[b].seq = Back(g[next].seq, Age(b, next))
  <2>1. CASE b = next
    BY <1>1, <2>1, Ages, BackFacts, BanksFacts
  <2>2. CASE b # next
    <3>1. b \in Written(f) /\ b \in Banks /\ g[b].seq = f[b].seq
      BY <1>2, <2>2 DEF Written
    <3>2. f[b].seq = Back(s, Age(b, k))
      BY <3>1, NumberType DEF ChainTo
    <3>3. Age(b, next) = Age(b, k) + 1 /\ Age(b, k) \in 0 .. NumBanks - 1
      BY <1>1, <2>2, <3>1, Ages
    <3>. QED
      BY <1>1, <3>1, <3>2, <3>3, BackFacts
  <2>. QED
    BY <2>1, <2>2
<1>. QED
  BY <1>1, <1>2, <1>3, <1>4 DEF ChainTo, NumberOf

\* Numbers in the chain are distinct.
LEMMA ChainDistinct ==
  ASSUME NEW f \in [Banks -> Bank], NEW k, ChainTo(f, k),
         NEW a \in Written(f), NEW b \in Written(f), f[a].seq = f[b].seq
  PROVE  a = b
<1>1. k \in Banks /\ a \in Banks /\ b \in Banks /\ f[k].seq \in 1 .. LastSequence
  BY NumberType DEF ChainTo, Written
<1>2. f[a].seq = Back(f[k].seq, Age(a, k)) /\ f[b].seq = Back(f[k].seq, Age(b, k))
  BY DEF ChainTo
<1>3. Age(a, k) \in 0 .. NumBanks - 1 /\ Age(b, k) \in 0 .. NumBanks - 1
  BY <1>1, Ages
<1>4. Back(f[k].seq, Age(a, k)) = Back(f[k].seq, Age(b, k)) => Age(a, k) = Age(b, k)
  BY <1>1, <1>3, BackFacts
<1>5. Age(a, k) = Age(b, k)
  BY <1>2, <1>4
<1>. QED
  BY <1>1, <1>5, BanksAssumption DEF Age, Banks

-----------------------------------------------------------------------------
(* The scan of findCurrentBank                                              *)

\* What the scan asks of a bank of the chain: the number after the one before.
LEMMA ChainContinues ==
  ASSUME NEW f \in [Banks -> Bank], NEW k, ChainTo(f, k), NEW a \in Written(f), a <= k
  PROVE  Continues(f, a)
<1>1. SUFFICES ASSUME NEW p \in Written(f), p < a,
                      ~ \E m \in Written(f) : p < m /\ m < a
               PROVE  f[a].seq = NextSequence(f[p].seq)
  BY DEF Continues
<1>2. k \in Banks /\ a \in Banks /\ p \in Banks /\ Banks = 0 .. NumBanks - 1
      /\ NumBanks \in Nat
  BY BanksFacts DEF ChainTo, Written
<1>3. p = a - 1
  <2>1. a - 1 \in Written(f)
    BY <1>1, <1>2 DEF ChainTo
  <2>. QED
    BY <1>1, <1>2, <2>1
<1>4. Age(p, k) = Age(a, k) + 1 /\ Age(p, k) \in 0 .. NumBanks - 1
  BY <1>2, <1>3, Ages DEF Age
<1>5. f[a].seq = Back(f[k].seq, Age(a, k)) /\ f[p].seq = Back(f[k].seq, Age(p, k))
  BY DEF ChainTo
<1>6. f[k].seq \in 1 .. LastSequence
  BY NumberType
<1>7. Age(p, k) > 0 /\ Age(p, k) - 1 = Age(a, k)
  <2>1. Age(a, k) \in 0 .. NumBanks - 1
    BY <1>2, Ages
  <2>. QED
    BY <1>4, <2>1
<1>8. Back(f[k].seq, Age(p, k) - 1) = NextSequence(Back(f[k].seq, Age(p, k)))
  BY <1>4, <1>6, <1>7, BackFacts
<1>. QED
  BY <1>5, <1>7, <1>8

\* The bank behind the newest is the oldest: there the scan stops.
LEMMA ChainStops ==
  ASSUME NEW f \in [Banks -> Bank], NEW k, ChainTo(f, k), NEW b \in Banks, InChain(f, b)
  PROVE  b <= k
<1>. SUFFICES ASSUME ~ (b <= k) PROVE FALSE
  OBVIOUS
<1>1. k \in Banks /\ b \in Written(f) /\ Banks = 0 .. NumBanks - 1 /\ NumBanks \in Nat
  BY BanksFacts DEF ChainTo, InChain
<1>2. Written(f) = Banks
  BY <1>1 DEF ChainTo
<1>3. k + 1 \in Written(f) /\ k + 1 <= b /\ k + 1 = NextBank(k)
  BY <1>1, <1>2, NextBankIs
<1>4. Continues(f, k + 1)
  BY <1>3 DEF InChain
<1>5. ~ \E m \in Written(f) : k < m /\ m < k + 1
  BY <1>1, <1>2
<1>6. f[k + 1].seq = NextSequence(f[k].seq)
  BY <1>1, <1>2, <1>4, <1>5 DEF Continues
<1>. QED
  BY <1>1, <1>2, <1>3, <1>6, NextIsFresh, NumberType

\* findCurrentBank returns the end of the chain and its number.
LEMMA ScanFindsChainEnd ==
  ASSUME NEW f \in [Banks -> Bank], NEW k, ChainTo(f, k)
  PROVE  CurrentBank(f) = k /\ CurrentSequence(f) = NumberOf(f, k)
<1>1. CASE Written(f) = {}
  BY <1>1 DEF ChainTo, CurrentBank, CurrentSequence, NumberOf
<1>2. CASE Written(f) # {}
  <2>1. k \in Banks /\ InChain(f, k)
    BY <1>2, ChainContinues DEF ChainTo, InChain
  <2>2. \A b \in Banks : InChain(f, b) => b <= k
    BY ChainStops
  <2>3. \A x \in Banks : InChain(f, x) /\ (\A a \in Banks : InChain(f, a) => a <= x) => x = k
    BY <2>1, <2>2, BanksFacts
  <2>4. CurrentBank(f) = k
    BY <1>2, <2>1, <2>2, <2>3 DEF CurrentBank
  <2>. QED
    BY <1>2, <2>4 DEF CurrentSequence, NumberOf
<1>. QED
  BY <1>1, <1>2

-----------------------------------------------------------------------------
(* The steps of the driver                                                  *)

\* What a sheltered partition rules out.
LEMMA ShelterFacts ==
  ASSUME Sheltered
  PROVE  /\ ~ AutoErase /\ ~ MayErase
         /\ {"erase", "rewrite", "autoErase", "down"} \intersect CrashPhases = {}
         /\ {"compare", "program"} \intersect FailPhases = {} /\ ErasesWork
BY DEF Sheltered, ErasesWork

\* An iteration that has put its chunk in place: before the last one the
\* numbers stay, with the last one the chain grows by the next bank.
LEMMA ChunkDoneRing ==
  ASSUME Sheltered, TypeOK, RingInv, ChunkDone, pc \in {"chunk", "program", "rewrite"},
         flash' \in [Banks -> Bank],
         \A b \in Banks : b # NextBank(bank) => flash'[b].seq = Saved[b].seq,
         chunk < Chunks => /\ sequence' = NumberOf(Saved, bank)
                           /\ flash'[NextBank(bank)].seq = Saved[NextBank(bank)].seq,
         chunk = Chunks => /\ sequence' = NextSequence(NumberOf(Saved, bank))
                           /\ flash'[NextBank(bank)].seq = sequence'
  PROVE  RingInv'
<1>1. /\ ChainTo(Saved, bank) /\ Saved \in [Banks -> Bank]
      /\ committed \in candidates /\ candidates \subseteq Contents /\ attempt \in candidates
      /\ chunk \in ChunkIds
  BY DEF RingInv, TypeOK, Saved
<1>2. CASE chunk < Chunks
  <2>1. /\ pc' = "chunk" /\ bank' = bank /\ UNCHANGED <<committed, attempt, candidates>>
        /\ Saved' = flash'
    BY <1>2 DEF ChunkDone, history, Saved
  <2>2. \A b \in Banks : flash'[b].seq = Saved[b].seq
    BY <1>2
  <2>3. ChainTo(flash', bank) /\ NumberOf(flash', bank) = NumberOf(Saved, bank)
    BY <1>1, <2>2, SameNumbers
  <2>. QED
    BY <1>1, <1>2, <2>1, <2>3 DEF RingInv
<1>3. CASE chunk = Chunks
  <2>1. /\ pc' = "idle" /\ bank' = NextBank(bank) /\ Saved' = flash'
        /\ committed' = attempt /\ candidates' = {attempt}
    BY <1>3, ShelterFacts, ChunksAssumption DEF ChunkDone, ReturnSuccess, Return, Saved
  <2>2. /\ ChainTo(flash', NextBank(bank))
        /\ NumberOf(flash', NextBank(bank)) = NextSequence(NumberOf(Saved, bank))
    BY <1>1, <1>3, ChainGrows
  <2>. QED
    BY <1>1, <1>3, <2>1, <2>2 DEF RingInv
<1>. QED
  BY <1>1, <1>2, <1>3, ChunksAssumption DEF ChunkIds

LEMMA InitRing == Init => RingInv
<1>. SUFFICES ASSUME Init PROVE RingInv
  OBVIOUS
<1>1. Written(flash) = {} /\ Saved = flash
  BY DEF Init, Written, AllErased, ErasedBank, Saved
<1>2. Blank \in Contents
  BY ValuesAssumption DEF Blank, Contents
<1>. QED
  BY <1>1, <1>2, BanksFacts DEF Init, RingInv, ChainTo, NumberOf

LEMMA WriteBeginRing ==
  ASSUME TypeOK, CopyInv, RingInv, NEW r \in Requests, WriteBegin(r)
  PROVE  RingInv' /\ attempt' \in Contents
<1>1. flash[bank].data = committed /\ committed \in Contents
  BY DEF WriteBegin, CopyInv, Saved, RingInv
<1>2. attempt' \in Contents
  BY <1>1 DEF WriteBegin, Merged, Contents, Requests
<1>. QED
  BY <1>2 DEF WriteBegin, RingInv, Saved

LEMMA ReadModifyRing ==
  ASSUME Sheltered, TypeOK, RingInv, ReadModify PROVE RingInv'
<1>. DEFINE next == NextBank(bank)
            seq  == IF chunk = Chunks THEN NextSequence(sequence) ELSE 0
            cell == [data |-> IF chunk \in request.first .. request.last
                              THEN request.value ELSE flash[bank].data[chunk],
                     seq  |-> seq]
            old  == Cell(next, chunk)
<1>1. /\ pc = "chunk" /\ UNCHANGED flash /\ Saved = flash /\ ChainTo(flash, bank)
      /\ sequence = NumberOf(flash, bank)
      /\ sequence' = IF chunk = Chunks THEN seq ELSE sequence
      /\ committed \in candidates /\ candidates \subseteq Contents /\ attempt \in candidates
  BY DEF ReadModify, RingInv, Saved
<1>2. CASE old = cell /\ ChunkDone
  <2>1. chunk = Chunks => flash[next].seq = seq
    BY <1>2 DEF Cell
  <2>. QED
    BY <1>1, <1>2, <2>1, ChunkDoneRing, ChunksAssumption DEF TypeOK
<1>3. CASE /\ old # cell
           /\ pc' = IF old = EmptyCell THEN "program" ELSE "erase"
           /\ buffer' = cell
           /\ UNCHANGED <<bank, chunk, request, sector, history>>
  <2>1. Saved' = flash /\ bank' = bank /\ chunk' = chunk
        /\ UNCHANGED <<committed, attempt, candidates>>
    BY <1>1, <1>3 DEF Saved, history
  <2>2. Cell(NextBank(bank), chunk)' = old
    BY <1>1, <2>1 DEF Cell, NextBank
  <2>3. buffer'.seq = seq
    BY <1>3
  <2>. QED
    BY <1>1, <1>3, <2>1, <2>2, <2>3 DEF RingInv
<1>. QED
  BY <1>2, <1>3 DEF ReadModify

\* The number a bank has after one of its chunks was put in place.
LEMMA PutSequence ==
  ASSUME NEW contents, NEW c, NEW cell
  PROVE  Put(contents, c, cell).seq = IF c = Chunks THEN cell.seq ELSE contents.seq
BY DEF Put

LEMMA WritingRing ==
  ASSUME Sheltered, TypeOK, RingInv, Program \/ EraseSector \/ RewriteSector
  PROVE  RingInv'
<1>. DEFINE next == NextBank(bank)
<1>1. /\ bank \in Banks /\ next \in Banks /\ chunk \in ChunkIds
      /\ pc \in {"program", "erase", "rewrite"} /\ Saved \in [Banks -> Bank]
      /\ IF chunk = Chunks
         THEN sequence = NextSequence(NumberOf(Saved, bank)) /\ buffer.seq = sequence
         ELSE sequence = NumberOf(Saved, bank) /\ buffer.seq = 0
      /\ (chunk < Chunks => chunk # Chunks)
  BY NextBankType, ChunksAssumption
  DEF TypeOK, RingInv, Saved, Program, EraseSector, RewriteSector, ChunkIds
<1>2. CASE Program
  <2>1. /\ Saved = flash /\ ChunkDone /\ pc = "program" /\ sequence' = sequence
        /\ flash' = [flash EXCEPT ![next] = Put(@, chunk, buffer)]
    BY <1>2 DEF Program, Saved
  <2>2. flash' \in [Banks -> Bank]
    BY <1>1, <2>1, PutType DEF TypeOK
  <2>3. \A b \in Banks : b # next => flash'[b].seq = Saved[b].seq
    BY <1>1, <2>1 DEF TypeOK
  <2>4. flash'[next].seq = IF chunk = Chunks THEN buffer.seq ELSE Saved[next].seq
    BY <1>1, <2>1, PutSequence DEF TypeOK
  <2>. QED
    BY <1>1, <2>1, <2>2, <2>3, <2>4, ChunkDoneRing
<1>3. CASE EraseSector
  <2>1. /\ Saved = flash /\ Saved' = flash /\ pc = "erase" /\ pc' = "rewrite"
        /\ UNCHANGED <<bank, sequence, chunk, buffer, committed, attempt, candidates>>
        /\ sector' = flash /\ flash' = Erase(SectorOf(next))
    BY <1>3 DEF EraseSector, Saved, history
  <2>2. flash' = [b \in Banks |-> IF b \in SectorOf(next) THEN ErasedBank ELSE sector'[b]]
    BY <2>1 DEF Erase
  <2>3. SectorOf(NextBank(bank))' = SectorOf(next)
    BY <2>1 DEF SectorOf, NextBank
  <2>. QED
    BY <1>1, <2>1, <2>2, <2>3 DEF RingInv
<1>4. CASE RewriteSector
  <2>1. /\ Saved = sector /\ ChunkDone /\ pc = "rewrite" /\ sequence' = sequence
        /\ flash' = [b \in Banks |-> IF b \in SectorOf(next) THEN Restored(b) ELSE flash[b]]
        /\ flash = [b \in Banks |-> IF b \in SectorOf(next) THEN ErasedBank ELSE sector[b]]
    BY <1>4 DEF RewriteSector, Saved, RingInv
  <2>2. flash' \in [Banks -> Bank]
    BY <2>1, RewriteType
  <2>3. \A b \in Banks : b # next => flash'[b].seq = Saved[b].seq
    BY <2>1 DEF Restored
  <2>4. flash'[next].seq = IF chunk = Chunks THEN buffer.seq ELSE Saved[next].seq
    BY <1>1, <2>1, PutSequence DEF Restored, SectorOf
  <2>. QED
    BY <1>1, <2>1, <2>2, <2>3, <2>4, ChunkDoneRing
<1>. QED
  BY <1>2, <1>3, <1>4

\* The flash differs from what is saved only by the sector being rewritten.
LEMMA SavedFlash ==
  ASSUME TypeOK, RingInv, pc \in {"idle", "chunk", "program"}
  PROVE  /\ Saved = flash /\ flash \in [Banks -> Bank] /\ bank \in Banks
         /\ NextBank(bank) \in Banks /\ NextBank(bank) # bank
         /\ ChainTo(flash, bank) /\ CurrentBank(flash) = bank
<1>1. Saved = flash /\ flash \in [Banks -> Bank] /\ bank \in Banks /\ ChainTo(flash, bank)
  BY DEF Saved, TypeOK, RingInv
<1>. QED
  BY <1>1, NextBankType, NextBankIsAnother, ScanFindsChainEnd

\* Power lost while a chunk before the last is programmed: the numbers are
\* what they were.  While the last one is: the new bank is there, or it is not.
LEMMA PowerLossRing ==
  ASSUME Sheltered, TypeOK, CopyInv, RingInv, pc # "down", Phase \in CrashPhases,
         NEW f \in AfterPowerLoss
  PROVE  (\E k \in Banks : ChainTo(f, k)) /\ f[CurrentBank(f)].data \in candidates
<1>. DEFINE next == NextBank(bank)
            torn == [data |-> Torn, seq |-> 0]
<1>1. pc \in {"idle", "chunk", "program"}
  BY ShelterFacts DEF TypeOK, Phases, Phase, RingInv
<1>2. /\ Saved = flash /\ flash \in [Banks -> Bank] /\ bank \in Banks
      /\ next \in Banks /\ next # bank
      /\ ChainTo(flash, bank) /\ CurrentBank(flash) = bank
  BY <1>1, SavedFlash
<1>3. /\ flash[bank].data = committed /\ committed \in candidates
      /\ f \in [Banks -> Bank]
  BY <1>1, <1>2, PowerLossType DEF CopyInv, RingInv
<1>4. CASE f = flash
  BY <1>2, <1>3, <1>4
<1>5. CASE pc = "program" /\ \E cell \in {torn, buffer} :
                                f = [flash EXCEPT ![next] = Put(@, chunk, cell)]
  <2>1. PICK cell \in {torn, buffer} : f = [flash EXCEPT ![next] = Put(@, chunk, cell)]
    BY <1>5
  <2>2. /\ f[next] = Put(flash[next], chunk, cell)
        /\ \A b \in Banks : b # next => f[b] = flash[b]
    BY <1>2, <2>1
  <2>3. f[next].seq = IF chunk = Chunks THEN cell.seq ELSE flash[next].seq
    BY <2>2, PutSequence
  <2>4. CASE f[next].seq = flash[next].seq
    <3>1. \A b \in Banks : f[b].seq = flash[b].seq
      BY <2>2, <2>4
    <3>2. ChainTo(f, bank)
      BY <1>2, <3>1, SameNumbers
    <3>3. CurrentBank(f) = bank
      BY <1>3, <3>2, ScanFindsChainEnd
    <3>. QED
      BY <1>2, <1>3, <2>2, <3>2, <3>3
  <2>5. CASE chunk = Chunks /\ cell = torn
    <3>1. flash[next].seq = 0
      BY <1>5, <2>5 DEF RingInv, Cell, EmptyCell
    <3>. QED
      BY <2>3, <2>4, <2>5, <3>1
  <2>6. CASE chunk = Chunks /\ cell = buffer
    <3>1. f[next].seq = NextSequence(NumberOf(flash, bank))
      BY <1>2, <1>5, <2>3, <2>6 DEF RingInv
    <3>2. ChainTo(f, next)
      BY <1>2, <1>3, <2>2, <3>1, ChainGrows
    <3>3. CurrentBank(f) = next
      BY <1>3, <3>2, ScanFindsChainEnd
    <3>4. /\ attempt = Merged(request, committed) /\ attempt \in candidates
          /\ \A c \in ChunkIds : c < chunk => flash[next].data[c] = attempt[c]
          /\ buffer.data = attempt[chunk]
      BY <1>2, <1>5 DEF CopyInv, RingInv
    <3>5. \A c \in ChunkIds : c < chunk \/ c = chunk
      BY <2>6, ChunksAssumption DEF ChunkIds
    <3>6. \A c \in ChunkIds : f[next].data[c] = attempt[c]
      BY <1>2, <2>2, <2>6, <3>4, <3>5, PutChunk DEF TypeOK
    <3>7. f[next].data = attempt
      <4>1. f[next].data \in [ChunkIds -> Values \union {Torn}]
        BY <1>2, <1>3 DEF Bank
      <4>2. attempt = [c \in ChunkIds |-> attempt[c]]
        BY <3>4 DEF Merged
      <4>. QED
        BY <3>6, <4>1, <4>2
    <3>. QED
      BY <1>2, <3>2, <3>3, <3>4, <3>7
  <2>. QED
    BY <2>1, <2>3, <2>4, <2>5, <2>6
<1>. QED
  BY <1>1, <1>4, <1>5 DEF AfterPowerLoss

LEMMA RestartRing ==
  ASSUME Sheltered, TypeOK, CopyInv, RingInv, FailRead \/ PowerLoss \/ Open
  PROVE  RingInv'
<1>1. CASE FailRead
  BY <1>1 DEF FailRead, ReturnFailure, Return, RingInv, Saved
<1>2. CASE PowerLoss
  <2>1. (\E k \in Banks : ChainTo(flash', k)) /\ flash'[CurrentBank(flash')].data \in candidates
    BY <1>2, PowerLossRing DEF PowerLoss
  <2>. QED
    BY <1>2, <2>1 DEF PowerLoss, RingInv
<1>3. CASE Open
  <2>1. PICK k \in Banks : ChainTo(flash, k)
    BY <1>3 DEF Open, RingInv
  <2>2. CurrentBank(flash) = k /\ CurrentSequence(flash) = NumberOf(flash, k)
    BY <2>1, ScanFindsChainEnd DEF TypeOK
  <2>. QED
    BY <1>3, <2>1, <2>2 DEF Open, RingInv, Saved
<1>. QED
  BY <1>1, <1>2, <1>3

LEMMA RingHolds == ASSUME Sheltered PROVE Spec => [](TypeOK /\ CopyInv /\ RingInv)
<1>1. TypeOK /\ CopyInv /\ RingInv /\ [Next]_vars => RingInv'
  <2>. SUFFICES ASSUME TypeOK, CopyInv, RingInv, [Next]_vars PROVE RingInv'
    OBVIOUS
  <2>1. CASE UNCHANGED vars
    BY <2>1 DEF vars, driver, history, RingInv, Saved, Cell, NextBank, SectorOf
  <2>2. /\ ~ EraseOld /\ ~ EraseBegin /\ ~ ErasePartition
        /\ ~ FailCompare /\ ~ FailWrite /\ ~ FailRewrite /\ ~ RewriteUnerased
    BY ShelterFacts
    DEF EraseOld, EraseBegin, ErasePartition, FailCompare, FailWrite, FailRewrite,
        RewriteUnerased, ErasesWork, RingInv
  <2>3. CASE Next
    BY <2>2, <2>3, WriteBeginRing, ReadModifyRing, WritingRing, RestartRing DEF Next
  <2>. QED
    BY <2>1, <2>3
<1>2. ErasesWork
  BY ShelterFacts
<1>3. Spec => []CopyInv
  BY <1>2, CopiesHold
<1>. QED
  BY TypeCorrect, InitRing, <1>1, <1>3, PTL DEF Spec

-----------------------------------------------------------------------------
(* The theorems                                                             *)

\* Power may be lost between two chunks, while one is programmed or while the
\* last one commits the bank: the scan at start-up finds the bank of the last
\* successful write or of the one that power, or a read error, interrupted,
\* and never one that is torn.
THEOREM RestartIsCurrent == ASSUME Sheltered PROVE Spec => []RestartFindsCurrent
<1>1. TypeOK /\ CopyInv /\ RingInv => RestartFindsCurrent
  <2>1. Phase \in CrashPhases => pc # "down"
    BY ShelterFacts DEF Phase
  <2>. QED
    BY <2>1, PowerLossRing DEF RestartFindsCurrent
<1>. QED
  BY RingHolds, <1>1, PTL

\* No two banks in the flash have the same number, also while a sector is
\* erased and written back.
THEOREM NumbersAreDistinct == ASSUME Sheltered PROVE Spec => []SequencesDistinct
<1>1. TypeOK /\ RingInv => SequencesDistinct
  <2>. SUFFICES ASSUME TypeOK, RingInv,
                       NEW a \in Written(flash), NEW b \in Written(flash),
                       flash[a].seq = flash[b].seq
                PROVE  a = b
    BY DEF SequencesDistinct
  <2>1. CASE pc = "down"
    BY <2>1, ChainDistinct DEF RingInv, TypeOK
  <2>2. CASE pc = "rewrite"
    <3>1. /\ ChainTo(sector, bank) /\ sector \in [Banks -> Bank]
          /\ flash = [x \in Banks |-> IF x \in SectorOf(NextBank(bank)) THEN ErasedBank ELSE sector[x]]
      BY <2>2 DEF RingInv, Saved, TypeOK
    <3>2. \A x \in Written(flash) : x \in Written(sector) /\ sector[x].seq = flash[x].seq
      BY <3>1 DEF Written, ErasedBank
    <3>. QED
      BY <3>1, <3>2, ChainDistinct
  <2>3. CASE pc \notin {"down", "rewrite"}
    BY <2>3, ChainDistinct DEF RingInv, TypeOK, Saved
  <2>. QED
    BY <2>1, <2>2, <2>3
<1>. QED
  BY RingHolds, <1>1, PTL

\* The partition is a durable register: every step of bnk_write but its first
\* and its successful end, the failed reads among them, leaves the register as
\* it is, and a restart chooses among the values its user may expect.
THEOREM BankedIsDurable == ASSUME Sheltered PROVE Spec => DurableRegister
<1>1. Init => Register!RegInit
  <2>1. AllErased[0].data = Blank
    BY BanksFacts DEF AllErased, ErasedBank
  <2>. QED
    BY <2>1 DEF Init, Register!RegInit
<1>2. TypeOK /\ CopyInv /\ RingInv /\ CopyInv' /\ [Next]_vars => [Register!RegNext]_Register!regVars
  <2>. DEFINE value == IF pc = "idle" THEN flash[bank].data ELSE committed
              up    == pc # "down"
  <2>. SUFFICES ASSUME TypeOK, CopyInv, RingInv, CopyInv', [Next]_vars
                PROVE  Register!RegNext \/ UNCHANGED Register!regVars
    OBVIOUS
  <2>1. value = committed /\ value' = committed'
    BY DEF CopyInv, Saved
  <2>2. /\ ~ EraseOld /\ ~ EraseBegin /\ ~ ErasePartition
        /\ ~ FailCompare /\ ~ FailWrite /\ ~ FailRewrite /\ ~ RewriteUnerased
    BY ShelterFacts
    DEF EraseOld, EraseBegin, ErasePartition, FailCompare, FailWrite, FailRewrite,
        RewriteUnerased, ErasesWork, RingInv
  <2>3. ASSUME up, up', UNCHANGED <<committed, candidates>> PROVE UNCHANGED Register!regVars
    BY <2>1, <2>3 DEF Register!regVars
  <2>4. ASSUME ReturnSuccess, pc \in {"chunk", "program", "rewrite"} PROVE Register!RegNext
    <3>1. attempt \in candidates /\ candidates \subseteq Contents
      BY <2>4 DEF RingInv
    <3>2. Register!Succeed(attempt)
      BY <2>1, <2>4, <3>1 DEF Register!Succeed, ReturnSuccess, Return
    <3>. QED
      BY <3>1, <3>2 DEF Register!RegNext
  <2>5. ASSUME ChunkDone, pc \in {"chunk", "program", "rewrite"}
        PROVE  Register!RegNext \/ UNCHANGED Register!regVars
    <3>1. CASE chunk < Chunks
      BY <2>3, <2>5, <3>1 DEF ChunkDone, history
    <3>2. CASE ~ (chunk < Chunks)
      BY <2>4, <2>5, <3>2, ShelterFacts DEF ChunkDone
    <3>. QED
      BY <3>1, <3>2
  <2>6. ASSUME NEW r \in Requests, WriteBegin(r) PROVE Register!RegNext
    <3>1. attempt' \in Contents
      BY <2>6, WriteBeginRing
    <3>2. Register!Begin(attempt')
      BY <2>1, <2>6 DEF WriteBegin, Register!Begin
    <3>. QED
      BY <3>1, <3>2 DEF Register!RegNext
  <2>7. CASE ReadModify
    <3>1. pc = "chunk" /\ (ChunkDone \/ (pc' # "down" /\ UNCHANGED <<committed, candidates>>))
      BY <2>7 DEF ReadModify, history
    <3>. QED
      BY <2>3, <2>5, <3>1
  <2>8. CASE Program \/ RewriteSector
    BY <2>5, <2>8 DEF Program, RewriteSector
  <2>9. CASE EraseSector
    BY <2>3, <2>9 DEF EraseSector, history
  <2>10. CASE FailRead
    BY <2>3, <2>10 DEF FailRead, ReturnFailure, Return
  <2>11. CASE PowerLoss
    BY <2>1, <2>11 DEF PowerLoss, Register!RegNext, Register!Crash
  <2>12. CASE Open
    <3>1. committed' \in candidates /\ candidates' = {committed'} /\ pc = "down" /\ pc' = "idle"
      BY <2>12 DEF Open, RingInv
    <3>. QED
      BY <2>1, <3>1 DEF Register!RegNext, Register!Restart
  <2>13. CASE UNCHANGED vars
    BY <2>13 DEF vars, driver, history, Register!regVars
  <2>. QED
    BY <2>2, <2>6, <2>7, <2>8, <2>9, <2>10, <2>11, <2>12, <2>13 DEF Next
<1>. QED
  BY RingHolds, <1>1, <1>2, PTL DEF Spec, DurableRegister, Register!RegSpec
=============================================================================
