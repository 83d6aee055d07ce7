--------------------------- MODULE MC_BankedStore ---------------------------
(***************************************************************************)
(* The loop of findCurrentBank, against the declarative CurrentBank of      *)
(* BankedStore, over every contents of the flash that writes, erases and    *)
(* device errors lead to: numbers with gaps, repeated ones, erased banks.   *)
(***************************************************************************)
EXTENDS BankedStore

\* What the loop of findCurrentBank starts with.
ScanStart == [bank |-> 0, seq |-> 1, valid |-> FALSE, next |-> 0, stop |-> FALSE]

Stopped(before) == [before EXCEPT !.stop = TRUE]

\* Its iteration for bank b.
ScanBank(f, b, before) ==
  LET seq == f[b].seq
  IN IF before.stop \/ seq = 0 THEN before
     ELSE IF before.valid /\ before.next # seq THEN Stopped(before)
     ELSE [bank |-> b, seq |-> seq, valid |-> TRUE, next |-> NextSequence(seq), stop |-> FALSE]

\* The loop, one element per iteration done.
FindCurrentBank(f) ==
  LET scan[i \in 0 .. NumBanks] ==
        IF i = 0 THEN ScanStart ELSE ScanBank(f, i - 1, scan[i - 1])
  IN scan[NumBanks]

\* The chain followed by CurrentBank is the loop of findCurrentBank, for the
\* bank and for the sequence number, whatever the flash holds.
ScanMatchesLoop ==
  /\ CurrentBank(flash) = FindCurrentBank(flash).bank
  /\ CurrentSequence(flash) = FindCurrentBank(flash).seq
=============================================================================
