----------------------------- MODULE BufferPool -----------------------------
(***************************************************************************)
(* A pool of equal blocks, src/Common/BUF_MemoryBuffers.c: the free blocks  *)
(* form a chain whose links are kept in the first word of each block.  That *)
(* word is the NEXT pointer of the block's list element while the block is  *)
(* in use (src/Common/FreeRTOS/10.4.3/OS_AL/OS_aclara.h), so a block just   *)
(* put back "links" to another free block.                                  *)
(*                                                                          *)
(* BUF_Get and BUF_Put run with interrupts disabled: each is one step.      *)
(***************************************************************************)
EXTENDS Integers

CONSTANT NumBlocks    \* BufferHandle->numBlks

ASSUME NumBlocksAssumption == NumBlocks \in Nat \ {0}

Null   == 0
Blocks == 1 .. NumBlocks
Pools  == [freeList : Blocks \union {Null},
           numFree  : 0 .. NumBlocks,
           link     : [Blocks -> Blocks \union {Null}]]

\* BUF_Create: every block links to the next one.
NewPool == [freeList |-> 1,
            numFree  |-> NumBlocks,
            link     |-> [b \in Blocks |-> IF b = NumBlocks THEN Null ELSE b + 1]]

\* BUF_Get takes the block at the front, if the count says there is one.
CanGet(pool)   == pool.numFree > 0
AfterGet(pool) == [pool EXCEPT !.freeList = pool.link[pool.freeList], !.numFree = @ - 1]

\* BUF_Put makes the block the front of the chain, unless the count is full.
Put(pool, b) ==
  IF pool.numFree < NumBlocks
  THEN [freeList |-> b, numFree |-> pool.numFree + 1,
        link |-> [pool.link EXCEPT ![b] = pool.freeList]]
  ELSE pool

\* The blocks met by following the chain for as long as the count says.
FreeBlocks(pool) ==
  LET chain[i \in 0 .. pool.numFree] ==
        IF i = 0 THEN pool.freeList
        ELSE IF chain[i - 1] = Null THEN Null ELSE pool.link[chain[i - 1]]
  IN {chain[i] : i \in 0 .. pool.numFree - 1}
=============================================================================
