------------------------- MODULE MacTransmit_proofs -------------------------
(***************************************************************************)
(* The MAC's transmit side for every number of packets, blocks, segments    *)
(* and retries: no block is lost or doubled, the queue keeps its order, the *)
(* tracking belongs to the packet at the head, and the MAC implements the   *)
(* data service.                                                            *)
(*                                                                          *)
(* The queue's part needs that no flush finds more than one packet; what    *)
(* is said of the tracking also needs that no packet is withdrawn while it  *)
(* is in progress.  README.md, section 3, says what TLC finds without them. *)
(***************************************************************************)
EXTENDS MacTransmit, ListFacts

-----------------------------------------------------------------------------
(* The chain of free blocks.                                                *)

\* c walks the chain of pool q and meets the blocks of F, each once.
Walks(c, q, F) ==
  /\ c \in [0 .. q.numFree -> Blocks \union {Null}]
  /\ c[0] = q.freeList
  /\ \A i \in 1 .. q.numFree : c[i] = q.link[c[i - 1]]
  /\ \A i \in 0 .. q.numFree - 1 : c[i] \in F
  /\ \A b \in F : \E i \in 0 .. q.numFree - 1 : c[i] = b
  /\ \A i, j \in 0 .. q.numFree - 1 : c[i] = c[j] => i = j

Holds(q, F) == q \in Pools /\ F \subseteq Blocks /\ \E c : Walks(c, q, F)

\* The record of a pool is made of its fields.
LEMMA PoolFields ==
  ASSUME NEW q \in Pools
  PROVE  /\ q = [freeList |-> q.freeList, numFree |-> q.numFree, link |-> q.link]
         /\ q.freeList \in Blocks \union {Null} /\ q.numFree \in 0 .. NumBlocks
         /\ q.link \in [Blocks -> Blocks \union {Null}]
         /\ NumBlocks \in Nat \ {0} /\ Null \notin Blocks /\ q.numFree \in Nat
BY NumBlocksAssumption DEF Pools, Blocks, Null

\* The function by which FreeBlocks follows the links exists, and meets what the walk meets.
LEMMA FreeBlocksAre ==
  ASSUME NEW q, NEW F, Holds(q, F)
  PROVE  FreeBlocks(q) = F
<1>. DEFINE n == q.numFree
            Chain(g) == g = [i \in 0 .. n |-> IF i = 0 THEN q.freeList
                                              ELSE IF g[i - 1] = Null THEN Null ELSE q.link[g[i - 1]]]
            chain == CHOOSE g : Chain(g)
<1>1. PICK c : Walks(c, q, F)
  BY DEF Holds
<1>2. n \in Nat /\ F \subseteq Blocks /\ Null \notin Blocks
  BY PoolFields DEF Holds
<1>. HIDE DEF n
<1>3. ASSUME NEW i \in 0 .. n
      PROVE  c[i] = IF i = 0 THEN q.freeList ELSE IF c[i - 1] = Null THEN Null ELSE q.link[c[i - 1]]
  <2>1. i # 0 => i - 1 \in 0 .. n - 1 /\ c[i - 1] \in Blocks /\ c[i] = q.link[c[i - 1]]
    BY <1>1, <1>2 DEF Walks, n
  <2>. QED
    BY <1>1, <1>2, <2>1 DEF Walks
<1>4. Chain(c)
  <2>1. c = [i \in 0 .. n |-> c[i]]
    BY <1>1 DEF Walks, n
  <2>. QED
    BY <1>3, <2>1
<1>5. Chain(chain)
  <2>. HIDE DEF Chain
  <2>. QED
    BY <1>4
<1>6. \A i \in 0 .. n : chain[i] = IF i = 0 THEN q.freeList
                                   ELSE IF chain[i - 1] = Null THEN Null ELSE q.link[chain[i - 1]]
  <2>. HIDE DEF chain
  <2>. QED
    BY <1>5
<1>. HIDE DEF chain
<1>7. 0 .. n \subseteq {i \in 0 .. n : chain[i] = c[i]}
  <2>. DEFINE P == {i \in 0 .. n : chain[i] = c[i]}
  <2>1. 0 \in P
    BY <1>2, <1>3, <1>6
  <2>2. ASSUME NEW i \in 1 .. n, i - 1 \in P PROVE i \in P
    <3>1. chain[i - 1] = c[i - 1] /\ i \in 0 .. n /\ i # 0
      BY <1>2, <2>2
    <3>. QED
      BY <1>3, <1>6, <3>1
  <2>. HIDE DEF P
  <2>3. 0 .. n \subseteq P
    BY <1>2, <2>1, <2>2, Climb
  <2>. QED
    BY <2>3 DEF P
<1>8. FreeBlocks(q) = {chain[i] : i \in 0 .. n - 1}
  BY DEF FreeBlocks, chain, n
<1>9. {chain[i] : i \in 0 .. n - 1} = {c[i] : i \in 0 .. n - 1}
  BY <1>2, <1>7
<1>10. \A i \in 0 .. n - 1 : c[i] \in F
  BY <1>1 DEF Walks, n
<1>11. \A b \in F : \E i \in 0 .. n - 1 : c[i] = b
  BY <1>1 DEF Walks, n
<1>12. {c[i] : i \in 0 .. n - 1} = F
  BY <1>10, <1>11
<1>. QED
  BY <1>8, <1>9, <1>12

\* BUF_Create chains all the blocks.
LEMMA NewPoolHolds == Holds(NewPool, Blocks)
<1>1. NumBlocks \in Nat \ {0}
  BY NumBlocksAssumption
<1>. DEFINE c == [i \in 0 .. NumBlocks |-> IF i = NumBlocks THEN Null ELSE i + 1]
<1>2. NewPool \in Pools
  BY <1>1 DEF NewPool, Pools, Blocks, Null
<1>3. NewPool.numFree = NumBlocks /\ NewPool.freeList = 1
      /\ NewPool.link = [b \in Blocks |-> IF b = NumBlocks THEN Null ELSE b + 1]
  BY DEF NewPool
<1>4. Walks(c, NewPool, Blocks)
  <2>1. c \in [0 .. NumBlocks -> Blocks \union {Null}] /\ c[0] = 1
    BY <1>1 DEF Blocks, Null
  <2>2. ASSUME NEW i \in 1 .. NumBlocks PROVE c[i] = NewPool.link[c[i - 1]]
    <3>1. i - 1 \in 0 .. NumBlocks /\ i - 1 # NumBlocks /\ c[i - 1] = i /\ i \in Blocks
      BY <1>1 DEF Blocks
    <3>. QED
      BY <1>1, <1>3, <3>1
  <2>3. \A i \in 0 .. NumBlocks - 1 : c[i] = i + 1 /\ c[i] \in Blocks
    BY <1>1 DEF Blocks
  <2>4. \A b \in Blocks : b - 1 \in 0 .. NumBlocks - 1 /\ c[b - 1] = b
    BY <1>1 DEF Blocks
  <2>. HIDE DEF c
  <2>5. \A b \in Blocks : \E i \in 0 .. NumBlocks - 1 : c[i] = b
    BY <2>4
  <2>6. ASSUME NEW i \in 0 .. NumBlocks - 1, NEW j \in 0 .. NumBlocks - 1, c[i] = c[j] PROVE i = j
    <3>1. i + 1 = j + 1
      BY <2>3, <2>6
    <3>. QED
      BY <1>1, <3>1
  <2>7. c \in [0 .. NewPool.numFree -> Blocks \union {Null}] /\ c[0] = NewPool.freeList
    BY <1>3, <2>1
  <2>. QED
    BY <1>3, <2>2, <2>3, <2>5, <2>6, <2>7 DEF Walks
<1>. QED
  BY <1>2, <1>4 DEF Holds

\* BUF_Get takes the front block and goes on with the rest of the chain.
LEMMA GetHolds ==
  ASSUME NEW q, NEW F, Holds(q, F), CanGet(q)
  PROVE  /\ q.freeList \in F /\ AfterGet(q).numFree = q.numFree - 1
         /\ Holds(AfterGet(q), F \ {q.freeList})
<1>1. PICK c : Walks(c, q, F)
  BY DEF Holds
<1>2. /\ q \in Pools /\ F \subseteq Blocks
      /\ q = [freeList |-> q.freeList, numFree |-> q.numFree, link |-> q.link]
      /\ q.numFree \in Nat \ {0} /\ q.numFree \in 0 .. NumBlocks /\ NumBlocks \in Nat
      /\ q.link \in [Blocks -> Blocks \union {Null}]
  BY PoolFields DEF Holds, CanGet
<1>. DEFINE r == AfterGet(q)
            d == [i \in 0 .. q.numFree - 1 |-> c[i + 1]]
<1>3. q.freeList = c[0] /\ q.freeList \in F
  BY <1>1, <1>2 DEF Walks
<1>4. r = [freeList |-> q.link[q.freeList], numFree |-> q.numFree - 1, link |-> q.link]
  <2>1. r = [[q EXCEPT !.freeList = q.link[q.freeList]] EXCEPT !.numFree = q.numFree - 1]
    BY DEF AfterGet
  <2>2. ASSUME NEW u, u = [q EXCEPT !.freeList = q.link[q.freeList]]
        PROVE  u = [freeList |-> q.link[q.freeList], numFree |-> q.numFree, link |-> q.link]
    BY <1>2, <2>2
  <2>3. [q EXCEPT !.freeList = q.link[q.freeList]]
          = [freeList |-> q.link[q.freeList], numFree |-> q.numFree, link |-> q.link]
    BY <2>2
  <2>4. ASSUME NEW u, u = [freeList |-> q.link[q.freeList], numFree |-> q.numFree, link |-> q.link]
        PROVE  [u EXCEPT !.numFree = q.numFree - 1]
                 = [freeList |-> q.link[q.freeList], numFree |-> q.numFree - 1, link |-> q.link]
    BY <2>4
  <2>. HIDE DEF r
  <2>. QED
    BY <2>1, <2>3, <2>4
<1>. HIDE DEF r
<1>5. r \in Pools
  BY <1>2, <1>3, <1>4 DEF Pools
<1>6. r.numFree = q.numFree - 1 /\ r.freeList = q.link[q.freeList] /\ r.link = q.link
  BY <1>4
<1>7. Walks(d, r, F \ {q.freeList})
  <2>1. d \in [0 .. r.numFree -> Blocks \union {Null}]
    BY <1>1, <1>2, <1>6 DEF Walks
  <2>2. d[0] = r.freeList
    <3>1. d[0] = c[1]
      BY <1>2
    <3>2. c[1] = q.link[c[1 - 1]]
      <4>1. 1 \in 1 .. q.numFree
        BY <1>2
      <4>. QED
        BY <1>1, <4>1 DEF Walks
    <3>. QED
      BY <1>3, <1>6, <3>1, <3>2
  <2>3. ASSUME NEW i \in 1 .. r.numFree PROVE d[i] = r.link[d[i - 1]]
    <3>1. i + 1 \in 1 .. q.numFree /\ (i + 1) - 1 = i /\ d[i] = c[i + 1] /\ d[i - 1] = c[i]
      BY <1>2, <1>6
    <3>2. c[i + 1] = q.link[c[(i + 1) - 1]]
      BY <1>1, <3>1 DEF Walks
    <3>. QED
      BY <1>6, <3>1, <3>2
  <2>4. \A i \in 0 .. r.numFree - 1 : d[i] = c[i + 1] /\ i + 1 \in 0 .. q.numFree - 1 /\ i + 1 # 0
    BY <1>2, <1>6
  <2>5. 0 \in 0 .. q.numFree - 1
    BY <1>2
  <2>6. \A i \in 0 .. r.numFree - 1 : d[i] \in F \ {q.freeList}
    BY <1>1, <1>3, <2>4, <2>5 DEF Walks
  <2>7. ASSUME NEW b \in F \ {q.freeList} PROVE \E i \in 0 .. r.numFree - 1 : d[i] = b
    <3>1. PICK j \in 0 .. q.numFree - 1 : c[j] = b
      BY <1>1 DEF Walks
    <3>2. j # 0
      BY <1>3, <3>1
    <3>3. j - 1 \in 0 .. r.numFree - 1 /\ (j - 1) + 1 = j
      BY <1>2, <1>6, <3>2
    <3>4. d[j - 1] = c[j]
      BY <2>4, <3>3
    <3>. QED
      BY <3>1, <3>3, <3>4
  <2>8. ASSUME NEW i \in 0 .. r.numFree - 1, NEW j \in 0 .. r.numFree - 1, d[i] = d[j] PROVE i = j
    <3>1. i + 1 = j + 1
      <4>1. /\ i + 1 \in 0 .. q.numFree - 1 /\ j + 1 \in 0 .. q.numFree - 1
            /\ c[i + 1] = c[j + 1]
        BY <2>4, <2>8
      <4>2. \A k, m \in 0 .. q.numFree - 1 : c[k] = c[m] => k = m
        BY <1>1 DEF Walks
      <4>. QED
        BY <4>1, <4>2
    <3>. QED
      BY <3>1
  <2>. HIDE DEF d
  <2>. QED
    BY <2>1, <2>2, <2>3, <2>6, <2>7, <2>8 DEF Walks
<1>8. Holds(r, F \ {q.freeList})
  <2>. HIDE DEF d
  <2>. QED
    BY <1>2, <1>5, <1>7 DEF Holds
<1>. QED
  BY <1>3, <1>6, <1>8 DEF r

\* BUF_Put makes the block the front, and what its first word links to no longer matters.
LEMMA PutHolds ==
  ASSUME NEW q, NEW F, Holds(q, F), NEW b \in Blocks \ F, q.numFree < NumBlocks
  PROVE  Put(q, b).numFree = q.numFree + 1 /\ Holds(Put(q, b), F \union {b})
<1>1. PICK c : Walks(c, q, F)
  BY DEF Holds
<1>2. /\ q \in Pools /\ F \subseteq Blocks
      /\ q.freeList \in Blocks \union {Null}
      /\ q.numFree \in Nat /\ q.numFree \in 0 .. NumBlocks /\ NumBlocks \in Nat
      /\ q.link \in [Blocks -> Blocks \union {Null}]
  BY PoolFields DEF Holds
<1>. DEFINE r == Put(q, b)
            d == [i \in 0 .. q.numFree + 1 |-> IF i = 0 THEN b ELSE c[i - 1]]
<1>3. r = [freeList |-> b, numFree |-> q.numFree + 1, link |-> [q.link EXCEPT ![b] = q.freeList]]
  BY DEF Put
<1>. HIDE DEF r
<1>4. r \in Pools
  BY <1>2, <1>3 DEF Pools
<1>5. /\ r.numFree = q.numFree + 1 /\ r.freeList = b
      /\ r.link[b] = q.freeList /\ \A x \in F : r.link[x] = q.link[x]
  BY <1>2, <1>3
<1>6. /\ d[0] = b /\ \A i \in 1 .. r.numFree : d[i] = c[i - 1] /\ i - 1 \in 0 .. q.numFree
      /\ \A i \in 1 .. r.numFree - 1 : i \in 1 .. r.numFree /\ i - 1 \in 0 .. q.numFree - 1
      /\ DOMAIN d = 0 .. r.numFree
  BY <1>2, <1>5
<1>7. Walks(d, r, F \union {b})
  <2>1. d \in [0 .. r.numFree -> Blocks \union {Null}]
    BY <1>1, <1>2, <1>5 DEF Walks
  <2>2. d[0] = r.freeList
    BY <1>5, <1>6
  <2>. HIDE DEF d
  <2>3. ASSUME NEW i \in 1 .. r.numFree PROVE d[i] = r.link[d[i - 1]]
    <3>1. CASE i = 1
      <4>1. d[1] = c[0] /\ d[1 - 1] = b
        BY <1>6, <3>1
      <4>. QED
        BY <1>1, <1>5, <3>1, <4>1 DEF Walks
    <3>2. CASE i # 1
      <4>1. i - 1 \in 1 .. r.numFree - 1 /\ i - 1 \in 1 .. q.numFree /\ (i - 1) - 1 \in 0 .. q.numFree - 1
        BY <1>2, <1>5, <3>2
      <4>2. d[i - 1] = c[(i - 1) - 1] /\ d[i] = c[i - 1]
        BY <1>6, <4>1
      <4>3. c[i - 1] = q.link[c[(i - 1) - 1]] /\ c[(i - 1) - 1] \in F
        BY <1>1, <4>1 DEF Walks
      <4>. QED
        BY <1>5, <4>2, <4>3
    <3>. QED
      BY <3>1, <3>2
  <2>4. ASSUME NEW i \in 0 .. r.numFree - 1 PROVE d[i] \in F \union {b}
    <3>1. CASE i = 0
      BY <1>6, <3>1
    <3>2. CASE i # 0
      <4>1. i \in 1 .. r.numFree - 1
        BY <3>2
      <4>. QED
        BY <1>1, <1>6, <4>1 DEF Walks
    <3>. QED
      BY <3>1, <3>2
  <2>5. ASSUME NEW x \in F \union {b} PROVE \E i \in 0 .. r.numFree - 1 : d[i] = x
    <3>1. CASE x = b
      <4>1. 0 \in 0 .. r.numFree - 1
        BY <1>2, <1>5
      <4>. QED
        BY <1>6, <3>1, <4>1
    <3>2. CASE x # b
      <4>1. PICK j \in 0 .. q.numFree - 1 : c[j] = x
        BY <1>1, <3>2 DEF Walks
      <4>2. j + 1 \in 0 .. r.numFree - 1 /\ j + 1 \in 1 .. r.numFree /\ (j + 1) - 1 = j
        BY <1>2, <1>5
      <4>. QED
        BY <1>6, <4>1, <4>2
    <3>. QED
      BY <3>1, <3>2
  <2>6. ASSUME NEW i \in 0 .. r.numFree - 1, NEW j \in 0 .. r.numFree - 1, d[i] = d[j] PROVE i = j
    <3>1. \A k \in 0 .. r.numFree - 1 : k # 0 => d[k] = c[k - 1] /\ k - 1 \in 0 .. q.numFree - 1
                                                 /\ d[k] \in F
      <4>1. \A k \in 0 .. r.numFree - 1 : k # 0 => k \in 1 .. r.numFree - 1
        OBVIOUS
      <4>. QED
        BY <1>1, <1>6, <4>1 DEF Walks
    <3>2. CASE i = 0 \/ j = 0
      BY <1>6, <2>6, <3>1, <3>2
    <3>3. CASE i # 0 /\ j # 0
      <4>1. i - 1 = j - 1
        BY <1>1, <2>6, <3>1, <3>3 DEF Walks
      <4>. QED
        BY <4>1
    <3>. QED
      BY <3>2, <3>3
  <2>. QED
    BY <2>1, <2>2, <2>3, <2>4, <2>5, <2>6 DEF Walks
<1>8. Holds(r, F \union {b})
  <2>. HIDE DEF d
  <2>. QED
    BY <1>2, <1>4, <1>7 DEF Holds
<1>. QED
  BY <1>5, <1>8 DEF r

-----------------------------------------------------------------------------
(* The queue, with its blocks, its packets and the pool.                    *)

\* What holds of the queue whatever is withdrawn from it, as long as a flush
\* finds at most one packet: in particular, only its head is ever in progress.
QueueSound ==
  /\ queue \in Seq(Blocks) /\ IsInjective(queue)
  /\ packet \in [Blocks -> Packets \union {NoPacket}] /\ inProgress \subseteq Blocks
  /\ outcome \in [Packets -> Outcomes]
  /\ Holds(pool, Blocks \ ToSet(queue)) /\ pool.numFree + Len(queue) = NumBlocks
  /\ \A i \in 2 .. Len(queue) : queue[i] \notin inProgress
  /\ \A i \in 1 .. Len(queue) : packet[queue[i]] \in Packets /\ outcome[packet[queue[i]]] = "accepted"
  /\ \A i, j \in 1 .. Len(queue) : packet[queue[i]] = packet[queue[j]] => i = j
  /\ QueueByPriority

\* What a list contains, as a set.
LEMMA ToSetContains ==
  ASSUME NEW S, NEW l \in Seq(S)
  PROVE  /\ \A x : x \in ToSet(l) <=> Contains(l, x)
         /\ ToSet(l) \subseteq S
         /\ \A i \in 1 .. Len(l) : l[i] \in S /\ l[i] \in ToSet(l)
<1>1. DOMAIN l = 1 .. Len(l) /\ Len(l) \in Nat /\ \A i \in 1 .. Len(l) : l[i] \in S
  OBVIOUS
<1>. QED
  BY <1>1 DEF ToSet, Contains

\* To take the head off is to remove the first place.
LEMMA TailIsRemove ==
  ASSUME NEW S, NEW l \in Seq(S), l # <<>>
  PROVE  Tail(l) = RemoveAt(l, 1)
<1>1. Len(l) \in Nat \ {0} /\ 1 \in 1 .. Len(l)
  OBVIOUS
<1>2. /\ RemoveAt(l, 1) \in Seq(S) /\ Len(RemoveAt(l, 1)) = Len(l) - 1
      /\ \A i \in 1 .. Len(l) - 1 : RemoveAt(l, 1)[i] = IF i < 1 THEN l[i] ELSE l[i + 1]
  BY <1>1, RemoveEntries
<1>3. Tail(l) \in Seq(S) /\ Len(Tail(l)) = Len(l) - 1 /\ \A i \in 1 .. Len(l) - 1 : Tail(l)[i] = l[i + 1]
  BY <1>1
<1>4. \A i \in 1 .. Len(l) - 1 : RemoveAt(l, 1)[i] = Tail(l)[i]
  BY <1>1, <1>2, <1>3
<1>. DEFINE u == RemoveAt(l, 1)
            v == Tail(l)
<1>. HIDE DEF u, v
<1>5. u \in Seq(S) /\ v \in Seq(S) /\ Len(u) = Len(v) /\ \A i \in 1 .. Len(u) : u[i] = v[i]
  BY <1>2, <1>3, <1>4 DEF u, v
<1>6. u = v
  BY <1>5, SeqEqual
<1>. QED
  BY <1>6 DEF u, v

\* To remove the only element leaves nothing.
LEMMA RemoveOnly ==
  ASSUME NEW S, NEW l \in Seq(S), Len(l) = 1
  PROVE  RemoveFirst(l, l[1]) = <<>>
<1>0. 1 .. Len(l) = {1} /\ 1 \in 1 .. Len(l)
  OBVIOUS
<1>1. \E i \in 1 .. Len(l) : l[i] = l[1]
  BY <1>0
<1>. DEFINE k == SelectInSeq(l, LAMBDA v : v = l[1])
            I == {i \in 1 .. Len(l) : l[i] = l[1]}
<1>2. k = IF I # {} THEN Min(I) ELSE 0
  BY DEF SelectInSeq
<1>3. I = {1}
  BY <1>0
<1>4. Min({1}) = 1
  BY DEF Min
<1>5. k = 1
  <2>. HIDE DEF I, k
  <2>. QED
    BY <1>2, <1>3, <1>4
<1>6. RemoveFirst(l, l[1]) = RemoveAt(l, k)
  BY <1>1 DEF RemoveFirst
<1>7. RemoveAt(l, 1) \in Seq(S) /\ Len(RemoveAt(l, 1)) = 0
  <2>1. \A at \in 1 .. Len(l) : RemoveAt(l, at) \in Seq(S) /\ Len(RemoveAt(l, at)) = Len(l) - 1
    BY RemoveEntries
  <2>. QED
    BY <1>0, <2>1
<1>8. RemoveAt(l, 1) = <<>>
  <2>. DEFINE u == RemoveAt(l, 1)
  <2>. HIDE DEF u
  <2>1. u \in Seq(S) /\ Len(u) = 0
    BY <1>7 DEF u
  <2>2. u = <<>>
    BY <2>1
  <2>. QED
    BY <2>2 DEF u
<1>. HIDE DEF k
<1>. QED
  BY <1>5, <1>6, <1>8

\* Where PrioritizeAndInsert puts a packet.
LEMMA PlaceFacts ==
  ASSUME QueueSound, NEW p \in Packets
  PROVE  /\ Place(p) \in 1 .. Len(queue) + 1
         /\ Place(p) \in 1 .. Len(queue) =>
              /\ Before(p, packet[queue[Place(p)]]) /\ queue[Place(p)] \notin inProgress
         /\ \A j \in 1 .. Place(p) - 1 :
              Before(p, packet[queue[j]]) => j = 1 /\ queue[1] \in inProgress
<1>. DEFINE passable == {i \in DOMAIN queue : /\ Before(p, packet[queue[i]])
                                              /\ i = 1 => queue[1] \notin inProgress}
            first == CHOOSE i \in passable : \A j \in passable : i <= j
<1>1. DOMAIN queue = 1 .. Len(queue) /\ Len(queue) \in Nat
  BY DEF QueueSound
<1>2. CASE passable = {}
  <2>1. Place(p) = Len(queue) + 1
    BY <1>2 DEF Place
  <2>. QED
    BY <1>1, <1>2, <2>1
<1>3. CASE passable # {}
  <2>1. Place(p) = first
    BY <1>3 DEF Place
  <2>2. passable \subseteq 1 .. Len(queue) /\ passable \in SUBSET Nat
    BY <1>1
  <2>3. first \in passable /\ \A j \in passable : first <= j
    <3>. HIDE DEF passable
    <3>. QED
      BY <1>3, <2>2, Least
  <2>. HIDE DEF first
  <2>4. first \in 1 .. Len(queue) /\ Before(p, packet[queue[first]]) /\ (first = 1 => queue[1] \notin inProgress)
    BY <1>1, <2>3
  <2>5. queue[first] \notin inProgress
    <3>1. first # 1 => first \in 2 .. Len(queue)
      BY <1>1, <2>4
    <3>. QED
      BY <2>4, <3>1 DEF QueueSound
  <2>6. ASSUME NEW j \in 1 .. first - 1, Before(p, packet[queue[j]])
        PROVE  j = 1 /\ queue[1] \in inProgress
    <3>1. j \in DOMAIN queue /\ ~ first <= j
      BY <1>1, <2>4
    <3>2. j \notin passable
      BY <2>3, <3>1
    <3>. QED
      BY <2>6, <3>1, <3>2
  <2>7. first \in 1 .. Len(queue) + 1
    BY <1>1, <2>4
  <2>. QED
    BY <2>1, <2>4, <2>5, <2>6, <2>7
<1>. QED
  BY <1>2, <1>3

-----------------------------------------------------------------------------
(* What each step does to the queue.                                        *)

\* The queue is empty and all blocks are free.
LEMMA InitQueueSound == Init => QueueSound
<1>. SUFFICES ASSUME Init PROVE QueueSound
  OBVIOUS
<1>1. /\ queue = <<>> /\ pool = NewPool /\ packet = [b \in Blocks |-> NoPacket] /\ inProgress = {}
      /\ outcome = [p \in Packets |-> "unasked"]
  BY DEF Init
<1>2. queue \in Seq(Blocks) /\ Len(queue) = 0 /\ DOMAIN queue = {} /\ IsInjective(queue)
  BY <1>1 DEF IsInjective
<1>3. Blocks \ ToSet(queue) = Blocks
  BY <1>2 DEF ToSet
<1>4. Holds(pool, Blocks \ ToSet(queue)) /\ pool.numFree + Len(queue) = NumBlocks
  <2>1. NewPool.numFree = NumBlocks /\ NumBlocks \in Nat
    BY NumBlocksAssumption DEF NewPool
  <2>2. pool.numFree + Len(queue) = NumBlocks
    BY <1>1, <1>2, <2>1
  <2>3. Holds(pool, Blocks)
    BY <1>1, NewPoolHolds
  <2>. QED
    BY <1>3, <2>2, <2>3
<1>5. outcome \in [Packets -> Outcomes]
  BY <1>1 DEF Outcomes
<1>. QED
  BY <1>1, <1>2, <1>4, <1>5 DEF QueueSound, QueueByPriority

\* A step that leaves the queue alone may only put its head in progress.
LEMMA QuietKeepsQueue ==
  ASSUME QueueSound, UNCHANGED <<queue, packet, pool, outcome>>,
         inProgress' = inProgress \/ (queue # <<>> /\ inProgress' = inProgress \union {queue[1]})
  PROVE  QueueSound'
<1>1. queue \in Seq(Blocks) /\ IsInjective(queue) /\ DOMAIN queue = 1 .. Len(queue) /\ Len(queue) \in Nat
  BY DEF QueueSound
<1>2. inProgress \subseteq inProgress' /\ inProgress' \subseteq Blocks
  BY <1>1 DEF QueueSound
<1>3. ASSUME NEW i \in 2 .. Len(queue) PROVE queue[i] \notin inProgress'
  <2>1. queue[i] \notin inProgress /\ i # 1 /\ i \in 1 .. Len(queue) /\ 1 \in 1 .. Len(queue)
    BY <1>1 DEF QueueSound
  <2>2. queue[i] # queue[1]
    BY <1>1, <2>1 DEF IsInjective
  <2>. QED
    BY <2>1, <2>2
<1>4. QueueByPriority'
  <2>1. \A i, j \in DOMAIN queue : i < j /\ queue[i] \notin inProgress' => ~ Before(packet[queue[j]], packet[queue[i]])
    BY <1>2 DEF QueueSound, QueueByPriority
  <2>. QED
    BY <2>1 DEF QueueByPriority, Before
<1>. QED
  BY <1>1, <1>2, <1>3, <1>4 DEF QueueSound

\* A packet leaves the queue and its block goes back to the pool.
LEMMA DropKeepsQueue ==
  ASSUME QueueSound, NEW k \in 1 .. Len(queue),
         queue' = RemoveAt(queue, k), pool' = Put(pool, queue[k]), UNCHANGED <<packet, inProgress>>,
         outcome' \in [Packets -> Outcomes],
         \A p \in Packets : p # packet[queue[k]] => outcome'[p] = outcome[p]
  PROVE  QueueSound'
<1>1. queue \in Seq(Blocks) /\ IsInjective(queue) /\ DOMAIN queue = 1 .. Len(queue) /\ Len(queue) \in Nat
  BY DEF QueueSound
<1>2. /\ queue' \in Seq(Blocks) /\ IsInjective(queue') /\ Len(queue') = Len(queue) - 1
      /\ \A x : Contains(queue', x) <=> Contains(queue, x) /\ x # queue[k]
      /\ \A i \in 1 .. Len(queue) - 1 : queue'[i] = IF i < k THEN queue[i] ELSE queue[i + 1]
  <2>1. /\ RemoveAt(queue, k) \in Seq(Blocks) /\ Len(RemoveAt(queue, k)) = Len(queue) - 1
        /\ \A i \in 1 .. Len(queue) - 1 :
             RemoveAt(queue, k)[i] = IF i < k THEN queue[i] ELSE queue[i + 1]
    BY <1>1, RemoveEntries
  <2>2. /\ IsInjective(RemoveAt(queue, k))
        /\ \A x : Contains(RemoveAt(queue, k), x) <=> Contains(queue, x) /\ x # queue[k]
    BY <1>1, RemoveFacts
  <2>. QED
    BY <2>1, <2>2
<1>3. DOMAIN queue' = 1 .. Len(queue') /\ Len(queue') \in Nat
  BY <1>2
\* Every place in the new queue is one in the old queue, in the same order.
<1>. DEFINE Was(i) == IF i < k THEN i ELSE i + 1
<1>4. ASSUME NEW i \in 1 .. Len(queue')
      PROVE  /\ Was(i) \in 1 .. Len(queue) /\ Was(i) # k /\ queue'[i] = queue[Was(i)]
             /\ i \in 2 .. Len(queue') => Was(i) \in 2 .. Len(queue)
  BY <1>1, <1>2
<1>5. ASSUME NEW i \in 1 .. Len(queue'), NEW j \in 1 .. Len(queue')
      PROVE  (i < j => Was(i) < Was(j)) /\ (Was(i) = Was(j) => i = j)
  BY <1>1, <1>2
<1>. HIDE DEF Was
<1>6. Holds(pool', Blocks \ ToSet(queue')) /\ pool'.numFree + Len(queue') = NumBlocks
  <2>1. /\ queue[k] \in Blocks /\ queue[k] \in ToSet(queue)
        /\ \A x : x \in ToSet(queue) <=> Contains(queue, x)
    BY <1>1, ToSetContains
  <2>2. \A x : x \in ToSet(queue') <=> Contains(queue', x)
    BY <1>2, ToSetContains
  <2>3. Blocks \ ToSet(queue') = (Blocks \ ToSet(queue)) \union {queue[k]}
    BY <1>2, <2>1, <2>2
  <2>4. queue[k] \in Blocks \ (Blocks \ ToSet(queue))
    BY <2>1
  <2>5. /\ Holds(pool, Blocks \ ToSet(queue)) /\ pool.numFree + Len(queue) = NumBlocks
        /\ pool.numFree \in Nat /\ NumBlocks \in Nat
    BY PoolFields DEF QueueSound, Holds
  <2>6. pool.numFree < NumBlocks
    BY <1>1, <2>5
  <2>. DEFINE F == Blocks \ ToSet(queue)
  <2>. HIDE DEF F
  <2>7. Holds(pool, F) /\ queue[k] \in Blocks \ F
    BY <2>4, <2>5 DEF F
  <2>8. Put(pool, queue[k]).numFree = pool.numFree + 1 /\ Holds(Put(pool, queue[k]), F \union {queue[k]})
    BY <2>6, <2>7, PutHolds
  <2>9. pool'.numFree = pool.numFree + 1 /\ Holds(pool', F \union {queue[k]})
    BY <2>8
  <2>10. Holds(pool', Blocks \ ToSet(queue'))
    BY <2>3, <2>9 DEF F
  <2>11. pool'.numFree + Len(queue') = NumBlocks
    BY <1>1, <1>2, <2>5, <2>9
  <2>. QED
    BY <2>10, <2>11
<1>7. \A i, j \in 1 .. Len(queue') : packet[queue'[i]] = packet[queue'[j]] => i = j
  BY <1>4, <1>5 DEF QueueSound
<1>8. ASSUME NEW i \in 1 .. Len(queue')
      PROVE  packet[queue'[i]] \in Packets /\ outcome'[packet[queue'[i]]] = "accepted"
  <2>1. packet[queue'[i]] \in Packets /\ packet[queue'[i]] # packet[queue[k]]
        /\ outcome[packet[queue'[i]]] = "accepted"
    BY <1>4 DEF QueueSound
  <2>. QED
    BY <2>1
<1>9. \A i \in 2 .. Len(queue') : queue'[i] \notin inProgress
  <2>1. \A i \in 2 .. Len(queue') : i \in 1 .. Len(queue')
    BY <1>3
  <2>. QED
    BY <1>4, <2>1 DEF QueueSound
<1>10. QueueByPriority'
  <2>1. ASSUME NEW i \in 1 .. Len(queue'), NEW j \in 1 .. Len(queue'), i < j, queue'[i] \notin inProgress
        PROVE  ~ Before(packet[queue'[j]], packet[queue'[i]])
    <3>1. Was(i) \in DOMAIN queue /\ Was(j) \in DOMAIN queue /\ Was(i) < Was(j)
          /\ queue'[i] = queue[Was(i)] /\ queue'[j] = queue[Was(j)]
      BY <1>1, <1>4, <1>5, <2>1
    <3>. QED
      BY <2>1, <3>1 DEF QueueSound, QueueByPriority
  <2>2. \A i, j \in DOMAIN queue' : i < j /\ queue'[i] \notin inProgress => ~ Before(packet[queue'[j]], packet[queue'[i]])
    BY <1>3, <2>1
  <2>. QED
    BY <2>2 DEF QueueByPriority, Before
<1>. QED
  BY <1>2, <1>6, <1>7, <1>8, <1>9, <1>10 DEF QueueSound

\* The packets behind that place are all of lower priority.
LEMMA BehindPlace ==
  ASSUME QueueSound, NEW p \in Packets, NEW j \in 1 .. Len(queue), Place(p) <= j
  PROVE  Priority[p] > Priority[packet[queue[j]]]
<1>. DEFINE at == Place(p)
<1>1. DOMAIN queue = 1 .. Len(queue) /\ Len(queue) \in Nat /\ Priority \in [Packets -> 0 .. 7]
  BY PacketsAssumption DEF QueueSound
<1>2. at \in 1 .. Len(queue) + 1
      /\ (at \in 1 .. Len(queue) => Before(p, packet[queue[at]]) /\ queue[at] \notin inProgress)
  BY PlaceFacts
<1>. HIDE DEF at
<1>3. at \in 1 .. Len(queue) /\ Before(p, packet[queue[at]]) /\ queue[at] \notin inProgress
  BY <1>1, <1>2 DEF at
<1>4. at < j => ~ Before(packet[queue[j]], packet[queue[at]])
  BY <1>1, <1>3 DEF QueueSound, QueueByPriority
<1>5. packet[queue[at]] \in Packets /\ packet[queue[j]] \in Packets
  BY <1>3 DEF QueueSound
<1>6. Priority[p] \in 0 .. 7 /\ Priority[packet[queue[at]]] \in 0 .. 7 /\ Priority[packet[queue[j]]] \in 0 .. 7
  BY <1>1, <1>5
<1>7. at = j \/ at < j
  BY <1>1, <1>3 DEF at
<1>8. Priority[p] > Priority[packet[queue[at]]]
      /\ (at < j => ~ Priority[packet[queue[j]]] > Priority[packet[queue[at]]])
  BY <1>3, <1>4 DEF Before
<1>. QED
  BY <1>6, <1>7, <1>8

\* An accepted request takes a free block, and the queue is otherwise as it was.
LEMMA Entered ==
  ASSUME QueueSound, NEW p \in Packets, DataReq(p), CanGet(pool)
  PROVE  LET b  == pool.freeList
             at == Place(p)
         IN /\ at \in 1 .. Len(queue) + 1 /\ b \in Blocks
            /\ \A i \in 1 .. Len(queue) : queue[i] # b
            /\ queue' \in Seq(Blocks) /\ IsInjective(queue') /\ Len(queue') = Len(queue) + 1
            /\ \A i \in 1 .. Len(queue) + 1 :
                 queue'[i] = IF i < at THEN queue[i] ELSE IF i = at THEN b ELSE queue[i - 1]
            /\ packet' = [packet EXCEPT ![b] = p] /\ inProgress' = inProgress \ {b}
            /\ outcome' = [outcome EXCEPT ![p] = "accepted"]
            /\ Holds(pool', Blocks \ ToSet(queue')) /\ pool'.numFree + Len(queue') = NumBlocks
<1>. DEFINE b  == pool.freeList
            at == Place(p)
            F  == Blocks \ ToSet(queue)
<1>1. /\ queue \in Seq(Blocks) /\ IsInjective(queue) /\ DOMAIN queue = 1 .. Len(queue) /\ Len(queue) \in Nat
      /\ pool.numFree + Len(queue) = NumBlocks
  BY DEF QueueSound
<1>2. /\ pool' = AfterGet(pool) /\ packet' = [packet EXCEPT ![b] = p] /\ inProgress' = inProgress \ {b}
      /\ queue' = InsertAt(queue, at, b) /\ outcome' = [outcome EXCEPT ![p] = "accepted"]
  BY DEF DataReq
<1>3. at \in 1 .. Len(queue) + 1
  BY PlaceFacts
<1>4. b \in F /\ AfterGet(pool).numFree = pool.numFree - 1 /\ Holds(AfterGet(pool), F \ {b})
  <2>. HIDE DEF F
  <2>1. Holds(pool, F)
    BY DEF QueueSound, F
  <2>. QED
    BY <2>1, GetHolds
<1>5. \A x : x \in ToSet(queue) <=> Contains(queue, x)
  BY <1>1, ToSetContains
<1>6. b \in Blocks /\ ~ Contains(queue, b) /\ \A i \in 1 .. Len(queue) : queue[i] # b
  BY <1>1, <1>4, <1>5 DEF Contains
<1>. HIDE DEF b, at
<1>7. /\ InsertAt(queue, at, b) \in Seq(Blocks) /\ Len(InsertAt(queue, at, b)) = Len(queue) + 1
      /\ \A i \in 1 .. Len(queue) + 1 :
           InsertAt(queue, at, b)[i] = IF i < at THEN queue[i] ELSE IF i = at THEN b ELSE queue[i - 1]
  BY <1>1, <1>3, <1>6, InsertEntries
<1>8. /\ IsInjective(InsertAt(queue, at, b))
      /\ \A x : Contains(InsertAt(queue, at, b), x) <=> Contains(queue, x) \/ x = b
  BY <1>1, <1>3, <1>6, InsertFacts
<1>9. \A x : x \in ToSet(queue') <=> Contains(queue', x)
  BY <1>2, <1>7, ToSetContains
<1>10. Blocks \ ToSet(queue') = F \ {b}
  BY <1>2, <1>5, <1>8, <1>9
<1>11. pool'.numFree + Len(queue') = NumBlocks
  <2>1. pool.numFree \in Nat /\ NumBlocks \in Nat
    BY PoolFields DEF QueueSound, Holds
  <2>. QED
    BY <1>1, <1>2, <1>4, <1>7, <2>1
<1>12. Holds(pool', Blocks \ ToSet(queue'))
  <2>. HIDE DEF F
  <2>1. Holds(pool', F \ {b})
    BY <1>2, <1>4
  <2>. QED
    BY <1>10, <2>1
<1>. QED
  BY <1>2, <1>3, <1>6, <1>7, <1>8, <1>11, <1>12 DEF b, at

\* A data request leaves the queue sound.
LEMMA DataReqKeepsQueue ==
  ASSUME QueueSound, NEW p \in Packets, DataReq(p)
  PROVE  QueueSound'
<1>1. /\ queue \in Seq(Blocks) /\ IsInjective(queue) /\ DOMAIN queue = 1 .. Len(queue) /\ Len(queue) \in Nat
      /\ packet \in [Blocks -> Packets \union {NoPacket}] /\ inProgress \subseteq Blocks
      /\ outcome \in [Packets -> Outcomes] /\ outcome[p] = "unasked"
      /\ \A i \in 1 .. Len(queue) : packet[queue[i]] \in Packets /\ outcome[packet[queue[i]]] = "accepted"
  BY DEF QueueSound, DataReq
<1>2. CASE ~ CanGet(pool)
  <2>1. outcome' = [outcome EXCEPT ![p] = "refused"] /\ UNCHANGED <<pool, packet, inProgress, queue>>
    BY <1>2 DEF DataReq
  <2>2. outcome' \in [Packets -> Outcomes]
    BY <1>1, <2>1 DEF Outcomes
  <2>3. \A i \in 1 .. Len(queue) : packet[queue[i]] \in Packets /\ outcome'[packet[queue[i]]] = "accepted"
    BY <1>1, <2>1
  <2>4. QueueByPriority'
    BY <2>1 DEF QueueSound, QueueByPriority, Before
  <2>. QED
    BY <1>1, <2>1, <2>2, <2>3, <2>4 DEF QueueSound
<1>3. CASE CanGet(pool)
  <2>. DEFINE b  == pool.freeList
              at == Place(p)
              Was(i) == IF i < at THEN i ELSE i - 1
  <2>1. /\ at \in 1 .. Len(queue) + 1 /\ b \in Blocks
        /\ \A i \in 1 .. Len(queue) : queue[i] # b
        /\ queue' \in Seq(Blocks) /\ IsInjective(queue') /\ Len(queue') = Len(queue) + 1
        /\ \A i \in 1 .. Len(queue) + 1 :
             queue'[i] = IF i < at THEN queue[i] ELSE IF i = at THEN b ELSE queue[i - 1]
        /\ packet' = [packet EXCEPT ![b] = p] /\ inProgress' = inProgress \ {b}
        /\ outcome' = [outcome EXCEPT ![p] = "accepted"]
        /\ Holds(pool', Blocks \ ToSet(queue')) /\ pool'.numFree + Len(queue') = NumBlocks
    BY <1>3, Entered
  <2>2. /\ at \in 1 .. Len(queue) => Before(p, packet[queue[at]]) /\ queue[at] \notin inProgress
        /\ \A j \in 1 .. at - 1 : Before(p, packet[queue[j]]) => j = 1 /\ queue[1] \in inProgress
    BY PlaceFacts
  <2>. HIDE DEF b, at
  <2>3. DOMAIN queue' = 1 .. Len(queue') /\ Len(queue') \in Nat
    BY <1>1, <2>1
  <2>4. ASSUME NEW i \in 1 .. Len(queue'), i # at
        PROVE  /\ Was(i) \in 1 .. Len(queue) /\ queue'[i] = queue[Was(i)] /\ queue'[i] \in Blocks
               /\ packet'[queue'[i]] = packet[queue[Was(i)]] /\ queue'[i] # b
               /\ i \in 2 .. Len(queue') => Was(i) \in 2 .. Len(queue) \/ (Was(i) = 1 /\ at = 1)
    <3>1. Was(i) \in 1 .. Len(queue) /\ queue'[i] = queue[Was(i)]
          /\ (i \in 2 .. Len(queue') => Was(i) \in 2 .. Len(queue) \/ (Was(i) = 1 /\ at = 1))
      BY <1>1, <2>1, <2>4
    <3>2. queue[Was(i)] \in Blocks /\ queue[Was(i)] # b
      BY <1>1, <2>1, <3>1
    <3>. QED
      BY <1>1, <2>1, <3>1, <3>2
  <2>5. ASSUME NEW i \in 1 .. Len(queue'), NEW j \in 1 .. Len(queue'), i # at, j # at
        PROVE  (i < j => Was(i) < Was(j)) /\ (Was(i) = Was(j) => i = j)
    BY <1>1, <2>1, <2>5
  <2>6. at \in 1 .. Len(queue') /\ queue'[at] = b /\ packet'[b] = p
    BY <1>1, <2>1
  <2>. HIDE DEF Was
  <2>7. \A i \in 2 .. Len(queue') : queue'[i] \notin inProgress'
    <3>1. ASSUME NEW i \in 2 .. Len(queue'), i # at PROVE queue'[i] \notin inProgress
      <4>1. i \in 1 .. Len(queue')
        BY <2>3
      <4>2. CASE Was(i) \in 2 .. Len(queue)
        BY <2>4, <3>1, <4>1, <4>2 DEF QueueSound
      <4>3. CASE Was(i) = 1 /\ at = 1
        BY <2>2, <2>4, <3>1, <4>1, <4>3
      <4>. QED
        BY <2>4, <3>1, <4>1, <4>2, <4>3
    <3>. QED
      BY <2>1, <2>6, <3>1
  <2>8. \A i \in 1 .. Len(queue') :
          packet'[queue'[i]] \in Packets /\ outcome'[packet'[queue'[i]]] = "accepted"
    <3>1. ASSUME NEW i \in 1 .. Len(queue'), i # at
          PROVE  packet'[queue'[i]] \in Packets /\ outcome[packet'[queue'[i]]] = "accepted"
      BY <1>1, <2>4, <3>1
    <3>. QED
      BY <1>1, <2>1, <2>6, <3>1
  <2>9. \A i, j \in 1 .. Len(queue') : packet'[queue'[i]] = packet'[queue'[j]] => i = j
    <3>1. ASSUME NEW i \in 1 .. Len(queue'), i # at PROVE packet'[queue'[i]] # p
      BY <1>1, <2>4, <3>1
    <3>2. ASSUME NEW i \in 1 .. Len(queue'), NEW j \in 1 .. Len(queue'), i # at, j # at,
                 packet'[queue'[i]] = packet'[queue'[j]]
          PROVE  i = j
      <4>1. Was(i) = Was(j)
        BY <2>4, <3>2 DEF QueueSound
      <4>. QED
        BY <2>5, <3>2, <4>1
    <3>. QED
      BY <2>6, <3>1, <3>2
  <2>10. packet' \in [Blocks -> Packets \union {NoPacket}] /\ inProgress' \subseteq Blocks
         /\ outcome' \in [Packets -> Outcomes]
    BY <1>1, <2>1 DEF Outcomes
  <2>11. QueueByPriority'
    <3>. DEFINE rank(i) == Priority[packet'[queue'[i]]]
    <3>1. Priority \in [Packets -> 0 .. 7]
      BY PacketsAssumption
    <3>2. ASSUME NEW i \in 1 .. Len(queue'), NEW j \in 1 .. Len(queue'), i < j, queue'[i] \notin inProgress'
          PROVE  ~ Priority[packet'[queue'[j]]] > Priority[packet'[queue'[i]]]
      <4>1. CASE i # at /\ j # at
        <5>1. /\ Was(i) \in DOMAIN queue /\ Was(j) \in DOMAIN queue /\ Was(i) < Was(j)
              /\ queue[Was(i)] \notin inProgress
              /\ packet'[queue'[i]] = packet[queue[Was(i)]] /\ packet'[queue'[j]] = packet[queue[Was(j)]]
          BY <1>1, <2>1, <2>4, <2>5, <3>2, <4>1
        <5>. QED
          BY <5>1 DEF QueueSound, QueueByPriority, Before
      <4>2. CASE i = at
        <5>1. /\ j # at /\ Was(j) \in 1 .. Len(queue) /\ at \in 1 .. Len(queue) /\ at <= Was(j)
              /\ packet'[queue'[j]] = packet[queue[Was(j)]]
          BY <2>1, <2>4, <2>6, <3>2, <4>2 DEF Was
        <5>2. Priority[p] > Priority[packet[queue[Was(j)]]]
          BY <5>1, BehindPlace DEF at
        <5>3. Priority[p] \in 0 .. 7 /\ Priority[packet[queue[Was(j)]]] \in 0 .. 7
          BY <1>1, <3>1, <5>1
        <5>8. ~ Priority[packet[queue[Was(j)]]] > Priority[p]
          BY <5>2, <5>3
        <5>. QED
          BY <2>6, <4>2, <5>1, <5>8
      <4>3. CASE j = at
        <5>1. /\ i # at /\ Was(i) = i /\ i \in 1 .. at - 1 /\ queue'[i] = queue[i]
              /\ packet'[queue'[i]] = packet[queue[i]] /\ queue'[i] # b
          BY <1>1, <2>1, <2>4, <2>6, <3>2, <4>3 DEF Was
        <5>2. queue[i] \notin inProgress
          BY <2>1, <3>2, <5>1
        <5>3. ~ Before(p, packet[queue[i]])
          BY <2>2, <5>1, <5>2
        <5>. QED
          BY <2>6, <4>3, <5>1, <5>3 DEF Before
      <4>. QED
        BY <4>1, <4>2, <4>3
    <3>. QED
      BY <2>3, <3>2 DEF QueueByPriority, Before
  <2>. QED
    BY <2>1, <2>7, <2>8, <2>9, <2>10, <2>11 DEF QueueSound
<1>. QED
  BY <1>2, <1>3

\* A confirm leaves the queue sound, whatever it says.
LEMMA ConfirmKeepsQueue ==
  ASSUME QueueSound, NEW success \in BOOLEAN, PhyDataConfirm(success), UNCHANGED <<packet, inProgress>>
  PROVE  QueueSound'
<1>1. queue \in Seq(Blocks) /\ Len(queue) \in Nat /\ outcome \in [Packets -> Outcomes]
  BY DEF QueueSound
<1>2. CASE UNCHANGED <<queue, pool, outcome>>
  BY <1>2, QuietKeepsQueue
<1>3. CASE ~ UNCHANGED <<queue, pool, outcome>>
  <2>1. /\ queue # <<>> /\ pool' = Put(pool, queue[1]) /\ queue' = Tail(queue)
        /\ \E o \in {"success", "failed"} : outcome' = [outcome EXCEPT ![Head1] = o]
    BY <1>3 DEF PhyDataConfirm, Acknowledge
  <2>2. 1 \in 1 .. Len(queue) /\ queue' = RemoveAt(queue, 1)
    BY <1>1, <2>1, TailIsRemove
  <2>3. outcome' \in [Packets -> Outcomes]
        /\ \A p \in Packets : p # packet[queue[1]] => outcome'[p] = outcome[p]
    BY <1>1, <2>1 DEF Head1, Outcomes
  <2>. QED
    BY <2>1, <2>2, <2>3, DropKeepsQueue
<1>. QED
  BY <1>2, <1>3

\* A purge leaves the queue sound.
LEMMA PurgeKeepsQueue ==
  ASSUME QueueSound, NEW i \in DOMAIN queue, Purge(i)
  PROVE  QueueSound'
<1>1. queue \in Seq(Blocks) /\ Len(queue) \in Nat /\ outcome \in [Packets -> Outcomes] /\ i \in 1 .. Len(queue)
  BY DEF QueueSound
<1>2. /\ queue' = RemoveAt(queue, i) /\ pool' = Put(pool, queue[i]) /\ UNCHANGED <<packet, inProgress>>
      /\ outcome' = [outcome EXCEPT ![packet[queue[i]]] = "withdrawn"]
  BY DEF Purge
<1>3. outcome' \in [Packets -> Outcomes]
      /\ \A p \in Packets : p # packet[queue[i]] => outcome'[p] = outcome[p]
  BY <1>1, <1>2 DEF Outcomes
<1>. QED
  BY <1>1, <1>2, <1>3, DropKeepsQueue

\* Flushing a queue of one packet removes that packet: its block goes back, and
\* the walk ends before it reads the link.
LEMMA FlushFacts ==
  ASSUME QueueSound, FlushLimit <= 1, Flush
  PROVE  /\ Len(queue) = 1 /\ queue' = RemoveAt(queue, 1) /\ queue' = <<>>
         /\ pool' = Put(pool, queue[1])
         /\ outcome' = [outcome EXCEPT ![Head1] = "withdrawn"]
         /\ MayWithdraw(queue[1])
<1>1. queue \in Seq(Blocks) /\ Len(queue) \in Nat /\ outcome \in [Packets -> Outcomes] /\ FlushLimit \in Nat
  BY SwitchesAssumption DEF QueueSound
<1>2. queue # <<>> /\ Len(queue) <= FlushLimit /\ queue' = Flushed.queue /\ pool' = Flushed.pool
  BY DEF Flush
<1>3. Len(queue) = 1 /\ 0 .. Len(queue) = {0, 1} /\ queue[1] \in Blocks
  <2>1. Len(queue) # 0
    BY <1>1, <1>2
  <2>2. \A n, m \in Nat : n # 0 /\ n <= m /\ m <= 1 => n = 1
    OBVIOUS
  <2>3. Len(queue) = 1
    BY <1>1, <1>2, <2>1, <2>2
  <2>4. 1 \in 1 .. Len(queue) /\ 0 .. 1 = {0, 1}
    BY <2>3
  <2>5. queue[1] \in Blocks
    BY <1>1, <2>4
  <2>. QED
    BY <2>3, <2>4, <2>5
<1>4. queue[1] # Null
  BY <1>3, PoolFields DEF QueueSound, Holds
<1>. DEFINE first == [queue |-> queue, pool |-> pool, at |-> queue[1]]
            Next1(w) == IF w.at = Null THEN w
                        ELSE [queue |-> RemoveFirst(w.queue, w.at), pool |-> Put(w.pool, w.at),
                              at |-> Put(w.pool, w.at).link[w.at]]
            Walk(g) == g = [i \in 0 .. Len(queue) |-> IF i = 0 THEN first ELSE Next1(g[i - 1])]
            walk == CHOOSE g : Walk(g)
            c == [i \in 0 .. Len(queue) |-> IF i = 0 THEN first ELSE Next1(first)]
<1>5. Flushed = walk[Len(queue)]
  BY DEF Flushed
<1>6. Walk(c)
  <2>. HIDE DEF first, Next1
  <2>1. \A i \in 0 .. Len(queue) : i # 0 => i - 1 \in 0 .. Len(queue) /\ i - 1 = 0
    BY <1>3
  <2>2. c[0] = first
    BY <1>3
  <2>3. \A i \in 0 .. Len(queue) : i # 0 => c[i - 1] = first
    BY <2>1, <2>2
  <2>. QED
    BY <2>3
<1>7. Walk(walk)
  <2>. HIDE DEF Walk
  <2>. QED
    BY <1>6
<1>8. walk[1] = Next1(first)
  <2>. HIDE DEF first, Next1, walk
  <2>1. \A i \in 0 .. Len(queue) : walk[i] = IF i = 0 THEN first ELSE Next1(walk[i - 1])
    BY <1>7
  <2>2. walk[0] = first /\ walk[1] = Next1(walk[1 - 1])
    BY <1>3, <2>1
  <2>. QED
    BY <2>2
<1>9. Next1(first).queue = RemoveFirst(queue, queue[1]) /\ Next1(first).pool = Put(pool, queue[1])
  BY <1>4
<1>. HIDE DEF Next1, first, walk
<1>10. queue' = RemoveFirst(queue, queue[1]) /\ pool' = Put(pool, queue[1])
  BY <1>2, <1>3, <1>5, <1>8, <1>9
<1>11. queue' = <<>>
  BY <1>1, <1>3, <1>10, RemoveOnly
<1>12. RemoveAt(queue, 1) = <<>>
  BY <1>1, <1>2, <1>3, TailIsRemove
<1>13. ToSet(queue) = {queue[1]} /\ ToSet(queue') = {}
  BY <1>1, <1>3, <1>11 DEF ToSet
<1>14. {packet[x] : x \in ToSet(queue) \ ToSet(queue')} = {Head1}
  BY <1>13 DEF Head1
<1>15. outcome' = [p \in Packets |-> IF p \in {Head1} THEN "withdrawn" ELSE outcome[p]]
  <2>1. outcome' = [p \in Packets |-> IF p \in {packet[x] : x \in ToSet(queue) \ ToSet(queue')}
                                      THEN "withdrawn" ELSE outcome[p]]
    BY DEF Flush
  <2>. QED
    BY <1>14, <2>1
<1>16. outcome' = [outcome EXCEPT ![Head1] = "withdrawn"]
  BY <1>1, <1>15
<1>17. MayWithdraw(queue[1])
  BY <1>13 DEF Flush
<1>. QED
  BY <1>3, <1>10, <1>11, <1>12, <1>16, <1>17

\* A flush leaves the queue sound, if it never finds more than one packet.
LEMMA FlushKeepsQueue ==
  ASSUME QueueSound, FlushLimit <= 1, Flush
  PROVE  QueueSound'
<1>1. queue \in Seq(Blocks) /\ Len(queue) \in Nat /\ outcome \in [Packets -> Outcomes]
  BY DEF QueueSound
<1>2. /\ Len(queue) = 1 /\ queue' = RemoveAt(queue, 1) /\ pool' = Put(pool, queue[1])
      /\ outcome' = [outcome EXCEPT ![Head1] = "withdrawn"] /\ UNCHANGED <<packet, inProgress>>
  BY FlushFacts DEF Flush
<1>3. outcome' \in [Packets -> Outcomes]
      /\ \A p \in Packets : p # packet[queue[1]] => outcome'[p] = outcome[p]
  BY <1>1, <1>2 DEF Outcomes, Head1
<1>4. 1 \in 1 .. Len(queue)
  BY <1>2
<1>. QED
  BY <1>2, <1>3, <1>4, DropKeepsQueue

\* Every step leaves the queue sound.
LEMMA NextKeepsQueue ==
  ASSUME QueueSound, FlushLimit <= 1, [Next]_vars
  PROVE  QueueSound'
<1>1. CASE \E p \in Packets : DataReq(p)
  BY <1>1, DataReqKeepsQueue
<1>2. CASE GetNextTxMsg
  <2>1. /\ UNCHANGED <<queue, packet, pool, outcome>> /\ queue # <<>>
        /\ inProgress' = inProgress \/ inProgress' = inProgress \union {queue[1]}
    BY <1>2 DEF GetNextTxMsg, history
  <2>. QED
    BY <2>1, QuietKeepsQueue
<1>3. CASE StartFrame
  <2>1. UNCHANGED <<packet, inProgress>>
        /\ (UNCHANGED <<queue, pool, outcome>> \/ PhyDataConfirm(FALSE))
    BY <1>3 DEF StartFrame
  <2>. QED
    BY <2>1, QuietKeepsQueue, ConfirmKeepsQueue
<1>4. CASE Transmit \/ ConfirmBusy \/ CheckPHYTimeout \/ PauseTx
  BY <1>4, QuietKeepsQueue DEF Transmit, ConfirmBusy, CheckPHYTimeout, PauseTx, history
<1>5. CASE NoTransmit \/ Confirm \/ ConfirmTimeout \/ ConfirmLate
  <2>1. /\ UNCHANGED <<packet, inProgress>>
        /\ \/ \E success \in BOOLEAN : PhyDataConfirm(success)
           \/ UNCHANGED <<queue, pool, outcome>>
    BY <1>5 DEF NoTransmit, Confirm, ConfirmTimeout, ConfirmLate
  <2>. QED
    BY <2>1, ConfirmKeepsQueue, QuietKeepsQueue
<1>6. CASE Flush
  BY <1>6, FlushKeepsQueue
<1>7. CASE \E i \in DOMAIN queue : Purge(i)
  BY <1>7, PurgeKeepsQueue
<1>8. CASE UNCHANGED vars
  BY <1>8, QuietKeepsQueue DEF vars, history
<1>. QED
  BY <1>1, <1>2, <1>3, <1>4, <1>5, <1>6, <1>7, <1>8 DEF Next

\* While no flush finds more than one packet, the queue is sound in every state.
LEMMA AlwaysQueueSound ==
  ASSUME FlushLimit <= 1
  PROVE  Spec => []QueueSound
<1>1. Init => QueueSound
  BY InitQueueSound
<1>2. QueueSound /\ [Next]_vars => QueueSound'
  BY NextKeepsQueue
<1>. QED
  BY <1>1, <1>2, PTL DEF Spec

\* Every block is free or queued, once, whatever requests, answers, purges and
\* flushes of at most one packet there are: BUF_Get, BUF_Put and the links of
\* MAC_PacketManagement.c lose and double none.
THEOREM BlocksAreConserved ==
  ASSUME FlushLimit <= 1
  PROVE  Spec => []BlocksConserved
<1>1. QueueSound => BlocksConserved
  <2>1. SUFFICES ASSUME QueueSound PROVE BlocksConserved
    OBVIOUS
  <2>. DEFINE F == Blocks \ ToSet(queue)
  <2>. HIDE DEF F
  <2>2. Holds(pool, F)
    BY <2>1 DEF QueueSound, F
  <2>3. FreeBlocks(pool) = F
    BY <2>2, FreeBlocksAre
  <2>. QED
    BY <2>1, <2>3 DEF QueueSound, BlocksConserved, F
<1>. QED
  BY <1>1, AlwaysQueueSound, PTL

\* The packets wait in order of priority (PrioritizeAndInsert).
THEOREM QueueIsByPriority ==
  ASSUME FlushLimit <= 1
  PROVE  Spec => []QueueByPriority
<1>1. QueueSound => QueueByPriority
  BY DEF QueueSound
<1>. QED
  BY <1>1, AlwaysQueueSound, PTL
\* What is in the queue keeps its order from step to step.
LEMMA NoneOvertakes ==
  ASSUME QueueSound, FlushLimit <= 1, Next
  PROVE  /\ queue # <<>> /\ queue[1] \in inProgress /\ queue' # <<>>
              => queue'[1] = queue[1] \/ outcome'[Head1] # "accepted"
         /\ \A p, q \in Packets :
              LET at(s, r) == {i \in DOMAIN s : packet'[s[i]] = r} IN
              outcome[p] = "accepted" /\ outcome'[p] = "accepted"
                /\ outcome[q] = "unasked" /\ outcome'[q] = "accepted" /\ Priority[p] = Priority[q]
                => \A i \in at(queue', p), j \in at(queue', q) : i < j
<1>1. /\ queue \in Seq(Blocks) /\ Len(queue) \in Nat /\ outcome \in [Packets -> Outcomes]
      /\ \A i \in 1 .. Len(queue) : packet[queue[i]] \in Packets /\ outcome[packet[queue[i]]] = "accepted"
      /\ queue # <<>> => 1 \in 1 .. Len(queue) /\ Head1 \in Packets
      /\ DOMAIN queue = 1 .. Len(queue)
  BY DEF QueueSound, Head1
<1>2. ASSUME NEW q \in Packets, DataReq(q), CanGet(pool)
      PROVE  /\ queue # <<>> /\ queue[1] \in inProgress => queue'[1] = queue[1]
             /\ \A p \in Packets : outcome[p] = "unasked" /\ outcome'[p] = "accepted" => p = q
             /\ \A p \in Packets : p # q /\ Priority[p] = Priority[q] =>
                  \A i, j \in DOMAIN queue' : packet'[queue'[i]] = p /\ packet'[queue'[j]] = q => i < j
  <2>. DEFINE b  == pool.freeList
              at == Place(q)
  <2>1. /\ at \in 1 .. Len(queue) + 1 /\ b \in Blocks
        /\ \A i \in 1 .. Len(queue) : queue[i] # b
        /\ queue' \in Seq(Blocks) /\ Len(queue') = Len(queue) + 1
        /\ \A i \in 1 .. Len(queue) + 1 :
             queue'[i] = IF i < at THEN queue[i] ELSE IF i = at THEN b ELSE queue[i - 1]
        /\ packet' = [packet EXCEPT ![b] = q] /\ outcome' = [outcome EXCEPT ![q] = "accepted"]
    BY <1>2, Entered
  <2>2. at \in 1 .. Len(queue) => queue[at] \notin inProgress
    BY PlaceFacts
  <2>3. \A j \in 1 .. Len(queue) : at <= j => Priority[q] > Priority[packet[queue[j]]]
    BY BehindPlace
  <2>. HIDE DEF at, b
  <2>4. DOMAIN queue' = 1 .. Len(queue) + 1
    BY <1>1, <2>1
  <2>5. packet \in [Blocks -> Packets \union {NoPacket}] /\ outcome[q] = "unasked"
    BY <1>2 DEF QueueSound, DataReq
  <2>6. ASSUME NEW i \in 1 .. Len(queue) + 1, i # at
        PROVE  LET w == IF i < at THEN i ELSE i - 1
               IN w \in 1 .. Len(queue) /\ packet'[queue'[i]] = packet[queue[w]] /\ packet'[queue'[i]] # q
    <3>. DEFINE w == IF i < at THEN i ELSE i - 1
    <3>1. w \in 1 .. Len(queue) /\ queue'[i] = queue[w]
      BY <1>1, <2>1, <2>6
    <3>. HIDE DEF w
    <3>2. queue[w] \in Blocks /\ queue[w] # b /\ packet[queue[w]] # q
      BY <1>1, <2>1, <2>5, <3>1
    <3>3. w \in 1 .. Len(queue) /\ packet'[queue'[i]] = packet[queue[w]] /\ packet'[queue'[i]] # q
      BY <2>1, <2>5, <3>1, <3>2
    <3>. QED
      BY <3>3 DEF w
  <2>7. queue # <<>> /\ queue[1] \in inProgress => queue'[1] = queue[1]
    BY <1>1, <2>1, <2>2
  <2>8. \A p \in Packets : outcome[p] = "unasked" /\ outcome'[p] = "accepted" => p = q
    BY <1>1, <2>1
  <2>9. ASSUME NEW p \in Packets, p # q, Priority[p] = Priority[q], NEW i \in 1 .. Len(queue) + 1,
               NEW j \in 1 .. Len(queue) + 1, packet'[queue'[i]] = p, packet'[queue'[j]] = q
        PROVE  i < j
    <3>1. j = at
      BY <2>6, <2>9
    <3>2. i # at
      BY <2>9, <3>1
    <3>3. ~ i < at => i - 1 \in 1 .. Len(queue) /\ at <= i - 1 /\ packet[queue[i - 1]] = p
      BY <1>1, <2>1, <2>6, <2>9, <3>2
    <3>4. Priority[p] \in 0 .. 7
      BY PacketsAssumption
    <3>5. i < at
      BY <2>3, <2>9, <3>3, <3>4
    <3>. QED
      BY <3>1, <3>5
  <2>. QED
    BY <2>4, <2>7, <2>8, <2>9
<1>3. CASE \E q \in Packets : DataReq(q) /\ CanGet(pool)
  <2>1. PICK q \in Packets : DataReq(q) /\ CanGet(pool)
    BY <1>3
  <2>. QED
    BY <1>2, <2>1
<1>4. CASE ~ \E q \in Packets : DataReq(q) /\ CanGet(pool)
  <2>1. \A q \in Packets : outcome[q] = "unasked" => outcome'[q] # "accepted"
    <3>1. CASE \E q \in Packets : DataReq(q)
      <4>1. PICK q \in Packets : DataReq(q) /\ outcome' = [outcome EXCEPT ![q] = "refused"]
        BY <1>4, <3>1 DEF DataReq
      <4>. QED
        BY <1>1, <4>1
    <3>2. CASE UNCHANGED outcome
      BY <3>2
    <3>3. CASE \E p \in Packets, o \in {"success", "failed", "withdrawn"} : outcome' = [outcome EXCEPT ![p] = o]
      BY <1>1, <3>3
    <3>4. ASSUME NEW success \in BOOLEAN, PhyDataConfirm(success) 
          PROVE  UNCHANGED outcome \/
                 \E p \in Packets, o \in {"success", "failed", "withdrawn"} : outcome' = [outcome EXCEPT ![p] = o]
      BY <1>1, <3>4 DEF PhyDataConfirm, Acknowledge
    <3>5. CASE Flush
      <4>1. outcome' = [outcome EXCEPT ![Head1] = "withdrawn"] /\ queue # <<>>
        BY <3>5, FlushFacts DEF Flush
      <4>. QED
        BY <1>1, <3>3, <4>1
    <3>6. CASE \E i \in DOMAIN queue : Purge(i)
      <4>1. PICK i \in 1 .. Len(queue) : outcome' = [outcome EXCEPT ![packet[queue[i]]] = "withdrawn"]
        BY <1>1, <3>6 DEF Purge
      <4>. QED
        BY <1>1, <3>3, <4>1
    <3>7. CASE NoTransmit \/ Confirm \/ ConfirmTimeout \/ ConfirmLate
      <4>1. UNCHANGED outcome \/ \E success \in BOOLEAN : PhyDataConfirm(success)
        BY <3>7 DEF NoTransmit, Confirm, ConfirmTimeout, ConfirmLate
      <4>. QED
        BY <3>2, <3>3, <3>4, <4>1
    <3>8. CASE StartFrame
      <4>1. UNCHANGED outcome \/ PhyDataConfirm(FALSE)
        BY <3>8 DEF StartFrame
      <4>. QED
        BY <3>2, <3>3, <3>4, <4>1
    <3>9. CASE GetNextTxMsg \/ Transmit \/ ConfirmBusy \/ CheckPHYTimeout \/ PauseTx
      BY <3>2, <3>9 DEF GetNextTxMsg, Transmit, ConfirmBusy, CheckPHYTimeout, PauseTx, history
    <3>. QED
      BY <3>1, <3>5, <3>6, <3>7, <3>8, <3>9 DEF Next
  <2>2. queue # <<>> /\ queue' # <<>> => queue'[1] = queue[1] \/ outcome'[Head1] # "accepted"
    <3>1. CASE UNCHANGED queue
      BY <3>1
    <3>2. ASSUME NEW success \in BOOLEAN, PhyDataConfirm(success), queue # <<>>
          PROVE  UNCHANGED queue \/ outcome'[Head1] # "accepted"
      BY <1>1, <3>2 DEF PhyDataConfirm, Acknowledge
    <3>3. CASE Flush
      BY <3>3, FlushFacts
    <3>4. CASE \E i \in DOMAIN queue : Purge(i)
      <4>1. PICK i \in 1 .. Len(queue) : /\ outcome' = [outcome EXCEPT ![packet[queue[i]]] = "withdrawn"]
                                         /\ queue' = RemoveAt(queue, i)
        BY <1>1, <3>4 DEF Purge
      <4>2. CASE i = 1
        BY <1>1, <4>1, <4>2 DEF Head1
      <4>3. CASE i # 1
        <5>1. \A k \in 1 .. Len(queue) - 1 : RemoveAt(queue, i)[k] = IF k < i THEN queue[k] ELSE queue[k + 1]
          BY <1>1, RemoveEntries
        <5>2. 1 \in 1 .. Len(queue) - 1 /\ 1 < i
          BY <1>1, <4>3
        <5>. QED
          BY <4>1, <5>1, <5>2
      <4>. QED
        BY <4>2, <4>3
    <3>5. CASE NoTransmit \/ Confirm \/ ConfirmTimeout \/ ConfirmLate
      <4>1. UNCHANGED queue \/ \E success \in BOOLEAN : PhyDataConfirm(success)
        BY <3>5 DEF NoTransmit, Confirm, ConfirmTimeout, ConfirmLate
      <4>. QED
        BY <3>1, <3>2, <4>1
    <3>6. CASE StartFrame
      <4>1. UNCHANGED queue \/ PhyDataConfirm(FALSE)
        BY <3>6 DEF StartFrame
      <4>. QED
        BY <3>1, <3>2, <4>1
    <3>7. CASE GetNextTxMsg \/ Transmit \/ ConfirmBusy \/ CheckPHYTimeout \/ PauseTx
      BY <3>1, <3>7 DEF GetNextTxMsg, Transmit, ConfirmBusy, CheckPHYTimeout, PauseTx
    <3>8. CASE \E q \in Packets : DataReq(q)
      BY <1>4, <3>1, <3>8 DEF DataReq
    <3>. QED
      BY <3>3, <3>4, <3>5, <3>6, <3>7, <3>8 DEF Next
  <2>. QED
    BY <2>1, <2>2
<1>. QED
  BY <1>3, <1>4

\* Nothing overtakes the packet being transmitted, and equals stay first come,
\* first served.
THEOREM NothingOvertakes ==
  ASSUME FlushLimit <= 1
  PROVE  Spec => NoOvertaking
<1>1. QueueSound /\ [Next]_vars
        => [/\ queue # <<>> /\ queue[1] \in inProgress /\ queue' # <<>>
               => queue'[1] = queue[1] \/ outcome'[Head1] # "accepted"
            /\ \A p, q \in Packets :
                 LET at(s, r) == {i \in DOMAIN s : packet'[s[i]] = r} IN
                 outcome[p] = "accepted" /\ outcome'[p] = "accepted"
                   /\ outcome[q] = "unasked" /\ outcome'[q] = "accepted" /\ Priority[p] = Priority[q]
                   => \A i \in at(queue', p), j \in at(queue', q) : i < j]_vars
  BY NoneOvertakes
<1>. QED
  BY <1>1, AlwaysQueueSound, PTL DEF Spec, NoOvertaking

-----------------------------------------------------------------------------
(* The packet at the head: its tracking, its frame and what was sent of it.  *)

Trackings == [bytes : 0 .. MaxSegments, segment : Segments, retry : 0 .. GiveUp,
              txd : [Segments -> BOOLEAN], id : 0 .. 3, count : Segments]

Lates == [own : 0 .. MaxLate, madeUp : BOOLEAN]

\* CurrentPacketTracking belongs to the packet at the head.
Begun == tracking.bytes > 0 \/ tracking.retry > 0

\* What tracking t knows of packet h: a marked segment was sent, or a late
\* confirm was taken for one of it.
Trying(h, t, air, ids, mis) ==
  /\ t.bytes <= Length[h] /\ t.retry <= Retries[h] /\ t.count = Length[h] - 1
  /\ \A s \in Segments : s > t.count => t.txd[s]
  /\ \A s \in Segments : s <= t.count /\ t.txd[s] => s + 1 \in air[h] \/ h \in mis
  /\ ids[h] \subseteq {t.id}

HeadSound ==
  /\ Begun => /\ queue # <<>> /\ queue[1] \in inProgress
              /\ Trying(Head1, tracking, onAir, idsOnAir, misled)
  /\ ~ Begun => /\ tracking.segment = 0 /\ \A s \in Segments : ~ tracking.txd[s]
                /\ queue # <<>> => queue[1] \notin inProgress

TheFrame == [of |-> Head1, part |-> tracking.bytes, segment |-> tracking.segment,
             count |-> tracking.count, id |-> tracking.id]

\* The one frame there may be is of the head's current segment.
FrameSound ==
  /\ frames = <<>> => tracking.bytes = tracking.segment /\ (Begun => tracking.bytes < Length[Head1])
  /\ frames # <<>> => frames = <<TheFrame>> /\ tracking.bytes = tracking.segment + 1
  /\ phy # "ready" => frames # <<>>

\* Nothing was sent of a packet not asked for, or not begun.
SilentTillBegun ==
  \A p \in Packets :
    outcome[p] = "unasked" \/ (\E i \in 1 .. Len(queue) : packet[queue[i]] = p /\ queue[i] \notin inProgress)
      => onAir[p] = {} /\ idsOnAir[p] = {}

TrackingSound ==
  /\ tracking \in Trackings /\ phy \in {"ready", "cca", "transmitting"}
  /\ paused \in BOOLEAN /\ late \in Lates /\ misled \subseteq Packets
  /\ onAir \in [Packets -> SUBSET (1 .. MaxSegments)] /\ idsOnAir \in [Packets -> SUBSET (0 .. 3)]
  /\ \A p \in Packets : onAir[p] \subseteq 1 .. Length[p]
  /\ HeadSound /\ FrameSound /\ SilentTillBegun /\ SuccessMeansSent

\* What the proofs need to know of the queue's head.
LEMMA HeadFacts ==
  ASSUME QueueSound
  PROVE  /\ queue \in Seq(Blocks) /\ Len(queue) \in Nat /\ DOMAIN queue = 1 .. Len(queue)
         /\ queue # <<>> => /\ 1 \in 1 .. Len(queue) /\ queue[1] \in Blocks /\ Head1 \in Packets
                            /\ outcome[Head1] = "accepted" /\ Head1 = packet[queue[1]]
         /\ packet \in [Blocks -> Packets \union {NoPacket}] /\ outcome \in [Packets -> Outcomes]
         /\ \A i \in 1 .. Len(queue) : queue[i] \in Blocks
BY DEF QueueSound, Head1

LEMMA ConstantFacts ==
  /\ NoPacket \notin Packets /\ MaxSegments \in Nat \ {0} /\ Segments = 0 .. MaxSegments - 1
  /\ \A p \in Packets : Length[p] \in 1 .. MaxSegments /\ Length[p] \in Nat /\ Retries[p] \in 0 .. 254
  /\ GiveUp = 255
BY PacketsAssumption DEF Segments, GiveUp

\* Nothing has been sent, and nothing is in the frame queue.
LEMMA InitTrackingSound == Init => TrackingSound
<1>. SUFFICES ASSUME Init PROVE TrackingSound
  OBVIOUS
<1>1. tracking \in Trackings
  BY ConstantFacts DEF Init, Trackings
<1>2. tracking.bytes = 0 /\ tracking.segment = 0 /\ tracking.retry = 0 /\ \A s \in Segments : ~ tracking.txd[s]
  BY DEF Init
<1>3. ~ Begun
  BY <1>2 DEF Begun
<1>4. HeadSound /\ FrameSound
  BY <1>2, <1>3 DEF Init, HeadSound, FrameSound
<1>5. SilentTillBegun /\ SuccessMeansSent
  BY DEF Init, SilentTillBegun, SuccessMeansSent
<1>6. late \in Lates
  BY SwitchesAssumption DEF Init, Lates
<1>. QED
  BY <1>1, <1>4, <1>5, <1>6 DEF Init, TrackingSound

\* Withdrawing a packet that is not in progress leaves the head's tracking true.
LEMMA WithdrawKeepsTracking ==
  ASSUME QueueSound, TrackingSound, NEW k \in 1 .. Len(queue), queue[k] \notin inProgress,
         queue' = RemoveAt(queue, k), outcome' = [outcome EXCEPT ![packet[queue[k]]] = "withdrawn"],
         UNCHANGED <<packet, inProgress, tracking, frames, phy, paused, late, onAir, idsOnAir, misled>>
  PROVE  TrackingSound'
<1>1. /\ queue \in Seq(Blocks) /\ Len(queue) \in Nat /\ outcome \in [Packets -> Outcomes]
  BY HeadFacts
<1>2. /\ queue' \in Seq(Blocks) /\ Len(queue') = Len(queue) - 1
      /\ \A i \in 1 .. Len(queue) - 1 : queue'[i] = IF i < k THEN queue[i] ELSE queue[i + 1]
  BY <1>1, RemoveEntries
<1>3. queue' # <<>> => 1 \in 1 .. Len(queue) - 1 /\ 2 \in 2 .. Len(queue)
  BY <1>1, <1>2
<1>4. Begun' <=> Begun
  BY DEF Begun
<1>5. ASSUME Begun PROVE HeadSound' /\ FrameSound'
  <2>1. queue # <<>> /\ queue[1] \in inProgress /\ Trying(Head1, tracking, onAir, idsOnAir, misled)
    BY <1>5 DEF TrackingSound, HeadSound
  <2>2. k # 1
    BY <2>1
  <2>3. queue' # <<>> /\ queue'[1] = queue[1]
    BY <1>1, <1>2, <2>2
  <2>4. Head1' = Head1
    BY <2>3 DEF Head1
  <2>5. HeadSound'
    BY <1>4, <1>5, <2>1, <2>3, <2>4 DEF HeadSound, Trying
  <2>6. TheFrame' = TheFrame
    BY <2>4 DEF TheFrame
  <2>7. FrameSound'
    BY <1>4, <2>4, <2>6 DEF TrackingSound, FrameSound
  <2>. QED
    BY <2>5, <2>7
<1>6. ASSUME ~ Begun PROVE HeadSound' /\ FrameSound'
  <2>1. queue # <<>> => queue[1] \notin inProgress
    BY <1>6 DEF TrackingSound, HeadSound
  <2>2. queue' # <<>> => queue'[1] \notin inProgress
    BY <1>1, <1>2, <1>3, <2>1 DEF QueueSound
  <2>3. HeadSound'
    BY <1>4, <1>6, <2>2 DEF TrackingSound, HeadSound
  <2>4. frames = <<>>
    <3>1. tracking.bytes = 0 /\ tracking.segment = 0
      BY <1>6 DEF TrackingSound, HeadSound, Begun, Trackings
    <3>. QED
      BY <3>1 DEF TrackingSound, FrameSound
  <2>5. FrameSound'
    BY <1>4, <1>6, <2>4 DEF TrackingSound, FrameSound
  <2>. QED
    BY <2>3, <2>5
<1>7. SilentTillBegun'
  <2>1. ASSUME NEW p \in Packets,
               outcome'[p] = "unasked"
                 \/ (\E i \in 1 .. Len(queue') : packet[queue'[i]] = p /\ queue'[i] \notin inProgress)
        PROVE  onAir[p] = {} /\ idsOnAir[p] = {}
    <3>1. CASE outcome'[p] = "unasked"
      <4>1. outcome[p] = "unasked"
        BY <1>1, <3>1
      <4>. QED
        BY <4>1 DEF TrackingSound, SilentTillBegun
    <3>2. CASE \E i \in 1 .. Len(queue') : packet[queue'[i]] = p /\ queue'[i] \notin inProgress
      <4>1. PICK i \in 1 .. Len(queue) - 1 : packet[queue'[i]] = p /\ queue'[i] \notin inProgress
        BY <1>2, <3>2
      <4>2. \E j \in 1 .. Len(queue) : queue'[i] = queue[j]
        <5>1. i \in 1 .. Len(queue) /\ i + 1 \in 1 .. Len(queue)
          BY <1>1
        <5>2. queue'[i] = queue[i] \/ queue'[i] = queue[i + 1]
          BY <1>2
        <5>. QED
          BY <5>1, <5>2
      <4>3. \E j \in 1 .. Len(queue) : packet[queue[j]] = p /\ queue[j] \notin inProgress
        BY <4>1, <4>2
      <4>. QED
        BY <4>3 DEF TrackingSound, SilentTillBegun
    <3>. QED
      BY <2>1, <3>1, <3>2
  <2>. QED
    BY <2>1 DEF SilentTillBegun
<1>8. SuccessMeansSent'
  <2>1. \A p \in Packets : outcome'[p] = "success" => outcome[p] = "success"
    BY <1>1
  <2>. QED
    BY <2>1 DEF TrackingSound, SuccessMeansSent
<1>. QED
  BY <1>5, <1>6, <1>7, <1>8 DEF TrackingSound

\* A new request leaves the head's tracking true: it does not overtake a head in
\* progress.
LEMMA DataReqKeepsTracking ==
  ASSUME QueueSound, TrackingSound, NEW p \in Packets, DataReq(p)
  PROVE  TrackingSound'
<1>1. /\ queue \in Seq(Blocks) /\ Len(queue) \in Nat /\ outcome \in [Packets -> Outcomes]
      /\ packet \in [Blocks -> Packets \union {NoPacket}]
      /\ \A i \in 1 .. Len(queue) : queue[i] \in Blocks
  BY HeadFacts
<1>2. /\ UNCHANGED <<tracking, frames, phy, paused, late, onAir, idsOnAir, misled>> /\ outcome[p] = "unasked"
      /\ outcome' = [outcome EXCEPT ![p] = "accepted"] \/ outcome' = [outcome EXCEPT ![p] = "refused"]
  BY DEF DataReq, sent
<1>3. Begun' <=> Begun
  BY <1>2 DEF Begun
<1>4. SuccessMeansSent'
  <2>1. \A q \in Packets : outcome'[q] = "success" => outcome[q] = "success"
    BY <1>1, <1>2
  <2>. QED
    BY <1>2, <2>1 DEF TrackingSound, SuccessMeansSent
<1>5. onAir[p] = {} /\ idsOnAir[p] = {}
  BY <1>2 DEF TrackingSound, SilentTillBegun
<1>6. ASSUME ~ CanGet(pool) PROVE HeadSound' /\ FrameSound' /\ SilentTillBegun'
  <2>1. UNCHANGED <<packet, inProgress, queue>>
    BY <1>6 DEF DataReq
  <2>2. Head1' = Head1 /\ TheFrame' = TheFrame
    BY <1>2, <2>1 DEF Head1, TheFrame
  <2>3. HeadSound' /\ FrameSound'
    BY <1>2, <1>3, <2>1, <2>2 DEF TrackingSound, HeadSound, FrameSound, Trying
  <2>4. \A q \in Packets : outcome'[q] = "unasked" => outcome[q] = "unasked"
    BY <1>1, <1>2
  <2>5. SilentTillBegun'
    BY <1>2, <2>1, <2>4 DEF TrackingSound, SilentTillBegun
  <2>. QED
    BY <2>3, <2>5
<1>7. ASSUME CanGet(pool) PROVE HeadSound' /\ FrameSound' /\ SilentTillBegun'
  <2>. DEFINE b  == pool.freeList
              at == Place(p)
  <2>1. /\ at \in 1 .. Len(queue) + 1 /\ b \in Blocks
        /\ \A i \in 1 .. Len(queue) : queue[i] # b
        /\ queue' \in Seq(Blocks) /\ Len(queue') = Len(queue) + 1
        /\ \A i \in 1 .. Len(queue) + 1 :
             queue'[i] = IF i < at THEN queue[i] ELSE IF i = at THEN b ELSE queue[i - 1]
        /\ packet' = [packet EXCEPT ![b] = p] /\ inProgress' = inProgress \ {b}
    BY <1>7, Entered
  <2>2. at \in 1 .. Len(queue) => queue[at] \notin inProgress
    BY PlaceFacts
  <2>. HIDE DEF at, b
  <2>3. 1 \in 1 .. Len(queue) + 1 /\ queue' # <<>> /\ (queue # <<>> => 1 \in 1 .. Len(queue))
    BY <1>1, <2>1
  <2>4. ASSUME Begun PROVE HeadSound' /\ FrameSound'
    <3>1. queue # <<>> /\ queue[1] \in inProgress /\ Trying(Head1, tracking, onAir, idsOnAir, misled)
      BY <2>4 DEF TrackingSound, HeadSound
    <3>2. at # 1
      BY <2>2, <2>3, <3>1
    <3>3. queue'[1] = queue[1] /\ queue[1] # b /\ queue[1] \in Blocks
      BY <1>1, <2>1, <2>3, <3>1, <3>2
    <3>4. Head1' = Head1
      BY <1>1, <2>1, <3>3 DEF Head1
    <3>5. TheFrame' = TheFrame
      BY <1>2, <3>4 DEF TheFrame
    <3>6. HeadSound'
      BY <1>2, <1>3, <2>1, <2>3, <2>4, <3>1, <3>3, <3>4 DEF HeadSound, Trying
    <3>7. FrameSound'
      BY <1>2, <1>3, <3>4, <3>5 DEF TrackingSound, FrameSound
    <3>. QED
      BY <3>6, <3>7
  <2>5. ASSUME ~ Begun PROVE HeadSound' /\ FrameSound'
    <3>1. queue # <<>> => queue[1] \notin inProgress
      BY <2>5 DEF TrackingSound, HeadSound
    <3>2. queue'[1] \notin inProgress'
      <4>1. CASE at = 1
        BY <2>1, <2>3, <4>1
      <4>2. CASE at # 1
        <5>1. queue'[1] = queue[1] /\ queue # <<>>
          BY <1>1, <2>1, <2>3, <4>2
        <5>. QED
          BY <2>1, <3>1, <5>1
      <4>. QED
        BY <4>1, <4>2
    <3>3. HeadSound'
      BY <1>2, <1>3, <2>5, <3>2 DEF TrackingSound, HeadSound
    <3>4. frames = <<>>
      <4>1. tracking.bytes = 0 /\ tracking.segment = 0
        BY <2>5 DEF TrackingSound, HeadSound, Begun, Trackings
      <4>. QED
        BY <4>1 DEF TrackingSound, FrameSound
    <3>5. FrameSound'
      BY <1>2, <1>3, <2>5, <3>4 DEF TrackingSound, FrameSound
    <3>. QED
      BY <3>3, <3>5
  <2>6. SilentTillBegun'
    <3>1. ASSUME NEW q \in Packets, q # p,
                 outcome'[q] = "unasked"
                   \/ (\E i \in 1 .. Len(queue') : packet'[queue'[i]] = q /\ queue'[i] \notin inProgress')
          PROVE  onAir[q] = {} /\ idsOnAir[q] = {}
      <4>1. CASE outcome'[q] = "unasked"
        <5>1. outcome[q] = "unasked"
          BY <1>1, <1>2, <3>1, <4>1
        <5>. QED
          BY <5>1 DEF TrackingSound, SilentTillBegun
      <4>2. CASE \E i \in 1 .. Len(queue') : packet'[queue'[i]] = q /\ queue'[i] \notin inProgress'
        <5>1. PICK i \in 1 .. Len(queue) + 1 : packet'[queue'[i]] = q /\ queue'[i] \notin inProgress'
          BY <2>1, <4>2
        <5>2. queue'[i] # b
          BY <1>1, <2>1, <3>1, <5>1
        <5>3. \E j \in 1 .. Len(queue) : queue'[i] = queue[j]
          BY <1>1, <2>1, <5>2
        <5>4. \E j \in 1 .. Len(queue) : packet[queue[j]] = q /\ queue[j] \notin inProgress
          BY <1>1, <2>1, <5>1, <5>2, <5>3
        <5>. QED
          BY <5>4 DEF TrackingSound, SilentTillBegun
      <4>. QED
        BY <3>1, <4>1, <4>2
    <3>2. \A q \in Packets :
            outcome'[q] = "unasked"
              \/ (\E i \in 1 .. Len(queue') : packet'[queue'[i]] = q /\ queue'[i] \notin inProgress')
            => onAir'[q] = {} /\ idsOnAir'[q] = {}
      BY <1>2, <1>5, <3>1
    <3>. QED
      BY <3>2 DEF SilentTillBegun
  <2>. QED
    BY <2>4, <2>5, <2>6
<1>. QED
  BY <1>2, <1>4, <1>6, <1>7 DEF TrackingSound

\* A tracking is the record of its fields.
LEMMA TrackingFields ==
  ASSUME NEW t \in Trackings
  PROVE  /\ t = [bytes |-> t.bytes, segment |-> t.segment, retry |-> t.retry,
                 txd |-> t.txd, id |-> t.id, count |-> t.count]
         /\ t.bytes \in 0 .. MaxSegments /\ t.segment \in Segments /\ t.retry \in 0 .. GiveUp
         /\ t.txd \in [Segments -> BOOLEAN] /\ t.id \in 0 .. 3 /\ t.count \in Segments
         /\ t.bytes \in Nat /\ t.retry \in Nat
<1>1. t.bytes \in 0 .. MaxSegments /\ t.retry \in 0 .. 255
  BY DEF Trackings, GiveUp
<1>2. t.bytes \in Nat /\ t.retry \in Nat
  <2>1. MaxSegments \in Nat
    BY ConstantFacts
  <2>2. \A k, m : m \in Nat /\ k \in 0 .. m => k \in Nat
    OBVIOUS
  <2>. QED
    BY <1>1, <2>1, <2>2
<1>. QED
  BY <1>2 DEF Trackings

\* A frame there is means a transmission there is.
LEMMA FrameFacts ==
  ASSUME QueueSound, TrackingSound, frames # <<>>
  PROVE  /\ frames = <<TheFrame>> /\ Last(frames) = TheFrame /\ Front(frames) = <<>>
         /\ tracking.bytes = tracking.segment + 1 /\ Begun
         /\ queue # <<>> /\ queue[1] \in inProgress /\ Head1 \in Packets /\ outcome[Head1] = "accepted"
         /\ Trying(Head1, tracking, onAir, idsOnAir, misled)
         /\ tracking.segment \in 0 .. tracking.count
<1>1. frames = <<TheFrame>> /\ tracking.bytes = tracking.segment + 1
  BY DEF TrackingSound, FrameSound
<1>2. tracking.segment \in Nat /\ tracking.count \in Nat
  BY ConstantFacts, TrackingFields DEF TrackingSound
<1>3. Begun
  BY <1>1, <1>2 DEF Begun
<1>4. queue # <<>> /\ queue[1] \in inProgress /\ Trying(Head1, tracking, onAir, idsOnAir, misled)
  BY <1>3 DEF TrackingSound, HeadSound
<1>5. Head1 \in Packets /\ outcome[Head1] = "accepted"
  BY <1>4, HeadFacts
<1>6. tracking.segment \in 0 .. tracking.count
  <2>1. tracking.bytes <= Length[Head1] /\ tracking.count = Length[Head1] - 1 /\ Length[Head1] \in Nat
    BY <1>4, <1>5, ConstantFacts DEF Trying
  <2>. QED
    BY <1>1, <1>2, <2>1
<1>7. Last(frames) = TheFrame /\ Front(frames) = <<>>
  BY <1>1 DEF Last, Front
<1>. QED
  BY <1>1, <1>3, <1>4, <1>5, <1>6, <1>7

\* The packet at the head is begun, or its next frame is made.
LEMMA GetNextKeepsTracking ==
  ASSUME QueueSound, TrackingSound, GetNextTxMsg
  PROVE  TrackingSound'
<1>1. /\ queue \in Seq(Blocks) /\ Len(queue) \in Nat /\ queue # <<>> /\ queue[1] \in Blocks
      /\ Head1 \in Packets /\ Head1 = packet[queue[1]] /\ 1 \in 1 .. Len(queue)
  BY HeadFacts DEF GetNextTxMsg
<1>2. UNCHANGED <<queue, packet, pool, phy, paused, late, outcome, onAir, idsOnAir, misled>>
  BY DEF GetNextTxMsg, history, sent
<1>3. /\ MaxSegments \in Nat \ {0} /\ Segments = 0 .. MaxSegments - 1
      /\ Length[Head1] \in 1 .. MaxSegments /\ Retries[Head1] \in 0 .. 254
  BY <1>1, ConstantFacts
<1>. DEFINE n == Length[Head1]
            t == tracking
<1>4. /\ t \in Trackings /\ t.bytes \in 0 .. MaxSegments /\ t.segment \in Segments /\ t.retry \in 0 .. GiveUp
      /\ t.txd \in [Segments -> BOOLEAN] /\ t.id \in 0 .. 3 /\ t.count \in Segments
      /\ t = [bytes |-> t.bytes, segment |-> t.segment, retry |-> t.retry,
              txd |-> t.txd, id |-> t.id, count |-> t.count]
  BY TrackingFields DEF TrackingSound
<1>5. Head1' = Head1
  BY <1>2 DEF Head1
<1>6. SuccessMeansSent'
  BY <1>2 DEF TrackingSound, SuccessMeansSent
<1>7. ASSUME inProgress \subseteq inProgress' PROVE SilentTillBegun'
  BY <1>2, <1>7 DEF TrackingSound, SilentTillBegun
<1>8. CASE frames # <<>>
  <2>1. Begun /\ t.bytes = t.segment + 1
    BY <1>8, FrameFacts
  <2>2. ~ Starting
    BY <1>3, <1>4, <2>1 DEF Starting
  <2>3. UNCHANGED <<inProgress, frames, tracking>>
    BY <1>8, <2>2 DEF GetNextTxMsg, Begin
  <2>4. TheFrame' = TheFrame /\ Begun' = Begun
    BY <1>5, <2>3 DEF TheFrame, Begun
  <2>5. HeadSound' /\ FrameSound'
    BY <1>2, <1>5, <2>3, <2>4 DEF TrackingSound, HeadSound, FrameSound, Trying
  <2>. QED
    BY <1>2, <1>6, <1>7, <2>3, <2>5 DEF TrackingSound
<1>9. CASE frames = <<>> /\ Begun
  <2>1. /\ queue[1] \in inProgress /\ Trying(Head1, t, onAir, idsOnAir, misled)
        /\ t.bytes = t.segment /\ t.bytes < n
    BY <1>9 DEF TrackingSound, HeadSound, FrameSound
  <2>2. inProgress' = inProgress
    BY <2>1 DEF GetNextTxMsg
  <2>3. Begin = t
    BY <1>4, <1>9 DEF Begin, Begun, Starting
  <2>4. frames' = <<NewFrame(t)>> /\ tracking' = [t EXCEPT !.bytes = @ + 1]
    BY <1>9, <2>1, <2>3 DEF GetNextTxMsg
  <2>5. tracking' = [bytes |-> t.bytes + 1, segment |-> t.segment, retry |-> t.retry,
                     txd |-> t.txd, id |-> t.id, count |-> t.count]
    BY <1>4, <2>4
  <2>6. tracking' \in Trackings
    BY <1>3, <1>4, <2>1, <2>5 DEF Trackings
  <2>7. Begun'
    BY <1>3, <1>4, <2>5 DEF Begun
  <2>8. HeadSound'
    <3>1. Trying(Head1, tracking', onAir, idsOnAir, misled)
      BY <1>3, <1>4, <2>1, <2>5 DEF Trying
    <3>. QED
      BY <1>1, <1>2, <1>5, <2>1, <2>2, <2>7, <3>1 DEF HeadSound
  <2>9. FrameSound'
    <3>1. TheFrame' = NewFrame(t)
      BY <1>5, <2>5 DEF TheFrame, NewFrame
    <3>2. frames' # <<>> /\ tracking'.bytes = tracking'.segment + 1
      BY <2>1, <2>4, <2>5
    <3>. QED
      BY <2>4, <3>1, <3>2 DEF FrameSound
  <2>. QED
    BY <1>2, <1>6, <1>7, <2>2, <2>6, <2>8, <2>9 DEF TrackingSound
<1>10. CASE frames = <<>> /\ ~ Begun
  <2>1. /\ t.segment = 0 /\ (\A s \in Segments : ~ t.txd[s]) /\ queue[1] \notin inProgress
        /\ t.bytes = 0 /\ t.retry = 0
    <3>1. t.bytes = 0 /\ t.retry = 0
      <4>1. t.bytes \in Nat /\ t.retry \in Nat
        BY TrackingFields DEF TrackingSound
      <4>2. ~ t.bytes > 0 /\ ~ t.retry > 0
        BY <1>10 DEF Begun
      <4>3. \A k \in Nat : ~ k > 0 => k = 0
        OBVIOUS
      <4>. QED
        BY <4>1, <4>2, <4>3
    <3>2. t.segment = 0 /\ (\A s \in Segments : ~ t.txd[s]) /\ queue[1] \notin inProgress
      BY <1>1, <1>10 DEF TrackingSound, HeadSound
    <3>. QED
      BY <3>1, <3>2
  <2>2. inProgress' = inProgress \union {queue[1]}
    BY <2>1 DEF GetNextTxMsg, Starting
  <2>. DEFINE u == [bytes |-> 0, segment |-> 0, retry |-> 0,
                    txd |-> [s \in Segments |-> s > n - 1 \/ t.txd[s]], id |-> (t.id + 1) % 4, count |-> n - 1]
  <2>3. Begin = u
    <3>1. Begin = [t EXCEPT !.id = (@ + 1) % 4, !.count = n - 1,
                            !.txd = [s \in Segments |-> s > n - 1 \/ @[s]]]
      BY <2>1 DEF Begin, Starting
    <3>. QED
      BY <1>4, <2>1, <3>1
  <2>4. frames' = <<NewFrame(u)>> /\ tracking' = [u EXCEPT !.bytes = @ + 1]
    <3>. HIDE DEF u
    <3>1. t.bytes < n
      BY <1>3, <2>1
    <3>. QED
      BY <1>10, <2>3, <3>1 DEF GetNextTxMsg
  <2>5. tracking' = [bytes |-> 1, segment |-> 0, retry |-> 0, txd |-> u.txd, id |-> u.id, count |-> n - 1]
    BY <2>4
  <2>6. u.txd \in [Segments -> BOOLEAN] /\ u.id \in 0 .. 3 /\ u.count \in Segments /\ u.count = n - 1
        /\ \A s \in Segments : u.txd[s] <=> s > n - 1
    <3>1. u.txd = [s \in Segments |-> s > n - 1 \/ t.txd[s]] /\ u.count = n - 1 /\ u.id = (t.id + 1) % 4
      OBVIOUS
    <3>2. (t.id + 1) % 4 \in 0 .. 3 /\ n - 1 \in Segments
      BY <1>3, <1>4
    <3>. HIDE DEF u
    <3>3. u.txd \in [Segments -> BOOLEAN] /\ \A s \in Segments : u.txd[s] = (s > n - 1 \/ t.txd[s])
      BY <3>1
    <3>4. \A s \in Segments : u.txd[s] <=> s > n - 1
      BY <2>1, <3>3
    <3>. QED
      BY <3>1, <3>2, <3>3, <3>4
  <2>7. u.bytes = 0 /\ u.segment = 0
    OBVIOUS
  <2>. HIDE DEF u
  <2>8. tracking' \in Trackings
    BY <1>3, <2>5, <2>6 DEF Trackings, GiveUp
  <2>9. Begun'
    BY <2>5 DEF Begun
  <2>10. HeadSound'
    <3>1. idsOnAir[Head1] = {}
      BY <1>1, <2>1 DEF TrackingSound, SilentTillBegun
    <3>2. \A s \in Segments : (s > n - 1 => u.txd[s]) /\ ~ (s <= n - 1 /\ u.txd[s])
      BY <1>3, <2>6
    <3>3. /\ tracking'.bytes <= Length[Head1] /\ tracking'.retry <= Retries[Head1]
          /\ tracking'.count = Length[Head1] - 1 /\ tracking'.txd = u.txd
      <4>1. /\ tracking'.bytes = 1 /\ tracking'.retry = 0
            /\ tracking'.count = n - 1 /\ tracking'.txd = u.txd
        BY <2>5
      <4>2. 1 <= n /\ 0 <= Retries[Head1]
        <5>1. \A k : k \in 1 .. MaxSegments => 1 <= k
          OBVIOUS
        <5>2. \A k : k \in 0 .. 254 => 0 <= k
          OBVIOUS
        <5>. QED
          BY <1>3, <5>1, <5>2
      <4>. QED
        BY <4>1, <4>2
    <3>4. Trying(Head1, tracking', onAir, idsOnAir, misled)
      BY <3>1, <3>2, <3>3 DEF Trying
    <3>. QED
      BY <1>1, <1>2, <1>5, <2>2, <2>9, <3>4 DEF HeadSound
  <2>11. FrameSound'
    <3>1. TheFrame' = NewFrame(u)
      BY <1>5, <2>5, <2>6, <2>7 DEF TheFrame, NewFrame
    <3>2. frames' # <<>> /\ tracking'.bytes = tracking'.segment + 1
      BY <2>4, <2>5
    <3>. QED
      BY <2>4, <3>1, <3>2 DEF FrameSound
  <2>. QED
    BY <1>2, <1>6, <1>7, <2>2, <2>8, <2>10, <2>11 DEF TrackingSound
<1>. QED
  BY <1>8, <1>9, <1>10

\* A tracking, by its fields.
Track(b, s, r, x, i, c) ==
  [bytes |-> b, segment |-> s, retry |-> r, txd |-> x, id |-> i, count |-> c]

\* What Acknowledge changes in it.
Ticked(y)     == [y EXCEPT !.txd[y.segment] = TRUE]
Aborted(y, n) == [y EXCEPT !.bytes = n, !.retry = GiveUp]
Onward(y)     == [y EXCEPT !.segment = @ + 1]
Again(y)      == [y EXCEPT !.bytes = 0, !.segment = 0, !.retry = @ + 1]
MarkAt(x, s)  == [x EXCEPT ![s] = TRUE]
NoMarks       == [s \in Segments |-> FALSE]

\* The marks of the head's segments after a confirm.
Marks(success) == IF success THEN MarkAt(tracking.txd, tracking.segment) ELSE tracking.txd

\* What a confirm does with the packet at the head: the next segment, the next
\* try, or the answer.
Continues(success) ==
  /\ tracking.bytes < Length[Head1]
  /\ tracking' = Track(tracking.bytes, tracking.segment + 1, tracking.retry, Marks(success), tracking.id, tracking.count)
  /\ UNCHANGED <<queue, pool, outcome>>

TriesAgain(success) ==
  /\ tracking.retry < Retries[Head1]
  /\ tracking' = Track(0, 0, tracking.retry + 1, Marks(success), tracking.id, tracking.count)
  /\ UNCHANGED <<queue, pool, outcome>>

Answers(success) ==
  /\ tracking' = Track(0, 0, 0, NoMarks, tracking.id, tracking.count)
  /\ outcome' = [outcome EXCEPT ![Head1] =
                   IF \A s \in 0 .. tracking.count : Marks(success)[s] THEN "success" ELSE "failed"]
  /\ queue' = Tail(queue) /\ pool' = Put(pool, queue[1])

\* Its fields, and what changing some of them gives.
LEMMA TrackFields ==
  ASSUME NEW b, NEW s, NEW r, NEW x, NEW i, NEW c
  PROVE  LET y == Track(b, s, r, x, i, c)
         IN y.bytes = b /\ y.segment = s /\ y.retry = r /\ y.txd = x /\ y.id = i /\ y.count = c
BY DEF Track

LEMMA TrackAborted ==
  ASSUME NEW b, NEW s, NEW r, NEW x, NEW i, NEW c, NEW n
  PROVE  Aborted(Track(b, s, r, x, i, c), n) = Track(n, s, GiveUp, x, i, c)
<1>. DEFINE y == Track(b, s, r, x, i, c)
<1>. HIDE DEF y
<1>1. Aborted(y, n) = [[y EXCEPT !.bytes = n] EXCEPT !.retry = GiveUp]
  BY DEF Aborted
<1>2. [y EXCEPT !.bytes = n] = Track(n, s, r, x, i, c)
  BY DEF y, Track
<1>3. [Track(n, s, r, x, i, c) EXCEPT !.retry = GiveUp] = Track(n, s, GiveUp, x, i, c)
  BY DEF Track
<1>. QED
  BY <1>1, <1>2, <1>3 DEF y

LEMMA TrackChanges ==
  ASSUME NEW b, NEW s, NEW r, NEW x, NEW i, NEW c
  PROVE  /\ Ticked(Track(b, s, r, x, i, c)) = Track(b, s, r, MarkAt(x, s), i, c)
         /\ Onward(Track(b, s, r, x, i, c)) = Track(b, s + 1, r, x, i, c)
         /\ Again(Track(b, s, r, x, i, c)) = Track(0, 0, r + 1, x, i, c)
         /\ Forget(Track(b, s, r, x, i, c)) = Track(0, 0, 0, NoMarks, i, c)
<1>. DEFINE y == Track(b, s, r, x, i, c)
            m == MarkAt(x, s)
<1>0. y.segment = s /\ y.txd = x /\ y.retry = r
  BY TrackFields
<1>. HIDE DEF m, y
<1>1. Ticked(y) = [y EXCEPT !.txd = m]
  BY <1>0 DEF m, Ticked, MarkAt
<1>2. [y EXCEPT !.txd = m] = Track(b, s, r, m, i, c)
  BY DEF y, Track
<1>3. Onward(y) = [y EXCEPT !.segment = s + 1]
  BY <1>0 DEF Onward
<1>4. [y EXCEPT !.segment = s + 1] = Track(b, s + 1, r, x, i, c)
  BY DEF y, Track
<1>5. Again(y) = [[[y EXCEPT !.bytes = 0] EXCEPT !.segment = 0] EXCEPT !.retry = r + 1]
  BY <1>0 DEF Again
<1>6. Forget(y) = [[[[y EXCEPT !.bytes = 0] EXCEPT !.segment = 0] EXCEPT !.retry = 0] EXCEPT !.txd = NoMarks]
  BY DEF Forget, NoMarks
<1>7. [y EXCEPT !.bytes = 0] = Track(0, s, r, x, i, c)
  BY DEF y, Track
<1>8. [Track(0, s, r, x, i, c) EXCEPT !.segment = 0] = Track(0, 0, r, x, i, c)
  BY DEF Track
<1>9. [Track(0, 0, r, x, i, c) EXCEPT !.retry = r + 1] = Track(0, 0, r + 1, x, i, c)
  BY DEF Track
<1>10. [Track(0, 0, r, x, i, c) EXCEPT !.retry = 0] = Track(0, 0, 0, x, i, c)
  BY DEF Track
<1>11. [Track(0, 0, 0, x, i, c) EXCEPT !.txd = NoMarks] = Track(0, 0, 0, NoMarks, i, c)
  BY DEF Track
<1>12. Again(y) = Track(0, 0, r + 1, x, i, c)
  BY <1>5, <1>7, <1>8, <1>9
<1>13. Forget(y) = Track(0, 0, 0, NoMarks, i, c)
  BY <1>6, <1>7, <1>8, <1>10, <1>11
<1>. QED
  BY <1>1, <1>2, <1>3, <1>4, <1>12, <1>13 DEF y, m

LEMMA TrackingIsTrack ==
  ASSUME NEW t \in Trackings
  PROVE  t = Track(t.bytes, t.segment, t.retry, t.txd, t.id, t.count)
BY TrackingFields DEF Track

\* The marks a confirm adds to: those there were, and the current segment's if it went out.
LEMMA MarksFacts ==
  ASSUME tracking \in Trackings, NEW success \in BOOLEAN
  PROVE  /\ Marks(success) \in [Segments -> BOOLEAN]
         /\ \A s \in Segments : Marks(success)[s] <=> tracking.txd[s] \/ (success /\ s = tracking.segment)
<1>1. tracking.txd \in [Segments -> BOOLEAN] /\ tracking.segment \in Segments
  BY TrackingFields
<1>2. CASE success
  <2>. DEFINE m == [tracking.txd EXCEPT ![tracking.segment] = TRUE]
  <2>1. Marks(success) = m
    BY <1>2 DEF Marks, MarkAt
  <2>2. m \in [Segments -> BOOLEAN]
    BY <1>1
  <2>3. ASSUME NEW s \in Segments PROVE m[s] <=> tracking.txd[s] \/ s = tracking.segment
    <3>1. CASE s = tracking.segment
      BY <1>1, <3>1
    <3>2. CASE s # tracking.segment
      <4>1. m[s] = tracking.txd[s]
        BY <1>1, <3>2
      <4>. QED
        BY <3>2, <4>1
    <3>. QED
      BY <3>1, <3>2
  <2>. HIDE DEF m
  <2>. QED
    BY <1>2, <2>1, <2>2, <2>3
<1>3. CASE ~ success
  BY <1>1, <1>3 DEF Marks
<1>. QED
  BY <1>2, <1>3

\* The tracking as Acknowledge has marked it.
LEMMA MarkedFacts ==
  ASSUME tracking \in Trackings, NEW success \in BOOLEAN
  PROVE  LET m == Marks(success)
             u == Marked(success)
         IN \/ u = Track(tracking.bytes, tracking.segment, tracking.retry, m, tracking.id, tracking.count)
            \/ /\ ~ m[tracking.segment]
               /\ u = Track(Length[Head1], tracking.segment, GiveUp, m, tracking.id, tracking.count)
<1>. DEFINE t == tracking
            m == Marks(success)
            v == Track(t.bytes, t.segment, t.retry, m, t.id, t.count)
            w == IF success THEN Ticked(t) ELSE t
<1>1. t = Track(t.bytes, t.segment, t.retry, t.txd, t.id, t.count)
  BY TrackingIsTrack
<1>2. w = v
  <2>1. CASE success
    <3>1. w = Ticked(t) /\ m = MarkAt(t.txd, t.segment)
      BY <2>1 DEF Marks
    <3>3. Ticked(t) = Track(t.bytes, t.segment, t.retry, MarkAt(t.txd, t.segment), t.id, t.count)
      BY <1>1, TrackChanges
    <3>. QED
      BY <3>1, <3>3
  <2>2. CASE ~ success
    BY <1>1, <2>2 DEF Marks
  <2>. QED
    BY <2>1, <2>2
<1>3. Marked(success) = IF Retries[Head1] <= w.retry /\ ~ w.txd[w.segment]
                        THEN Aborted(w, Length[Head1]) ELSE w
  BY DEF Marked, Ticked, Aborted
<1>4. v.segment = t.segment /\ v.txd = m
  BY TrackFields
<1>5. Aborted(v, Length[Head1]) = Track(Length[Head1], t.segment, GiveUp, m, t.id, t.count)
  BY TrackAborted
<1>. HIDE DEF w, v, m
<1>6. \/ Marked(success) = v
      \/ /\ ~ m[t.segment]
         /\ Marked(success) = Aborted(v, Length[Head1])
  BY <1>2, <1>3, <1>4
<1>. QED
  BY <1>5, <1>6 DEF v, m

\* A confirm ends in one of these three.
LEMMA ConfirmEffects ==
  ASSUME QueueSound, TrackingSound, frames # <<>>, NEW success \in BOOLEAN, PhyDataConfirm(success)
  PROVE  frames' = <<>> /\ (Continues(success) \/ TriesAgain(success) \/ Answers(success))
<1>. DEFINE t == tracking
            m == Marks(success)
            u == Marked(success)
            n == Length[Head1]
<1>1. /\ Front(frames) = <<>> /\ queue # <<>> /\ Head1 \in Packets
      /\ t.bytes <= n /\ t.retry <= Retries[Head1] /\ t.segment \in 0 .. t.count
  BY FrameFacts DEF Trying
<1>2. t \in Trackings /\ t.bytes \in Nat /\ t.retry \in Nat /\ n \in Nat /\ Retries[Head1] \in 0 .. 254
  BY <1>1, TrackingFields, ConstantFacts DEF TrackingSound
<1>3. \/ u = Track(t.bytes, t.segment, t.retry, m, t.id, t.count)
      \/ /\ ~ m[t.segment]
         /\ u = Track(n, t.segment, GiveUp, m, t.id, t.count)
  BY <1>2, MarkedFacts
<1>4. frames' = <<>> /\ Acknowledge(success)
  BY <1>1 DEF PhyDataConfirm
<1>. HIDE DEF u, m
<1>8. /\ u = Track(t.bytes, t.segment, t.retry, m, t.id, t.count) => u.bytes = t.bytes /\ u.retry = t.retry
      /\ u = Track(n, t.segment, GiveUp, m, t.id, t.count) => u.bytes = n /\ u.retry = GiveUp
      /\ u.txd = m /\ u.count = t.count /\ u.id = t.id
  BY <1>3, TrackFields
<1>5. CASE /\ u.bytes < n
           /\ tracking' = Onward(u)
           /\ UNCHANGED <<queue, pool, outcome>>
  <2>1. u = Track(t.bytes, t.segment, t.retry, m, t.id, t.count)
    BY <1>2, <1>3, <1>5, <1>8
  <2>2. tracking' = Track(t.bytes, t.segment + 1, t.retry, m, t.id, t.count)
    BY <1>5, <2>1, TrackChanges
  <2>3. t.bytes < n
    BY <1>5, <1>8, <2>1
  <2>. QED
    BY <1>4, <1>5, <2>2, <2>3 DEF Continues, m
<1>6. CASE /\ u.bytes >= n /\ Retries[Head1] > u.retry
           /\ tracking' = Again(u)
           /\ UNCHANGED <<queue, pool, outcome>>
  <2>1. u = Track(t.bytes, t.segment, t.retry, m, t.id, t.count)
    <3>1. u.retry # GiveUp
      <4>1. \A k \in 0 .. 254 : ~ k > 255
        OBVIOUS
      <4>2. ~ Retries[Head1] > 255
        BY <1>2, <4>1
      <4>. QED
        BY <1>6, <4>2 DEF GiveUp
    <3>. QED
      BY <1>3, <1>8, <3>1
  <2>2. tracking' = Track(0, 0, t.retry + 1, m, t.id, t.count)
    BY <1>6, <2>1, TrackChanges
  <2>3. t.retry < Retries[Head1]
    <3>1. u.retry = t.retry
      BY <1>8, <2>1
    <3>. QED
      BY <1>2, <1>6, <3>1
  <2>. QED
    BY <1>4, <1>6, <2>2, <2>3 DEF TriesAgain, m
<1>7. CASE /\ outcome' = [outcome EXCEPT ![Head1] = IF AllSent(u) THEN "success" ELSE "failed"]
           /\ tracking' = Forget(u)
           /\ pool' = Put(pool, queue[1])
           /\ queue' = Tail(queue)
  <2>2. AllSent(u) <=> \A s \in 0 .. t.count : m[s]
    BY <1>8 DEF AllSent
  <2>3. Forget(u) = Track(0, 0, 0, NoMarks, t.id, t.count)
    <3>1. CASE u = Track(t.bytes, t.segment, t.retry, m, t.id, t.count)
      BY <3>1, TrackChanges
    <3>2. CASE u = Track(n, t.segment, GiveUp, m, t.id, t.count)
      BY <3>2, TrackChanges
    <3>. QED
      BY <1>3, <3>1, <3>2
  <2>. QED
    BY <1>4, <1>7, <2>2, <2>3 DEF Answers, m
<1>. QED
  BY <1>1, <1>4, <1>5, <1>6, <1>7 DEF Acknowledge, Onward, Again, u

\* What the radio may do with the frame it was given.
LEMMA RadiateFacts ==
  ASSUME QueueSound, TrackingSound, frames # <<>>, Silent \/ Radiate
  PROVE  /\ onAir' \in [Packets -> SUBSET (1 .. MaxSegments)] /\ idsOnAir' \in [Packets -> SUBSET (0 .. 3)]
         /\ \A p \in Packets : onAir'[p] \subseteq 1 .. Length[p] /\ onAir[p] \subseteq onAir'[p]
         /\ \A p \in Packets : p # Head1 => onAir'[p] = onAir[p] /\ idsOnAir'[p] = idsOnAir[p]
         /\ idsOnAir'[Head1] \subseteq {tracking.id}
         /\ Radiate => /\ tracking.segment + 1 \in onAir'[Head1] /\ tracking.segment + 1 \in 1 .. Length[Head1]
                       /\ onAir' = [onAir EXCEPT ![Head1] = @ \union {tracking.segment + 1}]
<1>. DEFINE h == Head1
            k == tracking.segment + 1
<1>1. /\ frames # <<>> /\ Last(frames) = TheFrame /\ h \in Packets /\ tracking.bytes = k
      /\ Trying(h, tracking, onAir, idsOnAir, misled) /\ tracking.segment \in 0 .. tracking.count
  BY FrameFacts
<1>2. /\ onAir \in [Packets -> SUBSET (1 .. MaxSegments)] /\ idsOnAir \in [Packets -> SUBSET (0 .. 3)]
      /\ \A p \in Packets : onAir[p] \subseteq 1 .. Length[p]
      /\ tracking \in Trackings
  BY DEF TrackingSound
<1>3. k \in 1 .. Length[h] /\ 1 .. Length[h] \subseteq 1 .. MaxSegments /\ tracking.id \in 0 .. 3
  <2>1. Length[h] \in 1 .. MaxSegments /\ MaxSegments \in Nat /\ tracking.count = Length[h] - 1
    BY <1>1, ConstantFacts DEF Trying
  <2>2. Length[h] \in Nat /\ Length[h] <= MaxSegments
    BY <2>1
  <2>3. k \in 1 .. Length[h] /\ 1 .. Length[h] \subseteq 1 .. MaxSegments
    BY <1>1, <2>1, <2>2
  <2>4. tracking.id \in 0 .. 3
    BY <1>2, TrackingFields
  <2>. QED
    BY <2>3, <2>4
<1>4. idsOnAir[h] \subseteq {tracking.id}
  BY <1>1 DEF Trying
<1>5. CASE Silent
  <2>1. onAir' = onAir /\ idsOnAir' = idsOnAir
    BY <1>5 DEF Silent, sent
  <2>2. ASSUME Radiate
        PROVE  k \in onAir'[h] /\ onAir' = [onAir EXCEPT ![h] = @ \union {k}]
    <3>1. onAir' = [onAir EXCEPT ![TheFrame.of] = @ \union {TheFrame.part}]
      BY <1>1, <2>2 DEF Radiate
    <3>2. TheFrame.of = h /\ TheFrame.part = k
      BY <1>1 DEF TheFrame
    <3>. QED
      BY <1>1, <1>2, <3>1, <3>2
  <2>. QED
    BY <1>2, <1>3, <1>4, <2>1, <2>2
<1>6. CASE Radiate
  <2>1. /\ onAir' = [onAir EXCEPT ![TheFrame.of] = @ \union {TheFrame.part}]
        /\ idsOnAir' = [idsOnAir EXCEPT ![TheFrame.of] = @ \union {TheFrame.id}]
    BY <1>1, <1>6 DEF Radiate
  <2>2. TheFrame.of = h /\ TheFrame.part = k /\ TheFrame.id = tracking.id
    BY <1>1 DEF TheFrame
  <2>3. onAir' = [onAir EXCEPT ![h] = @ \union {k}] /\ idsOnAir' = [idsOnAir EXCEPT ![h] = @ \union {tracking.id}]
    BY <2>1, <2>2
  <2>. HIDE DEF k, h
  <2>4. /\ onAir'[h] = onAir[h] \union {k} /\ idsOnAir'[h] = idsOnAir[h] \union {tracking.id}
        /\ \A p \in Packets : p # h => onAir'[p] = onAir[p] /\ idsOnAir'[p] = idsOnAir[p]
    BY <1>1, <1>2, <2>3
  <2>5. onAir' \in [Packets -> SUBSET (1 .. MaxSegments)]
    <3>1. onAir[h] \union {k} \in SUBSET (1 .. MaxSegments)
      BY <1>1, <1>2, <1>3
    <3>. QED
      BY <1>2, <2>3, <3>1
  <2>6. idsOnAir' \in [Packets -> SUBSET (0 .. 3)]
    <3>1. idsOnAir[h] \union {tracking.id} \in SUBSET (0 .. 3)
      BY <1>1, <1>2, <1>3
    <3>. QED
      BY <1>2, <2>3, <3>1
  <2>7. \A p \in Packets : onAir'[p] \subseteq 1 .. Length[p] /\ onAir[p] \subseteq onAir'[p]
    BY <1>1, <1>2, <1>3, <2>4
  <2>. QED
    BY <1>3, <1>4, <2>3, <2>4, <2>5, <2>6, <2>7 DEF k, h
<1>. QED
  BY <1>5, <1>6

\* A confirm leaves the tracking true: a segment is marked only if it was sent,
\* or if the confirm was another frame's.
LEMMA ConfirmKeepsTracking ==
  ASSUME QueueSound, TrackingSound, frames # <<>>, NEW success \in BOOLEAN, PhyDataConfirm(success),
         UNCHANGED <<packet, inProgress, paused>>, late' \in Lates, phy' = "ready",
         Silent \/ Radiate, misled' = misled \/ misled' = misled \union {Head1},
         success => Radiate \/ Head1 \in misled'
  PROVE  TrackingSound'
<1>. DEFINE h == Head1
            t == tracking
            m == Marks(success)
            n == Length[h]
<1>1. /\ queue # <<>> /\ queue[1] \in inProgress /\ h \in Packets /\ outcome[h] = "accepted"
      /\ t.bytes = t.segment + 1 /\ Trying(h, t, onAir, idsOnAir, misled) /\ t.segment \in 0 .. t.count
  BY FrameFacts
<1>2. /\ queue \in Seq(Blocks) /\ Len(queue) \in Nat /\ 1 \in 1 .. Len(queue) /\ h = packet[queue[1]]
      /\ outcome \in [Packets -> Outcomes]
      /\ \A i, j \in 1 .. Len(queue) : packet[queue[i]] = packet[queue[j]] => i = j
      /\ \A i \in 2 .. Len(queue) : queue[i] \notin inProgress
  BY <1>1, HeadFacts DEF QueueSound
<1>3. /\ onAir' \in [Packets -> SUBSET (1 .. MaxSegments)] /\ idsOnAir' \in [Packets -> SUBSET (0 .. 3)]
      /\ \A p \in Packets : onAir'[p] \subseteq 1 .. Length[p] /\ onAir[p] \subseteq onAir'[p]
      /\ \A p \in Packets : p # h => onAir'[p] = onAir[p] /\ idsOnAir'[p] = idsOnAir[p]
      /\ idsOnAir'[h] \subseteq {t.id}
      /\ Radiate => t.segment + 1 \in onAir'[h]
  BY RadiateFacts
<1>4. misled \subseteq misled' /\ misled' \subseteq Packets
  BY <1>1 DEF TrackingSound
<1>5. frames' = <<>> /\ (Continues(success) \/ TriesAgain(success) \/ Answers(success))
  BY ConfirmEffects
<1>6. /\ t \in Trackings /\ t.bytes \in Nat /\ t.segment \in Segments /\ t.retry \in Nat /\ t.id \in 0 .. 3
      /\ t.count \in Segments /\ MaxSegments \in Nat \ {0} /\ Segments = 0 .. MaxSegments - 1
      /\ n \in 1 .. MaxSegments /\ n \in Nat /\ Retries[h] \in 0 .. 254 /\ GiveUp = 255 /\ t.count = n - 1
  BY <1>1, TrackingFields, ConstantFacts DEF TrackingSound, Trying
<1>7. /\ m \in [Segments -> BOOLEAN] /\ \A s \in Segments : s > n - 1 => m[s]
      /\ \A s \in Segments : s <= n - 1 /\ m[s] => s + 1 \in onAir'[h] \/ h \in misled'
  <2>1. /\ m \in [Segments -> BOOLEAN]
        /\ \A s \in Segments : m[s] <=> t.txd[s] \/ (success /\ s = t.segment)
    BY <1>6, MarksFacts
  <2>2. /\ \A s \in Segments : s > n - 1 => t.txd[s]
        /\ \A s \in Segments : s <= n - 1 /\ t.txd[s] => s + 1 \in onAir[h] \/ h \in misled
    BY <1>1, <1>6 DEF Trying
  <2>3. success => t.segment + 1 \in onAir'[h] \/ h \in misled'
    BY <1>3
  <2>4. onAir[h] \subseteq onAir'[h]
    BY <1>1, <1>3
  <2>. HIDE DEF m
  <2>5. \A s \in Segments : s > n - 1 => m[s]
    BY <2>1, <2>2
  <2>6. ASSUME NEW s \in Segments, s <= n - 1, m[s] PROVE s + 1 \in onAir'[h] \/ h \in misled'
    <3>1. CASE t.txd[s]
      BY <1>4, <2>2, <2>4, <2>6, <3>1
    <3>2. CASE success /\ s = t.segment
      BY <2>3, <3>2
    <3>. QED
      BY <2>1, <2>6, <3>1, <3>2
  <2>. QED
    BY <2>1, <2>5, <2>6
<1>. HIDE DEF m, h
<1>8. \A p \in Packets : p # h => outcome'[p] = outcome[p]
  BY <1>2, <1>5 DEF Continues, TriesAgain, Answers, h
<1>9. \A i \in 1 .. Len(queue') : \E j \in 1 .. Len(queue) : queue'[i] = queue[j]
  <2>1. CASE queue' = queue
    BY <2>1
  <2>2. CASE queue' = Tail(queue)
    <3>1. Len(queue') = Len(queue) - 1 /\ \A i \in 1 .. Len(queue) - 1 : queue'[i] = queue[i + 1]
      BY <1>1, <1>2, <2>2
    <3>2. \A i \in 1 .. Len(queue) - 1 : i + 1 \in 1 .. Len(queue)
      BY <1>2
    <3>. QED
      BY <3>1, <3>2
  <2>. QED
    BY <1>5, <2>1, <2>2 DEF Continues, TriesAgain, Answers
<1>10. SilentTillBegun'
  <2>1. ASSUME NEW p \in Packets, outcome'[p] = "unasked"
                 \/ (\E i \in 1 .. Len(queue') : packet[queue'[i]] = p /\ queue'[i] \notin inProgress)
        PROVE  onAir'[p] = {} /\ idsOnAir'[p] = {}
    <3>1. CASE outcome'[p] = "unasked"
      <4>1. p # h
        BY <1>1, <1>2, <1>5, <3>1 DEF Continues, TriesAgain, Answers, h
      <4>2. outcome[p] = "unasked"
        BY <1>8, <3>1, <4>1
      <4>3. onAir[p] = {} /\ idsOnAir[p] = {}
        BY <4>2 DEF TrackingSound, SilentTillBegun
      <4>. QED
        BY <1>3, <4>1, <4>3
    <3>2. CASE \E i \in 1 .. Len(queue') : packet[queue'[i]] = p /\ queue'[i] \notin inProgress
      <4>1. PICK j \in 1 .. Len(queue) : packet[queue[j]] = p /\ queue[j] \notin inProgress
        BY <1>9, <3>2
      <4>2. p # h
        BY <1>1, <1>2, <4>1
      <4>3. onAir[p] = {} /\ idsOnAir[p] = {}
        BY <4>1 DEF TrackingSound, SilentTillBegun
      <4>. QED
        BY <1>3, <4>2, <4>3
    <3>. QED
      BY <2>1, <3>1, <3>2
  <2>. QED
    BY <2>1 DEF SilentTillBegun
<1>11. ASSUME NEW p \in Packets \ misled', p # h, outcome'[p] = "success" PROVE onAir'[p] = 1 .. Length[p]
  <2>1. p \in Packets \ misled /\ outcome[p] = "success"
    BY <1>4, <1>8, <1>11
  <2>2. onAir[p] = 1 .. Length[p]
    BY <2>1 DEF TrackingSound, SuccessMeansSent
  <2>. QED
    BY <1>3, <1>11, <2>2
<1>12. CASE Continues(success)
  <2>1. /\ t.bytes < n /\ tracking' = Track(t.bytes, t.segment + 1, t.retry, m, t.id, t.count)
        /\ UNCHANGED <<queue, outcome>>
    BY <1>12 DEF Continues, h, m
  <2>2. /\ tracking'.bytes = t.bytes /\ tracking'.segment = t.segment + 1 /\ tracking'.retry = t.retry
        /\ tracking'.txd = m /\ tracking'.id = t.id /\ tracking'.count = t.count
    BY <2>1, TrackFields
  <2>3. tracking' \in Trackings
    <3>1. t.segment + 1 \in Segments /\ t.bytes \in 0 .. MaxSegments
      BY <1>1, <1>6, <2>1
    <3>2. t.retry \in 0 .. GiveUp
      BY <1>6, TrackingFields
    <3>. QED
      BY <1>6, <1>7, <2>1, <3>1, <3>2 DEF Track, Trackings
  <2>4. Begun'
    BY <1>1, <1>6, <2>2 DEF Begun
  <2>5. Head1' = h
    BY <2>1 DEF Head1, h
  <2>6. Trying(h, tracking', onAir', idsOnAir', misled')
    <3>1. t.bytes <= Length[h] /\ t.retry <= Retries[h] /\ t.count = n - 1
      BY <1>1 DEF Trying
    <3>. QED
      BY <1>3, <1>7, <2>2, <3>1 DEF Trying
  <2>7. HeadSound'
    BY <1>1, <2>1, <2>4, <2>5, <2>6 DEF HeadSound
  <2>8. FrameSound'
    BY <1>1, <1>5, <2>1, <2>2, <2>5 DEF FrameSound
  <2>9. SuccessMeansSent'
    BY <1>1, <1>11, <2>1 DEF SuccessMeansSent
  <2>. QED
    BY <1>3, <1>4, <1>10, <2>3, <2>7, <2>8, <2>9 DEF TrackingSound
<1>13. CASE TriesAgain(success)
  <2>1. /\ t.retry < Retries[h] /\ tracking' = Track(0, 0, t.retry + 1, m, t.id, t.count)
        /\ UNCHANGED <<queue, outcome>>
    BY <1>13 DEF TriesAgain, h, m
  <2>2. /\ tracking'.bytes = 0 /\ tracking'.segment = 0 /\ tracking'.retry = t.retry + 1
        /\ tracking'.txd = m /\ tracking'.id = t.id /\ tracking'.count = t.count
    BY <2>1, TrackFields
  <2>0. t.retry + 1 \in 0 .. 255 /\ t.retry + 1 <= Retries[h] /\ t.retry + 1 > 0
    <3>1. \A r, k : r \in Nat /\ k \in 0 .. 254 /\ r < k => r + 1 \in 0 .. 255 /\ r + 1 <= k /\ r + 1 > 0
      OBVIOUS
    <3>. QED
      BY <1>6, <2>1, <3>1
  <2>3. tracking' \in Trackings
    <3>1. 0 \in Segments /\ 0 \in 0 .. MaxSegments
      BY <1>6
    <3>. QED
      BY <1>6, <1>7, <2>0, <2>1, <3>1 DEF Track, Trackings
  <2>4. Begun'
    BY <2>0, <2>2 DEF Begun
  <2>5. Head1' = h
    BY <2>1 DEF Head1, h
  <2>6. Trying(h, tracking', onAir', idsOnAir', misled')
    <3>1. 0 <= Length[h] /\ t.count = n - 1
      BY <1>6
    <3>. QED
      BY <1>3, <1>7, <2>0, <2>2, <3>1 DEF Trying
  <2>7. HeadSound'
    BY <1>1, <2>1, <2>4, <2>5, <2>6 DEF HeadSound
  <2>8. FrameSound'
    <3>1. 0 < Length[h]
      BY <1>6
    <3>. QED
      BY <1>5, <2>2, <2>5, <3>1 DEF FrameSound
  <2>9. SuccessMeansSent'
    BY <1>1, <1>11, <2>1 DEF SuccessMeansSent
  <2>. QED
    BY <1>3, <1>4, <1>10, <2>3, <2>7, <2>8, <2>9 DEF TrackingSound
<1>14. CASE Answers(success)
  <2>1. /\ tracking' = Track(0, 0, 0, NoMarks, t.id, t.count) /\ queue' = Tail(queue)
        /\ outcome' = [outcome EXCEPT ![h] =
                         IF \A s \in 0 .. t.count : m[s] THEN "success" ELSE "failed"]
    BY <1>14 DEF Answers, h, m
  <2>2. /\ tracking'.bytes = 0 /\ tracking'.segment = 0 /\ tracking'.retry = 0 /\ tracking'.txd = NoMarks
    BY <2>1, TrackFields
  <2>3. tracking' \in Trackings
    <3>1. 0 \in Segments /\ 0 \in 0 .. MaxSegments /\ 0 \in 0 .. GiveUp /\ NoMarks \in [Segments -> BOOLEAN]
      BY <1>6 DEF NoMarks
    <3>. QED
      BY <1>6, <2>1, <3>1 DEF Track, Trackings
  <2>4. ~ Begun'
    BY <2>2 DEF Begun
  <2>5. queue' # <<>> => queue'[1] \notin inProgress
    <3>1. queue' # <<>> => 1 + 1 \in 2 .. Len(queue) /\ queue'[1] = queue[1 + 1]
      BY <1>1, <1>2, <2>1
    <3>. QED
      BY <1>2, <3>1
  <2>6. HeadSound'
    BY <2>2, <2>4, <2>5 DEF HeadSound, NoMarks
  <2>7. FrameSound'
    BY <1>5, <2>2, <2>4 DEF FrameSound
  <2>8. ASSUME h \notin misled', outcome'[h] = "success" PROVE onAir'[h] = 1 .. Length[h]
    <3>1. \A s \in 0 .. t.count : m[s]
      BY <1>1, <1>2, <2>1, <2>8
    <3>2. ASSUME NEW k \in 1 .. Length[h] PROVE k \in onAir'[h]
      <4>1. k - 1 \in 0 .. t.count /\ k - 1 \in Segments /\ k - 1 <= n - 1 /\ (k - 1) + 1 = k
        BY <1>6
      <4>. QED
        BY <1>7, <2>8, <3>1, <4>1
    <3>. QED
      BY <1>1, <1>3, <3>2
  <2>9. SuccessMeansSent'
    BY <1>11, <2>8 DEF SuccessMeansSent
  <2>. QED
    BY <1>3, <1>4, <1>10, <2>3, <2>6, <2>7, <2>9 DEF TrackingSound
<1>. QED
  BY <1>5, <1>12, <1>13, <1>14

\* Pausing, a lost confirm or the PHY's state leave the tracking alone.
LEMMA QuietKeepsTracking ==
  ASSUME TrackingSound,
         UNCHANGED <<queue, packet, inProgress, tracking, frames, outcome, onAir, idsOnAir, misled>>,
         paused' \in BOOLEAN, late' \in Lates, phy' \in {"ready", "cca", "transmitting"},
         phy' # "ready" => frames # <<>>
  PROVE  TrackingSound'
<1>1. Head1' = Head1 /\ TheFrame' = TheFrame /\ Begun' = Begun
  BY DEF Head1, TheFrame, Begun
<1>2. HeadSound'
  BY <1>1 DEF TrackingSound, HeadSound, Trying
<1>3. FrameSound'
  BY <1>1 DEF TrackingSound, FrameSound
<1>4. SilentTillBegun' /\ SuccessMeansSent'
  BY DEF TrackingSound, SilentTillBegun, SuccessMeansSent
<1>. QED
  BY <1>2, <1>3, <1>4 DEF TrackingSound

\* A frame confirmed: what the actions that confirm one have in common.
Confirms(success) ==
  /\ frames # <<>> /\ PhyDataConfirm(success)
  /\ UNCHANGED <<packet, inProgress, paused>> /\ late' \in Lates /\ phy' = "ready"
  /\ Silent \/ Radiate
  /\ misled' = misled \/ misled' = misled \union {Head1}
  /\ success => Radiate \/ Head1 \in misled'

\* Nothing the properties speak of changes.
Quiet ==
  /\ UNCHANGED <<queue, packet, inProgress, tracking, frames, outcome, onAir, idsOnAir, misled>>
  /\ paused' \in BOOLEAN /\ late' \in Lates /\ phy' \in {"ready", "cca", "transmitting"}
  /\ phy' # "ready" => frames # <<>>

\* A frame that may have been transmitted is to be offered again.
Repeats ==
  /\ frames # <<>> /\ Radiate
  /\ UNCHANGED <<queue, packet, inProgress, tracking, frames, outcome, paused, misled>>
  /\ late' \in Lates /\ phy' = "ready"

LEMMA RepeatKeepsTracking ==
  ASSUME QueueSound, TrackingSound, Repeats
  PROVE  TrackingSound'
<1>1. /\ queue # <<>> /\ queue[1] \in inProgress /\ Head1 \in Packets /\ outcome[Head1] = "accepted"
      /\ Trying(Head1, tracking, onAir, idsOnAir, misled) /\ Begun
  BY FrameFacts DEF Repeats
<1>2. /\ onAir' \in [Packets -> SUBSET (1 .. MaxSegments)] /\ idsOnAir' \in [Packets -> SUBSET (0 .. 3)]
      /\ \A p \in Packets : onAir'[p] \subseteq 1 .. Length[p] /\ onAir[p] \subseteq onAir'[p]
      /\ \A p \in Packets : p # Head1 => onAir'[p] = onAir[p] /\ idsOnAir'[p] = idsOnAir[p]
      /\ idsOnAir'[Head1] \subseteq {tracking.id}
  BY RadiateFacts DEF Repeats
<1>3. Head1' = Head1 /\ TheFrame' = TheFrame /\ Begun'
  BY <1>1 DEF Repeats, Head1, TheFrame, Begun
<1>4. Trying(Head1, tracking, onAir', idsOnAir', misled)
  <2>1. onAir[Head1] \subseteq onAir'[Head1]
    BY <1>1, <1>2
  <2>. QED
    BY <1>1, <1>2, <2>1 DEF Trying
<1>5. HeadSound'
  BY <1>1, <1>3, <1>4 DEF HeadSound, Repeats
<1>6. FrameSound'
  BY <1>3 DEF TrackingSound, FrameSound, Repeats
<1>7. ASSUME NEW p \in Packets,
             outcome[p] = "unasked"
               \/ (\E i \in 1 .. Len(queue) : packet[queue[i]] = p /\ queue[i] \notin inProgress)
      PROVE  onAir'[p] = {} /\ idsOnAir'[p] = {}
  <2>1. p # Head1
    <3>1. CASE outcome[p] = "unasked"
      BY <1>1, <3>1
    <3>2. CASE \E i \in 1 .. Len(queue) : packet[queue[i]] = p /\ queue[i] \notin inProgress
      <4>1. /\ 1 \in 1 .. Len(queue) /\ Head1 = packet[queue[1]]
            /\ \A i, j \in 1 .. Len(queue) : packet[queue[i]] = packet[queue[j]] => i = j
        BY <1>1, HeadFacts DEF QueueSound
      <4>. QED
        BY <1>1, <3>2, <4>1
    <3>. QED
      BY <1>7, <3>1, <3>2
  <2>2. onAir[p] = {} /\ idsOnAir[p] = {}
    BY <1>7 DEF TrackingSound, SilentTillBegun
  <2>. QED
    BY <1>2, <2>1, <2>2
<1>8. SilentTillBegun'
  BY <1>7 DEF SilentTillBegun, Repeats
<1>9. SuccessMeansSent'
  <2>1. ASSUME NEW p \in Packets \ misled, outcome[p] = "success" PROVE onAir'[p] = 1 .. Length[p]
    <3>1. p # Head1 /\ onAir[p] = 1 .. Length[p]
      BY <1>1, <2>1 DEF TrackingSound, SuccessMeansSent
    <3>. QED
      BY <1>2, <3>1
  <2>. QED
    BY <2>1 DEF SuccessMeansSent, Repeats
<1>. QED
  BY <1>2, <1>5, <1>6, <1>8, <1>9 DEF TrackingSound, Repeats

\* A packet not in progress is withdrawn.
Withdraws ==
  /\ \E k \in 1 .. Len(queue) :
       /\ queue[k] \notin inProgress /\ queue' = RemoveAt(queue, k)
       /\ outcome' = [outcome EXCEPT ![packet[queue[k]]] = "withdrawn"]
  /\ UNCHANGED <<packet, inProgress, tracking, frames, phy, paused, late, onAir, idsOnAir, misled>>

\* A frame the MAC no longer waits for is transmitted or not.
LEMMA AbandonFacts ==
  ASSUME late \in Lates, NEW own, own = late.own \/ (late.own > 0 /\ own = late.own - 1),
         NEW madeUp \in BOOLEAN, Abandon(own, madeUp)
  PROVE  late' \in Lates /\ (Silent \/ Radiate)
<1>1. own \in 0 .. MaxLate
  BY SwitchesAssumption DEF Lates
<1>2. CASE phy = "transmitting"
  <2>1. /\ Radiate \/ Silent
        /\ late' \in [own : {own, own + 1} \intersect 0 .. MaxLate, madeUp : {madeUp}]
    BY <1>2 DEF Abandon
  <2>2. {own, own + 1} \intersect 0 .. MaxLate \subseteq 0 .. MaxLate /\ {madeUp} \subseteq BOOLEAN
    OBVIOUS
  <2>. QED
    BY <2>1, <2>2 DEF Lates
<1>3. CASE phy # "transmitting"
  BY <1>1, <1>3 DEF Abandon, Lates
<1>. QED
  BY <1>2, <1>3

\* Every step is one of these, when nothing in progress is withdrawn.
LEMMA KindsOfStep ==
  ASSUME QueueSound, TrackingSound, FlushLimit <= 1, Withdrawable # "any", [Next]_vars
  PROVE  \/ \E p \in Packets : DataReq(p)
         \/ GetNextTxMsg
         \/ \E success \in BOOLEAN : Confirms(success)
         \/ Repeats \/ Quiet \/ Withdraws
<1>1. /\ paused \in BOOLEAN /\ late \in Lates /\ phy \in {"ready", "cca", "transmitting"}
      /\ phy # "ready" => frames # <<>>
      /\ \A b : MayWithdraw(b) => b \notin inProgress
  BY DEF TrackingSound, FrameSound, MayWithdraw
<1>2. CASE StartFrame
  <2>1. CASE phy' = "cca" /\ UNCHANGED <<frames, queue, pool, tracking, outcome>>
    BY <1>1, <1>2, <2>1 DEF StartFrame, Quiet, Silent, sent
  <2>2. CASE PhyDataConfirm(FALSE) /\ UNCHANGED phy
    BY <1>1, <1>2, <2>2 DEF StartFrame, Confirms
  <2>. QED
    BY <1>2, <2>1, <2>2 DEF StartFrame
<1>3. CASE Transmit \/ ConfirmBusy \/ CheckPHYTimeout \/ PauseTx
  <2>1. CASE CheckPHYTimeout
    <3>1. late' \in Lates
      BY <1>1, <2>1 DEF CheckPHYTimeout, Lates
    <3>. QED
      BY <1>1, <2>1, <3>1 DEF CheckPHYTimeout, Quiet, history, sent
  <2>. QED
    BY <1>1, <1>3, <2>1 DEF Transmit, ConfirmBusy, PauseTx, Quiet, history, sent
<1>4. CASE NoTransmit
  BY <1>1, <1>4 DEF NoTransmit, Confirms
<1>5. CASE Confirm
  BY <1>1, <1>5 DEF Confirm, Confirms
<1>6. CASE ConfirmTimeout
  <2>1. late' \in Lates /\ (Silent \/ Radiate)
    <3>1. late \in Lates /\ Abandon(late.own, FALSE)
      BY <1>1, <1>6 DEF ConfirmTimeout
    <3>. QED
      BY <3>1, AbandonFacts
  <2>2. CASE frames = <<>>
    BY <1>1, <1>6, <2>1, <2>2 DEF ConfirmTimeout, Quiet, PhyDataConfirm, Silent, Radiate, sent
  <2>3. CASE frames # <<>>
    BY <1>1, <1>6, <2>1, <2>3 DEF ConfirmTimeout, Confirms
  <2>. QED
    BY <2>2, <2>3
<1>7. CASE ConfirmLate
  <2>1. late' \in Lates /\ (Silent \/ Radiate)
    <3>1. late \in Lates /\ late.own > 0 /\ late.madeUp \in BOOLEAN /\ Abandon(late.own - 1, late.madeUp)
      BY <1>1, <1>7 DEF ConfirmLate, Lates
    <3>. QED
      BY <3>1, AbandonFacts
  <2>2. CASE frames = <<>>
    <3>1. ToSet(frames) = {}
      BY <2>2 DEF ToSet
    <3>2. misled' = misled
      BY <1>7, <3>1 DEF ConfirmLate
    <3>. QED
      BY <1>1, <1>7, <2>1, <2>2, <3>2 DEF ConfirmLate, Quiet, PhyDataConfirm, Silent, Radiate, sent
  <2>3. CASE frames # <<>> /\ UNCHANGED <<frames, queue, pool, tracking, outcome, misled>>
    <3>1. CASE Radiate
      BY <1>7, <2>1, <2>3, <3>1 DEF ConfirmLate, Repeats
    <3>2. CASE Silent
      BY <1>1, <1>7, <2>1, <2>3, <3>2 DEF ConfirmLate, Quiet, Silent, sent
    <3>. QED
      BY <2>1, <3>1, <3>2
  <2>4. CASE frames # <<>> /\ PhyDataConfirm(FALSE) /\ UNCHANGED misled
    BY <1>7, <2>1, <2>4 DEF ConfirmLate, Confirms
  <2>5. CASE /\ frames # <<>> /\ PhyDataConfirm(TRUE)
             /\ misled' = misled \union {f.of : f \in ToSet(frames)}
    <3>1. frames = <<TheFrame>> /\ TheFrame.of = Head1
      BY <2>5, FrameFacts DEF TheFrame
    <3>2. ToSet(frames) = {TheFrame}
      BY <3>1 DEF ToSet
    <3>3. misled' = misled \union {Head1}
      BY <2>5, <3>1, <3>2
    <3>. QED
      BY <1>7, <2>1, <2>5, <3>3 DEF ConfirmLate, Confirms
  <2>. QED
    BY <1>7, <2>2, <2>3, <2>4, <2>5 DEF ConfirmLate
<1>8. CASE Flush
  <2>1. /\ Len(queue) = 1 /\ queue' = RemoveAt(queue, 1) /\ MayWithdraw(queue[1])
        /\ outcome' = [outcome EXCEPT ![Head1] = "withdrawn"]
    BY <1>8, FlushFacts
  <2>2. 1 \in 1 .. Len(queue) /\ queue[1] \notin inProgress
    BY <1>1, <2>1
  <2>. QED
    BY <1>8, <2>1, <2>2 DEF Flush, Withdraws, Head1, sent
<1>9. CASE \E i \in DOMAIN queue : Purge(i)
  <2>1. PICK i \in 1 .. Len(queue) : Purge(i)
    BY <1>9, HeadFacts
  <2>. QED
    BY <1>1, <2>1 DEF Purge, Withdraws, sent
<1>10. CASE UNCHANGED vars
  BY <1>1, <1>10 DEF vars, Quiet, history, sent
<1>. QED
  BY <1>2, <1>3, <1>4, <1>5, <1>6, <1>7, <1>8, <1>9, <1>10 DEF Next

\* Every step leaves the tracking true, when nothing in progress is withdrawn.
LEMMA NextKeepsTracking ==
  ASSUME QueueSound, TrackingSound, FlushLimit <= 1, Withdrawable # "any", [Next]_vars
  PROVE  TrackingSound'
<1>1. CASE \E p \in Packets : DataReq(p)
  BY <1>1, DataReqKeepsTracking
<1>2. CASE GetNextTxMsg
  BY <1>2, GetNextKeepsTracking
<1>3. CASE \E success \in BOOLEAN : Confirms(success)
  <2>1. PICK success \in BOOLEAN : Confirms(success)
    BY <1>3
  <2>2. /\ frames # <<>> /\ PhyDataConfirm(success)
        /\ UNCHANGED <<packet, inProgress, paused>> /\ late' \in Lates /\ phy' = "ready"
        /\ Silent \/ Radiate
        /\ misled' = misled \/ misled' = misled \union {Head1}
        /\ success => Radiate \/ Head1 \in misled'
    BY <2>1 DEF Confirms
  <2>. QED
    BY <2>2, ConfirmKeepsTracking
<1>4. CASE Quiet
  BY <1>4, QuietKeepsTracking DEF Quiet
<1>6. CASE Repeats
  BY <1>6, RepeatKeepsTracking
<1>5. CASE Withdraws
  <2>1. PICK k \in 1 .. Len(queue) :
          /\ queue[k] \notin inProgress /\ queue' = RemoveAt(queue, k)
          /\ outcome' = [outcome EXCEPT ![packet[queue[k]]] = "withdrawn"]
    BY <1>5 DEF Withdraws
  <2>. QED
    BY <1>5, <2>1, WithdrawKeepsTracking DEF Withdraws
<1>. QED
  BY <1>1, <1>2, <1>3, <1>4, <1>5, <1>6, KindsOfStep

Sound == QueueSound /\ TrackingSound

LEMMA AlwaysSound ==
  ASSUME FlushLimit <= 1, Withdrawable # "any"
  PROVE  Spec => []Sound
<1>1. Init => Sound
  BY InitQueueSound, InitTrackingSound DEF Sound
<1>2. Sound /\ [Next]_vars => Sound'
  BY NextKeepsQueue, NextKeepsTracking DEF Sound
<1>. QED
  BY <1>1, <1>2, PTL DEF Spec

-----------------------------------------------------------------------------
(* What follows.                                                            *)

\* Every variable keeps to the values the code can give it: in particular the
\* packet's bytes, segment and retry counts never leave their ranges.
THEOREM TransmitTyped ==
  ASSUME FlushLimit <= 1, Withdrawable # "any"
  PROVE  Spec => []TypeOK
<1>1. Sound => TypeOK
  <2>1. SUFFICES ASSUME Sound PROVE TypeOK
    OBVIOUS
  <2>2. pool \in Pools
    BY <2>1 DEF Sound, QueueSound, Holds
  <2>3. frames \in Seq(Frame) /\ Len(frames) <= 1
    <3>1. CASE frames = <<>>
      BY <3>1
    <3>2. CASE frames # <<>>
      <4>1. /\ frames = <<TheFrame>> /\ Head1 \in Packets /\ tracking.bytes = tracking.segment + 1
        BY <2>1, <3>2, FrameFacts DEF Sound
      <4>2. /\ tracking.bytes \in 0 .. MaxSegments /\ tracking.segment \in Segments
            /\ tracking.count \in Segments /\ tracking.id \in 0 .. 3
        BY <2>1, TrackingFields DEF Sound, TrackingSound
      <4>3. tracking.bytes \in 1 .. MaxSegments
        BY <4>1, <4>2, ConstantFacts
      <4>4. TheFrame \in Frame
        BY <4>1, <4>2, <4>3 DEF TheFrame, Frame
      <4>. QED
        BY <4>1, <4>4
    <3>. QED
      BY <3>1, <3>2
  <2>. QED
    BY <2>1, <2>2, <2>3 DEF Sound, QueueSound, TrackingSound, Trackings, Lates, TypeOK
<1>. QED
  BY <1>1, AlwaysSound, PTL

\* MAC_PacketManagement.c:454: success is reported only of a packet of which
\* every segment was transmitted, but for the packets a late confirm was taken for.
THEOREM SuccessIsSent ==
  ASSUME FlushLimit <= 1, Withdrawable # "any"
  PROVE  Spec => []SuccessMeansSent
<1>1. Sound => SuccessMeansSent
  BY DEF Sound, TrackingSound
<1>. QED
  BY <1>1, AlwaysSound, PTL

\* The frames of a packet can be put together: a frame's segment number is that
\* of the part it carries, and all tries of a packet go out under one id.
THEOREM FramesFit ==
  ASSUME FlushLimit <= 1, Withdrawable # "any"
  PROVE  Spec => []FramesFitTogether
<1>. DEFINE OneId == \A p \in Packets : \A a, b \in idsOnAir[p] : a = b
<1>1. Init => OneId
  BY DEF Init
<1>2. Sound /\ OneId /\ [Next]_vars => OneId'
  <2>. SUFFICES ASSUME Sound, OneId, [Next]_vars PROVE OneId'
    OBVIOUS
  <2>1. CASE UNCHANGED idsOnAir
    BY <2>1
  <2>2. CASE Repeats \/ \E success \in BOOLEAN : Confirms(success)
    <3>1. frames # <<>> /\ (Silent \/ Radiate)
      BY <2>2 DEF Confirms, Repeats
    <3>2. /\ \A p \in Packets : p # Head1 => idsOnAir'[p] = idsOnAir[p]
          /\ idsOnAir'[Head1] \subseteq {tracking.id}
      BY <3>1, RadiateFacts DEF Sound
    <3>. QED
      BY <3>2
  <2>3. CASE \E p \in Packets : DataReq(p)
    BY <2>1, <2>3 DEF DataReq, sent
  <2>4. CASE GetNextTxMsg \/ Quiet \/ Withdraws
    BY <2>1, <2>4 DEF GetNextTxMsg, Quiet, Withdraws, history, sent
  <2>. QED
    BY <2>2, <2>3, <2>4, KindsOfStep DEF Sound
<1>3. Sound /\ OneId => FramesFitTogether
  <2>. SUFFICES ASSUME Sound, OneId PROVE FramesFitTogether
    OBVIOUS
  <2>1. ASSUME NEW i \in DOMAIN frames
        PROVE  frames[i].part = frames[i].segment + 1 /\ frames[i].count = Length[frames[i].of] - 1
    <3>1. frames # <<>>
      BY <2>1
    <3>2. /\ frames = <<TheFrame>> /\ tracking.bytes = tracking.segment + 1
          /\ tracking.count = Length[Head1] - 1
      BY <3>1, FrameFacts DEF Sound, Trying
    <3>3. frames[i] = TheFrame
      BY <2>1, <3>2
    <3>4. TheFrame.part = tracking.bytes /\ TheFrame.segment = tracking.segment
          /\ TheFrame.count = tracking.count /\ TheFrame.of = Head1
      BY DEF TheFrame
    <3>. QED
      BY <3>2, <3>3, <3>4
  <2>. QED
    BY <2>1 DEF FramesFitTogether
<1>. QED
  BY <1>1, <1>2, <1>3, AlwaysSound, PTL DEF Spec

-----------------------------------------------------------------------------
(* The data service.                                                        *)

\* What a step that answers or withdraws one packet does to the outcomes the
\* service sees.
LEMMA HonestOf ==
  ASSUME NEW h \in Packets, NEW o \in {"accepted", "success", "failed", "withdrawn", "refused"},
         outcome \in [Packets -> Outcomes], outcome' = [outcome EXCEPT ![h] = o],
         outcome[h] \in {"accepted", "unasked"}, misled' = misled \/ misled' = misled \union {h}
  PROVE  LET ho == [p \in Packets |-> Honest(p)]
         IN /\ ho[h] = outcome[h]
            /\ \E a \in {o} \union (IF o = "success" THEN {"failed"} ELSE {}) :
                 /\ [p \in Packets |-> Honest(p)'] = [ho EXCEPT ![h] = a]
                 /\ a = "success" => h \notin misled'
<1>. DEFINE ho == [p \in Packets |-> Honest(p)]
            a == IF o = "success" /\ h \in misled' THEN "failed" ELSE o
<1>1. ho[h] = outcome[h]
  BY DEF Honest
<1>2. ASSUME NEW p \in Packets PROVE Honest(p)' = IF p = h THEN a ELSE ho[p]
  <2>1. CASE p = h
    <3>1. outcome'[h] = o
      OBVIOUS
    <3>. QED
      BY <2>1, <3>1 DEF Honest
  <2>2. CASE p # h
    <3>1. outcome'[p] = outcome[p] /\ (p \in misled' <=> p \in misled)
      BY <2>2
    <3>. QED
      BY <2>2, <3>1 DEF Honest
  <2>. QED
    BY <2>1, <2>2
<1>3. [p \in Packets |-> Honest(p)'] = [ho EXCEPT ![h] = a]
  <2>. HIDE DEF a
  <2>1. [ho EXCEPT ![h] = a] = [p \in Packets |-> IF p = h THEN a ELSE ho[p]]
    OBVIOUS
  <2>. HIDE DEF ho
  <2>. QED
    BY <1>2, <2>1
<1>. QED
  BY <1>1, <1>3

\* Each step is one of the service's, or none.
LEMMA StepServes ==
  ASSUME Sound, Sound', FlushLimit <= 1, Withdrawable # "any", [Next]_vars
  PROVE  [Service!ServiceNext]_(Service!vars)
<1>. DEFINE ho == [p \in Packets |-> Honest(p)]
            ho1 == [p \in Packets |-> Honest(p)']
<1>1. outcome \in [Packets -> Outcomes] /\ onAir \in [Packets -> SUBSET (1 .. MaxSegments)]
  BY DEF Sound, QueueSound, TrackingSound
<1>2. ASSUME ho1 = ho, onAir' = onAir PROVE UNCHANGED Service!vars
  BY <1>2 DEF Service!vars
<1>3. ASSUME UNCHANGED <<outcome, onAir, misled>> PROVE UNCHANGED Service!vars
  <2>1. ho1 = ho
    BY <1>3 DEF Honest
  <2>. QED
    BY <1>2, <1>3, <2>1
<1>4. ASSUME NEW p \in Packets, DataReq(p) PROVE Service!Request(p)
  <2>1. /\ outcome[p] = "unasked" /\ UNCHANGED <<onAir, misled>>
        /\ outcome' = [outcome EXCEPT ![p] = "accepted"] \/ outcome' = [outcome EXCEPT ![p] = "refused"]
    BY <1>4 DEF DataReq, sent
  <2>2. PICK o \in {"accepted", "refused"} : outcome' = [outcome EXCEPT ![p] = o]
    BY <2>1
  <2>3. ho[p] = "unasked" /\ ho1 = [ho EXCEPT ![p] = o]
    <3>1. ho[p] = outcome[p] /\ \E a \in {o} \union (IF o = "success" THEN {"failed"} ELSE {}) :
                                   ho1 = [ho EXCEPT ![p] = a]
      BY <1>1, <2>1, <2>2, HonestOf
    <3>2. {o} \union (IF o = "success" THEN {"failed"} ELSE {}) = {o}
      BY <2>2
    <3>. QED
      BY <2>1, <3>1, <3>2
  <2>. QED
    BY <2>1, <2>3 DEF Service!Request
<1>5. ASSUME Withdraws PROVE \E P \in SUBSET Packets : Service!Withdraw(P)
  <2>1. PICK k \in 1 .. Len(queue) : outcome' = [outcome EXCEPT ![packet[queue[k]]] = "withdrawn"]
    BY <1>5 DEF Withdraws
  <2>. DEFINE h == packet[queue[k]]
  <2>2. h \in Packets /\ outcome[h] = "accepted" /\ UNCHANGED <<onAir, misled>>
    BY <1>5 DEF Sound, QueueSound, Withdraws
  <2>. HIDE DEF h
  <2>3. ho[h] = "accepted" /\ ho1 = [ho EXCEPT ![h] = "withdrawn"]
    <3>1. outcome' = [outcome EXCEPT ![h] = "withdrawn"]
      BY <2>1 DEF h
    <3>. QED
      BY <1>1, <2>2, <3>1, HonestOf
  <2>4. ho1 = [p \in Packets |-> IF p \in {h} THEN "withdrawn" ELSE ho[p]]
    BY <2>3
  <2>5. Service!Withdraw({h})
    BY <2>2, <2>3, <2>4 DEF Service!Withdraw
  <2>. QED
    BY <2>2, <2>5
<1>6. ASSUME NEW success \in BOOLEAN, Confirms(success)
      PROVE  Service!ServiceNext \/ UNCHANGED Service!vars
  <2>. DEFINE h == Head1
              k == tracking.segment + 1
  <2>1. /\ frames # <<>> /\ PhyDataConfirm(success) /\ (Silent \/ Radiate)
        /\ misled' = misled \/ misled' = misled \union {h}
    BY <1>6 DEF Confirms
  <2>2. h \in Packets /\ outcome[h] = "accepted"
    BY <2>1, FrameFacts DEF Sound
  <2>3. Continues(success) \/ TriesAgain(success) \/ Answers(success)
    BY <2>1, ConfirmEffects DEF Sound
  <2>4. Radiate => k \in 1 .. Length[h] /\ onAir' = [onAir EXCEPT ![h] = @ \union {k}]
    BY <2>1, RadiateFacts DEF Sound
  <2>. HIDE DEF h, k
  <2>5. PICK o \in {"accepted", "success", "failed"} : outcome' = [outcome EXCEPT ![h] = o]
    <3>1. CASE UNCHANGED outcome
      <4>1. outcome' = [outcome EXCEPT ![h] = "accepted"]
        BY <1>1, <2>2, <3>1
      <4>. QED
        BY <4>1
    <3>2. CASE Answers(success)
      BY <3>2 DEF Answers, h
    <3>. QED
      BY <2>3, <3>1, <3>2 DEF Continues, TriesAgain
  <2>6. ho[h] = "accepted" /\ \E a \in {"accepted", "success", "failed"} :
          ho1 = [ho EXCEPT ![h] = a] /\ (a = "success" => o = "success" /\ h \notin misled')
    BY <1>1, <2>1, <2>2, <2>5, HonestOf
  <2>7. PICK a \in {"accepted", "success", "failed"} :
          ho1 = [ho EXCEPT ![h] = a] /\ (a = "success" => o = "success" /\ h \notin misled')
    BY <2>6
  <2>8. a = "success" => onAir'[h] = 1 .. Length[h]
    <3>1. o = "success" => outcome'[h] = "success"
      BY <1>1, <2>2, <2>5
    <3>2. SuccessMeansSent'
      BY DEF Sound, TrackingSound
    <3>3. outcome'[h] = "success" /\ h \notin misled' => onAir'[h] = 1 .. Length[h]
      BY <2>2, <3>2 DEF SuccessMeansSent
    <3>. QED
      BY <2>7, <3>1, <3>3
  <2>9. a = "accepted" => ho1 = ho
    BY <2>2, <2>6, <2>7
  <2>10. ho1[h] = a
    BY <2>2, <2>7
  <2>11. CASE Radiate
    <3>1. Service!Transmit(h, k)
      <4>1. ho1 \in {ho} \union {[ho EXCEPT ![h] = x] : x \in {"success", "failed"}}
        BY <2>7, <2>9
      <4>. QED
        BY <2>4, <2>6, <2>8, <2>10, <2>11, <4>1 DEF Service!Transmit, Service!Parts
    <3>. QED
      BY <2>2, <2>4, <2>11, <3>1 DEF Service!ServiceNext, Service!Parts
  <2>12. CASE Silent
    <3>1. onAir' = onAir
      BY <2>12 DEF Silent, sent
    <3>2. CASE a = "accepted"
      BY <1>2, <2>9, <3>1, <3>2
    <3>3. CASE a # "accepted"
      <4>1. Service!Answer(h, a)
        BY <2>6, <2>7, <2>8, <3>1 DEF Service!Answer, Service!Parts
      <4>. QED
        BY <2>2, <3>3, <4>1 DEF Service!ServiceNext
    <3>. QED
      BY <3>2, <3>3
  <2>. QED
    BY <2>1, <2>11, <2>12
<1>8. CASE Repeats
  <2>. DEFINE h == Head1
              k == tracking.segment + 1
  <2>1. frames # <<>> /\ Radiate /\ UNCHANGED <<outcome, misled>>
    BY <1>8 DEF Repeats
  <2>2. h \in Packets /\ outcome[h] = "accepted"
    BY <2>1, FrameFacts DEF Sound
  <2>3. k \in 1 .. Length[h] /\ onAir' = [onAir EXCEPT ![h] = @ \union {k}]
    BY <2>1, RadiateFacts DEF Sound
  <2>. HIDE DEF h, k
  <2>4. ho1 = ho /\ ho[h] = "accepted"
    BY <2>1, <2>2 DEF Honest
  <2>5. Service!Transmit(h, k)
    BY <2>2, <2>3, <2>4 DEF Service!Transmit
  <2>. QED
    BY <2>2, <2>3, <2>5 DEF Service!ServiceNext, Service!Parts
<1>7. CASE GetNextTxMsg \/ Quiet
  BY <1>3, <1>7 DEF GetNextTxMsg, Quiet, history, sent
<1>. QED
  BY <1>4, <1>5, <1>6, <1>7, <1>8, KindsOfStep DEF Sound, Service!ServiceNext

\* The MAC implements the data service its users rely on, for every number of
\* packets, blocks and segments.
THEOREM MacServesData ==
  ASSUME FlushLimit <= 1, Withdrawable # "any"
  PROVE  Spec => DataService
<1>1. Init => Service!ServiceInit
  BY DEF Init, Service!ServiceInit, Honest
<1>2. Sound /\ Sound' /\ [Next]_vars => [Service!ServiceNext]_(Service!vars)
  BY StepServes
<1>. QED
  BY <1>1, <1>2, AlwaysSound, PTL DEF Spec, DataService, Service!ServiceSpec
=============================================================================
