------------------------------ MODULE ListFacts ------------------------------
(***************************************************************************)
(* Facts the proofs about lists share: sequences into which an element is   *)
(* put and from which one is taken, and induction over their places.        *)
(***************************************************************************)
EXTENDS SequencesExt, SequenceTheorems, WellFoundedInduction, NaturalsInduction, TLAPS

\* A non-empty set of natural numbers has a least member.
LEMMA Least ==
  ASSUME NEW S \in SUBSET Nat, S # {}
  PROVE  \E m \in S : \A n \in S : m <= n
<1>1. PICK m \in S : \A n \in S : ~ (<<n, m>> \in OpToRel(<, Nat))
  BY WFMin, NatLessThanWellFounded
<1>2. \A n \in S : ~ (n < m)
  BY <1>1 DEF OpToRel
<1>. QED
  BY <1>2

\* Induction over the places of a list, for what is true at the places in P.
LEMMA Climb ==
  ASSUME NEW n \in Nat, NEW P, 0 \in P, \A i \in 1 .. n : i - 1 \in P => i \in P
  PROVE  0 .. n \subseteq P
<1>. DEFINE S == (0 .. n) \ P
<1>1. SUFFICES ASSUME S # {} PROVE FALSE
  OBVIOUS
<1>0. S \in SUBSET Nat
  OBVIOUS
<1>2. PICK m \in S : \A k \in S : m <= k
  <2>. HIDE DEF S
  <2>. QED
    BY <1>0, <1>1, Least
<1>3. m \in 1 .. n /\ m - 1 \in 0 .. n /\ m - 1 \notin S
  BY <1>2
<1>. QED
  BY <1>2, <1>3

-----------------------------------------------------------------------------
(* Sequences without repetition.                                            *)

\* The entries of a sequence into which an element was put.
LEMMA InsertEntries ==
  ASSUME NEW S, NEW l \in Seq(S), NEW s \in S, NEW at \in 1 .. Len(l) + 1
  PROVE  /\ InsertAt(l, at, s) \in Seq(S) /\ Len(InsertAt(l, at, s)) = Len(l) + 1
         /\ \A i \in 1 .. Len(l) + 1 :
              InsertAt(l, at, s)[i] = IF i < at THEN l[i] ELSE IF i = at THEN s ELSE l[i - 1]
<1>. DEFINE a == SubSeq(l, 1, at - 1)  b == SubSeq(l, at, Len(l))  m == InsertAt(l, at, s)
<1>1. a \in Seq(S) /\ Len(a) = at - 1 /\ \A i \in 1 .. at - 1 : a[i] = l[i]
  BY SubSeqProperties
<1>2. /\ b \in Seq(S) /\ Len(b) = Len(l) - at + 1
      /\ \A i \in 1 .. Len(l) - at + 1 : b[i] = l[at + i - 1]
  BY SubSeqProperties
<1>3. m = a \o <<s>> \o b
  BY DEF InsertAt
<1>4. /\ m \in Seq(S) /\ Len(m) = Len(l) + 1
      /\ \A i \in 1 .. Len(l) + 1 :
           m[i] = IF i < at THEN l[i] ELSE IF i = at THEN s ELSE l[i - 1]
  <2>. DEFINE c == a \o <<s>>
  <2>1. c \in Seq(S) /\ Len(c) = at /\ \A i \in 1 .. at : c[i] = IF i < at THEN l[i] ELSE s
    BY <1>1
  <2>2. m = c \o b
    BY <1>3
  <2>. HIDE DEF a, b, c
  <2>3. m \in Seq(S) /\ Len(m) = Len(c) + Len(b)
    BY <1>2, <2>1, <2>2, ConcatProperties
  <2>4. ASSUME NEW i \in 1 .. Len(l) + 1
        PROVE  m[i] = IF i < at THEN l[i] ELSE IF i = at THEN s ELSE l[i - 1]
    <3>1. CASE i <= at
      BY <1>2, <2>1, <2>2, <3>1
    <3>2. CASE ~ (i <= at)
      <4>1. i - at \in 1 .. Len(l) - at + 1 /\ m[i] = b[i - at]
        BY <1>2, <2>1, <2>2, <3>2
      <4>. QED
        BY <1>2, <3>2, <4>1
    <3>. QED
      BY <3>1, <3>2
  <2>. QED
    BY <1>2, <2>1, <2>3, <2>4
<1>. QED
  BY <1>4 DEF m

\* An element put into a sequence that does not have it.
LEMMA InsertFacts ==
  ASSUME NEW S, NEW l \in Seq(S), NEW s \in S, NEW at \in 1 .. Len(l) + 1,
         IsInjective(l), ~ Contains(l, s)
  PROVE  /\ InsertAt(l, at, s) \in Seq(S) /\ IsInjective(InsertAt(l, at, s))
         /\ \A x : Contains(InsertAt(l, at, s), x) <=> Contains(l, x) \/ x = s
         /\ InsertAt(l, at, s) # <<>>
<1>. DEFINE m == InsertAt(l, at, s)
<1>4. /\ m \in Seq(S) /\ Len(m) = Len(l) + 1
      /\ \A i \in 1 .. Len(l) + 1 :
           m[i] = IF i < at THEN l[i] ELSE IF i = at THEN s ELSE l[i - 1]
  BY InsertEntries
<1>. HIDE DEF m
<1>5. IsInjective(m)
  <2>1. ASSUME NEW i \in 1 .. Len(l) + 1, NEW j \in 1 .. Len(l) + 1, i < j
        PROVE  m[i] # m[j]
    <3>1. CASE i < at /\ j < at
      BY <1>4, <2>1, <3>1 DEF IsInjective
    <3>2. CASE i < at /\ j = at
      BY <1>4, <2>1, <3>2 DEF Contains
    <3>3. CASE i < at /\ j > at
      BY <1>4, <2>1, <3>3 DEF IsInjective
    <3>4. CASE i = at
      <4>1. m[i] = s /\ m[j] = l[j - 1] /\ j - 1 \in 1 .. Len(l)
        BY <1>4, <2>1, <3>4
      <4>. QED
        BY <4>1 DEF Contains
    <3>5. CASE i > at
      BY <1>4, <2>1, <3>5 DEF IsInjective
    <3>. QED
      BY <3>1, <3>2, <3>3, <3>4, <3>5
  <2>. QED
    BY <1>4, <2>1 DEF IsInjective
<1>6. ASSUME NEW x PROVE Contains(m, x) <=> Contains(l, x) \/ x = s
  <2>1. ASSUME NEW j \in 1 .. Len(l) PROVE \E i \in 1 .. Len(m) : m[i] = l[j]
    <3>1. CASE j < at
      BY <1>4, <3>1
    <3>2. CASE ~ (j < at)
      <4>1. j + 1 \in 1 .. Len(m) /\ m[j + 1] = l[j]
        BY <1>4, <3>2
      <4>. QED
        BY <4>1
    <3>. QED
      BY <3>1, <3>2
  <2>2. m[at] = s /\ at \in 1 .. Len(m)
    BY <1>4
  <2>. QED
    BY <1>4, <2>1, <2>2 DEF Contains
<1>. QED
  BY <1>4, <1>5, <1>6 DEF m

\* The entries of a sequence from which one was taken.
LEMMA RemoveEntries ==
  ASSUME NEW S, NEW l \in Seq(S), NEW at \in 1 .. Len(l)
  PROVE  /\ RemoveAt(l, at) \in Seq(S) /\ Len(RemoveAt(l, at)) = Len(l) - 1
         /\ \A i \in 1 .. Len(l) - 1 :
              RemoveAt(l, at)[i] = IF i < at THEN l[i] ELSE l[i + 1]
<1>. DEFINE a == SubSeq(l, 1, at - 1)  b == SubSeq(l, at + 1, Len(l))  m == RemoveAt(l, at)
<1>1. a \in Seq(S) /\ Len(a) = at - 1 /\ \A i \in 1 .. at - 1 : a[i] = l[i]
  BY SubSeqProperties
<1>2. /\ b \in Seq(S) /\ Len(b) = Len(l) - at
      /\ \A i \in 1 .. Len(l) - at : b[i] = l[at + i]
  BY SubSeqProperties
<1>3. m = a \o b
  BY DEF RemoveAt
<1>4. /\ m \in Seq(S) /\ Len(m) = Len(l) - 1
      /\ \A i \in 1 .. Len(l) - 1 : m[i] = IF i < at THEN l[i] ELSE l[i + 1]
  <2>. HIDE DEF a, b
  <2>1. m \in Seq(S) /\ Len(m) = Len(l) - 1
    BY <1>1, <1>2, <1>3
  <2>2. ASSUME NEW i \in 1 .. Len(l) - 1 PROVE m[i] = IF i < at THEN l[i] ELSE l[i + 1]
    <3>1. CASE i < at
      BY <1>1, <1>2, <1>3, <3>1
    <3>2. CASE ~ (i < at)
      <4>1. i - at + 1 \in 1 .. Len(l) - at /\ m[i] = b[i - at + 1]
        BY <1>1, <1>2, <1>3, <3>2
      <4>. QED
        BY <1>2, <3>2, <4>1
    <3>. QED
      BY <3>1, <3>2
  <2>. QED
    BY <2>1, <2>2
<1>. QED
  BY <1>4 DEF m

\* An element taken out of a sequence that has it once.
LEMMA RemoveFacts ==
  ASSUME NEW S, NEW l \in Seq(S), NEW at \in 1 .. Len(l), IsInjective(l)
  PROVE  /\ RemoveAt(l, at) \in Seq(S) /\ IsInjective(RemoveAt(l, at))
         /\ \A x : Contains(RemoveAt(l, at), x) <=> Contains(l, x) /\ x # l[at]
<1>. DEFINE m == RemoveAt(l, at)
<1>4. /\ m \in Seq(S) /\ Len(m) = Len(l) - 1
      /\ \A i \in 1 .. Len(l) - 1 : m[i] = IF i < at THEN l[i] ELSE l[i + 1]
  BY RemoveEntries
<1>. HIDE DEF m
<1>5. IsInjective(m)
  <2>1. ASSUME NEW i \in 1 .. Len(l) - 1, NEW j \in 1 .. Len(l) - 1, i < j
        PROVE  m[i] # m[j]
    <3>. DEFINE i1 == IF i < at THEN i ELSE i + 1
                j1 == IF j < at THEN j ELSE j + 1
    <3>1. i1 \in 1 .. Len(l) /\ j1 \in 1 .. Len(l) /\ i1 # j1
      BY <2>1
    <3>2. m[i] = l[i1] /\ m[j] = l[j1]
      BY <1>4
    <3>3. l[i1] # l[j1]
      <4>. HIDE DEF i1, j1
      <4>. QED
        BY <3>1 DEF IsInjective
    <3>. QED
      BY <3>2, <3>3
  <2>. QED
    BY <1>4, <2>1 DEF IsInjective
<1>6. ASSUME NEW x PROVE Contains(m, x) <=> Contains(l, x) /\ x # l[at]
  <2>1. ASSUME NEW j \in 1 .. Len(l), j # at PROVE \E i \in 1 .. Len(m) : m[i] = l[j]
    <3>1. CASE j < at
      BY <1>4, <3>1
    <3>2. CASE ~ (j < at)
      <4>1. j - 1 \in 1 .. Len(m) /\ m[j - 1] = l[j]
        BY <1>4, <2>1, <3>2
      <4>. QED
        BY <4>1
    <3>. QED
      BY <3>1, <3>2
  <2>2. ASSUME NEW i \in 1 .. Len(m) PROVE \E j \in 1 .. Len(l) : m[i] = l[j] /\ m[i] # l[at]
    <3>1. CASE i < at
      BY <1>4, <3>1 DEF IsInjective
    <3>2. CASE ~ (i < at)
      <4>1. i + 1 \in 1 .. Len(l) /\ m[i] = l[i + 1] /\ i + 1 # at
        BY <1>4, <3>2
      <4>. QED
        BY <4>1 DEF IsInjective
    <3>. QED
      BY <3>1, <3>2
  <2>. QED
    BY <2>1, <2>2 DEF Contains
<1>. QED
  BY <1>4, <1>5, <1>6 DEF m

\* The list after its head has gone (the handler of a tick drops the due timer).
LEMMA TailFacts ==
  ASSUME NEW S, NEW l \in Seq(S), l # <<>>, IsInjective(l)
  PROVE  /\ Head(l) \in S /\ Contains(l, Head(l))
         /\ Tail(l) \in Seq(S) /\ IsInjective(Tail(l))
         /\ \A x : Contains(Tail(l), x) <=> Contains(l, x) /\ x # Head(l)
<1>1. /\ Len(l) \in Nat \ {0} /\ Head(l) = l[1] /\ Tail(l) \in Seq(S)
      /\ Len(Tail(l)) = Len(l) - 1 /\ \A i \in 1 .. Len(l) - 1 : Tail(l)[i] = l[i + 1]
  OBVIOUS
<1>2. IsInjective(Tail(l))
  BY <1>1 DEF IsInjective
<1>3. ASSUME NEW x PROVE Contains(Tail(l), x) <=> Contains(l, x) /\ x # Head(l)
  <2>1. ASSUME NEW i \in 1 .. Len(l) - 1 PROVE \E j \in 1 .. Len(l) : Tail(l)[i] = l[j] /\ l[j] # l[1]
    <3>1. i + 1 \in 1 .. Len(l) /\ i + 1 # 1 /\ 1 \in 1 .. Len(l)
      BY <1>1
    <3>. QED
      BY <1>1, <3>1 DEF IsInjective
  <2>2. ASSUME NEW j \in 1 .. Len(l), j # 1 PROVE \E i \in 1 .. Len(l) - 1 : Tail(l)[i] = l[j]
    <3>1. j - 1 \in 1 .. Len(l) - 1 /\ Tail(l)[j - 1] = l[j]
      BY <1>1, <2>2
    <3>. QED
      BY <3>1
  <2>. QED
    BY <1>1, <2>1, <2>2 DEF Contains
<1>. QED
  BY <1>1, <1>2, <1>3 DEF Contains

=============================================================================
