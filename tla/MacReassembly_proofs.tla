------------------------ MODULE MacReassembly_proofs ------------------------
(***************************************************************************)
(* The MAC's receive side for every number of nodes, packets, buffers,      *)
(* pairs and segments:                                                      *)
(*   - a node is known in one place, whatever goes wrong;                   *)
(*   - as long as timers can be had and there is a pair for each node, the  *)
(*     receiver delivers what a lossy link may: no packet twice, none that  *)
(*     is not whole, none out of order, even if a timer expires while its   *)
(*     frame is handled;                                                    *)
(*   - as long as neither of the two happens, its counters are right, no    *)
(*     segment block is lost and every buffer will be given back.           *)
(* README.md says what TLC finds where the hypotheses do not hold.          *)
(***************************************************************************)
EXTENDS MacReassembly, ListFacts, FiniteSetTheorems

-----------------------------------------------------------------------------
(* The state of MAC_FrameManagement.c, and what its functions assign to it. *)

IsBuffer(x) ==
  x = [state |-> x.state, src |-> x.src, packet |-> x.packet, unicast |-> x.unicast,
       count |-> x.count, parts |-> x.parts, expected |-> x.expected,
       received |-> x.received, held |-> x.held, timer |-> x.timer]

IsPair(x) == x = [inUse |-> x.inUse, src |-> x.src, packet |-> x.packet, timer |-> x.timer]

\* The state has its fields, whatever is in them.
Shape(r) ==
  /\ r = [buffers |-> r.buffers, pairs |-> r.pairs, free |-> r.free, inUse |-> r.inUse,
          unicast |-> r.unicast, expired |-> r.expired, delivered |-> r.delivered]
  /\ r.buffers = [b \in Buffers |-> r.buffers[b]] /\ \A b \in Buffers : IsBuffer(r.buffers[b])
  /\ r.pairs = [p \in Pairs |-> r.pairs[p]] /\ \A p \in Pairs : IsPair(r.pairs[p])
  /\ r.delivered = [n \in Nodes |-> r.delivered[n]]

SetBuffer(r, b, x) == [r EXCEPT !.buffers = [@ EXCEPT ![b] = x]]
SetPair(r, p, x)   == [r EXCEPT !.pairs = [@ EXCEPT ![p] = x]]

\* One of its records is assigned, and nothing else.
LEMMA SetFacts ==
  ASSUME NEW r, Shape(r)
  PROVE  /\ \A b \in Buffers : \A x : IsBuffer(x) =>
              /\ Shape(SetBuffer(r, b, x))
              /\ SetBuffer(r, b, x).buffers[b] = x
              /\ \A c \in Buffers \ {b} : SetBuffer(r, b, x).buffers[c] = r.buffers[c]
              /\ SetBuffer(r, b, x).pairs = r.pairs /\ SetBuffer(r, b, x).free = r.free
              /\ SetBuffer(r, b, x).inUse = r.inUse /\ SetBuffer(r, b, x).unicast = r.unicast
              /\ SetBuffer(r, b, x).expired = r.expired
              /\ SetBuffer(r, b, x).delivered = r.delivered
         /\ \A p \in Pairs : \A x : IsPair(x) =>
              /\ Shape(SetPair(r, p, x))
              /\ SetPair(r, p, x).pairs[p] = x
              /\ \A q \in Pairs \ {p} : SetPair(r, p, x).pairs[q] = r.pairs[q]
              /\ SetPair(r, p, x).buffers = r.buffers /\ SetPair(r, p, x).free = r.free
              /\ SetPair(r, p, x).inUse = r.inUse /\ SetPair(r, p, x).unicast = r.unicast
              /\ SetPair(r, p, x).expired = r.expired
              /\ SetPair(r, p, x).delivered = r.delivered
<1>1. ASSUME NEW b \in Buffers, NEW x, IsBuffer(x)
      PROVE  /\ Shape(SetBuffer(r, b, x))
             /\ SetBuffer(r, b, x).buffers[b] = x
             /\ \A c \in Buffers \ {b} : SetBuffer(r, b, x).buffers[c] = r.buffers[c]
             /\ SetBuffer(r, b, x).pairs = r.pairs /\ SetBuffer(r, b, x).free = r.free
             /\ SetBuffer(r, b, x).inUse = r.inUse /\ SetBuffer(r, b, x).unicast = r.unicast
             /\ SetBuffer(r, b, x).expired = r.expired
             /\ SetBuffer(r, b, x).delivered = r.delivered
  <2>. DEFINE f == [r.buffers EXCEPT ![b] = x]
  <2>1. /\ f = [c \in Buffers |-> f[c]] /\ f[b] = x
        /\ \A c \in Buffers \ {b} : f[c] = r.buffers[c]
    BY DEF Shape
  <2>. HIDE DEF f
  <2>2. SetBuffer(r, b, x) =
          [buffers |-> f, pairs |-> r.pairs, free |-> r.free, inUse |-> r.inUse,
           unicast |-> r.unicast, expired |-> r.expired, delivered |-> r.delivered]
    BY DEF Shape, SetBuffer, f
  <2>3. \A c \in Buffers : IsBuffer(f[c])
    BY <1>1, <2>1 DEF Shape
  <2>4. Shape(SetBuffer(r, b, x))
    BY <2>1, <2>2, <2>3 DEF Shape
  <2>. QED
    BY <2>1, <2>2, <2>4
<1>2. ASSUME NEW p \in Pairs, NEW x, IsPair(x)
      PROVE  /\ Shape(SetPair(r, p, x))
             /\ SetPair(r, p, x).pairs[p] = x
             /\ \A q \in Pairs \ {p} : SetPair(r, p, x).pairs[q] = r.pairs[q]
             /\ SetPair(r, p, x).buffers = r.buffers /\ SetPair(r, p, x).free = r.free
             /\ SetPair(r, p, x).inUse = r.inUse /\ SetPair(r, p, x).unicast = r.unicast
             /\ SetPair(r, p, x).expired = r.expired
             /\ SetPair(r, p, x).delivered = r.delivered
  <2>. DEFINE f == [r.pairs EXCEPT ![p] = x]
  <2>1. /\ f = [q \in Pairs |-> f[q]] /\ f[p] = x
        /\ \A q \in Pairs \ {p} : f[q] = r.pairs[q]
    BY DEF Shape
  <2>. HIDE DEF f
  <2>2. SetPair(r, p, x) =
          [buffers |-> r.buffers, pairs |-> f, free |-> r.free, inUse |-> r.inUse,
           unicast |-> r.unicast, expired |-> r.expired, delivered |-> r.delivered]
    BY DEF Shape, SetPair, f
  <2>3. \A q \in Pairs : IsPair(f[q])
    BY <1>2, <2>1 DEF Shape
  <2>4. Shape(SetPair(r, p, x))
    BY <2>1, <2>2, <2>3 DEF Shape
  <2>. QED
    BY <2>1, <2>2, <2>4
<1>. QED
  BY <1>1, <1>2

\* Another value of one field of the state.
LEMMA StateFacts ==
  ASSUME NEW r, Shape(r)
  PROVE  /\ \A v : LET e == [r EXCEPT !.free = v] IN
              /\ Shape(e) /\ e.buffers = r.buffers /\ e.pairs = r.pairs /\ e.free = v
              /\ e.inUse = r.inUse /\ e.unicast = r.unicast /\ e.expired = r.expired /\ e.delivered = r.delivered
         /\ \A v : LET e == [r EXCEPT !.inUse = v] IN
              /\ Shape(e) /\ e.buffers = r.buffers /\ e.pairs = r.pairs /\ e.free = r.free
              /\ e.inUse = v /\ e.unicast = r.unicast /\ e.expired = r.expired /\ e.delivered = r.delivered
         /\ \A v : LET e == [r EXCEPT !.unicast = v] IN
              /\ Shape(e) /\ e.buffers = r.buffers /\ e.pairs = r.pairs /\ e.free = r.free
              /\ e.inUse = r.inUse /\ e.unicast = v /\ e.expired = r.expired /\ e.delivered = r.delivered
         /\ \A v : LET e == [r EXCEPT !.expired = v] IN
              /\ Shape(e) /\ e.buffers = r.buffers /\ e.pairs = r.pairs /\ e.free = r.free
              /\ e.inUse = r.inUse /\ e.unicast = r.unicast /\ e.expired = v /\ e.delivered = r.delivered
         /\ \A n, v : LET e == [r EXCEPT !.delivered[n] = v] IN
              /\ Shape(e) /\ e.buffers = r.buffers /\ e.pairs = r.pairs /\ e.free = r.free
              /\ e.inUse = r.inUse /\ e.unicast = r.unicast /\ e.expired = r.expired /\ (n \in Nodes => e.delivered[n] = v)
              /\ \A k \in Nodes \ {n} : e.delivered[k] = r.delivered[k]
<1>1. ASSUME NEW v
      PROVE  [r EXCEPT !.free = v] =
               [buffers |-> r.buffers, pairs |-> r.pairs, free |-> v, inUse |-> r.inUse,
                unicast |-> r.unicast, expired |-> r.expired, delivered |-> r.delivered]
  BY DEF Shape
<1>2. ASSUME NEW v
      PROVE  [r EXCEPT !.inUse = v] =
               [buffers |-> r.buffers, pairs |-> r.pairs, free |-> r.free, inUse |-> v,
                unicast |-> r.unicast, expired |-> r.expired, delivered |-> r.delivered]
  BY DEF Shape
<1>3. ASSUME NEW v
      PROVE  [r EXCEPT !.unicast = v] =
               [buffers |-> r.buffers, pairs |-> r.pairs, free |-> r.free, inUse |-> r.inUse,
                unicast |-> v, expired |-> r.expired, delivered |-> r.delivered]
  BY DEF Shape
<1>4. ASSUME NEW v
      PROVE  [r EXCEPT !.expired = v] =
               [buffers |-> r.buffers, pairs |-> r.pairs, free |-> r.free, inUse |-> r.inUse,
                unicast |-> r.unicast, expired |-> v, delivered |-> r.delivered]
  BY DEF Shape
<1>5. ASSUME NEW n, NEW v
      PROVE  LET e == [r EXCEPT !.delivered[n] = v]
                 d == [r.delivered EXCEPT ![n] = v]
             IN /\ e = [buffers |-> r.buffers, pairs |-> r.pairs, free |-> r.free, inUse |-> r.inUse,
                        unicast |-> r.unicast, expired |-> r.expired, delivered |-> d]
                /\ d = [k \in Nodes |-> d[k]] /\ (n \in Nodes => d[n] = v)
                /\ \A k \in Nodes \ {n} : d[k] = r.delivered[k]
  BY DEF Shape
<1>6. ASSUME NEW v
      PROVE  LET e == [r EXCEPT !.free = v] IN
              /\ Shape(e) /\ e.buffers = r.buffers /\ e.pairs = r.pairs /\ e.free = v
              /\ e.inUse = r.inUse /\ e.unicast = r.unicast /\ e.expired = r.expired /\ e.delivered = r.delivered
  BY <1>1 DEF Shape
<1>7. ASSUME NEW v
      PROVE  LET e == [r EXCEPT !.inUse = v] IN
              /\ Shape(e) /\ e.buffers = r.buffers /\ e.pairs = r.pairs /\ e.free = r.free
              /\ e.inUse = v /\ e.unicast = r.unicast /\ e.expired = r.expired /\ e.delivered = r.delivered
  BY <1>2 DEF Shape
<1>8. ASSUME NEW v
      PROVE  LET e == [r EXCEPT !.unicast = v] IN
              /\ Shape(e) /\ e.buffers = r.buffers /\ e.pairs = r.pairs /\ e.free = r.free
              /\ e.inUse = r.inUse /\ e.unicast = v /\ e.expired = r.expired /\ e.delivered = r.delivered
  BY <1>3 DEF Shape
<1>9. ASSUME NEW v
      PROVE  LET e == [r EXCEPT !.expired = v] IN
              /\ Shape(e) /\ e.buffers = r.buffers /\ e.pairs = r.pairs /\ e.free = r.free
              /\ e.inUse = r.inUse /\ e.unicast = r.unicast /\ e.expired = v /\ e.delivered = r.delivered
  BY <1>4 DEF Shape
<1>10. ASSUME NEW n, NEW v
      PROVE  LET e == [r EXCEPT !.delivered[n] = v] IN
              /\ Shape(e) /\ e.buffers = r.buffers /\ e.pairs = r.pairs /\ e.free = r.free
              /\ e.inUse = r.inUse /\ e.unicast = r.unicast /\ e.expired = r.expired /\ (n \in Nodes => e.delivered[n] = v)
              /\ \A k \in Nodes \ {n} : e.delivered[k] = r.delivered[k]
  <2>. DEFINE d == [r.delivered EXCEPT ![n] = v]
              e == [r EXCEPT !.delivered[n] = v]
  <2>1. /\ e = [buffers |-> r.buffers, pairs |-> r.pairs, free |-> r.free, inUse |-> r.inUse,
                unicast |-> r.unicast, expired |-> r.expired, delivered |-> d]
        /\ d = [k \in Nodes |-> d[k]] /\ (n \in Nodes => d[n] = v)
        /\ \A k \in Nodes \ {n} : d[k] = r.delivered[k]
    BY <1>5
  <2>. HIDE DEF d, e
  <2>2. Shape(e)
    BY <2>1 DEF Shape
  <2>3. /\ e.buffers = r.buffers /\ e.pairs = r.pairs /\ e.free = r.free /\ e.inUse = r.inUse
        /\ e.unicast = r.unicast /\ e.expired = r.expired /\ e.delivered = d
    BY <2>1
  <2>. QED
    BY <2>1, <2>2, <2>3 DEF e
<1>. QED
  BY <1>6, <1>7, <1>8, <1>9, <1>10

\* Another value of one field of a buffer.
LEMMA MarkFacts ==
  ASSUME NEW x, IsBuffer(x)
  PROVE  /\ \A v : LET y == [x EXCEPT !.state = v] IN
              /\ IsBuffer(y) /\ y.state = v /\ y.src = x.src /\ y.packet = x.packet
              /\ y.unicast = x.unicast /\ y.count = x.count /\ y.parts = x.parts /\ y.expected = x.expected
              /\ y.received = x.received /\ y.held = x.held /\ y.timer = x.timer
         /\ \A v : LET y == [x EXCEPT !.src = v] IN
              /\ IsBuffer(y) /\ y.state = x.state /\ y.src = v /\ y.packet = x.packet
              /\ y.unicast = x.unicast /\ y.count = x.count /\ y.parts = x.parts /\ y.expected = x.expected
              /\ y.received = x.received /\ y.held = x.held /\ y.timer = x.timer
         /\ \A v : LET y == [x EXCEPT !.packet = v] IN
              /\ IsBuffer(y) /\ y.state = x.state /\ y.src = x.src /\ y.packet = v
              /\ y.unicast = x.unicast /\ y.count = x.count /\ y.parts = x.parts /\ y.expected = x.expected
              /\ y.received = x.received /\ y.held = x.held /\ y.timer = x.timer
         /\ \A v : LET y == [x EXCEPT !.unicast = v] IN
              /\ IsBuffer(y) /\ y.state = x.state /\ y.src = x.src /\ y.packet = x.packet
              /\ y.unicast = v /\ y.count = x.count /\ y.parts = x.parts /\ y.expected = x.expected
              /\ y.received = x.received /\ y.held = x.held /\ y.timer = x.timer
         /\ \A v : LET y == [x EXCEPT !.count = v] IN
              /\ IsBuffer(y) /\ y.state = x.state /\ y.src = x.src /\ y.packet = x.packet
              /\ y.unicast = x.unicast /\ y.count = v /\ y.parts = x.parts /\ y.expected = x.expected
              /\ y.received = x.received /\ y.held = x.held /\ y.timer = x.timer
         /\ \A v : LET y == [x EXCEPT !.parts = v] IN
              /\ IsBuffer(y) /\ y.state = x.state /\ y.src = x.src /\ y.packet = x.packet
              /\ y.unicast = x.unicast /\ y.count = x.count /\ y.parts = v /\ y.expected = x.expected
              /\ y.received = x.received /\ y.held = x.held /\ y.timer = x.timer
         /\ \A v : LET y == [x EXCEPT !.expected = v] IN
              /\ IsBuffer(y) /\ y.state = x.state /\ y.src = x.src /\ y.packet = x.packet
              /\ y.unicast = x.unicast /\ y.count = x.count /\ y.parts = x.parts /\ y.expected = v
              /\ y.received = x.received /\ y.held = x.held /\ y.timer = x.timer
         /\ \A v : LET y == [x EXCEPT !.received = v] IN
              /\ IsBuffer(y) /\ y.state = x.state /\ y.src = x.src /\ y.packet = x.packet
              /\ y.unicast = x.unicast /\ y.count = x.count /\ y.parts = x.parts /\ y.expected = x.expected
              /\ y.received = v /\ y.held = x.held /\ y.timer = x.timer
         /\ \A v : LET y == [x EXCEPT !.held = v] IN
              /\ IsBuffer(y) /\ y.state = x.state /\ y.src = x.src /\ y.packet = x.packet
              /\ y.unicast = x.unicast /\ y.count = x.count /\ y.parts = x.parts /\ y.expected = x.expected
              /\ y.received = x.received /\ y.held = v /\ y.timer = x.timer
         /\ \A v : LET y == [x EXCEPT !.timer = v] IN
              /\ IsBuffer(y) /\ y.state = x.state /\ y.src = x.src /\ y.packet = x.packet
              /\ y.unicast = x.unicast /\ y.count = x.count /\ y.parts = x.parts /\ y.expected = x.expected
              /\ y.received = x.received /\ y.held = x.held /\ y.timer = v
<1>1. ASSUME NEW v
      PROVE  [x EXCEPT !.state = v] =
               [state |-> v, src |-> x.src, packet |-> x.packet, unicast |-> x.unicast,
                count |-> x.count, parts |-> x.parts, expected |-> x.expected, received |-> x.received, held |-> x.held, timer |-> x.timer]
  BY DEF IsBuffer
<1>2. ASSUME NEW v
      PROVE  [x EXCEPT !.src = v] =
               [state |-> x.state, src |-> v, packet |-> x.packet, unicast |-> x.unicast,
                count |-> x.count, parts |-> x.parts, expected |-> x.expected, received |-> x.received, held |-> x.held, timer |-> x.timer]
  BY DEF IsBuffer
<1>3. ASSUME NEW v
      PROVE  [x EXCEPT !.packet = v] =
               [state |-> x.state, src |-> x.src, packet |-> v, unicast |-> x.unicast,
                count |-> x.count, parts |-> x.parts, expected |-> x.expected, received |-> x.received, held |-> x.held, timer |-> x.timer]
  BY DEF IsBuffer
<1>4. ASSUME NEW v
      PROVE  [x EXCEPT !.unicast = v] =
               [state |-> x.state, src |-> x.src, packet |-> x.packet, unicast |-> v,
                count |-> x.count, parts |-> x.parts, expected |-> x.expected, received |-> x.received, held |-> x.held, timer |-> x.timer]
  BY DEF IsBuffer
<1>5. ASSUME NEW v
      PROVE  [x EXCEPT !.count = v] =
               [state |-> x.state, src |-> x.src, packet |-> x.packet, unicast |-> x.unicast,
                count |-> v, parts |-> x.parts, expected |-> x.expected, received |-> x.received, held |-> x.held, timer |-> x.timer]
  BY DEF IsBuffer
<1>6. ASSUME NEW v
      PROVE  [x EXCEPT !.parts = v] =
               [state |-> x.state, src |-> x.src, packet |-> x.packet, unicast |-> x.unicast,
                count |-> x.count, parts |-> v, expected |-> x.expected, received |-> x.received, held |-> x.held, timer |-> x.timer]
  BY DEF IsBuffer
<1>7. ASSUME NEW v
      PROVE  [x EXCEPT !.expected = v] =
               [state |-> x.state, src |-> x.src, packet |-> x.packet, unicast |-> x.unicast,
                count |-> x.count, parts |-> x.parts, expected |-> v, received |-> x.received, held |-> x.held, timer |-> x.timer]
  BY DEF IsBuffer
<1>8. ASSUME NEW v
      PROVE  [x EXCEPT !.received = v] =
               [state |-> x.state, src |-> x.src, packet |-> x.packet, unicast |-> x.unicast,
                count |-> x.count, parts |-> x.parts, expected |-> x.expected, received |-> v, held |-> x.held, timer |-> x.timer]
  BY DEF IsBuffer
<1>9. ASSUME NEW v
      PROVE  [x EXCEPT !.held = v] =
               [state |-> x.state, src |-> x.src, packet |-> x.packet, unicast |-> x.unicast,
                count |-> x.count, parts |-> x.parts, expected |-> x.expected, received |-> x.received, held |-> v, timer |-> x.timer]
  BY DEF IsBuffer
<1>10. ASSUME NEW v
      PROVE  [x EXCEPT !.timer = v] =
               [state |-> x.state, src |-> x.src, packet |-> x.packet, unicast |-> x.unicast,
                count |-> x.count, parts |-> x.parts, expected |-> x.expected, received |-> x.received, held |-> x.held, timer |-> v]
  BY DEF IsBuffer
<1>. QED
  BY <1>1, <1>2, <1>3, <1>4, <1>5, <1>6, <1>7, <1>8, <1>9, <1>10 DEF IsBuffer

Emptied(x) == [x EXCEPT !.state = "unused", !.expected = Unknown, !.received = 0,
                        !.parts = [s \in Segments |-> None], !.held = 0]
NoParts == [s \in Segments |-> None]

\* What EmptyRxBuffer leaves of a buffer.
LEMMA EmptiedFacts ==
  ASSUME NEW x, IsBuffer(x)
  PROVE  /\ IsBuffer(Emptied(x)) /\ Emptied(x).state = "unused" /\ Emptied(x).expected = Unknown
         /\ Emptied(x).received = 0 /\ Emptied(x).parts = NoParts /\ Emptied(x).held = 0
         /\ Emptied(x).src = x.src /\ Emptied(x).packet = x.packet /\ Emptied(x).count = x.count
         /\ Emptied(x).unicast = x.unicast /\ Emptied(x).timer = x.timer
<1>. DEFINE a == [x EXCEPT !.state = "unused"]
            d == [a EXCEPT !.expected = Unknown]
            e == [d EXCEPT !.received = 0]
            f == [e EXCEPT !.parts = NoParts]
            g == [f EXCEPT !.held = 0]
<1>1. Emptied(x) = g
  BY DEF Emptied, NoParts
<1>2. /\ IsBuffer(a) /\ a.state = "unused" /\ a.timer = x.timer /\ a.src = x.src
      /\ a.packet = x.packet /\ a.unicast = x.unicast /\ a.count = x.count
  BY MarkFacts
<1>. HIDE DEF a
<1>3. /\ IsBuffer(d) /\ d.state = a.state /\ d.expected = Unknown /\ d.timer = a.timer
      /\ d.src = a.src /\ d.packet = a.packet /\ d.unicast = a.unicast /\ d.count = a.count
  BY <1>2, MarkFacts
<1>. HIDE DEF d
<1>4. /\ IsBuffer(e) /\ e.state = d.state /\ e.expected = d.expected /\ e.timer = d.timer
      /\ e.src = d.src /\ e.packet = d.packet /\ e.unicast = d.unicast /\ e.count = d.count
      /\ e.received = 0
  BY <1>3, MarkFacts
<1>. HIDE DEF e
<1>5. /\ IsBuffer(f) /\ f.state = e.state /\ f.expected = e.expected /\ f.timer = e.timer
      /\ f.src = e.src /\ f.packet = e.packet /\ f.unicast = e.unicast /\ f.count = e.count
      /\ f.received = e.received /\ f.parts = NoParts
  BY <1>4, MarkFacts
<1>. HIDE DEF f
<1>6. /\ IsBuffer(g) /\ g.state = f.state /\ g.expected = f.expected /\ g.timer = f.timer
      /\ g.src = f.src /\ g.packet = f.packet /\ g.unicast = f.unicast /\ g.count = f.count
      /\ g.received = f.received /\ g.parts = f.parts /\ g.held = 0
  BY <1>5, MarkFacts
<1>. HIDE DEF g
<1>. QED
  BY <1>1, <1>2, <1>3, <1>4, <1>5, <1>6

\* Another value of one field of a pair.
LEMMA PairFacts ==
  ASSUME NEW x, IsPair(x)
  PROVE  /\ \A v : LET y == [x EXCEPT !.inUse = v] IN
              IsPair(y) /\ y.inUse = v /\ y.src = x.src /\ y.packet = x.packet /\ y.timer = x.timer
         /\ \A v : LET y == [x EXCEPT !.src = v] IN
              IsPair(y) /\ y.inUse = x.inUse /\ y.src = v /\ y.packet = x.packet /\ y.timer = x.timer
         /\ \A v : LET y == [x EXCEPT !.packet = v] IN
              IsPair(y) /\ y.inUse = x.inUse /\ y.src = x.src /\ y.packet = v /\ y.timer = x.timer
         /\ \A v : LET y == [x EXCEPT !.timer = v] IN
              IsPair(y) /\ y.inUse = x.inUse /\ y.src = x.src /\ y.packet = x.packet /\ y.timer = v
<1>1. ASSUME NEW v
      PROVE  [x EXCEPT !.inUse = v] = [inUse |-> v, src |-> x.src, packet |-> x.packet, timer |-> x.timer]
  BY DEF IsPair
<1>2. ASSUME NEW v
      PROVE  [x EXCEPT !.src = v] = [inUse |-> x.inUse, src |-> v, packet |-> x.packet, timer |-> x.timer]
  BY DEF IsPair
<1>3. ASSUME NEW v
      PROVE  [x EXCEPT !.packet = v] = [inUse |-> x.inUse, src |-> x.src, packet |-> v, timer |-> x.timer]
  BY DEF IsPair
<1>4. ASSUME NEW v
      PROVE  [x EXCEPT !.timer = v] = [inUse |-> x.inUse, src |-> x.src, packet |-> x.packet, timer |-> v]
  BY DEF IsPair
<1>. QED
  BY <1>1, <1>2, <1>3, <1>4 DEF IsPair

\* EmptyRxBuffer.
LEMMA EmptyFacts ==
  ASSUME NEW r, Shape(r), NEW b \in Buffers
  PROVE  LET e == EmptyRxBuffer(r, b)
             x == r.buffers[b]
             y == e.buffers[b]
         IN /\ Shape(e)
            /\ e.free = r.free + x.held /\ e.inUse = Decremented(r.inUse)
            /\ e.unicast = IF x.unicast THEN Decremented(r.unicast) ELSE r.unicast
            /\ e.expired = r.expired /\ e.delivered = r.delivered /\ e.pairs = r.pairs
            /\ \A c \in Buffers \ {b} : e.buffers[c] = r.buffers[c]
            /\ y.state = "unused" /\ y.expected = Unknown /\ y.received = 0
            /\ y.parts = NoParts /\ y.held = 0 /\ y.src = x.src /\ y.packet = x.packet
            /\ y.count = x.count /\ y.unicast = x.unicast /\ y.timer = x.timer
<1>. DEFINE x == r.buffers[b]
            u == IF x.unicast THEN Decremented(r.unicast) ELSE r.unicast
            a == [r EXCEPT !.free = @ + x.held]
            c == [a EXCEPT !.inUse = Decremented(@)]
            d == [c EXCEPT !.unicast = u]
            e == SetBuffer(d, b, Emptied(x))
<1>0. IsBuffer(x)
  BY DEF Shape
<1>1. /\ Shape(a) /\ a.buffers = r.buffers /\ a.pairs = r.pairs /\ a.free = r.free + x.held
      /\ a.inUse = r.inUse /\ a.unicast = r.unicast /\ a.expired = r.expired
      /\ a.delivered = r.delivered
  BY StateFacts
<1>. HIDE DEF a
<1>2. /\ Shape(c) /\ c.buffers = a.buffers /\ c.pairs = a.pairs /\ c.free = a.free
      /\ c.inUse = Decremented(a.inUse) /\ c.unicast = a.unicast /\ c.expired = a.expired
      /\ c.delivered = a.delivered
  BY <1>1, StateFacts
<1>3. /\ Shape(d) /\ d.buffers = a.buffers /\ d.pairs = a.pairs /\ d.free = a.free
      /\ d.inUse = Decremented(a.inUse) /\ d.unicast = u /\ d.expired = a.expired
      /\ d.delivered = a.delivered
  <2>. HIDE DEF c, u
  <2>. QED
    BY <1>2, StateFacts
<1>4. EmptyRxBuffer(r, b) = e
  BY <1>1, <1>2, <1>3 DEF EmptyRxBuffer, SetBuffer, Emptied, a
<1>. HIDE DEF d
<1>5. IsBuffer(Emptied(x))
  BY <1>0, EmptiedFacts
<1>6. /\ Shape(e) /\ e.buffers[b] = Emptied(x)
      /\ \A k \in Buffers \ {b} : e.buffers[k] = d.buffers[k]
      /\ e.pairs = d.pairs /\ e.free = d.free
      /\ e.inUse = d.inUse /\ e.unicast = d.unicast /\ e.expired = d.expired
      /\ e.delivered = d.delivered
  <2>. HIDE DEF x
  <2>. QED
    BY <1>3, <1>5, SetFacts
<1>. HIDE DEF e
<1>. QED
  BY <1>0, <1>1, <1>3, <1>4, <1>6, EmptiedFacts

-----------------------------------------------------------------------------
(* The steps the functions are made of.                                     *)

LEMMA FirstFacts ==
  ASSUME NEW S, S \subseteq Nat \ {0}
  PROVE  /\ S = {} => First(S) = None
         /\ S # {} => First(S) \in S /\ First(S) # None
<1>1. CASE S # {}
  <2>1. \E x \in S : \A y \in S : x <= y
    BY <1>1, Least
  <2>2. (CHOOSE x \in S : \A y \in S : x <= y) \in S
    BY <2>1
  <2>. QED
    BY <1>1, <2>2 DEF First, None
<1>. QED
  BY <1>1 DEF First

\* Only buffer b differs, and in nothing but its state and its timer.
OtherMarks(r, e, b) ==
  LET x == r.buffers[b]
      y == e.buffers[b]
  IN /\ Shape(e) /\ e.pairs = r.pairs /\ e.free = r.free /\ e.inUse = r.inUse
     /\ e.unicast = r.unicast /\ e.delivered = r.delivered
     /\ \A c \in Buffers \ {b} : e.buffers[c] = r.buffers[c]
     /\ y.src = x.src /\ y.packet = x.packet /\ y.unicast = x.unicast /\ y.count = x.count
     /\ y.parts = x.parts /\ y.expected = x.expected /\ y.received = x.received
     /\ y.held = x.held

LEMMA DeleteFacts ==
  ASSUME NEW r, Shape(r), NEW b \in Buffers
  PROVE  LET e == DeleteRxTimer(r, b) IN
         /\ OtherMarks(r, e, b) /\ e.expired = r.expired
         /\ e.buffers[b].timer = Cancel(r.buffers[b].timer)
         /\ e.buffers[b].state = r.buffers[b].state
<1>. DEFINE x == r.buffers[b]
            y == [x EXCEPT !.timer = Cancel(@)]
<1>1. DeleteRxTimer(r, b) = SetBuffer(r, b, y)
  BY DEF DeleteRxTimer, SetBuffer, Shape
<1>2. IsBuffer(x)
  BY DEF Shape
<1>3. /\ IsBuffer(y) /\ y.timer = Cancel(x.timer) /\ y.state = x.state /\ y.src = x.src
      /\ y.packet = x.packet /\ y.unicast = x.unicast /\ y.count = x.count
      /\ y.parts = x.parts /\ y.expected = x.expected
      /\ y.received = x.received /\ y.held = x.held
  BY <1>2, MarkFacts
<1>. HIDE DEF y
<1>. QED
  BY <1>1, <1>3, SetFacts DEF OtherMarks

\* A buffer's timer expires: Fired is what is left of it.
LEMMA FiredFacts ==
  ASSUME NEW r, Shape(r), NEW b \in Buffers
  PROVE  LET e == [r EXCEPT !.buffers[b].timer = Fired(@)] IN
         /\ OtherMarks(r, e, b) /\ e.expired = r.expired
         /\ e.buffers[b].timer = Fired(r.buffers[b].timer)
         /\ e.buffers[b].state = r.buffers[b].state
<1>. DEFINE x == r.buffers[b]
            e == [r EXCEPT !.buffers[b].timer = Fired(@)]
            y == [x EXCEPT !.timer = Fired(@)]
<1>1. e = SetBuffer(r, b, y)
  BY DEF SetBuffer, Shape
<1>2. IsBuffer(x)
  BY DEF Shape
<1>3. /\ IsBuffer(y) /\ y.timer = Fired(x.timer) /\ y.state = x.state /\ y.src = x.src
      /\ y.packet = x.packet /\ y.unicast = x.unicast /\ y.count = x.count
      /\ y.parts = x.parts /\ y.expected = x.expected
      /\ y.received = x.received /\ y.held = x.held
  BY <1>2, MarkFacts
<1>. HIDE DEF y, e
<1>4. /\ OtherMarks(r, e, b) /\ e.expired = r.expired /\ e.buffers[b] = y
  BY <1>1, <1>3, SetFacts DEF OtherMarks
<1>5. e.buffers[b].timer = Fired(x.timer) /\ e.buffers[b].state = x.state
  BY <1>3, <1>4
<1>. QED
  BY <1>4, <1>5 DEF e

LEMMA StartFacts ==
  ASSUME NEW r, Shape(r), NEW b \in Buffers
  PROVE  LET e == AddRxAssemblyTimer(r, b, "none") IN
         /\ OtherMarks(r, e, b) /\ e.expired = r.expired
         /\ e.buffers[b].timer = Start(r.buffers[b].timer)
         /\ e.buffers[b].state = r.buffers[b].state
<1>. DEFINE x == r.buffers[b]
            y == [x EXCEPT !.timer = Start(@)]
<1>1. AddRxAssemblyTimer(r, b, "none") = SetBuffer(r, b, y)
  BY DEF AddRxAssemblyTimer, SetBuffer, Shape
<1>2. IsBuffer(x)
  BY DEF Shape
<1>3. /\ IsBuffer(y) /\ y.timer = Start(x.timer) /\ y.state = x.state /\ y.src = x.src
      /\ y.packet = x.packet /\ y.unicast = x.unicast /\ y.count = x.count
      /\ y.parts = x.parts /\ y.expected = x.expected
      /\ y.received = x.received /\ y.held = x.held
  BY <1>2, MarkFacts
<1>. HIDE DEF y
<1>. QED
  BY <1>1, <1>3, SetFacts DEF OtherMarks

LEMMA ExpiredFacts ==
  ASSUME NEW r, Shape(r), NEW b \in Buffers
  PROVE  LET e == RxAssemblyExpired(r, b) IN
         /\ OtherMarks(r, e, b) /\ e.expired = Append(r.expired, b)
         /\ e.buffers[b].timer = r.buffers[b].timer
         /\ e.buffers[b].state = "stale"
<1>. DEFINE x == r.buffers[b]
            y == [x EXCEPT !.state = "stale"]
            d == SetBuffer(r, b, y)
            e == [d EXCEPT !.expired = Append(@, b)]
<1>2. IsBuffer(x)
  BY DEF Shape
<1>3. /\ IsBuffer(y) /\ y.timer = x.timer /\ y.state = "stale" /\ y.src = x.src
      /\ y.packet = x.packet /\ y.unicast = x.unicast /\ y.count = x.count
      /\ y.parts = x.parts /\ y.expected = x.expected
      /\ y.received = x.received /\ y.held = x.held
  BY <1>2, MarkFacts
<1>4. RxAssemblyExpired(r, b) = e
  BY DEF RxAssemblyExpired, SetBuffer, Shape
<1>. HIDE DEF y
<1>5. /\ Shape(d) /\ d.buffers[b] = y /\ d.pairs = r.pairs /\ d.free = r.free
      /\ \A c \in Buffers \ {b} : d.buffers[c] = r.buffers[c]
      /\ d.inUse = r.inUse /\ d.unicast = r.unicast
      /\ d.expired = r.expired /\ d.delivered = r.delivered
  BY <1>3, SetFacts
<1>. HIDE DEF d
<1>6. /\ Shape(e) /\ e.buffers = d.buffers /\ e.pairs = d.pairs /\ e.free = d.free
      /\ e.inUse = d.inUse /\ e.unicast = d.unicast /\ e.expired = Append(d.expired, b)
      /\ e.delivered = d.delivered
  BY <1>5, StateFacts, ZenonT(30)
<1>. HIDE DEF e
<1>. QED
  BY <1>3, <1>4, <1>5, <1>6 DEF OtherMarks

\* A pair gets its timer.
Timed(mishap) == mishap # "noTimer" /\ PacketTimeout # 0

LEMMA AddTimerFacts ==
  ASSUME NEW r, Shape(r), NEW b \in Buffers, NEW mishap
  PROVE  LET e == AddRxAssemblyTimer(r, b, mishap) IN
         /\ OtherMarks(r, e, b)
         /\ e.buffers[b].state \in {r.buffers[b].state, "stale"}
         /\ e.expired \in {r.expired, Append(r.expired, b)}
         /\ Timed(mishap) => /\ e.buffers[b].state = r.buffers[b].state
                                 /\ e.buffers[b].timer = Start(r.buffers[b].timer)
                                 /\ e.expired = r.expired
<1>1. CASE mishap = "noTimer"
  BY <1>1, ExpiredFacts DEF AddRxAssemblyTimer, Timed
<1>2. CASE mishap # "noTimer"
  <2>1. AddRxAssemblyTimer(r, b, mishap) = AddRxAssemblyTimer(r, b, "none")
    BY <1>2 DEF AddRxAssemblyTimer
  <2>. QED
    BY <1>2, <2>1, StartFacts
<1>. QED
  BY <1>1, <1>2

-----------------------------------------------------------------------------
(* The pairs.                                                               *)

\* Only pair p differs.
OtherPair(r, e, p) ==
  /\ Shape(e) /\ e.buffers = r.buffers /\ e.free = r.free /\ e.inUse = r.inUse
  /\ e.unicast = r.unicast /\ e.delivered = r.delivered /\ e.expired = r.expired
  /\ \A q \in Pairs \ {p} : e.pairs[q] = r.pairs[q]

LEMMA AddPairFacts ==
  ASSUME NEW r, Shape(r), NEW p \in Pairs, NEW mishap
  PROVE  LET e == AddPairTimeout(r, p, mishap) IN
         /\ OtherPair(r, e, p) /\ e.pairs[p].src = r.pairs[p].src
         /\ e.pairs[p].packet = r.pairs[p].packet
         /\ Timed(mishap) => e.pairs[p].inUse = r.pairs[p].inUse
         /\ ~ Timed(mishap) => ~ e.pairs[p].inUse
         /\ Timed(mishap) => e.pairs[p].timer = Start(r.pairs[p].timer)
<1>. DEFINE x == r.pairs[p]
            y == IF ~ Timed(mishap) THEN [x EXCEPT !.inUse = FALSE]
                 ELSE [x EXCEPT !.timer = Start(@)]
<1>1. AddPairTimeout(r, p, mishap) = SetPair(r, p, y)
  BY DEF AddPairTimeout, SetPair, Shape, Timed
<1>2. IsPair(x)
  BY DEF Shape
<1>3. /\ IsPair(y) /\ y.src = x.src /\ y.packet = x.packet
      /\ Timed(mishap) => y.inUse = x.inUse
      /\ ~ Timed(mishap) => y.inUse = FALSE
      /\ Timed(mishap) => y.timer = Start(x.timer)
  <2>1. CASE ~ Timed(mishap)
    <3>1. y = [x EXCEPT !.inUse = FALSE]
      BY <2>1
    <3>2. LET z == [x EXCEPT !.inUse = FALSE] IN
          IsPair(z) /\ z.inUse = FALSE /\ z.src = x.src /\ z.packet = x.packet
      BY <1>2, PairFacts
    <3>. HIDE DEF x, y
    <3>. QED
      BY <2>1, <3>1, <3>2
  <2>2. CASE Timed(mishap)
    <3>1. y = [x EXCEPT !.timer = Start(@)]
      BY <2>2
    <3>. HIDE DEF x, y
    <3>. QED
      BY <1>2, <2>2, <3>1, PairFacts
  <2>. HIDE DEF y
  <2>. QED
    BY <2>1, <2>2
<1>. HIDE DEF y
<1>. QED
  BY <1>1, <1>3, SetFacts DEF OtherPair

LEMMA DropFacts ==
  ASSUME NEW r, Shape(r), NEW p \in Pairs
  PROVE  LET e == DropPair(r, p) IN
         /\ OtherPair(r, e, p) /\ ~ e.pairs[p].inUse /\ e.pairs[p].src = r.pairs[p].src
         /\ e.pairs[p].packet = r.pairs[p].packet /\ e.pairs[p].timer = Cancel(r.pairs[p].timer)
<1>. DEFINE x == r.pairs[p]
            z == [x EXCEPT !.timer = Cancel(@)]
            y == [z EXCEPT !.inUse = FALSE]
<1>1. DropPair(r, p) = SetPair(r, p, y)
  BY DEF DropPair, SetPair, Shape
<1>2. IsPair(x)
  BY DEF Shape
<1>3. IsPair(z) /\ z.src = x.src /\ z.packet = x.packet /\ z.timer = Cancel(x.timer)
  BY <1>2, PairFacts
<1>. HIDE DEF z
<1>4. IsPair(y) /\ y.inUse = FALSE /\ y.src = z.src /\ y.packet = z.packet /\ y.timer = z.timer
  BY <1>3, PairFacts
<1>. HIDE DEF y
<1>5. LET e == SetPair(r, p, y) IN OtherPair(r, e, p) /\ e.pairs[p] = y
  BY <1>4, SetFacts DEF OtherPair
<1>. QED
  BY <1>1, <1>3, <1>4, <1>5

\* The timer of a pair is stopped, before it is set anew.
LEMMA CancelPairFacts ==
  ASSUME NEW r, Shape(r), NEW p \in Pairs
  PROVE  LET e == [r EXCEPT !.pairs[p].timer = Cancel(@)] IN
         /\ OtherPair(r, e, p) /\ e.pairs[p].src = r.pairs[p].src
         /\ e.pairs[p].packet = r.pairs[p].packet /\ e.pairs[p].inUse = r.pairs[p].inUse
         /\ e.pairs[p].timer = Cancel(r.pairs[p].timer)
<1>. DEFINE x == r.pairs[p]
            y == [x EXCEPT !.timer = Cancel(@)]
            e == [r EXCEPT !.pairs[p].timer = Cancel(@)]
<1>1. e = SetPair(r, p, y)
  BY DEF SetPair, Shape
<1>2. IsPair(x)
  BY DEF Shape
<1>3. /\ IsPair(y) /\ y.src = x.src /\ y.packet = x.packet /\ y.inUse = x.inUse
      /\ y.timer = Cancel(x.timer)
  BY <1>2, PairFacts
<1>. HIDE DEF y, e
<1>4. OtherPair(r, e, p) /\ e.pairs[p] = y
  BY <1>1, <1>3, SetFacts DEF OtherPair
<1>5. /\ e.pairs[p].src = x.src /\ e.pairs[p].packet = x.packet /\ e.pairs[p].inUse = x.inUse
      /\ e.pairs[p].timer = Cancel(x.timer)
  BY <1>3, <1>4
<1>. QED
  BY <1>4, <1>5 DEF e

\* The timer of a pair expires.
LEMMA FirePairFacts ==
  ASSUME NEW r, Shape(r), NEW p \in Pairs
  PROVE  LET e == [r EXCEPT !.pairs[p].timer = Fired(@), !.pairs[p].inUse = FALSE] IN
         /\ OtherPair(r, e, p) /\ ~ e.pairs[p].inUse
         /\ e.pairs[p].src = r.pairs[p].src /\ e.pairs[p].packet = r.pairs[p].packet
         /\ e.pairs[p].timer = Fired(r.pairs[p].timer)
<1>. DEFINE x == r.pairs[p]
            z == [x EXCEPT !.timer = Fired(@)]
            y == [z EXCEPT !.inUse = FALSE]
            e == [r EXCEPT !.pairs[p].timer = Fired(@), !.pairs[p].inUse = FALSE]
<1>1. e = SetPair(r, p, y)
  BY DEF SetPair, Shape
<1>2. IsPair(x)
  BY DEF Shape
<1>3. IsPair(z) /\ z.src = x.src /\ z.packet = x.packet /\ z.timer = Fired(x.timer)
  BY <1>2, PairFacts
<1>. HIDE DEF z
<1>4. IsPair(y) /\ y.inUse = FALSE /\ y.src = z.src /\ y.packet = z.packet /\ y.timer = z.timer
  BY <1>3, PairFacts
<1>. HIDE DEF y, e
<1>5. OtherPair(r, e, p) /\ e.pairs[p] = y
  BY <1>1, <1>4, SetFacts DEF OtherPair
<1>6. /\ e.pairs[p].inUse = FALSE /\ e.pairs[p].src = x.src /\ e.pairs[p].packet = x.packet
      /\ e.pairs[p].timer = Fired(x.timer)
  BY <1>3, <1>4, <1>5
<1>. QED
  BY <1>5, <1>6 DEF e

\* The pair taken for what buffer b delivered.
Noted(r, b, p) == [r EXCEPT !.pairs[p].inUse = TRUE, !.pairs[p].packet = r.buffers[b].packet,
                            !.pairs[p].src = r.buffers[b].src]

LEMMA NotedFacts ==
  ASSUME NEW r, Shape(r), NEW b \in Buffers, NEW p \in Pairs
  PROVE  LET e == Noted(r, b, p) IN
         /\ OtherPair(r, e, p) /\ e.pairs[p].inUse = TRUE /\ e.pairs[p].src = r.buffers[b].src
         /\ e.pairs[p].packet = r.buffers[b].packet /\ e.pairs[p].timer = r.pairs[p].timer
<1>. DEFINE x == r.pairs[p]
            k == r.buffers[b].packet
            n == r.buffers[b].src
            z == [x EXCEPT !.inUse = TRUE]
            w == [z EXCEPT !.packet = k]
            y == [w EXCEPT !.src = n]
<1>1. IsPair(x)
  BY DEF Shape
<1>2. Noted(r, b, p) = SetPair(r, p, y)
  BY DEF Noted, SetPair, Shape
<1>. HIDE DEF k, n, x
<1>3. IsPair(z) /\ z.inUse = TRUE /\ z.timer = x.timer
  BY <1>1, PairFacts
<1>. HIDE DEF z
<1>4. IsPair(w) /\ w.inUse = z.inUse /\ w.packet = k /\ w.timer = z.timer
  BY <1>3, PairFacts
<1>. HIDE DEF w
<1>5. IsPair(y) /\ y.inUse = w.inUse /\ y.packet = w.packet /\ y.src = n /\ y.timer = w.timer
  BY <1>4, PairFacts
<1>. HIDE DEF y
<1>6. LET e == SetPair(r, p, y) IN OtherPair(r, e, p) /\ e.pairs[p] = y
  BY <1>5, SetFacts DEF OtherPair
<1>. QED
  BY <1>2, <1>3, <1>4, <1>5, <1>6 DEF n, k, x

\* Remember takes a pair that is not in use, if there is one.
TakesPair(r, e, b, p, mishap) ==
  /\ ~ r.pairs[p].inUse /\ OtherPair(r, e, p)
  /\ e.pairs[p].src = r.buffers[b].src /\ e.pairs[p].packet = r.buffers[b].packet
  /\ Timed(mishap) => /\ e.pairs[p].inUse = TRUE
                           /\ e.pairs[p].timer = Start(r.pairs[p].timer)

LEMMA RememberFacts ==
  ASSUME NEW r, Shape(r), NEW b \in Buffers, NEW mishap
  PROVE  LET e == Remember(r, b, mishap) IN
         \/ e = r /\ \A q \in Pairs : r.pairs[q].inUse
         \/ \E p \in Pairs : TakesPair(r, e, b, p, mishap)
<1>. DEFINE S == {q \in Pairs : ~ r.pairs[q].inUse}
            p == First(S)
<1>1. /\ S = {} => p = None
      /\ S # {} => p \in S /\ p # None
  <2>1. S \subseteq Nat \ {0}
    BY DEF Pairs
  <2>. HIDE DEF S
  <2>. QED
    BY <2>1, FirstFacts
<1>2. CASE S = {}
  BY <1>1, <1>2 DEF Remember
<1>3. CASE S # {}
  <2>1. p \in Pairs /\ ~ r.pairs[p].inUse /\ p # None
    BY <1>1, <1>3
  <2>2. Remember(r, b, mishap) = AddPairTimeout(Noted(r, b, p), p, mishap)
    BY <2>1 DEF Remember, Noted
  <2>. DEFINE d == Noted(r, b, p)
              e == AddPairTimeout(d, p, mishap)
  <2>. HIDE DEF p
  <2>3. /\ OtherPair(r, d, p) /\ d.pairs[p].inUse = TRUE /\ d.pairs[p].src = r.buffers[b].src
        /\ d.pairs[p].packet = r.buffers[b].packet /\ d.pairs[p].timer = r.pairs[p].timer
    BY <2>1, NotedFacts
  <2>. HIDE DEF d
  <2>7. Shape(d)
    BY <2>3 DEF OtherPair
  <2>4. /\ OtherPair(d, e, p) /\ e.pairs[p].src = d.pairs[p].src
        /\ e.pairs[p].packet = d.pairs[p].packet
        /\ Timed(mishap) => /\ e.pairs[p].inUse = d.pairs[p].inUse
                                 /\ e.pairs[p].timer = Start(d.pairs[p].timer)
    BY <2>1, <2>7, AddPairFacts
  <2>. HIDE DEF e
  <2>5. OtherPair(r, e, p)
    BY <2>3, <2>4 DEF OtherPair
  <2>6. Remember(r, b, mishap) = e
    BY <2>2 DEF d, e
  <2>8. TakesPair(r, e, b, p, mishap)
    BY <2>1, <2>3, <2>4, <2>5 DEF TakesPair
  <2>. QED
    BY <2>1, <2>6, <2>8
<1>. QED
  BY <1>2, <1>3

-----------------------------------------------------------------------------
(* What the functions make of the state, from their steps.                  *)

Others(r, e, b) == \A c \in Buffers \ {b} : e.buffers[c] = r.buffers[c]

\* y is buffer x after EmptyRxBuffer.
EmptyOf(x, y) ==
  /\ y.state = "unused" /\ y.expected = Unknown /\ y.received = 0 /\ y.parts = NoParts
  /\ y.held = 0 /\ y.src = x.src /\ y.packet = x.packet /\ y.count = x.count
  /\ y.unicast = x.unicast

\* Accept stores the part.
Stored(r, b, f) ==
  [r EXCEPT !.buffers[b].parts[f.segment] = f.packet,
            !.buffers[b].received = @ + 1,
            !.buffers[b].expected = IF f.segment = 0 THEN f.count + 1 ELSE @]

PutPart(x, f) == [x.parts EXCEPT ![f.segment] = f.packet]
OneMore(x)    == x.received + 1
Expects(x, f) == IF f.segment = 0 THEN f.count + 1 ELSE x.expected

LEMMA StoredFacts ==
  ASSUME NEW r, Shape(r), NEW b \in Buffers, NEW f
  PROVE  LET e == Stored(r, b, f)
             x == r.buffers[b]
             y == e.buffers[b]
         IN /\ Shape(e) /\ Others(r, e, b) /\ e.pairs = r.pairs /\ e.free = r.free
            /\ e.inUse = r.inUse /\ e.unicast = r.unicast /\ e.delivered = r.delivered
            /\ e.expired = r.expired
            /\ y.state = x.state /\ y.src = x.src /\ y.packet = x.packet /\ y.unicast = x.unicast
            /\ y.count = x.count /\ y.held = x.held /\ y.timer = x.timer
            /\ y.parts = PutPart(x, f) /\ y.received = OneMore(x) /\ y.expected = Expects(x, f)
<1>. DEFINE x == r.buffers[b]
            q == [x.parts EXCEPT ![f.segment] = f.packet]
            m == x.received + 1
            v == IF f.segment = 0 THEN f.count + 1 ELSE x.expected
            d == [x EXCEPT !.parts = q]
            g == [d EXCEPT !.received = m]
            y == [g EXCEPT !.expected = v]
            r1 == SetBuffer(r, b, d)
            r2 == SetBuffer(r1, b, g)
            e == SetBuffer(r2, b, y)
<1>0. IsBuffer(x)
  BY DEF Shape
<1>2. /\ IsBuffer(d) /\ d.state = x.state /\ d.src = x.src /\ d.packet = x.packet
      /\ d.unicast = x.unicast /\ d.count = x.count /\ d.held = x.held /\ d.timer = x.timer
      /\ d.parts = q /\ d.received = x.received /\ d.expected = x.expected
  BY <1>0, MarkFacts
<1>3. /\ IsBuffer(g) /\ g.state = d.state /\ g.src = d.src /\ g.packet = d.packet
      /\ g.unicast = d.unicast /\ g.count = d.count /\ g.held = d.held /\ g.timer = d.timer
      /\ g.parts = d.parts /\ g.received = m /\ g.expected = d.expected
  <2>. HIDE DEF d, m
  <2>. QED
    BY <1>2, MarkFacts
<1>4. /\ IsBuffer(y) /\ y.state = g.state /\ y.src = g.src /\ y.packet = g.packet
      /\ y.unicast = g.unicast /\ y.count = g.count /\ y.held = g.held /\ y.timer = g.timer
      /\ y.parts = g.parts /\ y.received = g.received /\ y.expected = v
  <2>. HIDE DEF g, v
  <2>. QED
    BY <1>3, MarkFacts
<1>5. /\ Shape(r1) /\ r1.buffers[b] = d /\ Others(r, r1, b)
      /\ r1.pairs = r.pairs /\ r1.free = r.free
      /\ r1.inUse = r.inUse /\ r1.unicast = r.unicast /\ r1.expired = r.expired
      /\ r1.delivered = r.delivered
  <2>. HIDE DEF d
  <2>. QED
    BY <1>2, SetFacts DEF Others
<1>6. /\ Shape(r2) /\ r2.buffers[b] = g /\ Others(r1, r2, b)
      /\ r2.pairs = r1.pairs /\ r2.free = r1.free
      /\ r2.inUse = r1.inUse /\ r2.unicast = r1.unicast /\ r2.expired = r1.expired
      /\ r2.delivered = r1.delivered
  <2>. HIDE DEF g, r1
  <2>. QED
    BY <1>3, <1>5, SetFacts DEF Others
<1>7. /\ Shape(e) /\ e.buffers[b] = y /\ Others(r2, e, b)
      /\ e.pairs = r2.pairs /\ e.free = r2.free
      /\ e.inUse = r2.inUse /\ e.unicast = r2.unicast /\ e.expired = r2.expired
      /\ e.delivered = r2.delivered
  <2>. HIDE DEF y, r2
  <2>. QED
    BY <1>4, <1>6, SetFacts DEF Others
<1>8. Stored(r, b, f) = e
  <2>1. r1 = [r EXCEPT !.buffers[b].parts[f.segment] = f.packet]
    BY DEF SetBuffer, Shape
  <2>2. r2 = [r1 EXCEPT !.buffers[b].received = m]
    <3>. HIDE DEF m, r1
    <3>. QED
      BY <1>5 DEF SetBuffer, Shape
  <2>3. e = [r2 EXCEPT !.buffers[b].expected = v]
    <3>. HIDE DEF v, r2
    <3>. QED
      BY <1>6 DEF SetBuffer, Shape
  <2>4. Stored(r, b, f) = [r EXCEPT !.buffers[b].parts[f.segment] = f.packet,
                                    !.buffers[b].received = m,
                                    !.buffers[b].expected = v]
    BY DEF Stored
  <2>. HIDE DEF e, r2, m, v
  <2>5. [r EXCEPT !.buffers[b].parts[f.segment] = f.packet,
                  !.buffers[b].received = m,
                  !.buffers[b].expected = v] = e
    BY <2>1, <2>2, <2>3
  <2>. QED
    BY <2>4, <2>5
<1>. HIDE DEF y, e, g, d, r1, r2
<1>9. Others(r, e, b)
  BY <1>5, <1>6, <1>7 DEF Others
<1>. QED
  BY <1>2, <1>3, <1>4, <1>5, <1>6, <1>7, <1>8, <1>9 DEF PutPart, OneMore, Expects

\* NewPacket takes a buffer and blocks.
Claimed(x, f, got) == [x EXCEPT !.state = "inUse", !.src = f.src, !.packet = f.packet,
                                !.count = f.count, !.unicast = f.unicast, !.held = got]
Taken(r, b, f, got) ==
  [r EXCEPT !.free = @ - got,
            !.inUse = @ + 1,
            !.unicast = IF f.unicast THEN @ + 1 ELSE @,
            !.buffers[b] = [@ EXCEPT !.state = "inUse", !.src = f.src, !.packet = f.packet,
                                     !.count = f.count, !.unicast = f.unicast, !.held = got]]

LEMMA ClaimedFacts ==
  ASSUME NEW x, IsBuffer(x), NEW f, NEW got
  PROVE  LET y == Claimed(x, f, got) IN
         /\ IsBuffer(y) /\ y.state = "inUse" /\ y.src = f.src /\ y.packet = f.packet
         /\ y.count = f.count /\ y.unicast = f.unicast /\ y.held = got /\ y.parts = x.parts
         /\ y.expected = x.expected /\ y.received = x.received /\ y.timer = x.timer
<1>. DEFINE v1 == f.src
            v2 == f.packet
            v3 == f.count
            v4 == f.unicast
            a == [x EXCEPT !.state = "inUse"]
            b == [a EXCEPT !.src = v1]
            c == [b EXCEPT !.packet = v2]
            d == [c EXCEPT !.count = v3]
            e == [d EXCEPT !.unicast = v4]
            g == [e EXCEPT !.held = got]
<1>1. Claimed(x, f, got) = g
  BY DEF Claimed
<1>. HIDE DEF v1, v2, v3, v4
<1>2. /\ IsBuffer(a) /\ a.state = "inUse" /\ a.parts = x.parts /\ a.expected = x.expected
      /\ a.received = x.received /\ a.timer = x.timer
  BY MarkFacts
<1>. HIDE DEF a
<1>3. /\ IsBuffer(b) /\ b.state = a.state /\ b.src = v1 /\ b.parts = a.parts
      /\ b.expected = a.expected /\ b.received = a.received /\ b.timer = a.timer
  BY <1>2, MarkFacts
<1>. HIDE DEF b
<1>4. /\ IsBuffer(c) /\ c.state = b.state /\ c.src = b.src /\ c.packet = v2 /\ c.parts = b.parts
      /\ c.expected = b.expected /\ c.received = b.received /\ c.timer = b.timer
  BY <1>3, MarkFacts
<1>. HIDE DEF c
<1>5. /\ IsBuffer(d) /\ d.state = c.state /\ d.src = c.src /\ d.packet = c.packet /\ d.count = v3
      /\ d.parts = c.parts /\ d.expected = c.expected /\ d.received = c.received
      /\ d.timer = c.timer
  BY <1>4, MarkFacts
<1>. HIDE DEF d
<1>6. /\ IsBuffer(e) /\ e.state = d.state /\ e.src = d.src /\ e.packet = d.packet
      /\ e.count = d.count /\ e.unicast = v4 /\ e.parts = d.parts /\ e.expected = d.expected
      /\ e.received = d.received /\ e.timer = d.timer
  BY <1>5, MarkFacts
<1>. HIDE DEF e
<1>7. /\ IsBuffer(g) /\ g.state = e.state /\ g.src = e.src /\ g.packet = e.packet
      /\ g.count = e.count /\ g.unicast = e.unicast /\ g.held = got /\ g.parts = e.parts
      /\ g.expected = e.expected /\ g.received = e.received /\ g.timer = e.timer
  BY <1>6, MarkFacts
<1>. HIDE DEF g
<1>. QED
  BY <1>1, <1>2, <1>3, <1>4, <1>5, <1>6, <1>7 DEF v1, v2, v3, v4

LEMMA TakenFacts ==
  ASSUME NEW r, Shape(r), NEW b \in Buffers, NEW f, NEW got
  PROVE  LET e == Taken(r, b, f, got)
             x == r.buffers[b]
             y == e.buffers[b]
         IN /\ Shape(e) /\ Others(r, e, b) /\ e.pairs = r.pairs
            /\ e.free = r.free - got /\ e.inUse = r.inUse + 1
            /\ e.unicast = IF f.unicast THEN r.unicast + 1 ELSE r.unicast
            /\ e.expired = r.expired /\ e.delivered = r.delivered
            /\ y.state = "inUse" /\ y.src = f.src /\ y.packet = f.packet /\ y.count = f.count
            /\ y.unicast = f.unicast /\ y.held = got /\ y.parts = x.parts
            /\ y.expected = x.expected /\ y.received = x.received /\ y.timer = x.timer
<1>. DEFINE x == r.buffers[b]
            u == IF f.unicast THEN r.unicast + 1 ELSE r.unicast
            a == [r EXCEPT !.free = @ - got]
            c == [a EXCEPT !.inUse = @ + 1]
            d == [c EXCEPT !.unicast = u]
            e == SetBuffer(d, b, Claimed(x, f, got))
<1>0. IsBuffer(x)
  BY DEF Shape
<1>1. /\ Shape(a) /\ a.buffers = r.buffers /\ a.pairs = r.pairs /\ a.free = r.free - got
      /\ a.inUse = r.inUse /\ a.unicast = r.unicast /\ a.expired = r.expired
      /\ a.delivered = r.delivered
  BY StateFacts
<1>. HIDE DEF a
<1>2. /\ Shape(c) /\ c.buffers = a.buffers /\ c.pairs = a.pairs /\ c.free = a.free
      /\ c.inUse = a.inUse + 1 /\ c.unicast = a.unicast /\ c.expired = a.expired
      /\ c.delivered = a.delivered
  BY <1>1, StateFacts
<1>3. /\ Shape(d) /\ d.buffers = a.buffers /\ d.pairs = a.pairs /\ d.free = a.free
      /\ d.inUse = a.inUse + 1 /\ d.unicast = u /\ d.expired = a.expired
      /\ d.delivered = a.delivered
  <2>. HIDE DEF c, u
  <2>. QED
    BY <1>2, StateFacts
<1>4. Taken(r, b, f, got) = e
  BY <1>1, <1>2, <1>3 DEF Taken, SetBuffer, Claimed, a
<1>. HIDE DEF d
<1>5. IsBuffer(Claimed(x, f, got))
  BY <1>0, ClaimedFacts
<1>6. /\ Shape(e) /\ e.buffers[b] = Claimed(x, f, got) /\ Others(d, e, b)
      /\ e.pairs = d.pairs /\ e.free = d.free
      /\ e.inUse = d.inUse /\ e.unicast = d.unicast /\ e.expired = d.expired
      /\ e.delivered = d.delivered
  <2>. HIDE DEF x
  <2>. QED
    BY <1>3, <1>5, SetFacts DEF Others
<1>. HIDE DEF e
<1>7. Others(r, e, b)
  BY <1>1, <1>3, <1>6 DEF Others
<1>. QED
  BY <1>0, <1>1, <1>3, <1>4, <1>6, <1>7, ClaimedFacts

\* The packet as it goes to the layer above.
WholeOf(x) == [i \in 1 .. x.count + 1 |-> x.parts[i - 1]]

Passed(r, b) == [r EXCEPT !.delivered[r.buffers[b].src] = Append(@, WholeOf(r.buffers[b]))]

\* What AssemblePacket delivers, and which pair it takes.
Delivers(r, e, b, mishap) ==
  LET x == r.buffers[b] IN
  /\ \A n \in Nodes \ {x.src} : e.delivered[n] = r.delivered[n]
  /\ x.src \in Nodes => e.delivered[x.src] = Append(r.delivered[x.src], WholeOf(x))
  /\ \/ e.pairs = r.pairs /\ \A q \in Pairs : r.pairs[q].inUse
     \/ \E p \in Pairs : /\ ~ r.pairs[p].inUse
                         /\ \A q \in Pairs \ {p} : e.pairs[q] = r.pairs[q]
                         /\ e.pairs[p].src = x.src /\ e.pairs[p].packet = x.packet
                         /\ Timed(mishap) => /\ e.pairs[p].inUse = TRUE
                                                  /\ e.pairs[p].timer = Start(r.pairs[p].timer)

LEMMA AssembleFacts ==
  ASSUME NEW r, Shape(r), NEW b \in Buffers, NEW mishap
  PROVE  LET e == AssemblePacket(r, b, mishap)
             x == r.buffers[b]
             y == e.buffers[b]
         IN /\ Shape(e) /\ Others(r, e, b) /\ EmptyOf(x, y) /\ y.timer = Cancel(x.timer)
            /\ e.free = r.free + x.held /\ e.inUse = Decremented(r.inUse)
            /\ e.unicast = IF x.unicast THEN Decremented(r.unicast) ELSE r.unicast
            /\ e.expired = r.expired
            /\ mishap = "noBuffer" => e.delivered = r.delivered /\ e.pairs = r.pairs
            /\ mishap # "noBuffer" => Delivers(r, e, b, mishap)
<1>. DEFINE x == r.buffers[b]
            d == DeleteRxTimer(r, b)
            w == [d EXCEPT !.delivered[x.src] = Append(@, WholeOf(x))]
            g == IF mishap = "noBuffer" THEN d ELSE Remember(w, b, mishap)
            e == EmptyRxBuffer(g, b)
<1>1. /\ OtherMarks(r, d, b) /\ d.expired = r.expired
      /\ d.buffers[b].timer = Cancel(x.timer) /\ d.buffers[b].state = x.state
  BY DeleteFacts
<1>2. AssemblePacket(r, b, mishap) = e
  BY DEF AssemblePacket, WholeOf
<1>. HIDE DEF d
<1>3. Shape(d) /\ d.delivered = r.delivered
  BY <1>1 DEF OtherMarks
<1>4. /\ Shape(w) /\ w.buffers = d.buffers /\ w.pairs = d.pairs /\ w.free = d.free
      /\ w.inUse = d.inUse /\ w.unicast = d.unicast /\ w.expired = d.expired
      /\ (x.src \in Nodes => w.delivered[x.src] = Append(r.delivered[x.src], WholeOf(x)))
      /\ \A n \in Nodes \ {x.src} : w.delivered[n] = r.delivered[n]
  <2>. DEFINE v == Append(r.delivered[x.src], WholeOf(x))
              n == x.src
              u == [d EXCEPT !.delivered[n] = v]
  <2>1. w = u
    BY <1>3
  <2>. HIDE DEF w, v, n, d
  <2>2. /\ Shape(u) /\ u.buffers = d.buffers /\ u.pairs = d.pairs /\ u.free = d.free
        /\ u.inUse = d.inUse /\ u.unicast = d.unicast /\ u.expired = d.expired
        /\ (n \in Nodes => u.delivered[n] = v)
        /\ \A k \in Nodes \ {n} : u.delivered[k] = d.delivered[k]
    BY <1>3, StateFacts
  <2>. HIDE DEF u
  <2>. QED
    BY <1>3, <2>1, <2>2 DEF v, n
<1>. HIDE DEF w
<1>5. /\ Shape(g) /\ g.buffers = d.buffers /\ g.free = d.free /\ g.inUse = d.inUse
      /\ g.unicast = d.unicast /\ g.expired = d.expired
      /\ mishap = "noBuffer" => g.delivered = d.delivered /\ g.pairs = d.pairs
      /\ mishap # "noBuffer" =>
           /\ g.delivered = w.delivered
           /\ \/ g.pairs = d.pairs /\ \A q \in Pairs : d.pairs[q].inUse
              \/ \E p \in Pairs : /\ ~ d.pairs[p].inUse
                                  /\ \A q \in Pairs \ {p} : g.pairs[q] = d.pairs[q]
                                  /\ g.pairs[p].src = d.buffers[b].src
                                  /\ g.pairs[p].packet = d.buffers[b].packet
                                  /\ Timed(mishap) =>
                                       /\ g.pairs[p].inUse = TRUE
                                       /\ g.pairs[p].timer = Start(d.pairs[p].timer)
  <2>1. CASE mishap = "noBuffer"
    BY <1>3, <2>1
  <2>2. CASE mishap # "noBuffer"
    <3>1. g = Remember(w, b, mishap)
      BY <2>2
    <3>. HIDE DEF g
    <3>2. \/ g = w /\ \A q \in Pairs : w.pairs[q].inUse
          \/ \E p \in Pairs : TakesPair(w, g, b, p, mishap)
      BY <1>4, <3>1, RememberFacts
    <3>3. CASE g = w /\ \A q \in Pairs : w.pairs[q].inUse
      BY <1>4, <2>2, <3>3
    <3>4. CASE \E p \in Pairs : TakesPair(w, g, b, p, mishap)
      <4>1. PICK p \in Pairs : TakesPair(w, g, b, p, mishap)
        BY <3>4
      <4>. QED
        BY <1>4, <2>2, <4>1 DEF TakesPair, OtherPair
    <3>. QED
      BY <3>2, <3>3, <3>4
  <2>. QED
    BY <2>1, <2>2
<1>. HIDE DEF g
<1>6. /\ Shape(e)
      /\ e.free = g.free + g.buffers[b].held /\ e.inUse = Decremented(g.inUse)
      /\ e.unicast = IF g.buffers[b].unicast THEN Decremented(g.unicast) ELSE g.unicast
      /\ e.expired = g.expired /\ e.delivered = g.delivered /\ e.pairs = g.pairs
      /\ Others(g, e, b)
      /\ EmptyOf(g.buffers[b], e.buffers[b]) /\ e.buffers[b].timer = g.buffers[b].timer
  BY <1>5, EmptyFacts DEF Others, EmptyOf
<1>. HIDE DEF e
<1>7. Others(r, e, b)
  BY <1>1, <1>5, <1>6 DEF Others, OtherMarks
<1>8. EmptyOf(x, e.buffers[b])
  BY <1>1, <1>5, <1>6 DEF EmptyOf, OtherMarks
<1>9. e.buffers[b].timer = Cancel(x.timer) /\ e.expired = r.expired
  BY <1>1, <1>5, <1>6
<1>10. /\ e.free = r.free + x.held /\ e.inUse = Decremented(r.inUse)
       /\ e.unicast = IF x.unicast THEN Decremented(r.unicast) ELSE r.unicast
  BY <1>1, <1>5, <1>6 DEF OtherMarks
<1>11. mishap = "noBuffer" => e.delivered = r.delivered /\ e.pairs = r.pairs
  BY <1>1, <1>5, <1>6 DEF OtherMarks
<1>12. mishap # "noBuffer" => Delivers(r, e, b, mishap)
  <2>. SUFFICES ASSUME mishap # "noBuffer" PROVE Delivers(r, e, b, mishap)
    OBVIOUS
  <2>1. d.pairs = r.pairs /\ d.buffers[b].src = x.src /\ d.buffers[b].packet = x.packet
    BY <1>1 DEF OtherMarks
  <2>2. e.delivered = w.delivered /\ e.pairs = g.pairs
    BY <1>5, <1>6
  <2>3. /\ \A n \in Nodes \ {x.src} : e.delivered[n] = r.delivered[n]
        /\ x.src \in Nodes => e.delivered[x.src] = Append(r.delivered[x.src], WholeOf(x))
    BY <1>4, <2>2
  <2>4. \/ e.pairs = r.pairs /\ \A q \in Pairs : r.pairs[q].inUse
        \/ \E p \in Pairs : /\ ~ r.pairs[p].inUse
                            /\ \A q \in Pairs \ {p} : e.pairs[q] = r.pairs[q]
                            /\ e.pairs[p].src = x.src /\ e.pairs[p].packet = x.packet
                            /\ Timed(mishap) => /\ e.pairs[p].inUse = TRUE
                                                     /\ e.pairs[p].timer = Start(r.pairs[p].timer)
    BY <1>5, <2>1, <2>2
  <2>. QED
    BY <2>3, <2>4 DEF Delivers
<1>. QED
  BY <1>2, <1>6, <1>7, <1>8, <1>9, <1>10, <1>11, <1>12

\* The cases of the functions that call others.
Complete(s, b) == /\ s.buffers[b].received >= s.buffers[b].expected
                  /\ \A i \in 0 .. s.buffers[b].count : s.buffers[b].parts[i] # None

LEMMA AcceptCases ==
  ASSUME NEW r, NEW b, NEW f, NEW mishap
  PROVE  LET s == Stored(r, b, f)
             e == Accept(r, b, f, mishap)
         IN \/ Complete(s, b) /\ e = AssemblePacket(s, b, mishap)
            \/ ~ Complete(s, b) /\ e = s
BY DEF Accept, Stored, Complete

LEMMA SameCases ==
  ASSUME NEW r, NEW b, NEW f, NEW mishap
  PROVE  LET t == AddRxAssemblyTimer(DeleteRxTimer(r, b), b, mishap)
             e == SamePacket(r, b, f, mishap)
         IN \/ e = t
            \/ /\ e = Accept(t, b, f, mishap) /\ t.buffers[b].parts[f.segment] = None
               /\ t.buffers[b].unicast = f.unicast /\ t.buffers[b].count = f.count
BY DEF SamePacket

\* The blocks there are for a new packet.
Got(r, f) == IF r.free < f.count + 1 THEN r.free ELSE f.count + 1

LEMMA NewCases ==
  ASSUME NEW r, Shape(r), NEW f, NEW mishap
  PROVE  LET e == NewPacket(r, f, mishap) IN
         \/ e = r
         \/ \E b \in Buffers :
              /\ r.buffers[b].state = "unused"
              /\ \/ /\ Got(r, f) < f.count + 1
                    /\ e = EmptyRxBuffer(Taken(r, b, f, Got(r, f)), b)
                 \/ /\ ~ (Got(r, f) < f.count + 1)
                    /\ e = Accept(AddRxAssemblyTimer(Taken(r, b, f, Got(r, f)), b, mishap), b, f, mishap)
<1>. DEFINE S == {c \in Buffers : r.buffers[c].state = "unused"}
            b == First(S)
            e == NewPacket(r, f, mishap)
<1>1. /\ S = {} => b = None
      /\ S # {} => b \in S /\ b # None
  <2>1. S \subseteq Nat \ {0}
    BY DEF Buffers
  <2>. HIDE DEF S
  <2>. QED
    BY <2>1, FirstFacts
<1>2. CASE b = None
  BY <1>2 DEF NewPacket
<1>3. CASE b # None
  <2>1. b \in Buffers /\ r.buffers[b].state = "unused"
    BY <1>1, <1>3
  <2>2. e = IF Got(r, f) < f.count + 1 THEN EmptyRxBuffer(Taken(r, b, f, Got(r, f)), b)
            ELSE Accept(AddRxAssemblyTimer(Taken(r, b, f, Got(r, f)), b, mishap), b, f, mishap)
    BY <1>3 DEF NewPacket, Taken, Got
  <2>. HIDE DEF b
  <2>. QED
    BY <2>1, <2>2
<1>. QED
  BY <1>2, <1>3

-----------------------------------------------------------------------------
(* CheckTimeouts: the fold over the queued buffers, place by place.         *)

LEMMA MaxFacts ==
  ASSUME NEW n \in Nat, NEW s \in SUBSET (1 .. n), s # {}
  PROVE  Max(s) \in s /\ \A x \in s : x <= Max(s)
<1>. DEFINE t == {n - x : x \in s}
<1>0. \A x \in s : x \in 1 .. n /\ n - x \in Nat
  OBVIOUS
<1>1. t \in SUBSET Nat /\ t # {}
  BY <1>0
<1>2. PICK m \in t : \A y \in t : m <= y
  <2>. HIDE DEF t
  <2>. QED
    BY <1>1, Least
<1>3. PICK x \in s : m = n - x
  BY <1>2
<1>4. \A y \in s : n - x <= n - y
  BY <1>2, <1>3
<1>5. \A y \in s : x >= y
  BY <1>0, <1>4
<1>6. \E z \in s : \A y \in s : z >= y
  BY <1>5
<1>7. (CHOOSE z \in s : \A y \in s : z >= y) \in s
      /\ \A y \in s : (CHOOSE z \in s : \A w \in s : z >= w) >= y
  BY <1>6
<1>8. Max(s) = CHOOSE z \in s : \A y \in s : z >= y
  BY DEF Max
<1>9. Max(s) \in s /\ \A y \in s : Max(s) >= y
  BY <1>7, <1>8
<1>. QED
  BY <1>0, <1>9

IsChain(g, r, l) ==
  g = [s \in SUBSET DOMAIN l |->
         IF s = {} THEN r ELSE EmptyRxBuffer(g[s \ {Max(s)}], l[Max(s)])]

LEMMA ChainExists ==
  ASSUME NEW r, NEW l \in Seq(Buffers)
  PROVE  \E g : IsChain(g, r, l)
<1>. DEFINE n == Len(l)
            D == SUBSET DOMAIN l
            Right(g, k) == \A s \in D : Cardinality(s) <= k =>
                              g[s] = IF s = {} THEN r
                                     ELSE EmptyRxBuffer(g[s \ {Max(s)}], l[Max(s)])
            P == {k \in 0 .. n : \E g : Right(g, k)}
<1>1. n \in Nat /\ DOMAIN l = 1 .. n /\ IsFiniteSet(DOMAIN l) /\ Cardinality(DOMAIN l) = n
  <2>1. n \in Nat /\ DOMAIN l = 1 .. n
    OBVIOUS
  <2>. HIDE DEF n
  <2>2. IsFiniteSet(1 .. n) /\ Cardinality(1 .. n) = IF 1 > n THEN 0 ELSE n - 1 + 1
    BY <2>1, FS_Interval
  <2>. QED
    BY <2>1, <2>2
<1>2. ASSUME NEW s \in D
      PROVE  /\ IsFiniteSet(s) /\ Cardinality(s) \in 0 .. n
             /\ s # {} => /\ Max(s) \in s /\ Cardinality(s \ {Max(s)}) = Cardinality(s) - 1
                          /\ s \ {Max(s)} \in D
             /\ Cardinality(s) = 0 <=> s = {}
  <2>. HIDE DEF n
  <2>1. IsFiniteSet(s) /\ Cardinality(s) \in 0 .. n /\ (Cardinality(s) = 0 <=> s = {})
    BY <1>1, FS_Subset, FS_CardinalityType, FS_EmptySet
  <2>2. ASSUME s # {} PROVE Max(s) \in s
    BY <1>1, <2>1, <2>2, MaxFacts
  <2>3. ASSUME s # {} PROVE Cardinality(s \ {Max(s)}) = Cardinality(s) - 1
    BY <2>1, <2>2, <2>3, FS_RemoveElement
  <2>. QED
    BY <2>1, <2>2, <2>3
<1>. HIDE DEF n, D
<1>10. \A s \in D : Cardinality(s) \in Nat /\ Cardinality(s) <= n
  <2>1. ASSUME NEW s \in D PROVE Cardinality(s) \in 0 .. n
    BY <1>2
  <2>2. \A i \in 0 .. n : i \in Nat /\ i <= n
    BY <1>1
  <2>. QED
    BY <2>1, <2>2
<1>11. \A s \in D : Cardinality(s) = 0 <=> s = {}
  BY <1>2
<1>12. ASSUME NEW s \in D, s # {}
       PROVE  s \ {Max(s)} \in D /\ Cardinality(s \ {Max(s)}) = Cardinality(s) - 1
  BY <1>2, <1>12
<1>3. 0 \in P
  <2>. DEFINE g == [s \in D |-> r]
  <2>1. \A s \in D : Cardinality(s) <= 0 => s = {}
    BY <1>10, <1>11
  <2>2. Right(g, 0)
    BY <2>1
  <2>. HIDE DEF Right
  <2>. QED
    BY <1>1, <2>2
<1>4. ASSUME NEW k \in 1 .. n, k - 1 \in P PROVE k \in P
  <2>1. PICK g : Right(g, k - 1)
    BY <1>4
  <2>. DEFINE h == [s \in D |-> IF Cardinality(s) < k THEN g[s]
                                 ELSE EmptyRxBuffer(g[s \ {Max(s)}], l[Max(s)])]
  <2>2. ASSUME NEW s \in D, Cardinality(s) <= k
        PROVE  h[s] = IF s = {} THEN r ELSE EmptyRxBuffer(h[s \ {Max(s)}], l[Max(s)])
    <3>1. CASE s = {}
      <4>1. Cardinality(s) = 0 /\ Cardinality(s) < k /\ Cardinality(s) <= k - 1
        BY <1>11, <3>1
      <4>2. h[s] = g[s]
        BY <4>1
      <4>. QED
        BY <2>1, <3>1, <4>1, <4>2
    <3>2. CASE s # {}
      <4>1. s \ {Max(s)} \in D /\ Cardinality(s \ {Max(s)}) < k
        <5>0. \A i, j : i \in Nat /\ j \in Nat /\ i <= j => i - 1 < j
          OBVIOUS
        <5>1. s \ {Max(s)} \in D /\ Cardinality(s \ {Max(s)}) = Cardinality(s) - 1
          BY <1>12, <3>2
        <5>2. Cardinality(s) \in Nat /\ k \in Nat
          BY <1>1, <1>10
        <5>. QED
          BY <2>2, <5>0, <5>1, <5>2
      <4>2. h[s \ {Max(s)}] = g[s \ {Max(s)}]
        BY <4>1
      <4>3. CASE Cardinality(s) < k
        <5>1. Cardinality(s) <= k - 1
          <6>0. \A i, j : i \in Nat /\ j \in Nat /\ i < j => i <= j - 1
            OBVIOUS
          <6>1. Cardinality(s) \in Nat /\ k \in Nat
            BY <1>1, <1>10
          <6>. QED
            BY <4>3, <6>0, <6>1
        <5>2. g[s] = EmptyRxBuffer(g[s \ {Max(s)}], l[Max(s)])
          BY <2>1, <3>2, <5>1
        <5>3. h[s] = g[s]
          BY <4>3
        <5>. QED
          BY <3>2, <4>2, <5>2, <5>3
      <4>4. CASE ~ (Cardinality(s) < k)
        <5>1. h[s] = EmptyRxBuffer(g[s \ {Max(s)}], l[Max(s)])
          BY <4>4
        <5>. QED
          BY <3>2, <4>2, <5>1
      <4>. QED
        BY <4>3, <4>4
    <3>. QED
      BY <3>1, <3>2
  <2>. HIDE DEF h
  <2>3. Right(h, k)
    BY <2>2
  <2>. HIDE DEF Right
  <2>. QED
    BY <1>1, <2>3
<1>5. n \in P
  <2>. HIDE DEF P
  <2>. QED
    BY <1>1, <1>3, <1>4, Climb
<1>6. PICK g : Right(g, n)
  BY <1>5
<1>. DEFINE h == [s \in D |-> g[s]]
<1>7. ASSUME NEW s \in D
      PROVE  h[s] = IF s = {} THEN r ELSE EmptyRxBuffer(h[s \ {Max(s)}], l[Max(s)])
  <2>1. g[s] = IF s = {} THEN r ELSE EmptyRxBuffer(g[s \ {Max(s)}], l[Max(s)])
    BY <1>6, <1>10
  <2>2. s # {} => h[s \ {Max(s)}] = g[s \ {Max(s)}]
    BY <1>12
  <2>. QED
    BY <2>1, <2>2
<1>8. h = [s \in D |-> h[s]]
  OBVIOUS
<1>. HIDE DEF h
<1>9. IsChain(h, r, l)
  BY <1>7, <1>8 DEF IsChain, D
<1>. QED
  BY <1>9

\* The state after each of the queued buffers.
EmptiesList(g, r, l) ==
  /\ g[0] = r
  /\ \A i \in 1 .. Len(l) : g[i] = EmptyRxBuffer(g[i - 1], l[i])

LEMMA FoldFacts ==
  ASSUME NEW r, NEW l \in Seq(Buffers)
  PROVE  \E g : EmptiesList(g, r, l) /\ FoldLeft(EmptyRxBuffer, r, l) = g[Len(l)]
<1>. DEFINE n == Len(l)
            c == CHOOSE g : IsChain(g, r, l)
            g == [i \in 0 .. n |-> c[1 .. i]]
<1>1. n \in Nat /\ DOMAIN l = 1 .. n
  OBVIOUS
<1>2. IsChain(c, r, l)
  BY ChainExists
<1>3. FoldLeft(EmptyRxBuffer, r, l) = c[DOMAIN l]
  BY DEF FoldLeft, MapThenFoldSet, IsChain
<1>. HIDE DEF c, n
<1>4. c[{}] = r
  BY <1>2 DEF IsChain
<1>5. ASSUME NEW i \in 1 .. n
      PROVE  c[1 .. i] = EmptyRxBuffer(c[1 .. i - 1], l[i])
  <2>1. 1 .. i \in SUBSET DOMAIN l /\ 1 .. i # {}
    BY <1>1
  <2>2. Max(1 .. i) \in 1 .. i /\ \A x \in 1 .. i : x <= Max(1 .. i)
    BY <1>1, <2>1, MaxFacts
  <2>3. Max(1 .. i) = i
    BY <1>1, <2>2
  <2>4. (1 .. i) \ {i} = 1 .. i - 1
    BY <1>1
  <2>. QED
    BY <1>2, <2>1, <2>3, <2>4 DEF IsChain
<1>6. g[0] = r
  <2>1. 1 .. 0 = {}
    OBVIOUS
  <2>. QED
    BY <1>1, <1>4, <2>1
<1>7. ASSUME NEW i \in 1 .. n PROVE g[i] = EmptyRxBuffer(g[i - 1], l[i])
  BY <1>1, <1>5
<1>8. EmptiesList(g, r, l) /\ c[DOMAIN l] = g[n]
  <2>1. c[DOMAIN l] = g[n]
    BY <1>1
  <2>. HIDE DEF g
  <2>. QED
    BY <1>6, <1>7, <2>1 DEF EmptiesList, n
<1>. QED
  BY <1>3, <1>8 DEF n

-----------------------------------------------------------------------------
(* The nodes and their frames.                                              *)

\* A frame says of its packet what is so.
RightFrame ==
  {f \in [src : Nodes, packet : Nat, segment : Nat, count : Nat, unicast : BOOLEAN] :
     /\ f.packet \in 1 .. Len(Length[f.src]) /\ f.count = Length[f.src][f.packet] - 1
     /\ f.segment <= f.count}

Air ==
  /\ sender \in [Nodes -> [packet : Nat, try : Nat, segment : Nat]]
  /\ \A n \in Nodes : /\ sender[n].packet <= Len(Length[n]) /\ sender[n].try <= Repeats
                      /\ sender[n].packet = 0 => sender[n].segment = 0
                      /\ sender[n].packet > 0 => sender[n].segment <= Length[n][sender[n].packet]
  /\ inbox \in Seq(RightFrame) /\ Len(inbox) <= QueueSize

LEMMA LengthFacts ==
  /\ \A n \in Nodes : /\ Length[n] \in Seq(1 .. MaxSegments) /\ Len(Length[n]) \in Nat
                      /\ \A k \in 1 .. Len(Length[n]) : Length[n][k] \in 1 .. MaxSegments
  /\ MaxSegments \in Nat \ {0}
<1>1. \A n \in Nodes : Length[n] \in Seq(1 .. MaxSegments)
  BY NodesAssumption
<1>2. ASSUME NEW n \in Nodes
      PROVE  /\ Len(Length[n]) \in Nat
             /\ \A k \in 1 .. Len(Length[n]) : Length[n][k] \in 1 .. MaxSegments
  <2>. DEFINE l == Length[n]
              D == 1 .. MaxSegments
  <2>1. l \in Seq(D)
    BY <1>1
  <2>. HIDE DEF l, D
  <2>2. Len(l) \in Nat /\ \A k \in 1 .. Len(l) : l[k] \in D
    BY <2>1
  <2>. QED
    BY <2>2 DEF l, D
<1>3. MaxSegments \in Nat \ {0}
  BY SizesAssumption
<1>. QED
  BY <1>1, <1>2, <1>3

LEMMA AirBegins == Init => Air
<1>. SUFFICES ASSUME Init PROVE Air
  OBVIOUS
<1>1. sender = [n \in Nodes |-> [packet |-> 0, try |-> 0, segment |-> 0]] /\ inbox = <<>>
  BY DEF Init
<1>2. \A n \in Nodes : sender[n].packet = 0 /\ sender[n].try = 0 /\ sender[n].segment = 0
  BY <1>1
<1>3. \A n \in Nodes : Len(Length[n]) \in Nat /\ 0 <= Len(Length[n]) /\ 0 <= Repeats
  BY LengthFacts, SizesAssumption
<1>4. sender \in [Nodes -> [packet : Nat, try : Nat, segment : Nat]]
  BY <1>1
<1>5. inbox \in Seq(RightFrame) /\ Len(inbox) <= QueueSize
  BY <1>1, SizesAssumption
<1>. QED
  BY <1>2, <1>3, <1>4, <1>5 DEF Air

\* A node's steps: what changes of the sender.
LEMMA SenderSteps ==
  ASSUME Air, NEW n \in Nodes
  PROVE  /\ SendFrame(n) =>
              /\ sender'[n] = [packet |-> sender[n].packet, try |-> sender[n].try,
                               segment |-> sender[n].segment + 1]
              /\ \A m \in Nodes \ {n} : sender'[m] = sender[m]
              /\ sender' = [m \in Nodes |-> sender'[m]]
         /\ SendAgain(n) =>
              /\ sender'[n] = [packet |-> sender[n].packet, try |-> sender[n].try + 1, segment |-> 0]
              /\ \A m \in Nodes \ {n} : sender'[m] = sender[m]
              /\ sender' = [m \in Nodes |-> sender'[m]]
         /\ BeginPacket(n) =>
              /\ sender'[n] = [packet |-> sender[n].packet + 1, try |-> 0, segment |-> 0]
              /\ \A m \in Nodes \ {n} : sender'[m] = sender[m]
              /\ sender' = [m \in Nodes |-> sender'[m]]
<1>. DEFINE s == sender[n]
            k == s.packet
            t == s.try
            g == s.segment
<1>1. s = [packet |-> k, try |-> t, segment |-> g] /\ k \in Nat /\ t \in Nat /\ g \in Nat
  BY DEF Air
<1>2. sender = [m \in Nodes |-> sender[m]]
  BY DEF Air
<1>3. ASSUME SendFrame(n)
      PROVE  /\ sender'[n] = [packet |-> k, try |-> t, segment |-> g + 1]
             /\ \A m \in Nodes \ {n} : sender'[m] = sender[m]
             /\ sender' = [m \in Nodes |-> sender'[m]]
  <2>1. sender' = [sender EXCEPT ![n] = [s EXCEPT !.segment = g + 1]]
    BY <1>3 DEF SendFrame
  <2>2. [s EXCEPT !.segment = g + 1] = [packet |-> k, try |-> t, segment |-> g + 1]
    BY <1>1
  <2>. HIDE DEF s, k, t, g
  <2>. QED
    BY <1>2, <2>1, <2>2
<1>4. ASSUME SendAgain(n)
      PROVE  /\ sender'[n] = [packet |-> k, try |-> t + 1, segment |-> 0]
             /\ \A m \in Nodes \ {n} : sender'[m] = sender[m]
             /\ sender' = [m \in Nodes |-> sender'[m]]
  <2>. DEFINE u == [s EXCEPT !.segment = 0]
              v == [u EXCEPT !.try = t + 1]
  <2>1. u = [packet |-> k, try |-> t, segment |-> 0]
    BY <1>1
  <2>2. v = [packet |-> k, try |-> t + 1, segment |-> 0]
    <3>. HIDE DEF u, k, t
    <3>. QED
      BY <2>1
  <2>3. sender' = [[sender EXCEPT ![n].segment = 0] EXCEPT ![n].try = t + 1]
    BY <1>4 DEF SendAgain
  <2>4. [sender EXCEPT ![n].segment = 0] = [sender EXCEPT ![n] = u]
    BY <1>2
  <2>5. [[sender EXCEPT ![n] = u] EXCEPT ![n].try = t + 1] = [sender EXCEPT ![n] = v]
    <3>. HIDE DEF u, t, s
    <3>. QED
      BY <1>2
  <2>6. sender' = [sender EXCEPT ![n] = v]
    BY <2>3, <2>4, <2>5
  <2>. HIDE DEF v, u, s, k, t, g
  <2>. QED
    BY <1>2, <2>2, <2>6
<1>5. ASSUME BeginPacket(n)
      PROVE  /\ sender'[n] = [packet |-> k + 1, try |-> 0, segment |-> 0]
             /\ \A m \in Nodes \ {n} : sender'[m] = sender[m]
             /\ sender' = [m \in Nodes |-> sender'[m]]
  <2>1. sender' = [sender EXCEPT ![n] = [packet |-> k + 1, try |-> 0, segment |-> 0]]
    BY <1>5 DEF BeginPacket
  <2>. HIDE DEF s, k, t, g
  <2>. QED
    BY <1>2, <2>1
<1>. QED
  BY <1>3, <1>4, <1>5

\* What SendFrame puts in the queue.
NewFrame(n) == [src |-> n, packet |-> sender[n].packet, segment |-> sender[n].segment,
                count |-> Length[n][sender[n].packet] - 1, unicast |-> n \in Unicast]

LEMMA FrameFacts ==
  ASSUME Air, NEW n \in Nodes, SendFrame(n)
  PROVE  /\ NewFrame(n) \in RightFrame
         /\ \/ inbox' = Append(inbox, NewFrame(n)) /\ Len(inbox) < QueueSize
            \/ inbox' = inbox
<1>1. sender[n].packet \in Nat /\ sender[n].segment \in Nat
  BY DEF Air
<1>2. sender[n].packet > 0 /\ sender[n].segment < Length[n][sender[n].packet]
  BY DEF SendFrame, Sending
<1>3. sender[n].packet \in 1 .. Len(Length[n])
  BY <1>1, <1>2, LengthFacts DEF Air
<1>4. Length[n][sender[n].packet] \in 1 .. MaxSegments
  BY <1>3, LengthFacts
<1>5. /\ Length[n][sender[n].packet] - 1 \in Nat
      /\ sender[n].segment <= Length[n][sender[n].packet] - 1
  <2>1. \A i, j : i \in Nat /\ j \in 1 .. MaxSegments /\ i < j => j - 1 \in Nat /\ i <= j - 1
    BY LengthFacts
  <2>. QED
    BY <1>1, <1>2, <1>4, <2>1
<1>6. (n \in Unicast) \in BOOLEAN
  OBVIOUS
<1>7. NewFrame(n) \in [src : Nodes, packet : Nat, segment : Nat, count : Nat, unicast : BOOLEAN]
  <2>. DEFINE u == n \in Unicast
  <2>1. u \in BOOLEAN
    OBVIOUS
  <2>2. NewFrame(n) = [src |-> n, packet |-> sender[n].packet, segment |-> sender[n].segment,
                       count |-> Length[n][sender[n].packet] - 1, unicast |-> u]
    BY DEF NewFrame
  <2>. HIDE DEF u
  <2>. QED
    BY <1>1, <1>5, <2>1, <2>2
<1>8. /\ NewFrame(n).src = n /\ NewFrame(n).packet = sender[n].packet
      /\ NewFrame(n).segment = sender[n].segment
      /\ NewFrame(n).count = Length[n][sender[n].packet] - 1
  BY DEF NewFrame
<1>9. NewFrame(n) \in RightFrame
  BY <1>3, <1>5, <1>7, <1>8 DEF RightFrame
<1>10. \/ inbox' = Append(inbox, NewFrame(n)) /\ Len(inbox) < QueueSize
       \/ inbox' = inbox
  BY DEF SendFrame, NewFrame
<1>. QED
  BY <1>9, <1>10

LEMMA AirStep == Air /\ [Next]_vars => Air'
<1>. SUFFICES ASSUME Air, [Next]_vars PROVE Air'
  OBVIOUS
<1>0. QueueSize \in Nat \ {0} /\ Repeats \in Nat /\ Len(inbox) \in Nat
  BY SizesAssumption DEF Air
<1>1. CASE UNCHANGED <<sender, inbox>>
  BY <1>1 DEF Air
<1>2. CASE Handle
  <2>1. sender' = sender /\ inbox' = Tail(inbox)
    BY <1>2 DEF Handle
  <2>2. Tail(inbox) \in Seq(RightFrame) /\ Len(Tail(inbox)) <= QueueSize
    <3>1. CASE inbox = <<>>
      BY <1>0, <3>1 DEF Air
    <3>2. CASE inbox # <<>>
      BY <1>0, <3>2 DEF Air
    <3>. QED
      BY <3>1, <3>2
  <2>. QED
    BY <2>1, <2>2 DEF Air
<1>3. ASSUME NEW n \in Nodes, SendFrame(n) PROVE Air'
  <2>1. inbox' \in Seq(RightFrame) /\ Len(inbox') <= QueueSize
    <3>1. NewFrame(n) \in RightFrame /\ inbox \in Seq(RightFrame) /\ Len(inbox) <= QueueSize
      BY <1>3, FrameFacts DEF Air
    <3>2. CASE inbox' = Append(inbox, NewFrame(n)) /\ Len(inbox) < QueueSize
      <4>1. \A q \in Seq(RightFrame), f \in RightFrame :
              Append(q, f) \in Seq(RightFrame) /\ Len(Append(q, f)) = Len(q) + 1
        OBVIOUS
      <4>2. inbox' \in Seq(RightFrame) /\ Len(inbox') = Len(inbox) + 1
        BY <3>1, <3>2, <4>1
      <4>. QED
        BY <1>0, <3>2, <4>2
    <3>3. CASE inbox' = inbox
      BY <3>1, <3>3
    <3>. QED
      BY <1>3, <3>2, <3>3, FrameFacts
  <2>2. /\ sender'[n] = [packet |-> sender[n].packet, try |-> sender[n].try,
                         segment |-> sender[n].segment + 1]
        /\ \A m \in Nodes \ {n} : sender'[m] = sender[m]
        /\ sender' = [m \in Nodes |-> sender'[m]]
    BY <1>3, SenderSteps
  <2>3. /\ sender'[n].packet = sender[n].packet /\ sender'[n].try = sender[n].try
        /\ sender'[n].segment = sender[n].segment + 1
    BY <2>2
  <2>4. sender[n].packet > 0 /\ sender[n].segment < Length[n][sender[n].packet]
    BY <1>3 DEF SendFrame, Sending
  <2>5. sender[n].packet \in 1 .. Len(Length[n]) /\ sender[n].segment \in Nat /\ sender[n].try \in Nat
    BY <2>4, LengthFacts DEF Air
  <2>6. Length[n][sender[n].packet] \in Nat
    BY <2>5, LengthFacts
  <2>7. sender[n].segment + 1 <= Length[n][sender[n].packet]
    BY <2>4, <2>5, <2>6
  <2>8. \A m \in Nodes : sender'[m] \in [packet : Nat, try : Nat, segment : Nat]
    BY <2>2, <2>5 DEF Air
  <2>9. sender' \in [Nodes -> [packet : Nat, try : Nat, segment : Nat]]
    BY <2>2, <2>8
  <2>10. \A m \in Nodes : /\ sender'[m].packet <= Len(Length[m]) /\ sender'[m].try <= Repeats
                          /\ sender'[m].packet = 0 => sender'[m].segment = 0
                          /\ sender'[m].packet > 0 => sender'[m].segment <= Length[m][sender'[m].packet]
    <3>1. /\ sender'[n].packet <= Len(Length[n]) /\ sender'[n].try <= Repeats
          /\ sender'[n].packet # 0
          /\ sender'[n].segment <= Length[n][sender'[n].packet]
      BY <2>3, <2>4, <2>5, <2>7 DEF Air
    <3>. QED
      BY <2>2, <3>1 DEF Air
  <2>. QED
    BY <2>1, <2>9, <2>10 DEF Air
<1>4. ASSUME NEW n \in Nodes, SendAgain(n) PROVE Air'
  <2>1. /\ sender'[n] = [packet |-> sender[n].packet, try |-> sender[n].try + 1, segment |-> 0]
        /\ \A m \in Nodes \ {n} : sender'[m] = sender[m]
        /\ sender' = [m \in Nodes |-> sender'[m]] /\ inbox' = inbox
    BY <1>4, SenderSteps DEF SendAgain
  <2>2. /\ sender[n].packet > 0 /\ sender[n].try < Repeats
        /\ sender[n].packet \in 1 .. Len(Length[n]) /\ sender[n].try \in Nat
    BY <1>4, LengthFacts DEF Air, SendAgain
  <2>3. /\ sender'[n].packet = sender[n].packet /\ sender'[n].try = sender[n].try + 1
        /\ sender'[n].segment = 0
    BY <2>1
  <2>4. Length[n][sender[n].packet] \in Nat
    BY <2>2, LengthFacts
  <2>5. \A m \in Nodes : sender'[m] \in [packet : Nat, try : Nat, segment : Nat]
    BY <2>1, <2>2 DEF Air
  <2>6. sender' \in [Nodes -> [packet : Nat, try : Nat, segment : Nat]]
    BY <2>1, <2>5
  <2>7. \A m \in Nodes : /\ sender'[m].packet <= Len(Length[m]) /\ sender'[m].try <= Repeats
                         /\ sender'[m].packet = 0 => sender'[m].segment = 0
                         /\ sender'[m].packet > 0 => sender'[m].segment <= Length[m][sender'[m].packet]
    <3>1. /\ sender'[n].packet <= Len(Length[n]) /\ sender'[n].try <= Repeats
          /\ sender'[n].packet # 0
          /\ sender'[n].segment <= Length[n][sender'[n].packet]
      BY <1>0, <2>2, <2>3, <2>4 DEF Air
    <3>. QED
      BY <2>1, <3>1 DEF Air
  <2>. QED
    BY <2>1, <2>6, <2>7 DEF Air
<1>5. ASSUME NEW n \in Nodes, BeginPacket(n) PROVE Air'
  <2>1. /\ sender'[n] = [packet |-> sender[n].packet + 1, try |-> 0, segment |-> 0]
        /\ \A m \in Nodes \ {n} : sender'[m] = sender[m]
        /\ sender' = [m \in Nodes |-> sender'[m]] /\ inbox' = inbox
    BY <1>5, SenderSteps DEF BeginPacket
  <2>2. sender[n].packet \in Nat /\ sender[n].packet + 1 \in 1 .. Len(Length[n])
    BY <1>5, LengthFacts DEF Air, BeginPacket
  <2>3. /\ sender'[n].packet = sender[n].packet + 1 /\ sender'[n].try = 0
        /\ sender'[n].segment = 0
    BY <2>1
  <2>4. Length[n][sender[n].packet + 1] \in Nat
    BY <2>2, LengthFacts
  <2>5. \A m \in Nodes : sender'[m] \in [packet : Nat, try : Nat, segment : Nat]
    <3>1. sender'[n] \in [packet : Nat, try : Nat, segment : Nat]
      <4>1. \A k \in Nat : [packet |-> k, try |-> 0, segment |-> 0] \in [packet : Nat, try : Nat, segment : Nat]
        OBVIOUS
      <4>. QED
        BY <2>1, <2>2, <4>1
    <3>. QED
      BY <2>1, <3>1 DEF Air
  <2>6. sender' \in [Nodes -> [packet : Nat, try : Nat, segment : Nat]]
    BY <2>1, <2>5
  <2>7. \A m \in Nodes : /\ sender'[m].packet <= Len(Length[m]) /\ sender'[m].try <= Repeats
                         /\ sender'[m].packet = 0 => sender'[m].segment = 0
                         /\ sender'[m].packet > 0 => sender'[m].segment <= Length[m][sender'[m].packet]
    <3>1. /\ sender'[n].packet <= Len(Length[n]) /\ sender'[n].try <= Repeats
          /\ sender'[n].packet # 0
          /\ sender'[n].segment <= Length[n][sender'[n].packet]
      BY <1>0, <2>2, <2>3, <2>4
    <3>. QED
      BY <2>1, <3>1 DEF Air
  <2>. QED
    BY <2>1, <2>6, <2>7 DEF Air
<1>6. CASE UNCHANGED vars
  BY <1>1, <1>6 DEF vars
<1>7. CASE Next
  BY <1>1, <1>2, <1>3, <1>4, <1>5, <1>7 DEF Next, Find, CheckTimeouts, RxTimerExpires, PairTimerExpires
<1>. QED
  BY <1>6, <1>7

-----------------------------------------------------------------------------
(* A node is known in one place.                                            *)

CollectedIn(r, c, n) == r.buffers[c].state = "inUse" /\ r.buffers[c].src = n
KnownFrom(r, q, n)   == r.pairs[q].inUse /\ r.pairs[q].src = n

\* State e has nothing in use that r has not.
Fewer(r, e) ==
  /\ \A c \in Buffers : \A n : CollectedIn(e, c, n) => CollectedIn(r, c, n)
  /\ \A q \in Pairs : \A n : KnownFrom(e, q, n) => KnownFrom(r, q, n)

Single(r) ==
  /\ \A b, c \in Buffers : \A n : CollectedIn(r, b, n) /\ CollectedIn(r, c, n) => b = c
  /\ \A p, q \in Pairs : \A n : KnownFrom(r, p, n) /\ KnownFrom(r, q, n) => p = q
  /\ \A b \in Buffers, p \in Pairs : \A n : ~ (CollectedIn(r, b, n) /\ KnownFrom(r, p, n))

\* Node n is known in buffer b and pair p, if at all.
Only(r, b, p, n) ==
  /\ \A c \in Buffers : CollectedIn(r, c, n) => c = b
  /\ \A q \in Pairs : KnownFrom(r, q, n) => q = p

Sound(r) == Shape(r) /\ Single(r) /\ r.expired \in Seq(Buffers)

LEMMA FewerFacts ==
  ASSUME NEW r, NEW e, Fewer(r, e)
  PROVE  /\ Single(r) => Single(e)
         /\ \A b, p, n : Only(r, b, p, n) => Only(e, b, p, n)
<1>1. Single(r) => Single(e)
  BY DEF Fewer, Single
<1>2. ASSUME NEW b, NEW p, NEW n, Only(r, b, p, n) PROVE Only(e, b, p, n)
  BY <1>2 DEF Fewer, Only
<1>. QED
  BY <1>1, <1>2

LEMMA MarksFewer ==
  ASSUME NEW r, NEW e, NEW b \in Buffers, OtherMarks(r, e, b),
         e.buffers[b].state \in {r.buffers[b].state, "stale"}
  PROVE  Fewer(r, e)
<1>1. \A c \in Buffers \ {b} : e.buffers[c] = r.buffers[c]
  BY DEF OtherMarks
<1>2. e.pairs = r.pairs /\ e.buffers[b].src = r.buffers[b].src
  BY DEF OtherMarks
<1>3. e.buffers[b].state = "inUse" => r.buffers[b].state = "inUse"
  OBVIOUS
<1>. QED
  BY <1>1, <1>2, <1>3 DEF Fewer, CollectedIn, KnownFrom

LEMMA PairFewer ==
  ASSUME NEW r, NEW e, NEW p \in Pairs, OtherPair(r, e, p),
         e.pairs[p].inUse => r.pairs[p].inUse /\ e.pairs[p].src = r.pairs[p].src
  PROVE  Fewer(r, e)
BY DEF OtherPair, Fewer, CollectedIn, KnownFrom

LEMMA EmptySound ==
  ASSUME NEW r, Sound(r), NEW b \in Buffers
  PROVE  LET e == EmptyRxBuffer(r, b) IN
         Sound(e) /\ Fewer(r, e) /\ e.buffers[b].state = "unused" /\ e.expired = r.expired
<1>. DEFINE e == EmptyRxBuffer(r, b)
<1>1. /\ Shape(e) /\ Others(r, e, b) /\ e.buffers[b].state = "unused" /\ e.expired = r.expired
      /\ e.pairs = r.pairs
  BY EmptyFacts DEF Sound, Others
<1>. HIDE DEF e
<1>2. Fewer(r, e)
  BY <1>1 DEF Fewer, CollectedIn, KnownFrom, Others
<1>. QED
  BY <1>1, <1>2, FewerFacts DEF Sound, e

LEMMA DeleteSound ==
  ASSUME NEW r, Sound(r), NEW b \in Buffers
  PROVE  LET e == DeleteRxTimer(r, b) IN
         Sound(e) /\ Fewer(r, e) /\ e.buffers[b].src = r.buffers[b].src
<1>. DEFINE e == DeleteRxTimer(r, b)
<1>1. OtherMarks(r, e, b) /\ e.expired = r.expired /\ e.buffers[b].state = r.buffers[b].state
  BY DeleteFacts DEF Sound
<1>. HIDE DEF e
<1>2. Fewer(r, e)
  BY <1>1, MarksFewer
<1>3. Shape(e) /\ e.buffers[b].src = r.buffers[b].src
  BY <1>1 DEF OtherMarks
<1>. QED
  BY <1>1, <1>2, <1>3, FewerFacts DEF Sound, e

LEMMA AddTimerSound ==
  ASSUME NEW r, Sound(r), NEW b \in Buffers, NEW mishap
  PROVE  LET e == AddRxAssemblyTimer(r, b, mishap) IN
         Sound(e) /\ Fewer(r, e) /\ e.buffers[b].src = r.buffers[b].src
<1>. DEFINE e == AddRxAssemblyTimer(r, b, mishap)
<1>1. OtherMarks(r, e, b) /\ e.buffers[b].state \in {r.buffers[b].state, "stale"}
  BY AddTimerFacts DEF Sound
<1>4. e.expired \in {r.expired, Append(r.expired, b)}
  BY AddTimerFacts DEF Sound
<1>. HIDE DEF e
<1>2. Fewer(r, e)
  BY <1>1, MarksFewer
<1>3. Shape(e) /\ e.buffers[b].src = r.buffers[b].src
  BY <1>1 DEF OtherMarks
<1>5. e.expired \in Seq(Buffers)
  BY <1>4 DEF Sound
<1>. QED
  BY <1>2, <1>3, <1>5, FewerFacts DEF Sound, e

LEMMA StoredSound ==
  ASSUME NEW r, Sound(r), NEW b \in Buffers, NEW f
  PROVE  LET e == Stored(r, b, f) IN
         Sound(e) /\ Fewer(r, e) /\ e.buffers[b].src = r.buffers[b].src
<1>. DEFINE e == Stored(r, b, f)
<1>0. Shape(r)
  BY DEF Sound
<1>1. /\ Shape(e) /\ Others(r, e, b) /\ e.buffers[b].state = r.buffers[b].state
      /\ e.buffers[b].src = r.buffers[b].src /\ e.expired = r.expired /\ e.pairs = r.pairs
  BY <1>0, StoredFacts
<1>. HIDE DEF e
<1>2. Fewer(r, e)
  BY <1>1 DEF Fewer, CollectedIn, KnownFrom, Others
<1>. QED
  BY <1>1, <1>2, FewerFacts DEF Sound, e

\* A packet is delivered: its buffer is given back for the pair that remembers it.
LEMMA AssembleSound ==
  ASSUME NEW r, Sound(r), NEW b \in Buffers, NEW mishap,
         Only(r, b, None, r.buffers[b].src)
  PROVE  Sound(AssemblePacket(r, b, mishap))
<1>. DEFINE e == AssemblePacket(r, b, mishap)
            n == r.buffers[b].src
<1>1. /\ Shape(e) /\ Others(r, e, b) /\ EmptyOf(r.buffers[b], e.buffers[b])
      /\ e.expired = r.expired
      /\ mishap = "noBuffer" => e.delivered = r.delivered /\ e.pairs = r.pairs
      /\ mishap # "noBuffer" => Delivers(r, e, b, mishap)
  BY AssembleFacts DEF Sound
<1>. HIDE DEF e
<1>2. /\ e.buffers[b].state = "unused"
      /\ \A c \in Buffers \ {b} : e.buffers[c] = r.buffers[c]
  BY <1>1 DEF EmptyOf, Others
<1>3. /\ \A c \in Buffers : \A m : CollectedIn(e, c, m) => CollectedIn(r, c, m)
      /\ \A c \in Buffers : ~ CollectedIn(e, c, n)
  BY <1>2 DEF CollectedIn, Only
<1>4. CASE e.pairs = r.pairs
  <2>1. Fewer(r, e)
    BY <1>3, <1>4 DEF Fewer, KnownFrom
  <2>. QED
    BY <1>1, <2>1, FewerFacts DEF Sound, e
<1>5. CASE e.pairs # r.pairs
  <2>1. PICK p \in Pairs : /\ ~ r.pairs[p].inUse
                           /\ \A q \in Pairs \ {p} : e.pairs[q] = r.pairs[q]
                           /\ e.pairs[p].src = n
    BY <1>1, <1>5 DEF Delivers
  <2>2. \A q \in Pairs \ {p} : \A m : KnownFrom(e, q, m) => KnownFrom(r, q, m)
    BY <2>1 DEF KnownFrom
  <2>3. \A m : KnownFrom(e, p, m) => m = n
    BY <2>1 DEF KnownFrom
  <2>4. \A q \in Pairs : ~ KnownFrom(r, q, n)
    <3>1. \A q \in Pairs : q # None
      BY DEF Pairs, None
    <3>. QED
      BY <3>1 DEF Only
  <2>. HIDE DEF n
  <2>5. Single(e)
    BY <1>3, <2>2, <2>3, <2>4 DEF Single, Sound
  <2>. QED
    BY <1>1, <2>5 DEF Sound, e
<1>. QED
  BY <1>4, <1>5

LEMMA AcceptSound ==
  ASSUME NEW r, Sound(r), NEW b \in Buffers, NEW f, NEW mishap,
         Only(r, b, None, r.buffers[b].src)
  PROVE  Sound(Accept(r, b, f, mishap))
<1>. DEFINE s == Stored(r, b, f)
<1>1. Sound(s) /\ Fewer(r, s) /\ s.buffers[b].src = r.buffers[b].src
  BY StoredSound
<1>2. Accept(r, b, f, mishap) = AssemblePacket(s, b, mishap) \/ Accept(r, b, f, mishap) = s
  BY AcceptCases
<1>. HIDE DEF s
<1>3. Only(s, b, None, s.buffers[b].src)
  BY <1>1, FewerFacts
<1>. QED
  BY <1>1, <1>2, <1>3, AssembleSound

LEMMA SameSound ==
  ASSUME NEW r, Sound(r), NEW b \in Buffers, NEW f, NEW mishap,
         Only(r, b, None, r.buffers[b].src)
  PROVE  Sound(SamePacket(r, b, f, mishap))
<1>. DEFINE d == DeleteRxTimer(r, b)
            t == AddRxAssemblyTimer(d, b, mishap)
<1>1. Sound(d) /\ Fewer(r, d) /\ d.buffers[b].src = r.buffers[b].src
  BY DeleteSound
<1>2. SamePacket(r, b, f, mishap) = t \/ SamePacket(r, b, f, mishap) = Accept(t, b, f, mishap)
  BY SameCases
<1>. HIDE DEF d
<1>3. Sound(t) /\ Fewer(d, t) /\ t.buffers[b].src = d.buffers[b].src
  BY <1>1, AddTimerSound
<1>. HIDE DEF t
<1>4. Only(t, b, None, t.buffers[b].src)
  BY <1>1, <1>3, FewerFacts
<1>. QED
  BY <1>2, <1>3, <1>4, AcceptSound

\* A buffer is taken for a node known nowhere.
LEMMA TakenSound ==
  ASSUME NEW r, Sound(r), NEW f, Only(r, None, None, f.src), NEW got,
         NEW b \in Buffers, r.buffers[b].state = "unused"
  PROVE  LET e == Taken(r, b, f, got) IN
         Sound(e) /\ e.buffers[b].src = f.src /\ Only(e, b, None, f.src)
<1>. DEFINE e == Taken(r, b, f, got)
            n == f.src
<1>1. /\ Shape(e) /\ Others(r, e, b) /\ e.pairs = r.pairs /\ e.expired = r.expired
      /\ e.buffers[b].src = n
  BY TakenFacts DEF Sound
<1>. HIDE DEF e
<1>2. \A c \in Buffers \ {b} : \A m : CollectedIn(e, c, m) => CollectedIn(r, c, m)
  BY <1>1 DEF CollectedIn, Others
<1>3. \A m : CollectedIn(e, b, m) => m = n
  BY <1>1 DEF CollectedIn
<1>4. \A q \in Pairs : \A m : KnownFrom(e, q, m) <=> KnownFrom(r, q, m)
  BY <1>1 DEF KnownFrom
<1>5. /\ \A c \in Buffers : ~ CollectedIn(r, c, n)
      /\ \A q \in Pairs : ~ KnownFrom(r, q, n)
  <2>1. \A q : q \in Pairs \/ q \in Buffers => q # None
    BY DEF Pairs, Buffers, None
  <2>. QED
    BY <2>1 DEF Only
<1>. HIDE DEF n
<1>6. Single(e)
  BY <1>2, <1>3, <1>4, <1>5 DEF Single, Sound
<1>7. Only(e, b, None, n)
  BY <1>2, <1>3, <1>4, <1>5 DEF Only
<1>. QED
  BY <1>1, <1>6, <1>7 DEF Sound, e, n

LEMMA NewSound ==
  ASSUME NEW r, Sound(r), NEW f, NEW mishap, Only(r, None, None, f.src)
  PROVE  Sound(NewPacket(r, f, mishap))
<1>. DEFINE e == NewPacket(r, f, mishap)
            got == Got(r, f)
<1>1. CASE e = r
  BY <1>1
<1>2. ASSUME NEW b \in Buffers, r.buffers[b].state = "unused",
             \/ e = EmptyRxBuffer(Taken(r, b, f, got), b)
             \/ e = Accept(AddRxAssemblyTimer(Taken(r, b, f, got), b, mishap), b, f, mishap)
      PROVE  Sound(e)
  <2>. DEFINE t == Taken(r, b, f, got)
              a == AddRxAssemblyTimer(t, b, mishap)
  <2>. HIDE DEF e, got
  <2>1. Sound(t) /\ t.buffers[b].src = f.src /\ Only(t, b, None, f.src)
    BY <1>2, TakenSound
  <2>. HIDE DEF t
  <2>2. Sound(a) /\ Fewer(t, a) /\ a.buffers[b].src = t.buffers[b].src
    BY <2>1, AddTimerSound
  <2>3. e = EmptyRxBuffer(t, b) \/ e = Accept(a, b, f, mishap)
    BY <1>2 DEF t
  <2>. HIDE DEF a
  <2>4. Only(a, b, None, a.buffers[b].src)
    BY <2>1, <2>2, FewerFacts
  <2>. QED
    BY <2>1, <2>2, <2>3, <2>4, EmptySound, AcceptSound
<1>3. Shape(r)
  BY DEF Sound
<1>4. \/ e = r
      \/ \E b \in Buffers :
           /\ r.buffers[b].state = "unused"
           /\ \/ e = EmptyRxBuffer(Taken(r, b, f, got), b)
              \/ e = Accept(AddRxAssemblyTimer(Taken(r, b, f, got), b, mishap), b, f, mishap)
  BY <1>3, NewCases
<1>. QED
  BY <1>1, <1>2, <1>4

LEMMA DataIndSound ==
  ASSUME NEW r, Sound(r), NEW b \in Buffers \union {None}, NEW p \in Pairs \union {None},
         NEW f, NEW mishap, Only(r, b, p, f.src),
         b # None => r.buffers[b].src = f.src /\ p = None,
         p # None => r.pairs[p].src = f.src
  PROVE  Sound(DataInd(r, b, p, f, mishap))
<1>. DEFINE e == DataInd(r, b, p, f, mishap)
<1>1. CASE b # None
  <2>0. b \in Buffers /\ p = None
    BY <1>1
  <2>1. CASE Id(r.buffers[b].packet) = Id(f.packet)
    <3>1. e = SamePacket(r, b, f, mishap)
      BY <1>1, <2>1 DEF DataInd
    <3>. QED
      BY <1>1, <2>0, <3>1, SameSound
  <2>2. CASE Id(r.buffers[b].packet) # Id(f.packet)
    <3>. DEFINE d == DeleteRxTimer(r, b)
                w == EmptyRxBuffer(d, b)
    <3>1. e = NewPacket(w, f, mishap)
      BY <1>1, <2>2 DEF DataInd
    <3>. HIDE DEF e
    <3>2. Sound(d) /\ Fewer(r, d)
      BY <2>0, DeleteSound
    <3>. HIDE DEF d
    <3>3. Sound(w) /\ Fewer(d, w) /\ w.buffers[b].state = "unused"
      BY <2>0, <3>2, EmptySound
    <3>. HIDE DEF w
    <3>4. Only(w, b, None, f.src)
      BY <2>0, <3>2, <3>3, FewerFacts
    <3>5. Only(w, None, None, f.src)
      BY <3>3, <3>4 DEF Only, CollectedIn
    <3>. QED
      BY <3>1, <3>3, <3>5, NewSound DEF e
  <2>. QED
    BY <2>1, <2>2
<1>2. CASE b = None /\ p # None
  <2>0. p \in Pairs
    BY <1>2
  <2>1. CASE Id(r.pairs[p].packet) = Id(f.packet)
    <3>. DEFINE d == [r EXCEPT !.pairs[p].timer = Cancel(@)]
                w == AddPairTimeout(d, p, mishap)
    <3>1. e = w
      BY <1>2, <2>1 DEF DataInd
    <3>2. OtherPair(r, d, p) /\ d.pairs[p].src = r.pairs[p].src /\ d.pairs[p].inUse = r.pairs[p].inUse
      BY <2>0, CancelPairFacts DEF Sound
    <3>. HIDE DEF d, e
    <3>3. Shape(d)
      BY <3>2 DEF OtherPair
    <3>4. /\ OtherPair(d, w, p) /\ w.pairs[p].src = d.pairs[p].src
          /\ w.pairs[p].inUse => d.pairs[p].inUse
      <4>1. CASE ~ Timed(mishap)
        <5>1. ~ w.pairs[p].inUse
          BY <2>0, <3>3, <4>1, AddPairFacts
        <5>2. OtherPair(d, w, p) /\ w.pairs[p].src = d.pairs[p].src
          BY <2>0, <3>3, AddPairFacts
        <5>. QED
          BY <5>1, <5>2
      <4>2. CASE Timed(mishap)
        <5>1. w.pairs[p].inUse = d.pairs[p].inUse
          BY <2>0, <3>3, <4>2, AddPairFacts
        <5>2. OtherPair(d, w, p) /\ w.pairs[p].src = d.pairs[p].src
          BY <2>0, <3>3, AddPairFacts
        <5>. QED
          BY <5>1, <5>2
      <4>. QED
        BY <4>1, <4>2
    <3>. HIDE DEF w
    <3>5. OtherPair(r, w, p)
      BY <3>2, <3>4 DEF OtherPair
    <3>6. w.pairs[p].inUse => r.pairs[p].inUse /\ w.pairs[p].src = r.pairs[p].src
      BY <3>2, <3>4
    <3>7. Fewer(r, w)
      BY <2>0, <3>5, <3>6, PairFewer
    <3>8. Shape(w) /\ w.expired = r.expired
      BY <3>5 DEF OtherPair
    <3>. QED
      BY <3>1, <3>7, <3>8, FewerFacts DEF Sound, e
  <2>2. CASE Id(r.pairs[p].packet) # Id(f.packet)
    <3>. DEFINE w == DropPair(r, p)
    <3>1. e = NewPacket(w, f, mishap)
      BY <1>2, <2>2 DEF DataInd
    <3>2. OtherPair(r, w, p) /\ ~ w.pairs[p].inUse
      BY <2>0, DropFacts DEF Sound
    <3>. HIDE DEF w, e
    <3>3. Fewer(r, w)
      BY <2>0, <3>2, PairFewer
    <3>4. Sound(w)
      BY <3>2, <3>3, FewerFacts DEF Sound, OtherPair
    <3>5. Only(w, None, p, f.src)
      BY <1>2, <3>3, FewerFacts
    <3>6. Only(w, None, None, f.src)
      BY <3>2, <3>5 DEF Only, KnownFrom
    <3>. QED
      BY <3>1, <3>4, <3>6, NewSound DEF e
  <2>. QED
    BY <2>1, <2>2
<1>3. CASE b = None /\ p = None
  <2>1. e = NewPacket(r, f, mishap)
    BY <1>3 DEF DataInd
  <2>. QED
    BY <1>3, <2>1, NewSound
<1>. QED
  BY <1>1, <1>2, <1>3

LEMMA FoldSound ==
  ASSUME NEW r, Sound(r)
  PROVE  LET e == [FoldLeft(EmptyRxBuffer, r, r.expired) EXCEPT !.expired = <<>>]
         IN Sound(e)
<1>. DEFINE l == r.expired
            n == Len(l)
            z == FoldLeft(EmptyRxBuffer, r, l)
            e == [z EXCEPT !.expired = <<>>]
<1>1. l \in Seq(Buffers) /\ n \in Nat /\ \A i \in 1 .. n : l[i] \in Buffers
  BY DEF Sound
<1>2. PICK g : EmptiesList(g, r, l) /\ z = g[n]
  BY <1>1, FoldFacts
<1>. HIDE DEF l, n, z
<1>. DEFINE P == {i \in 0 .. n : Sound(g[i])}
<1>3. 0 \in P
  BY <1>1, <1>2 DEF EmptiesList
<1>4. ASSUME NEW i \in 1 .. n, i - 1 \in P PROVE i \in P
  <2>1. g[i] = EmptyRxBuffer(g[i - 1], l[i]) /\ l[i] \in Buffers
    BY <1>1, <1>2 DEF EmptiesList, n
  <2>. QED
    BY <1>4, <2>1, EmptySound
<1>. HIDE DEF P
<1>5. n \in P
  <2>1. 0 .. n \subseteq P
    BY <1>1, <1>3, <1>4, Climb
  <2>. QED
    BY <1>1, <2>1
<1>6. Sound(z)
  BY <1>2, <1>5 DEF P
<1>7. Shape(e) /\ e.buffers = z.buffers /\ e.pairs = z.pairs /\ e.expired = <<>>
  <2>1. Shape(z)
    BY <1>6 DEF Sound
  <2>. QED
    BY <2>1, StateFacts
<1>. HIDE DEF e
<1>8. Fewer(z, e)
  BY <1>7 DEF Fewer, CollectedIn, KnownFrom
<1>9. Sound(e)
  BY <1>6, <1>7, <1>8, FewerFacts DEF Sound
<1>. QED
  BY <1>9 DEF e, z, l

\* What Find has found of the source of the frame at the head.
FoundRight ==
  LET n == Head(inbox).src
      b == found.buffer
      p == found.pair
  IN /\ inbox # <<>> /\ b \in Buffers \union {None} /\ p \in Pairs \union {None}
     /\ Only(rx, b, p, n)
     /\ b # None => rx.buffers[b].src = n /\ p = None
     /\ p # None => rx.pairs[p].src = n

OneInv == Air /\ Sound(rx) /\ (pc = "found" => FoundRight)

\* What the functions need of a state in which none was called yet.
LEMMA SoundBegins == Init => Sound(rx)
<1>. SUFFICES ASSUME Init PROVE Sound(rx)
  OBVIOUS
<1>. DEFINE B == [b \in Buffers |-> NewBuffer]
            P == [p \in Pairs |-> NewPair]
            D == [n \in Nodes |-> <<>>]
<1>1. rx = [buffers |-> B, pairs |-> P, free |-> NumSegments, inUse |-> 0, unicast |-> 0,
            expired |-> <<>>, delivered |-> D]
  BY DEF Init
<1>2. IsBuffer(NewBuffer) /\ IsPair(NewPair)
  BY DEF IsBuffer, IsPair, NewBuffer, NewPair
<1>3. B = [b \in Buffers |-> B[b]] /\ \A b \in Buffers : B[b] = NewBuffer
  OBVIOUS
<1>4. P = [p \in Pairs |-> P[p]] /\ \A p \in Pairs : P[p] = NewPair
  OBVIOUS
<1>5. D = [n \in Nodes |-> D[n]]
  OBVIOUS
<1>. HIDE DEF B, P, D
<1>6. rx.buffers = B /\ rx.pairs = P /\ rx.expired = <<>> /\ rx.delivered = D
  BY <1>1
<1>7. Shape(rx)
  BY <1>1, <1>2, <1>3, <1>4, <1>5, <1>6 DEF Shape
<1>8. NewBuffer.state = "unused" /\ NewPair.inUse = FALSE
  BY DEF NewBuffer, NewPair
<1>9. Single(rx)
  BY <1>3, <1>4, <1>6, <1>8 DEF Single, CollectedIn, KnownFrom
<1>. QED
  BY <1>6, <1>7, <1>9 DEF Sound

LEMMA FindRight ==
  ASSUME OneInv, Find
  PROVE  FoundRight'
<1>. DEFINE n == Head(inbox).src
            B == {b \in Buffers : rx.buffers[b].state = "inUse" /\ rx.buffers[b].src = n}
            P == {p \in Pairs : rx.pairs[p].inUse /\ rx.pairs[p].src = n}
            b == FindRxBuffer(n)
            p == IF b = None THEN FindPacketIdPair(n) ELSE None
<1>1. /\ inbox # <<>> /\ found' = [buffer |-> b, pair |-> p]
      /\ inbox' = inbox /\ rx' = rx
  BY DEF Find
<1>2. (B = {} => b = None) /\ (B # {} => b \in B /\ b # None)
  <2>1. B \subseteq Nat \ {0} /\ b = First(B)
    BY DEF Buffers, FindRxBuffer
  <2>. HIDE DEF B
  <2>. QED
    BY <2>1, FirstFacts
<1>3. (P = {} => FindPacketIdPair(n) = None) /\ (P # {} => FindPacketIdPair(n) \in P /\ FindPacketIdPair(n) # None)
  <2>1. P \subseteq Nat \ {0} /\ FindPacketIdPair(n) = First(P)
    BY DEF Pairs, FindPacketIdPair
  <2>. HIDE DEF P
  <2>. QED
    BY <2>1, FirstFacts
<1>4. found'.buffer = b /\ found'.pair = p
  BY <1>1
<1>5. /\ \A c \in Buffers : CollectedIn(rx, c, n) <=> c \in B
      /\ \A q \in Pairs : KnownFrom(rx, q, n) <=> q \in P
  BY DEF CollectedIn, KnownFrom
<1>6. Single(rx)
  BY DEF OneInv, Sound
<1>7. /\ B \subseteq Buffers /\ P \subseteq Pairs
      /\ \A c \in B : rx.buffers[c].src = n
      /\ \A q \in P : rx.pairs[q].src = n
  OBVIOUS
<1>. HIDE DEF B, P, b, n
<1>8. Only(rx, b, p, n)
  <2>1. ASSUME NEW c \in Buffers, CollectedIn(rx, c, n) PROVE c = b
    BY <1>2, <1>5, <1>6, <1>7, <2>1 DEF Single
  <2>2. ASSUME NEW q \in Pairs, KnownFrom(rx, q, n) PROVE q = p
    <3>1. b = None
      BY <1>2, <1>5, <1>6, <1>7, <2>2 DEF Single
    <3>2. p = FindPacketIdPair(n) /\ p \in P
      BY <1>3, <1>5, <2>2, <3>1
    <3>. HIDE DEF p
    <3>. QED
      BY <1>5, <1>6, <1>7, <2>2, <3>2 DEF Single
  <2>. QED
    BY <2>1, <2>2 DEF Only
<1>9. b \in Buffers \union {None} /\ (b # None => rx.buffers[b].src = n /\ p = None)
  BY <1>2, <1>7
<1>10. p \in Pairs \union {None} /\ (p # None => rx.pairs[p].src = n)
  BY <1>3, <1>7
<1>. HIDE DEF p
<1>. QED
  BY <1>1, <1>4, <1>8, <1>9, <1>10 DEF FoundRight, n

\* What was found stays right while nodes send and timers expire.
LEMMA FoundStays ==
  ASSUME Air, FoundRight, found' = found, Fewer(rx, rx'),
         inbox' = inbox \/ \E f \in RightFrame : inbox' = Append(inbox, f),
         \A b \in Buffers : rx'.buffers[b].src = rx.buffers[b].src,
         \A p \in Pairs : rx'.pairs[p].src = rx.pairs[p].src
  PROVE  FoundRight'
<1>1. inbox' # <<>> /\ Head(inbox') = Head(inbox)
  <2>1. CASE inbox' = inbox
    BY <2>1 DEF FoundRight
  <2>2. CASE \E f \in RightFrame : inbox' = Append(inbox, f)
    <3>1. PICK f \in RightFrame : inbox' = Append(inbox, f)
      BY <2>2
    <3>2. \A q \in Seq(RightFrame) : q # <<>> => Append(q, f) # <<>> /\ Head(Append(q, f)) = Head(q)
      OBVIOUS
    <3>. QED
      BY <3>1, <3>2 DEF Air, FoundRight
  <2>. QED
    BY <2>1, <2>2
<1>2. Only(rx', found.buffer, found.pair, Head(inbox).src)
  BY FewerFacts DEF FoundRight
<1>. QED
  BY <1>1, <1>2 DEF FoundRight

LEMMA OneStep == OneInv /\ [Next]_vars => OneInv'
<1>. SUFFICES ASSUME OneInv, [Next]_vars PROVE OneInv'
  OBVIOUS
<1>0. Air /\ Air' /\ Sound(rx) /\ (pc = "found" => FoundRight)
  BY AirStep DEF OneInv
<1>1. CASE Find
  <2>1. rx' = rx
    BY <1>1 DEF Find
  <2>. QED
    BY <1>0, <1>1, <2>1, FindRight DEF OneInv
<1>2. CASE Handle
  <2>1. pc = "found" /\ pc' = "timeouts"
    BY <1>2 DEF Handle
  <2>2. PICK mishap : rx' = DataInd(rx, found.buffer, found.pair, Head(inbox), mishap)
    BY <1>2 DEF Handle
  <2>3. Sound(rx')
    BY <1>0, <2>1, <2>2, DataIndSound DEF FoundRight
  <2>. QED
    BY <1>0, <2>1, <2>3 DEF OneInv
<1>3. CASE CheckTimeouts
  <2>1. rx' = [FoldLeft(EmptyRxBuffer, rx, rx.expired) EXCEPT !.expired = <<>>] /\ pc' = "idle"
    BY <1>3 DEF CheckTimeouts
  <2>2. Sound(rx')
    BY <1>0, <2>1, FoldSound
  <2>. QED
    BY <1>0, <2>1, <2>2 DEF OneInv
<1>4. ASSUME NEW b \in Buffers, RxTimerExpires(b) PROVE OneInv'
  <2>. DEFINE d == [rx EXCEPT !.buffers[b].timer = Fired(@)]
  <2>1. rx' = RxAssemblyExpired(d, b) /\ UNCHANGED <<sender, inbox, found, pc>>
    BY <1>4 DEF RxTimerExpires
  <2>2. OtherMarks(rx, d, b) /\ d.expired = rx.expired /\ d.buffers[b].state = rx.buffers[b].state
    BY <1>0, FiredFacts DEF Sound
  <2>. HIDE DEF d
  <2>3. OtherMarks(d, rx', b) /\ rx'.expired = Append(d.expired, b) /\ rx'.buffers[b].state = "stale"
    BY <2>1, <2>2, ExpiredFacts DEF OtherMarks
  <2>4. OtherMarks(rx, rx', b)
    BY <2>2, <2>3 DEF OtherMarks
  <2>5. Fewer(rx, rx')
    BY <2>3, <2>4, MarksFewer
  <2>6. Sound(rx')
    BY <1>0, <2>2, <2>3, <2>4, <2>5, FewerFacts DEF Sound, OtherMarks
  <2>7. /\ \A c \in Buffers : rx'.buffers[c].src = rx.buffers[c].src
        /\ \A p \in Pairs : rx'.pairs[p].src = rx.pairs[p].src
    BY <2>4 DEF OtherMarks
  <2>8. pc = "found" => FoundRight'
    BY <1>0, <2>1, <2>5, <2>7, FoundStays
  <2>. QED
    BY <1>0, <2>1, <2>6, <2>8 DEF OneInv
<1>5. ASSUME NEW p \in Pairs, PairTimerExpires(p) PROVE OneInv'
  <2>1. /\ rx' = [rx EXCEPT !.pairs[p].timer = Fired(@), !.pairs[p].inUse = FALSE]
        /\ UNCHANGED <<sender, inbox, found, pc>>
    BY <1>5 DEF PairTimerExpires
  <2>2. OtherPair(rx, rx', p) /\ ~ rx'.pairs[p].inUse /\ rx'.pairs[p].src = rx.pairs[p].src
    BY <1>0, <2>1, FirePairFacts DEF Sound
  <2>3. Fewer(rx, rx')
    BY <2>2, PairFewer
  <2>4. Sound(rx')
    BY <1>0, <2>2, <2>3, FewerFacts DEF Sound, OtherPair
  <2>5. /\ \A c \in Buffers : rx'.buffers[c].src = rx.buffers[c].src
        /\ \A q \in Pairs : rx'.pairs[q].src = rx.pairs[q].src
    BY <2>2 DEF OtherPair
  <2>6. pc = "found" => FoundRight'
    BY <1>0, <2>1, <2>3, <2>5, FoundStays
  <2>. QED
    BY <1>0, <2>1, <2>4, <2>6 DEF OneInv
<1>6. ASSUME NEW n \in Nodes, SendFrame(n) \/ SendAgain(n) \/ BeginPacket(n) PROVE OneInv'
  <2>1. UNCHANGED <<found, pc, rx>>
    BY <1>6 DEF SendFrame, SendAgain, BeginPacket
  <2>2. inbox' = inbox \/ \E f \in RightFrame : inbox' = Append(inbox, f)
    <3>1. CASE SendFrame(n)
      BY <1>0, <3>1, FrameFacts
    <3>. QED
      BY <1>6, <3>1 DEF SendAgain, BeginPacket
  <2>3. Fewer(rx, rx')
    BY <2>1 DEF Fewer
  <2>4. pc = "found" => FoundRight'
    BY <1>0, <2>1, <2>2, <2>3, FoundStays
  <2>. QED
    BY <1>0, <2>1, <2>4 DEF OneInv
<1>7. CASE UNCHANGED vars
  BY <1>0, <1>7 DEF OneInv, vars, FoundRight
<1>. QED
  BY <1>1, <1>2, <1>3, <1>4, <1>5, <1>6, <1>7 DEF Next

\* From the places to their number.
LEMMA OnePlaceFollows == OneInv => OnePlacePerNode
<1>. SUFFICES ASSUME OneInv, NEW n \in Nodes
     PROVE  Cardinality({b \in Buffers : rx.buffers[b].state = "inUse" /\ rx.buffers[b].src = n})
              + Cardinality({p \in Pairs : rx.pairs[p].inUse /\ rx.pairs[p].src = n}) <= 1
  BY DEF OnePlacePerNode
<1>. DEFINE B == {b \in Buffers : rx.buffers[b].state = "inUse" /\ rx.buffers[b].src = n}
            P == {p \in Pairs : rx.pairs[p].inUse /\ rx.pairs[p].src = n}
<1>1. Single(rx)
  BY DEF OneInv, Sound
<1>2. /\ \A b, c \in B : b = c
      /\ \A p, q \in P : p = q
      /\ B = {} \/ P = {}
  BY <1>1 DEF Single, CollectedIn, KnownFrom
<1>. HIDE DEF B, P
<1>3. Cardinality({}) = 0 /\ \A x : Cardinality({x}) = 1
  BY FS_EmptySet, FS_Singleton
<1>4. (B = {} \/ \E x : B = {x}) /\ (P = {} \/ \E x : P = {x})
  BY <1>2
<1>5. Cardinality(B) + Cardinality(P) <= 1
  <2>1. Cardinality(B) = 0 \/ Cardinality(B) = 1
    BY <1>3, <1>4
  <2>2. Cardinality(P) = 0 \/ Cardinality(P) = 1
    BY <1>3, <1>4
  <2>3. Cardinality(B) = 0 \/ Cardinality(P) = 0
    BY <1>2, <1>3
  <2>. QED
    BY <2>1, <2>2, <2>3
<1>. QED
  BY <1>5 DEF B, P

\* IsDuplicate (MAC_FrameManagement.c:731) looks for the source's buffer and,
\* if there is none, for its pair: whatever expires and whichever timer or
\* buffer is refused, all that is known of a node is in one of them.
THEOREM KnownInOnePlace == Spec => []OnePlacePerNode
<1>1. Init => OneInv
  <2>1. Init => pc = "idle"
    BY DEF Init
  <2>. QED
    BY <2>1, AirBegins, SoundBegins DEF OneInv
<1>. QED
  BY <1>1, OneStep, OnePlaceFollows, PTL DEF Spec

-----------------------------------------------------------------------------
(* The link the receiver implements.  A packet is delivered only if it is   *)
(* newer than all its node has had delivered; for that, what was delivered  *)
(* must be remembered for as long as it may be repeated.                    *)

\* The packets in d are older than packet k; the frames of n in q are not.
Older(d, k)    == \A i \in DOMAIN d : d[i][1] < k
Ahead(q, n, k) == \A i \in DOMAIN q : q[i].src = n => q[i].packet >= k

\* Packet k of node n can be told from its newest by its id.
Recent(n, k) == k \in Nat \ {0} /\ k <= sender[n].packet /\ k > sender[n].packet - IdModulus

\* Node n may yet send frames of its newest packet.
MoreToCome(n) == /\ sender[n].packet > 0
                 /\ sender[n].try < Repeats \/ sender[n].segment < Length[n][sender[n].packet]

\* A buffer that collects a packet has parts of that packet, which is newer
\* than what was delivered and not newer than what is to come.
GoodBuffer(r, q, c) ==
  LET x == r.buffers[c]
      n == x.src
  IN /\ n \in Nodes /\ Recent(n, x.packet) /\ x.count = Length[n][x.packet] - 1
     /\ Older(r.delivered[n], x.packet) /\ Ahead(q, n, x.packet)
     /\ x.parts = [s \in Segments |-> x.parts[s]]
     /\ \A s \in Segments : x.parts[s] \in {None, x.packet}

\* A pair in use remembers a packet as new as any delivered.
GoodPair(r, q, p) ==
  LET n == r.pairs[p].src
      k == r.pairs[p].packet
  IN n \in Nodes /\ Recent(n, k) /\ Older(r.delivered[n], k + 1) /\ Ahead(q, n, k)

\* What comes from a node that is not remembered is not a repeat.
Fresh(r, q, n) ==
  (\A p \in Pairs : ~ KnownFrom(r, p, n)) =>
    /\ \A i \in DOMAIN q : q[i].src = n => Older(r.delivered[n], q[i].packet)
    /\ MoreToCome(n) => Older(r.delivered[n], sender[n].packet)

\* The frames of a node come in the order of its packets.
InOrder(q) ==
  /\ \A i, j \in DOMAIN q : i < j /\ q[i].src = q[j].src => q[i].packet <= q[j].packet
  /\ \A i \in DOMAIN q : Recent(q[i].src, q[i].packet)

Kept(r) ==
  /\ \A n \in Nodes : /\ r.delivered[n] \in Seq(Seq(Nat))
                      /\ \A i \in DOMAIN r.delivered[n] : r.delivered[n][i][1] \in Nat
                      /\ Older(r.delivered[n], sender[n].packet + 1)
  /\ \A c \in Buffers : r.buffers[c].state = "unused" => r.buffers[c].parts = NoParts

\* The buffer that was found may have expired since.
InHand(c) == rx.buffers[c].state = "inUse" \/ (pc = "found" /\ found.buffer = c)

LEMMA IdFacts ==
  ASSUME NEW a \in Int, NEW b \in Int, Id(a) = Id(b), a - b < IdModulus, b - a < IdModulus
  PROVE  a = b
<1>. DEFINE M == IdModulus
<1>1. M \in Nat \ {0}
  BY SizesAssumption
<1>2. ASSUME NEW x \in Int PROVE x = M * (x \div M) + (x % M) /\ (x \div M) \in Int /\ x % M \in 0 .. M - 1
  BY <1>1
<1>. HIDE DEF M
<1>. DEFINE u == a \div M
            v == b \div M
            w == a % M
            d == u - v
<1>3. a % M = b % M
  BY DEF Id, M
<1>4. a = M * u + w /\ b = M * v + w /\ u \in Int /\ v \in Int /\ w \in Int
  BY <1>1, <1>2, <1>3
<1>. HIDE DEF u, v, w
<1>8. a - b = M * d /\ d \in Int
  BY <1>1, <1>4
<1>5. M * d < M /\ M * d > - M
  <2>1. a - b < M /\ b - a < M
    BY DEF M
  <2>. QED
    BY <1>1, <1>8, <2>1
<1>. HIDE DEF d
<1>6. d = 0
  <2>1. CASE d >= 1
    <3>1. M * d >= M
      BY <1>1, <1>8, <2>1
    <3>. QED
      BY <1>1, <1>8, <1>5, <3>1
  <2>2. CASE d <= -1
    <3>1. M * d <= - M
      BY <1>1, <1>8, <2>2
    <3>. QED
      BY <1>1, <1>8, <1>5, <3>1
  <2>. QED
    BY <1>8, <2>1, <2>2
<1>7. M * d = 0
  BY <1>1, <1>6
<1>. QED
  BY <1>8, <1>7

LEMMA RecentSame ==
  ASSUME Air, NEW n \in Nodes, NEW j, NEW k, Recent(n, j), Recent(n, k), Id(j) = Id(k)
  PROVE  j = k
<1>1. /\ sender[n].packet \in Int /\ IdModulus \in Int /\ j \in Int /\ k \in Int
      /\ j <= sender[n].packet /\ k <= sender[n].packet
      /\ j > sender[n].packet - IdModulus /\ k > sender[n].packet - IdModulus
  BY SizesAssumption DEF Air, Recent
<1>2. j - k < IdModulus /\ k - j < IdModulus
  BY <1>1
<1>. QED
  BY <1>1, <1>2, IdFacts

\* Packets delivered, all with a number.
Numbered(d) == d \in Seq(Seq(Nat)) /\ \A i \in DOMAIN d : d[i][1] \in Nat

LEMMA OlderFacts ==
  ASSUME NEW d, Numbered(d), NEW j \in Nat, NEW k \in Nat
  PROVE  /\ Older(d, j) /\ j <= k => Older(d, k)
         /\ Older(d, j + 1) /\ j < k => Older(d, k)
         /\ Older(d, j) => Older(d, j + 1)
<1>1. \A i \in DOMAIN d : d[i][1] \in Nat
  BY DEF Numbered
<1>. QED
  BY <1>1 DEF Older

\* A packet is added to what was delivered.
LEMMA AddedFacts ==
  ASSUME NEW d, Numbered(d), NEW k \in Nat, Older(d, k), NEW w \in Seq(Nat), w[1] = k
  PROVE  Numbered(Append(d, w)) /\ Older(Append(d, w), k + 1)
<1>1. /\ d \in Seq(Seq(Nat)) /\ Len(d) \in Nat /\ DOMAIN d = 1 .. Len(d)
      /\ \A i \in DOMAIN d : d[i][1] \in Nat
  BY DEF Numbered
<1>2. /\ Append(d, w) \in Seq(Seq(Nat)) /\ DOMAIN Append(d, w) = 1 .. Len(d) + 1
      /\ \A i \in 1 .. Len(d) : Append(d, w)[i] = d[i]
      /\ Append(d, w)[Len(d) + 1] = w
  BY <1>1
<1>3. ASSUME NEW i \in DOMAIN Append(d, w)
      PROVE  Append(d, w)[i][1] \in Nat /\ Append(d, w)[i][1] < k + 1
  <2>1. CASE i \in 1 .. Len(d)
    BY <1>1, <1>2, <2>1 DEF Older
  <2>2. CASE i = Len(d) + 1
    BY <1>2, <2>2
  <2>. QED
    BY <1>1, <1>2, <2>1, <2>2
<1>. QED
  BY <1>2, <1>3 DEF Numbered, Older

-----------------------------------------------------------------------------
(* What handling a frame of node n leaves alone, and what it does for n.    *)

\* All is well with the other nodes.
RestGood(r, q, n) ==
  /\ Kept(r)
  /\ \A c \in Buffers : r.buffers[c].state = "inUse" /\ r.buffers[c].src # n => GoodBuffer(r, q, c)
  /\ \A p \in Pairs : r.pairs[p].inUse /\ r.pairs[p].src # n => GoodPair(r, q, p)
  /\ \A m \in Nodes \ {n} : Fresh(r, q, m)

NodeGood(r, q, n) ==
  /\ \A c \in Buffers : CollectedIn(r, c, n) => GoodBuffer(r, q, c)
  /\ \A p \in Pairs : KnownFrom(r, p, n) => GoodPair(r, q, p)
  /\ Fresh(r, q, n)

\* Of node n packet k may have been delivered, and nothing else.
Whole(n, k) == [part \in 1 .. Length[n][k] |-> k]
Delivered(r, e, n) ==
  \/ e.delivered = r.delivered
  \/ \E k \in DOMAIN Length[n] :
       /\ k <= sender[n].packet /\ Older(r.delivered[n], k)
       /\ e.delivered = [r.delivered EXCEPT ![n] = Append(@, Whole(n, k))]

\* A step that touches only buffer b, and leaves it to node n or to nobody,
\* and only pairs that are node n's.
LEMMA RestStays ==
  ASSUME NEW r, NEW e, NEW q, NEW n, RestGood(r, q, n), NEW b, Others(r, e, b),
         b \in Buffers => /\ e.buffers[b].state = "inUse" => e.buffers[b].src = n
                          /\ e.buffers[b].state = "unused" => e.buffers[b].parts = NoParts,
         \A p \in Pairs : \/ e.pairs[p] = r.pairs[p]
                          \/ /\ ~ r.pairs[p].inUse \/ r.pairs[p].src = n
                             /\ e.pairs[p].src = n
                          \/ /\ ~ r.pairs[p].inUse \/ r.pairs[p].src = n
                             /\ ~ e.pairs[p].inUse,
         \A m \in Nodes \ {n} : e.delivered[m] = r.delivered[m],
         n \in Nodes => /\ Numbered(e.delivered[n])
                       /\ Older(e.delivered[n], sender[n].packet + 1)
  PROVE  RestGood(e, q, n)
<1>1. Kept(e)
  <2>1. \A m \in Nodes : Numbered(e.delivered[m]) /\ Older(e.delivered[m], sender[m].packet + 1)
    BY DEF RestGood, Kept, Numbered
  <2>2. \A c \in Buffers : e.buffers[c].state = "unused" => e.buffers[c].parts = NoParts
    BY DEF RestGood, Kept, Others
  <2>. QED
    BY <2>1, <2>2 DEF Kept, Numbered
<1>2. ASSUME NEW c \in Buffers, e.buffers[c].state = "inUse", e.buffers[c].src # n
      PROVE  GoodBuffer(e, q, c)
  <2>1. c # b /\ e.buffers[c] = r.buffers[c]
    BY <1>2 DEF Others
  <2>2. GoodBuffer(r, q, c)
    BY <1>2, <2>1 DEF RestGood
  <2>3. e.delivered[e.buffers[c].src] = r.delivered[r.buffers[c].src]
    BY <1>2, <2>1, <2>2 DEF GoodBuffer
  <2>. QED
    BY <2>1, <2>2, <2>3 DEF GoodBuffer
<1>3. ASSUME NEW p \in Pairs, e.pairs[p].inUse, e.pairs[p].src # n
      PROVE  GoodPair(e, q, p)
  <2>1. e.pairs[p] = r.pairs[p]
    BY <1>3
  <2>2. GoodPair(r, q, p)
    BY <1>3, <2>1 DEF RestGood
  <2>3. e.delivered[e.pairs[p].src] = r.delivered[r.pairs[p].src]
    BY <1>3, <2>1, <2>2 DEF GoodPair
  <2>. QED
    BY <2>1, <2>2, <2>3 DEF GoodPair
<1>4. ASSUME NEW m \in Nodes \ {n} PROVE Fresh(e, q, m)
  <2>1. \A p \in Pairs : KnownFrom(r, p, m) => KnownFrom(e, p, m)
    BY DEF KnownFrom
  <2>2. Fresh(r, q, m) /\ e.delivered[m] = r.delivered[m]
    BY DEF RestGood
  <2>. QED
    BY <2>1, <2>2 DEF Fresh
<1>. QED
  BY <1>1, <1>2, <1>3, <1>4 DEF RestGood

\* Node n when nothing is known of it: what comes must be newer than packet k - 1.
LEMMA NodeFromNothing ==
  ASSUME NEW r, NEW q, NEW n \in Nodes, NEW k, Only(r, None, None, n), Recent(n, k), Kept(r), Air,
         Older(r.delivered[n], k), Ahead(q, n, k), \A i \in DOMAIN q : q[i].packet \in Nat
  PROVE  NodeGood(r, q, n)
<1>1. /\ \A c \in Buffers : ~ CollectedIn(r, c, n)
      /\ \A p \in Pairs : ~ KnownFrom(r, p, n)
  <2>1. \A x : x \in Pairs \/ x \in Buffers => x # None
    BY DEF Pairs, Buffers, None
  <2>. QED
    BY <2>1 DEF Only
<1>2. Numbered(r.delivered[n]) /\ k \in Nat /\ k <= sender[n].packet /\ sender[n].packet \in Nat
  BY DEF Kept, Numbered, Recent, Air
<1>3. Older(r.delivered[n], sender[n].packet)
  BY <1>2, OlderFacts
<1>4. ASSUME NEW i \in DOMAIN q, q[i].src = n PROVE Older(r.delivered[n], q[i].packet)
  <2>1. q[i].packet >= k /\ q[i].packet \in Nat
    BY <1>4 DEF Ahead
  <2>. QED
    BY <1>2, <2>1, OlderFacts
<1>5. Fresh(r, q, n)
  BY <1>3, <1>4 DEF Fresh
<1>. QED
  BY <1>1, <1>5 DEF NodeGood

\* Node n when one buffer has what is known of it.
LEMMA NodeFromBuffer ==
  ASSUME NEW r, NEW q, NEW b \in Buffers, NEW n, r.buffers[b].src = n, GoodBuffer(r, q, b),
         Only(r, b, None, n), Kept(r), Air, \A i \in DOMAIN q : q[i].packet \in Nat
  PROVE  NodeGood(r, q, n)
<1>. DEFINE k == r.buffers[b].packet
<1>1. n \in Nodes /\ Recent(n, k) /\ Older(r.delivered[n], k) /\ Ahead(q, n, k)
  BY DEF GoodBuffer
<1>2. \A p \in Pairs : ~ KnownFrom(r, p, n)
  <2>1. \A x : x \in Pairs => x # None
    BY DEF Pairs, None
  <2>. QED
    BY <2>1 DEF Only
<1>. HIDE DEF k
<1>3. Numbered(r.delivered[n]) /\ k \in Nat /\ k <= sender[n].packet /\ sender[n].packet \in Nat
  BY <1>1 DEF Kept, Numbered, Recent, Air
<1>4. Older(r.delivered[n], sender[n].packet)
  BY <1>1, <1>3, OlderFacts
<1>5. ASSUME NEW i \in DOMAIN q, q[i].src = n PROVE Older(r.delivered[n], q[i].packet)
  <2>1. q[i].packet >= k /\ q[i].packet \in Nat
    BY <1>1, <1>5 DEF Ahead
  <2>. QED
    BY <1>1, <1>3, <2>1, OlderFacts
<1>6. Fresh(r, q, n)
  BY <1>4, <1>5 DEF Fresh
<1>7. \A c \in Buffers : CollectedIn(r, c, n) => GoodBuffer(r, q, c)
  BY DEF Only
<1>. QED
  BY <1>2, <1>6, <1>7 DEF NodeGood

\* With a pair for every node there is one for a node that has none.
LEMMA PairLeft ==
  ASSUME NEW r, NEW q, NEW n \in Nodes, Single(r), RestGood(r, q, n),
         \A p \in Pairs : ~ KnownFrom(r, p, n), Cardinality(Nodes) <= NumPairs
  PROVE  \E p \in Pairs : ~ r.pairs[p].inUse
<1>. SUFFICES ASSUME \A p \in Pairs : r.pairs[p].inUse PROVE FALSE
  OBVIOUS
<1>. DEFINE T == Nodes \ {n}
            f == [p \in Pairs |-> r.pairs[p].src]
<1>1. NumPairs \in Nat \ {0} /\ IsFiniteSet(Nodes)
  BY SizesAssumption, NodesAssumption
<1>2. IsFiniteSet(Pairs) /\ Cardinality(Pairs) = NumPairs
  BY <1>1, FS_Interval DEF Pairs
<1>3. IsFiniteSet(T) /\ Cardinality(T) = Cardinality(Nodes) - 1 /\ Cardinality(Nodes) \in Nat
  BY <1>1, FS_RemoveElement, FS_CardinalityType
<1>4. Cardinality(T) < Cardinality(Pairs)
  BY <1>1, <1>2, <1>3
<1>5. \A p \in Pairs : r.pairs[p].src \in T
  BY DEF KnownFrom, RestGood, GoodPair
<1>6. f \in [Pairs -> T]
  BY <1>5
<1>. HIDE DEF f, T
<1>7. \E x, y \in Pairs : x # y /\ f[x] = f[y]
  BY <1>2, <1>3, <1>4, <1>6, FS_PigeonHole
<1>8. \A x, y \in Pairs : f[x] = f[y] => x = y
  BY DEF Single, KnownFrom, f
<1>. QED
  BY <1>7, <1>8

LEMMA AssembleLink ==
  ASSUME NEW r, NEW q, NEW b \in Buffers, NEW n, NEW mishap, Timed(mishap),
         Sound(r), Air, RestGood(r, q, n), r.buffers[b].src = n, GoodBuffer(r, q, b),
         Only(r, b, None, n), \A i \in DOMAIN q : q[i].packet \in Nat,
         Cardinality(Nodes) <= NumPairs,
         \A i \in 0 .. r.buffers[b].count : r.buffers[b].parts[i] # None
  PROVE  LET e == AssemblePacket(r, b, mishap) IN
         RestGood(e, q, n) /\ NodeGood(e, q, n) /\ Delivered(r, e, n)
<1>. DEFINE e == AssemblePacket(r, b, mishap)
            x == r.buffers[b]
            k == x.packet
<1>1. /\ Shape(e) /\ Others(r, e, b) /\ EmptyOf(x, e.buffers[b])
      /\ mishap = "noBuffer" => e.delivered = r.delivered /\ e.pairs = r.pairs
      /\ mishap # "noBuffer" => Delivers(r, e, b, mishap)
  BY AssembleFacts DEF Sound
<1>. HIDE DEF e
<1>2. e.buffers[b].state = "unused" /\ e.buffers[b].parts = NoParts
  BY <1>1 DEF EmptyOf
<1>3. /\ n \in Nodes /\ Recent(n, k) /\ Older(r.delivered[n], k) /\ Ahead(q, n, k)
      /\ Numbered(r.delivered[n]) /\ Older(r.delivered[n], sender[n].packet + 1)
      /\ sender[n].packet \in Nat /\ k \in Nat \ {0} /\ k <= sender[n].packet
  BY DEF GoodBuffer, RestGood, Kept, Numbered, Air, Recent
<1>4. /\ \A c \in Buffers : ~ CollectedIn(e, c, n)
      /\ \A p \in Pairs : ~ KnownFrom(r, p, n)
  <2>1. \A p \in Pairs : p # None
    BY DEF Pairs, None
  <2>. QED
    BY <1>1, <1>2, <2>1 DEF Only, CollectedIn, Others
<1>5. CASE mishap = "noBuffer"
  <2>1. e.delivered = r.delivered /\ e.pairs = r.pairs
    BY <1>1, <1>5
  <2>2. RestGood(e, q, n)
    BY <1>1, <1>2, <1>3, <2>1, RestStays
  <2>3. Only(e, None, None, n)
    BY <1>4, <2>1 DEF Only, KnownFrom
  <2>4. Kept(e)
    BY <2>2 DEF RestGood
  <2>5. NodeGood(e, q, n)
    <3>. HIDE DEF k
    <3>. QED
      BY <1>3, <2>1, <2>3, <2>4, NodeFromNothing
  <2>. QED
    BY <2>1, <2>2, <2>5 DEF Delivered, e
<1>6. CASE mishap # "noBuffer"
  <2>. DEFINE w == WholeOf(x)
  <2>1. /\ \A m \in Nodes \ {n} : e.delivered[m] = r.delivered[m]
        /\ e.delivered[n] = Append(r.delivered[n], w)
    BY <1>1, <1>3, <1>6 DEF Delivers
  <2>2. PICK p \in Pairs : /\ ~ r.pairs[p].inUse
                           /\ \A o \in Pairs \ {p} : e.pairs[o] = r.pairs[o]
                           /\ e.pairs[p].src = n /\ e.pairs[p].packet = k
                           /\ e.pairs[p].inUse = TRUE
    <3>1. \E p \in Pairs : ~ r.pairs[p].inUse
      BY <1>3, <1>4, PairLeft DEF Sound
    <3>. QED
      BY <1>1, <1>6, <3>1 DEF Delivers
  <2>3. w = Whole(n, k) /\ w \in Seq(Nat) /\ w[1] = k /\ k \in DOMAIN Length[n]
    <3>1. x.count = Length[n][k] - 1 /\ \A s \in Segments : x.parts[s] \in {None, k}
      BY DEF GoodBuffer
    <3>2. k \in 1 .. Len(Length[n]) /\ DOMAIN Length[n] = 1 .. Len(Length[n])
      BY <1>3, LengthFacts DEF Air
    <3>3. Length[n][k] \in 1 .. MaxSegments /\ MaxSegments \in Nat
      BY <1>3, <3>2, LengthFacts
    <3>. HIDE DEF k
    <3>. DEFINE L == Length[n][k]
    <3>4. x.count + 1 = L /\ L \in Nat \ {0}
      <4>1. \A i : i \in 1 .. MaxSegments => i - 1 + 1 = i /\ i \in Nat \ {0}
        BY <3>3
      <4>. QED
        BY <3>1, <3>3, <4>1
    <3>5. ASSUME NEW i \in 1 .. L PROVE x.parts[i - 1] = k
      <4>0. L \in 1 .. MaxSegments
        BY <3>3
      <4>. HIDE DEF L
      <4>1. i - 1 \in Segments /\ i - 1 \in 0 .. x.count
        <5>1. i - 1 \in 0 .. MaxSegments - 1
          BY <3>3, <4>0
        <5>2. x.count = L - 1
          BY <3>1 DEF L
        <5>3. i - 1 \in 0 .. L - 1
          BY <3>4
        <5>. QED
          BY <5>1, <5>2, <5>3 DEF Segments
      <4>2. x.parts[i - 1] # None
        BY <4>1
      <4>. QED
        BY <3>1, <4>1, <4>2
    <3>6. w = [i \in 1 .. L |-> x.parts[i - 1]]
      BY <3>4 DEF WholeOf
    <3>7. w = [i \in 1 .. L |-> k]
      BY <3>5, <3>6
    <3>8. w = Whole(n, k)
      BY <3>7 DEF Whole
    <3>. HIDE DEF L, w
    <3>9. w \in Seq(Nat) /\ w[1] = k
      <4>1. \A i \in 1 .. L : k \in Nat
        BY <1>3
      <4>2. 1 \in 1 .. L
        BY <3>4
      <4>. QED
        BY <3>4, <3>7, <4>1, <4>2
    <3>. QED
      BY <3>2, <3>8, <3>9
  <2>. HIDE DEF w, k
  <2>4. Numbered(e.delivered[n]) /\ Older(e.delivered[n], k + 1)
    BY <1>3, <2>1, <2>3, AddedFacts
  <2>5. Older(e.delivered[n], sender[n].packet + 1)
    <3>1. k + 1 \in Nat /\ sender[n].packet + 1 \in Nat /\ k + 1 <= sender[n].packet + 1
      BY <1>3
    <3>. QED
      BY <2>4, <3>1, OlderFacts
  <2>6. RestGood(e, q, n)
    BY <1>1, <1>2, <2>1, <2>2, <2>4, <2>5, RestStays, ZenonT(30)
  <2>7. \A o \in Pairs : KnownFrom(e, o, n) => o = p
    BY <1>4, <2>2 DEF KnownFrom
  <2>8. KnownFrom(e, p, n) /\ GoodPair(e, q, p)
    BY <1>3, <2>2, <2>4 DEF KnownFrom, GoodPair
  <2>9. Fresh(e, q, n)
    BY <2>8 DEF Fresh
  <2>10. NodeGood(e, q, n)
    BY <1>4, <2>7, <2>8, <2>9 DEF NodeGood
  <2>11. e.delivered = [r.delivered EXCEPT ![n] = Append(@, Whole(n, k))]
    <3>1. e.delivered = [m \in Nodes |-> e.delivered[m]] /\ r.delivered = [m \in Nodes |-> r.delivered[m]]
      BY <1>1 DEF Sound, Shape
    <3>. DEFINE v == Append(r.delivered[n], Whole(n, k))
    <3>2. e.delivered[n] = v
      BY <2>1, <2>3
    <3>. HIDE DEF v
    <3>3. e.delivered = [r.delivered EXCEPT ![n] = v]
      BY <2>1, <3>1, <3>2
    <3>. QED
      BY <3>3 DEF v
  <2>12. Delivered(r, e, n)
    BY <1>3, <2>3, <2>11 DEF Delivered
  <2>. QED
    BY <2>6, <2>10, <2>12 DEF e
<1>. QED
  BY <1>5, <1>6

LEMMA AcceptLink ==
  ASSUME NEW r, NEW q, NEW b \in Buffers, NEW n, NEW f \in RightFrame, NEW mishap,
         Timed(mishap), Sound(r), Air, RestGood(r, q, n), r.buffers[b].src = n,
         GoodBuffer(r, q, b), Only(r, b, None, n), \A i \in DOMAIN q : q[i].packet \in Nat,
         Cardinality(Nodes) <= NumPairs, f.packet = r.buffers[b].packet,
         r.buffers[b].state # "unused"
  PROVE  LET e == Accept(r, b, f, mishap) IN
         RestGood(e, q, n) /\ NodeGood(e, q, n) /\ Delivered(r, e, n)
<1>. DEFINE s == Stored(r, b, f)
            e == Accept(r, b, f, mishap)
            k == r.buffers[b].packet
<1>0. Shape(r)
  BY DEF Sound
<1>1. /\ Shape(s) /\ Others(r, s, b) /\ s.pairs = r.pairs /\ s.delivered = r.delivered
      /\ s.buffers[b].src = n /\ s.buffers[b].packet = k /\ s.buffers[b].count = r.buffers[b].count
      /\ s.buffers[b].state = r.buffers[b].state /\ s.buffers[b].parts = PutPart(r.buffers[b], f)
  BY <1>0, StoredFacts
<1>2. Sound(s) /\ Fewer(r, s)
  BY StoredSound
<1>3. (Complete(s, b) /\ e = AssemblePacket(s, b, mishap)) \/ e = s
  BY AcceptCases
<1>. HIDE DEF s, e
<1>4. Only(s, b, None, n)
  BY <1>2, FewerFacts
<1>5. /\ n \in Nodes /\ Recent(n, k) /\ Older(r.delivered[n], k) /\ Ahead(q, n, k)
      /\ r.buffers[b].parts = [g \in Segments |-> r.buffers[b].parts[g]]
      /\ \A g \in Segments : r.buffers[b].parts[g] \in {None, k}
      /\ r.buffers[b].count = Length[n][k] - 1
      /\ Numbered(r.delivered[n]) /\ Older(r.delivered[n], sender[n].packet + 1)
  BY DEF GoodBuffer, RestGood, Kept, Numbered
<1>6. /\ s.buffers[b].parts = [g \in Segments |-> s.buffers[b].parts[g]]
      /\ \A g \in Segments : s.buffers[b].parts[g] \in {None, k}
  <2>. DEFINE y == s.buffers[b].parts
              z == r.buffers[b].parts
  <2>1. y = [z EXCEPT ![f.segment] = k]
    BY <1>1 DEF PutPart
  <2>2. z = [g \in Segments |-> z[g]] /\ \A g \in Segments : z[g] \in {None, k}
    BY <1>5
  <2>. HIDE DEF y, z, k
  <2>. QED
    BY <2>1, <2>2 DEF y
<1>7. GoodBuffer(s, q, b)
  BY <1>1, <1>5, <1>6 DEF GoodBuffer
<1>8. RestGood(s, q, n)
  BY <1>1, <1>5, RestStays
<1>9. CASE e = s
  <2>1. NodeGood(s, q, n)
    BY <1>1, <1>4, <1>7, <1>8, NodeFromBuffer DEF RestGood
  <2>. QED
    BY <1>1, <1>8, <1>9, <2>1 DEF Delivered, e
<1>10. CASE Complete(s, b) /\ e = AssemblePacket(s, b, mishap)
  <2>1. RestGood(e, q, n) /\ NodeGood(e, q, n) /\ Delivered(s, e, n)
    BY <1>1, <1>2, <1>4, <1>7, <1>8, <1>10, AssembleLink DEF Complete
  <2>2. Delivered(r, e, n)
    BY <1>1, <2>1 DEF Delivered
  <2>. QED
    BY <2>1, <2>2 DEF e
<1>. QED
  BY <1>3, <1>9, <1>10

\* Steps that change but the marks of buffer b.
LEMMA MarksLink ==
  ASSUME NEW r, NEW e, NEW q, NEW n, NEW b \in Buffers, OtherMarks(r, e, b), Sound(r),
         r.buffers[b].src = n, RestGood(r, q, n),
         e.buffers[b].state \in {r.buffers[b].state, "stale"}, n \in Nodes
  PROVE  /\ RestGood(e, q, n) /\ e.delivered = r.delivered
         /\ GoodBuffer(r, q, b) => GoodBuffer(e, q, b)
<1>1. /\ Others(r, e, b) /\ e.pairs = r.pairs /\ e.delivered = r.delivered
      /\ e.buffers[b].src = n /\ e.buffers[b].packet = r.buffers[b].packet
      /\ e.buffers[b].count = r.buffers[b].count /\ e.buffers[b].parts = r.buffers[b].parts
  BY DEF OtherMarks, Others
<1>2. e.buffers[b].state = "unused" => e.buffers[b].parts = NoParts
  BY <1>1 DEF RestGood, Kept
<1>3. Numbered(r.delivered[n]) /\ Older(r.delivered[n], sender[n].packet + 1)
  BY DEF RestGood, Kept, Numbered
<1>4. RestGood(e, q, n)
  BY <1>1, <1>2, <1>3, RestStays
<1>. QED
  BY <1>1, <1>4 DEF GoodBuffer

LEMMA SameLink ==
  ASSUME NEW r, NEW q, NEW b \in Buffers, NEW n, NEW f \in RightFrame, NEW mishap,
         Timed(mishap), Sound(r), Air, RestGood(r, q, n), r.buffers[b].src = n,
         GoodBuffer(r, q, b), Only(r, b, None, n), \A i \in DOMAIN q : q[i].packet \in Nat,
         Cardinality(Nodes) <= NumPairs, f.packet = r.buffers[b].packet,
         r.buffers[b].state # "unused"
  PROVE  LET e == SamePacket(r, b, f, mishap) IN
         RestGood(e, q, n) /\ NodeGood(e, q, n) /\ Delivered(r, e, n)
<1>. DEFINE d == DeleteRxTimer(r, b)
            t == AddRxAssemblyTimer(d, b, mishap)
            e == SamePacket(r, b, f, mishap)
<1>0. n \in Nodes
  BY DEF GoodBuffer
<1>1. OtherMarks(r, d, b) /\ d.buffers[b].state = r.buffers[b].state /\ Sound(d) /\ Fewer(r, d)
  BY DeleteFacts, DeleteSound DEF Sound
<1>2. e = t \/ e = Accept(t, b, f, mishap)
  BY SameCases
<1>. HIDE DEF d, e
<1>3. RestGood(d, q, n) /\ d.delivered = r.delivered /\ GoodBuffer(d, q, b)
  BY <1>0, <1>1, MarksLink
<1>4. d.buffers[b].src = n /\ d.buffers[b].packet = r.buffers[b].packet /\ Shape(d)
  BY <1>1 DEF OtherMarks
<1>5. OtherMarks(d, t, b) /\ t.buffers[b].state = d.buffers[b].state
  BY <1>4, AddTimerFacts
<1>6. Sound(t) /\ Fewer(d, t)
  BY <1>1, AddTimerSound
<1>. HIDE DEF t
<1>7. RestGood(t, q, n) /\ t.delivered = r.delivered /\ GoodBuffer(t, q, b)
  BY <1>0, <1>1, <1>3, <1>4, <1>5, MarksLink
<1>8. t.buffers[b].src = n /\ t.buffers[b].packet = r.buffers[b].packet
  BY <1>4, <1>5 DEF OtherMarks
<1>9. Only(t, b, None, n)
  BY <1>1, <1>6, FewerFacts
<1>10. CASE e = t
  <2>1. NodeGood(t, q, n)
    BY <1>7, <1>8, <1>9, NodeFromBuffer DEF RestGood
  <2>. QED
    BY <1>7, <1>10, <2>1 DEF Delivered, e
<1>11. CASE e = Accept(t, b, f, mishap)
  <2>1. t.buffers[b].state # "unused"
    BY <1>1, <1>5
  <2>2. RestGood(e, q, n) /\ NodeGood(e, q, n) /\ Delivered(t, e, n)
    BY <1>6, <1>7, <1>8, <1>9, <1>11, <2>1, AcceptLink
  <2>. QED
    BY <1>7, <2>2 DEF Delivered, e
<1>. QED
  BY <1>2, <1>10, <1>11

\* A buffer is emptied.
LEMMA EmptyLink ==
  ASSUME NEW r, NEW q, NEW b \in Buffers, NEW n \in Nodes, Sound(r), RestGood(r, q, n)
  PROVE  LET e == EmptyRxBuffer(r, b) IN RestGood(e, q, n) /\ e.delivered = r.delivered
<1>. DEFINE e == EmptyRxBuffer(r, b)
<1>0. Shape(r)
  BY DEF Sound
<1>1. /\ Others(r, e, b) /\ e.buffers[b].state = "unused" /\ e.buffers[b].parts = NoParts
      /\ e.pairs = r.pairs /\ e.delivered = r.delivered
  BY <1>0, EmptyFacts DEF Others
<1>. HIDE DEF e
<1>2. Numbered(r.delivered[n]) /\ Older(r.delivered[n], sender[n].packet + 1)
  BY DEF RestGood, Kept, Numbered
<1>3. RestGood(e, q, n)
  BY <1>1, <1>2, RestStays
<1>. QED
  BY <1>1, <1>3 DEF e

LEMMA NewLink ==
  ASSUME NEW r, NEW q, NEW n, NEW f \in RightFrame, NEW mishap,
         Timed(mishap), Sound(r), Air, RestGood(r, q, n), f.src = n,
         Only(r, None, None, n), \A i \in DOMAIN q : q[i].packet \in Nat,
         Cardinality(Nodes) <= NumPairs, Recent(n, f.packet), Older(r.delivered[n], f.packet),
         Ahead(q, n, f.packet)
  PROVE  LET e == NewPacket(r, f, mishap) IN
         RestGood(e, q, n) /\ NodeGood(e, q, n) /\ Delivered(r, e, n)
<1>. DEFINE e == NewPacket(r, f, mishap)
            got == Got(r, f)
            k == f.packet
<1>0. n \in Nodes /\ f.count = Length[n][k] - 1 /\ Shape(r)
  BY DEF RightFrame, Sound
<1>1. Numbered(r.delivered[n]) /\ Older(r.delivered[n], sender[n].packet + 1) /\ Kept(r)
  BY <1>0 DEF RestGood, Kept, Numbered
<1>2. CASE e = r
  <2>1. NodeGood(r, q, n)
    BY <1>0, <1>1, NodeFromNothing
  <2>. QED
    BY <1>2, <2>1 DEF Delivered
<1>3. ASSUME NEW b \in Buffers, r.buffers[b].state = "unused",
             \/ e = EmptyRxBuffer(Taken(r, b, f, got), b)
             \/ e = Accept(AddRxAssemblyTimer(Taken(r, b, f, got), b, mishap), b, f, mishap)
      PROVE  RestGood(e, q, n) /\ NodeGood(e, q, n) /\ Delivered(r, e, n)
  <2>. DEFINE t == Taken(r, b, f, got)
              a == AddRxAssemblyTimer(t, b, mishap)
              w == EmptyRxBuffer(t, b)
  <2>. HIDE DEF e, got
  <2>1. Sound(t) /\ Only(t, b, None, n)
    BY <1>3, TakenSound
  <2>2. /\ Others(r, t, b) /\ t.pairs = r.pairs /\ t.delivered = r.delivered
        /\ t.buffers[b].state = "inUse" /\ t.buffers[b].src = n /\ t.buffers[b].packet = k
        /\ t.buffers[b].count = f.count /\ t.buffers[b].parts = r.buffers[b].parts
    BY <1>0, TakenFacts
  <2>. HIDE DEF t
  <2>3. e = w \/ e = Accept(a, b, f, mishap)
    BY <1>3 DEF t
  <2>4. RestGood(t, q, n)
    BY <1>1, <2>2, RestStays
  <2>5. r.buffers[b].parts = NoParts
    BY <1>3 DEF RestGood, Kept
  <2>6. /\ NoParts = [s \in Segments |-> NoParts[s]]
        /\ \A s \in Segments : NoParts[s] \in {None, k}
    BY DEF NoParts
  <2>7. GoodBuffer(t, q, b)
    BY <1>0, <2>2, <2>5, <2>6 DEF GoodBuffer
  <2>8. CASE e = w
    <3>1. RestGood(w, q, n) /\ w.delivered = t.delivered
      BY <1>0, <2>1, <2>4, EmptyLink
    <3>2. Sound(w) /\ Fewer(t, w) /\ w.buffers[b].state = "unused"
      BY <2>1, EmptySound
    <3>. HIDE DEF w
    <3>3. Only(w, b, None, n)
      BY <2>1, <3>2, FewerFacts
    <3>4. Only(w, None, None, n)
      BY <3>2, <3>3 DEF Only, CollectedIn
    <3>5. Kept(w)
      BY <3>1 DEF RestGood
    <3>6. NodeGood(w, q, n)
      BY <1>0, <2>2, <3>1, <3>4, <3>5, NodeFromNothing
    <3>. QED
      BY <2>2, <2>8, <3>1, <3>6 DEF Delivered
  <2>9. CASE e = Accept(a, b, f, mishap)
    <3>0. Shape(t)
      BY <2>1 DEF Sound
    <3>1. OtherMarks(t, a, b) /\ a.buffers[b].state = t.buffers[b].state
      BY <3>0, AddTimerFacts
    <3>2. Sound(a) /\ Fewer(t, a)
      BY <2>1, AddTimerSound
    <3>. HIDE DEF a
    <3>3. RestGood(a, q, n) /\ a.delivered = t.delivered /\ GoodBuffer(a, q, b)
      BY <1>0, <2>1, <2>2, <2>4, <2>7, <3>1, MarksLink
    <3>4. a.buffers[b].src = n /\ a.buffers[b].packet = k
      BY <2>2, <3>1 DEF OtherMarks
    <3>5. Only(a, b, None, n)
      BY <2>1, <3>2, FewerFacts
    <3>6. a.buffers[b].state # "unused"
      BY <2>2, <3>1
    <3>7. RestGood(e, q, n) /\ NodeGood(e, q, n) /\ Delivered(a, e, n)
      BY <2>9, <3>2, <3>3, <3>4, <3>5, <3>6, AcceptLink
    <3>. QED
      BY <2>2, <3>3, <3>7 DEF Delivered
  <2>. QED
    BY <2>3, <2>8, <2>9
<1>4. \/ e = r
      \/ \E b \in Buffers :
           /\ r.buffers[b].state = "unused"
           /\ \/ e = EmptyRxBuffer(Taken(r, b, f, got), b)
              \/ e = Accept(AddRxAssemblyTimer(Taken(r, b, f, got), b, mishap), b, f, mishap)
  BY <1>0, NewCases
<1>. QED
  BY <1>2, <1>3, <1>4

LEMMA DataIndLink ==
  ASSUME NEW r, NEW q, NEW b \in Buffers \union {None}, NEW p \in Pairs \union {None},
         NEW n, NEW f \in RightFrame, NEW mishap,
         Timed(mishap), Sound(r), Air, RestGood(r, q, n), f.src = n,
         Only(r, b, p, n), \A i \in DOMAIN q : q[i].packet \in Nat,
         Cardinality(Nodes) <= NumPairs, Recent(n, f.packet), Ahead(q, n, f.packet),
         b # None => /\ p = None /\ r.buffers[b].src = n /\ r.buffers[b].state # "unused"
                     /\ GoodBuffer(r, q, b) /\ r.buffers[b].packet <= f.packet,
         p # None => /\ r.pairs[p].src = n /\ r.pairs[p].inUse
                     /\ GoodPair(r, q, p) /\ r.pairs[p].packet <= f.packet,
         b = None /\ p = None => Older(r.delivered[n], f.packet)
  PROVE  LET e == DataInd(r, b, p, f, mishap) IN
         RestGood(e, q, n) /\ NodeGood(e, q, n) /\ Delivered(r, e, n)
<1>. DEFINE e == DataInd(r, b, p, f, mishap)
            k == f.packet
<1>0. n \in Nodes /\ k \in Nat /\ Numbered(r.delivered[n]) /\ Shape(r) /\ Kept(r)
      /\ Older(r.delivered[n], sender[n].packet + 1)
  BY DEF RightFrame, RestGood, Kept, Numbered, Sound
<1>1. CASE b # None
  <2>. DEFINE j == r.buffers[b].packet
  <2>0. b \in Buffers /\ p = None /\ Recent(n, j) /\ j \in Nat /\ Older(r.delivered[n], j)
    BY <1>1 DEF GoodBuffer, Recent
  <2>1. CASE Id(j) = Id(k)
    <3>1. e = SamePacket(r, b, f, mishap)
      BY <1>1, <2>1 DEF DataInd
    <3>2. k = j
      BY <1>0, <2>0, <2>1, RecentSame
    <3>. HIDE DEF e
    <3>. QED
      BY <1>1, <2>0, <3>1, <3>2, SameLink DEF e
  <2>2. CASE Id(j) # Id(k)
    <3>. DEFINE d == DeleteRxTimer(r, b)
                w == EmptyRxBuffer(d, b)
    <3>1. e = NewPacket(w, f, mishap)
      BY <1>1, <2>2 DEF DataInd
    <3>. HIDE DEF e
    <3>2. Sound(d) /\ Fewer(r, d) /\ OtherMarks(r, d, b) /\ d.buffers[b].state = r.buffers[b].state
      BY <1>0, <2>0, DeleteSound, DeleteFacts
    <3>. HIDE DEF d
    <3>3. RestGood(d, q, n) /\ d.delivered = r.delivered
      BY <1>0, <1>1, <2>0, <3>2, MarksLink
    <3>4. Sound(w) /\ Fewer(d, w) /\ w.buffers[b].state = "unused"
      BY <2>0, <3>2, EmptySound
    <3>5. RestGood(w, q, n) /\ w.delivered = d.delivered
      BY <1>0, <2>0, <3>2, <3>3, EmptyLink
    <3>. HIDE DEF w
    <3>6. Only(w, b, None, n)
      BY <2>0, <3>2, <3>4, FewerFacts
    <3>7. Only(w, None, None, n)
      BY <3>4, <3>6 DEF Only, CollectedIn
    <3>8. j < k
      <4>1. j # k
        BY <2>2
      <4>. QED
        BY <1>0, <1>1, <2>0, <4>1
    <3>9. Older(w.delivered[n], k)
      <4>. HIDE DEF j, k
      <4>1. j <= k
        BY <1>0, <2>0, <3>8
      <4>. QED
        BY <1>0, <2>0, <3>3, <3>5, <4>1, OlderFacts
    <3>10. RestGood(e, q, n) /\ NodeGood(e, q, n) /\ Delivered(w, e, n)
      BY <3>1, <3>4, <3>5, <3>7, <3>9, NewLink
    <3>11. RestGood(e, q, n) /\ NodeGood(e, q, n) /\ Delivered(r, e, n)
      <4>1. w.delivered = r.delivered
        BY <3>3, <3>5
      <4>2. Delivered(w, e, n)
        BY <3>10
      <4>. HIDE DEF k
      <4>3. Delivered(r, e, n)
        BY <4>1, <4>2 DEF Delivered
      <4>. QED
        BY <3>10, <4>3
    <3>. QED
      BY <3>11 DEF e
  <2>. QED
    BY <2>1, <2>2
<1>2. CASE b = None /\ p # None
  <2>. DEFINE j == r.pairs[p].packet
  <2>0. p \in Pairs /\ Recent(n, j) /\ j \in Nat /\ Older(r.delivered[n], j + 1)
    BY <1>2 DEF GoodPair, Recent
  <2>1. CASE Id(j) = Id(k)
    <3>. DEFINE d == [r EXCEPT !.pairs[p].timer = Cancel(@)]
                w == AddPairTimeout(d, p, mishap)
    <3>1. e = w
      BY <1>2, <2>1 DEF DataInd
    <3>2. /\ OtherPair(r, d, p) /\ d.pairs[p].src = r.pairs[p].src
          /\ d.pairs[p].packet = r.pairs[p].packet /\ d.pairs[p].inUse = r.pairs[p].inUse
      BY <1>0, <2>0, CancelPairFacts
    <3>. HIDE DEF d, e
    <3>3. Shape(d)
      BY <3>2 DEF OtherPair
    <3>4. /\ OtherPair(d, w, p) /\ w.pairs[p].src = d.pairs[p].src
          /\ w.pairs[p].packet = d.pairs[p].packet /\ w.pairs[p].inUse = d.pairs[p].inUse
      BY <2>0, <3>3, AddPairFacts
    <3>. HIDE DEF w
    <3>5. w.buffers = r.buffers /\ w.delivered = r.delivered
          /\ \A o \in Pairs \ {p} : w.pairs[o] = r.pairs[o]
      BY <3>2, <3>4 DEF OtherPair
    <3>6. RestGood(w, q, n)
      <4>1. Others(r, w, None) /\ None \notin Buffers
        BY <3>5 DEF Others, Buffers, None
      <4>2. \A o \in Pairs : w.pairs[o] = r.pairs[o] \/ (r.pairs[o].src = n /\ w.pairs[o].src = n)
        BY <1>2, <3>2, <3>4, <3>5
      <4>. QED
        BY <1>0, <3>5, <4>1, <4>2, RestStays
    <3>7. KnownFrom(w, p, n) /\ GoodPair(w, q, p)
      BY <1>2, <3>2, <3>4, <3>5 DEF KnownFrom, GoodPair
    <3>8. \A o \in Pairs : KnownFrom(w, o, n) => o = p
      BY <1>2, <3>5 DEF Only, KnownFrom
    <3>9. \A c \in Buffers : ~ CollectedIn(w, c, n)
      <4>1. \A c \in Buffers : c # None
        BY DEF Buffers, None
      <4>. QED
        BY <1>2, <3>5, <4>1 DEF Only, CollectedIn
    <3>11. Fresh(w, q, n)
      BY <2>0, <3>7 DEF Fresh
    <3>10. NodeGood(w, q, n)
      <4>1. \A c \in Buffers : CollectedIn(w, c, n) => GoodBuffer(w, q, c)
        BY <3>9
      <4>2. \A o \in Pairs : KnownFrom(w, o, n) => GoodPair(w, q, o)
        BY <3>7, <3>8
      <4>. QED
        BY <3>11, <4>1, <4>2 DEF NodeGood
    <3>. QED
      BY <3>1, <3>5, <3>6, <3>10 DEF Delivered, e
  <2>2. CASE Id(j) # Id(k)
    <3>. DEFINE w == DropPair(r, p)
    <3>1. e = NewPacket(w, f, mishap)
      BY <1>2, <2>2 DEF DataInd
    <3>2. OtherPair(r, w, p) /\ ~ w.pairs[p].inUse
      BY <1>0, <2>0, DropFacts
    <3>. HIDE DEF w, e
    <3>3. Fewer(r, w)
      BY <2>0, <3>2, PairFewer
    <3>4. Sound(w)
      BY <3>2, <3>3, FewerFacts DEF Sound, OtherPair
    <3>5. Only(w, None, p, n)
      BY <1>2, <3>3, FewerFacts
    <3>6. Only(w, None, None, n)
      BY <3>2, <3>5 DEF Only, KnownFrom
    <3>7. w.buffers = r.buffers /\ w.delivered = r.delivered
          /\ \A o \in Pairs \ {p} : w.pairs[o] = r.pairs[o]
      BY <3>2 DEF OtherPair
    <3>8. RestGood(w, q, n)
      <4>1. Others(r, w, None) /\ None \notin Buffers
        BY <3>7 DEF Others, Buffers, None
      <4>2. \A o \in Pairs : w.pairs[o] = r.pairs[o] \/ (r.pairs[o].src = n /\ ~ w.pairs[o].inUse)
        BY <1>2, <3>2, <3>7
      <4>. QED
        BY <1>0, <3>7, <4>1, <4>2, RestStays
    <3>9. j < k
      <4>1. j # k
        BY <2>2
      <4>. QED
        BY <1>0, <1>2, <2>0, <4>1
    <3>10. Older(w.delivered[n], k)
      <4>. HIDE DEF j, k
      <4>. QED
        BY <1>0, <2>0, <3>7, <3>9, OlderFacts
    <3>11. RestGood(e, q, n) /\ NodeGood(e, q, n) /\ Delivered(w, e, n)
      BY <3>1, <3>4, <3>6, <3>8, <3>10, NewLink
    <3>. QED
      BY <3>7, <3>11 DEF Delivered, e
  <2>. QED
    BY <2>1, <2>2
<1>3. CASE b = None /\ p = None
  <2>1. e = NewPacket(r, f, mishap)
    BY <1>3 DEF DataInd
  <2>. HIDE DEF e
  <2>2. RestGood(e, q, n) /\ NodeGood(e, q, n) /\ Delivered(r, e, n)
    BY <1>3, <2>1, NewLink
  <2>. QED
    BY <2>2 DEF e
<1>. QED
  BY <1>1, <1>2, <1>3

\* All is well with every node.
AllGood(r, q) ==
  /\ Kept(r)
  /\ \A c \in Buffers : r.buffers[c].state = "inUse" => GoodBuffer(r, q, c)
  /\ \A p \in Pairs : r.pairs[p].inUse => GoodPair(r, q, p)
  /\ \A n \in Nodes : Fresh(r, q, n)

\* The frame in hand belongs to what was found, even if that has expired.
HandGood ==
  /\ found.buffer # None => /\ GoodBuffer(rx, inbox, found.buffer)
                            /\ rx.buffers[found.buffer].state # "unused"
  /\ found.pair # None => rx.pairs[found.pair].inUse

LinkInv == OneInv /\ InOrder(inbox) /\ AllGood(rx, inbox) /\ (pc = "found" => HandGood)

\* Buffer c has the same parts of the same packet.
Carries(r, e, c) ==
  LET x == r.buffers[c]
      y == e.buffers[c]
  IN /\ y.src = x.src /\ y.packet = x.packet /\ y.count = x.count /\ y.parts = x.parts
     /\ y.state = "inUse" => x.state = "inUse"
     /\ y.state = "unused" => x.state = "unused"

LEMMA CarriesGood ==
  ASSUME NEW r, NEW e, NEW q, NEW c \in Buffers, Carries(r, e, c), e.delivered = r.delivered,
         GoodBuffer(r, q, c)
  PROVE  GoodBuffer(e, q, c)
BY DEF Carries, GoodBuffer

\* Nothing is delivered, nothing taken: buffers are emptied or marked.
LEMMA QuietGood ==
  ASSUME NEW r, NEW e, NEW q, AllGood(r, q), e.delivered = r.delivered,
         \A c \in Buffers : \/ Carries(r, e, c)
                            \/ e.buffers[c].state = "unused" /\ e.buffers[c].parts = NoParts,
         \A p \in Pairs : e.pairs[p] = r.pairs[p] \/ ~ e.pairs[p].inUse,
         \A n \in Nodes : Fresh(e, q, n)
  PROVE  AllGood(e, q)
<1>1. Kept(e)
  BY DEF AllGood, Kept, Carries
<1>2. ASSUME NEW c \in Buffers, e.buffers[c].state = "inUse" PROVE GoodBuffer(e, q, c)
  <2>1. Carries(r, e, c)
    BY <1>2
  <2>2. GoodBuffer(r, q, c)
    BY <1>2, <2>1 DEF Carries, AllGood
  <2>. QED
    BY <2>1, <2>2, CarriesGood
<1>3. ASSUME NEW p \in Pairs, e.pairs[p].inUse PROVE GoodPair(e, q, p)
  <2>1. e.pairs[p] = r.pairs[p]
    BY <1>3
  <2>2. GoodPair(r, q, p)
    BY <1>3, <2>1 DEF AllGood
  <2>. QED
    BY <2>1, <2>2 DEF GoodPair
<1>. QED
  BY <1>1, <1>2, <1>3 DEF AllGood

LEMMA FreshStays ==
  ASSUME NEW r, NEW e, NEW q, NEW n, Fresh(r, q, n), e.delivered = r.delivered, e.pairs = r.pairs
  PROVE  Fresh(e, q, n)
BY DEF Fresh, KnownFrom

\* The stale buffers are emptied.
LEMMA FoldGood ==
  ASSUME NEW r, NEW q, Sound(r), AllGood(r, q)
  PROVE  LET e == [FoldLeft(EmptyRxBuffer, r, r.expired) EXCEPT !.expired = <<>>]
         IN AllGood(e, q) /\ e.delivered = r.delivered
<1>. DEFINE l == r.expired
            n == Len(l)
            z == FoldLeft(EmptyRxBuffer, r, l)
            e == [z EXCEPT !.expired = <<>>]
            Well(w) == Sound(w) /\ AllGood(w, q) /\ w.delivered = r.delivered
<1>1. l \in Seq(Buffers) /\ n \in Nat /\ \A i \in 1 .. n : l[i] \in Buffers
  BY DEF Sound
<1>2. PICK g : EmptiesList(g, r, l) /\ z = g[n]
  BY <1>1, FoldFacts
<1>. HIDE DEF l, n, z
<1>3. ASSUME NEW w, NEW b \in Buffers, Well(w) PROVE Well(EmptyRxBuffer(w, b))
  <2>. DEFINE v == EmptyRxBuffer(w, b)
  <2>1. Sound(v)
    BY <1>3, EmptySound
  <2>2. Shape(w)
    BY <1>3 DEF Sound
  <2>3. /\ Others(w, v, b) /\ v.buffers[b].state = "unused" /\ v.buffers[b].parts = NoParts
        /\ v.pairs = w.pairs /\ v.delivered = w.delivered
    BY <2>2, EmptyFacts DEF Others
  <2>. HIDE DEF v
  <2>4. \A c \in Buffers \ {b} : Carries(w, v, c)
    BY <2>3 DEF Others, Carries
  <2>5. \A m \in Nodes : Fresh(v, q, m)
    BY <1>3, <2>3, FreshStays DEF AllGood
  <2>6. AllGood(v, q)
    <3>1. AllGood(w, q)
      BY <1>3
    <3>. QED
      BY <2>3, <2>4, <2>5, <3>1, QuietGood
  <2>. QED
    BY <1>3, <2>1, <2>3, <2>6 DEF v
<1>. DEFINE P == {i \in 0 .. n : Well(g[i])}
<1>4. 0 \in P
  BY <1>1, <1>2 DEF EmptiesList
<1>5. ASSUME NEW i \in 1 .. n, i - 1 \in P PROVE i \in P
  <2>1. g[i] = EmptyRxBuffer(g[i - 1], l[i]) /\ l[i] \in Buffers
    BY <1>1, <1>2 DEF EmptiesList, n
  <2>2. Well(g[i - 1])
    BY <1>5
  <2>. HIDE DEF Well
  <2>3. Well(g[i])
    BY <1>3, <2>1, <2>2
  <2>. QED
    BY <1>1, <2>3
<1>. HIDE DEF P
<1>6. n \in P
  <2>1. 0 .. n \subseteq P
    BY <1>1, <1>4, <1>5, Climb
  <2>. QED
    BY <1>1, <2>1
<1>7. Well(z)
  BY <1>2, <1>6 DEF P
<1>8. e.buffers = z.buffers /\ e.pairs = z.pairs /\ e.delivered = z.delivered
  <2>1. Shape(z)
    BY <1>7 DEF Sound
  <2>. QED
    BY <2>1, StateFacts
<1>. HIDE DEF e
<1>9. \A c \in Buffers : Carries(z, e, c)
  BY <1>8 DEF Carries
<1>10. \A m \in Nodes : Fresh(e, q, m)
  BY <1>7, <1>8, FreshStays DEF AllGood
<1>11. AllGood(e, q)
  <2>1. AllGood(z, q)
    BY <1>7
  <2>. QED
    BY <1>8, <1>9, <1>10, <2>1, QuietGood
<1>. QED
  BY <1>7, <1>8, <1>11 DEF e, z, l

\* The frame at the head is taken out of the queue.
LEMMA TailGood ==
  ASSUME NEW r, NEW q \in Seq(RightFrame), q # <<>>, InOrder(q), AllGood(r, q)
  PROVE  /\ InOrder(Tail(q)) /\ Ahead(Tail(q), q[1].src, q[1].packet)
         /\ \A c \in Buffers : GoodBuffer(r, q, c) => GoodBuffer(r, Tail(q), c)
         /\ AllGood(r, Tail(q))
<1>. DEFINE t == Tail(q)
<1>1. /\ Len(q) \in Nat \ {0} /\ DOMAIN q = 1 .. Len(q) /\ DOMAIN t = 1 .. Len(q) - 1
      /\ \A i \in 1 .. Len(q) - 1 : t[i] = q[i + 1]
  OBVIOUS
<1>2. \A i \in DOMAIN t : i + 1 \in DOMAIN q /\ t[i] = q[i + 1] /\ 1 < i + 1 /\ 1 \in DOMAIN q
  BY <1>1
<1>3. \A i, j \in DOMAIN t : i < j => i + 1 < j + 1
  BY <1>1
<1>. HIDE DEF t
<1>4. \A n, k : Ahead(q, n, k) => Ahead(t, n, k)
  BY <1>2 DEF Ahead
<1>5. InOrder(t)
  BY <1>2, <1>3 DEF InOrder
<1>6. Ahead(t, q[1].src, q[1].packet)
  <2>1. q[1] \in RightFrame /\ \A i \in DOMAIN t : t[i] \in RightFrame
    BY <1>1, <1>2
  <2>2. \A i \in DOMAIN t : t[i].src = q[1].src => q[1].packet <= t[i].packet
    BY <1>2 DEF InOrder
  <2>3. q[1].packet \in Nat /\ \A i \in DOMAIN t : t[i].packet \in Nat
    BY <2>1 DEF RightFrame
  <2>. QED
    BY <2>2, <2>3 DEF Ahead
<1>7. \A c \in Buffers : GoodBuffer(r, q, c) => GoodBuffer(r, t, c)
  BY <1>4 DEF GoodBuffer
<1>8. \A p \in Pairs : GoodPair(r, q, p) => GoodPair(r, t, p)
  BY <1>4 DEF GoodPair
<1>9. ASSUME NEW n \in Nodes PROVE Fresh(r, t, n)
  <2>1. Fresh(r, q, n)
    BY DEF AllGood
  <2>. QED
    BY <1>2, <2>1 DEF Fresh
<1>10. AllGood(r, t)
  BY <1>7, <1>8, <1>9 DEF AllGood
<1>. QED
  BY <1>5, <1>6, <1>7, <1>10 DEF t

LEMMA HandleGood ==
  ASSUME LinkInv, Handle, "noTimer" \notin Mishaps, PacketTimeout # 0, Cardinality(Nodes) <= NumPairs
  PROVE  /\ InOrder(inbox)' /\ AllGood(rx, inbox)' /\ UNCHANGED sender
         /\ \E n \in Nodes : Delivered(rx, rx', n)
<1>. DEFINE f == Head(inbox)
            n == f.src
            q == Tail(inbox)
            b == found.buffer
            p == found.pair
<1>0. /\ pc = "found" /\ inbox' = q /\ UNCHANGED sender
      /\ Air /\ Sound(rx) /\ FoundRight /\ HandGood /\ InOrder(inbox) /\ AllGood(rx, inbox)
  BY DEF Handle, LinkInv, OneInv
<1>1. PICK mishap \in (Mishaps \ {"expiry"}) \union {"none"} : rx' = DataInd(rx, b, p, f, mishap)
  BY DEF Handle
<1>2. Timed(mishap)
  BY DEF Timed
<1>3. /\ inbox \in Seq(RightFrame) /\ inbox # <<>> /\ f = inbox[1] /\ 1 \in DOMAIN inbox
      /\ f \in RightFrame /\ q \in Seq(RightFrame)
  BY <1>0 DEF Air, FoundRight
<1>4. /\ InOrder(q) /\ Ahead(q, n, f.packet) /\ AllGood(rx, q)
      /\ \A c \in Buffers : GoodBuffer(rx, inbox, c) => GoodBuffer(rx, q, c)
  BY <1>0, <1>3, TailGood
<1>5. n \in Nodes /\ f.packet \in Nat /\ \A i \in DOMAIN q : q[i].packet \in Nat
  BY <1>3, SMTT(30) DEF RightFrame
<1>6. Recent(n, f.packet)
  BY <1>0, <1>3 DEF InOrder
<1>7. /\ b \in Buffers \union {None} /\ p \in Pairs \union {None} /\ Only(rx, b, p, n)
      /\ b # None => rx.buffers[b].src = n /\ p = None
      /\ p # None => rx.pairs[p].src = n
  BY <1>0 DEF FoundRight
<1>8. b # None => /\ p = None /\ rx.buffers[b].src = n /\ rx.buffers[b].state # "unused"
                  /\ GoodBuffer(rx, q, b) /\ rx.buffers[b].packet <= f.packet
  <2>. SUFFICES ASSUME b # None
       PROVE  /\ rx.buffers[b].state # "unused"
              /\ GoodBuffer(rx, q, b) /\ rx.buffers[b].packet <= f.packet
    BY <1>7
  <2>1. GoodBuffer(rx, inbox, b) /\ rx.buffers[b].state # "unused"
    BY <1>0 DEF HandGood
  <2>2. b \in Buffers /\ rx.buffers[b].src = n
    BY <1>7
  <2>3. Ahead(inbox, n, rx.buffers[b].packet) /\ rx.buffers[b].packet \in Nat
    BY <2>1, <2>2 DEF GoodBuffer, Recent
  <2>4. rx.buffers[b].packet <= f.packet
    BY <1>3, <1>5, <2>3 DEF Ahead
  <2>. QED
    BY <1>4, <2>1, <2>2, <2>4
<1>9. p # None => /\ rx.pairs[p].src = n /\ rx.pairs[p].inUse
                  /\ GoodPair(rx, q, p) /\ rx.pairs[p].packet <= f.packet
  <2>. SUFFICES ASSUME p # None
       PROVE  rx.pairs[p].inUse /\ GoodPair(rx, q, p) /\ rx.pairs[p].packet <= f.packet
    BY <1>7
  <2>1. rx.pairs[p].inUse /\ p \in Pairs /\ rx.pairs[p].src = n
    BY <1>0, <1>7 DEF HandGood
  <2>2. GoodPair(rx, inbox, p) /\ GoodPair(rx, q, p)
    BY <1>0, <1>4, <2>1 DEF AllGood
  <2>3. Ahead(inbox, n, rx.pairs[p].packet) /\ rx.pairs[p].packet \in Nat
    BY <2>1, <2>2 DEF GoodPair, Recent
  <2>4. rx.pairs[p].packet <= f.packet
    BY <1>3, <1>5, <2>3 DEF Ahead
  <2>. QED
    BY <2>1, <2>2, <2>4
<1>10. b = None /\ p = None => Older(rx.delivered[n], f.packet)
  <2>. SUFFICES ASSUME b = None, p = None PROVE Older(rx.delivered[n], f.packet)
    OBVIOUS
  <2>1. \A o \in Pairs : ~ KnownFrom(rx, o, n)
    <3>1. \A o \in Pairs : o # None
      BY DEF Pairs, None
    <3>. QED
      BY <1>7, <3>1 DEF Only
  <2>2. Fresh(rx, inbox, n)
    BY <1>0, <1>5 DEF AllGood
  <2>. QED
    BY <1>3, <2>1, <2>2 DEF Fresh
<1>11. RestGood(rx, q, n)
  BY <1>4 DEF AllGood, RestGood
<1>. DEFINE e == rx'
<1>. HIDE DEF b, p, f, q, n
<1>12. RestGood(e, q, n) /\ NodeGood(e, q, n) /\ Delivered(rx, e, n)
  <2>1. f.src = n
    BY DEF n
  <2>. QED
    BY <1>0, <1>1, <1>2, <1>3, <1>4, <1>5, <1>6, <1>7, <1>8, <1>9, <1>10, <1>11, <2>1, DataIndLink
<1>. HIDE DEF e
<1>13. AllGood(e, q)
  <2>1. \A c \in Buffers : e.buffers[c].state = "inUse" => GoodBuffer(e, q, c)
    BY <1>12 DEF RestGood, NodeGood, CollectedIn
  <2>2. \A o \in Pairs : e.pairs[o].inUse => GoodPair(e, q, o)
    BY <1>12 DEF RestGood, NodeGood, KnownFrom
  <2>3. Kept(e) /\ \A m \in Nodes : Fresh(e, q, m)
    BY <1>12 DEF RestGood, NodeGood
  <2>. QED
    BY <2>1, <2>2, <2>3 DEF AllGood
<1>14. InOrder(inbox)' /\ AllGood(rx, inbox)'
  <2>1. InOrder(q)
    BY <1>4
  <2>2. InOrder(inbox)'
    BY <1>0, <2>1 DEF InOrder, Recent
  <2>3. Kept(rx)'
    BY <1>0, <1>13 DEF AllGood, Kept, Older, e
  <2>4. \A c \in Buffers : rx'.buffers[c].state = "inUse" => GoodBuffer(rx, inbox, c)'
    BY <1>0, <1>13 DEF AllGood, GoodBuffer, Older, Ahead, Recent, e
  <2>5. \A o \in Pairs : rx'.pairs[o].inUse => GoodPair(rx, inbox, o)'
    BY <1>0, <1>13 DEF AllGood, GoodPair, Older, Ahead, Recent, e
  <2>6. \A m \in Nodes : Fresh(rx, inbox, m)'
    BY <1>0, <1>13 DEF AllGood, Fresh, Older, KnownFrom, MoreToCome, e
  <2>. QED
    BY <2>2, <2>3, <2>4, <2>5, <2>6 DEF AllGood
<1>. QED
  BY <1>0, <1>5, <1>12, <1>14 DEF e

-----------------------------------------------------------------------------
(* The nodes send.                                                          *)

\* Something of packet k of node m is in a buffer, in a pair or on its way.
Held(m, k) ==
  \/ \E c \in Buffers : /\ rx.buffers[c].state # "unused" /\ rx.buffers[c].src = m
                        /\ rx.buffers[c].packet = k
  \/ \E p \in Pairs : rx.pairs[p].inUse /\ rx.pairs[p].src = m /\ rx.pairs[p].packet = k
  \/ \E i \in DOMAIN inbox : inbox[i].src = m /\ inbox[i].packet = k

\* The queue gets at most one frame, of its source's newest packet.
Sent(q, e) ==
  \/ e = q
  \/ \E f \in RightFrame : /\ e = Append(q, f) /\ MoreToCome(f.src)
                           /\ f.packet = sender[f.src].packet
                           /\ sender'[f.src].packet = sender[f.src].packet
                           /\ Recent(f.src, f.packet)'

LEMMA SentFacts ==
  ASSUME NEW q \in Seq(RightFrame), NEW e, Sent(q, e), Air
  PROVE  /\ \A n : \A k : Recent(n, k) /\ Ahead(q, n, k) => Ahead(e, n, k)
         /\ \A i \in DOMAIN e : \/ i \in DOMAIN q /\ e[i] = q[i]
                                \/ /\ i \notin DOMAIN q /\ MoreToCome(e[i].src) /\ e[i] \in RightFrame
                                   /\ e[i].packet = sender[e[i].src].packet
                                   /\ sender'[e[i].src].packet = sender[e[i].src].packet
                                   /\ Recent(e[i].src, e[i].packet)'
                                   /\ \A j \in DOMAIN e : j <= i
<1>1. CASE e = q
  BY <1>1
<1>2. ASSUME NEW f \in RightFrame, e = Append(q, f), MoreToCome(f.src),
             f.packet = sender[f.src].packet, sender'[f.src].packet = sender[f.src].packet,
             Recent(f.src, f.packet)'
      PROVE  /\ \A n : \A k : Recent(n, k) /\ Ahead(q, n, k) => Ahead(e, n, k)
             /\ \A i \in DOMAIN e : \/ i \in DOMAIN q /\ e[i] = q[i]
                                    \/ i \notin DOMAIN q /\ e[i] = f /\ \A j \in DOMAIN e : j <= i
  <2>1. /\ DOMAIN q = 1 .. Len(q) /\ Len(q) \in Nat /\ DOMAIN e = 1 .. Len(q) + 1
        /\ \A i \in 1 .. Len(q) : e[i] = q[i]
        /\ e[Len(q) + 1] = f
    BY <1>2
  <2>2. \A i \in DOMAIN e : \/ i \in DOMAIN q /\ e[i] = q[i]
                            \/ i \notin DOMAIN q /\ e[i] = f /\ \A j \in DOMAIN e : j <= i
    BY <2>1
  <2>3. ASSUME NEW n, NEW k, Recent(n, k), Ahead(q, n, k) PROVE Ahead(e, n, k)
    <3>1. ASSUME NEW i \in DOMAIN e, e[i].src = n PROVE e[i].packet >= k
      <4>1. CASE i \in DOMAIN q /\ e[i] = q[i]
        BY <2>3, <3>1, <4>1 DEF Ahead
      <4>2. CASE e[i] = f
        <5>1. f.packet = sender[n].packet /\ f.packet \in Nat
          BY <1>2, <3>1, <4>2 DEF RightFrame
        <5>. QED
          BY <2>3, <4>2, <5>1 DEF Recent
      <4>. QED
        BY <2>2, <4>1, <4>2
    <3>. QED
      BY <3>1 DEF Ahead
  <2>. QED
    BY <2>2, <2>3
<1>3. CASE \E f \in RightFrame : /\ e = Append(q, f) /\ MoreToCome(f.src)
                                 /\ f.packet = sender[f.src].packet
                                 /\ sender'[f.src].packet = sender[f.src].packet
                                 /\ Recent(f.src, f.packet)'
  <2>1. PICK f \in RightFrame : /\ e = Append(q, f) /\ MoreToCome(f.src)
                                /\ f.packet = sender[f.src].packet
                                /\ sender'[f.src].packet = sender[f.src].packet
                                /\ Recent(f.src, f.packet)'
    BY <1>3
  <2>2. /\ \A n : \A k : Recent(n, k) /\ Ahead(q, n, k) => Ahead(e, n, k)
        /\ \A i \in DOMAIN e : \/ i \in DOMAIN q /\ e[i] = q[i]
                               \/ i \notin DOMAIN q /\ e[i] = f /\ \A j \in DOMAIN e : j <= i
    BY <1>2, <2>1
  <2>3. \A i : e[i] = f => /\ MoreToCome(e[i].src) /\ e[i] \in RightFrame
                           /\ e[i].packet = sender[e[i].src].packet
                           /\ sender'[e[i].src].packet = sender[e[i].src].packet
                           /\ Recent(e[i].src, e[i].packet)'
    BY <2>1
  <2>. QED
    BY <2>2, <2>3
<1>. QED
  BY <1>1, <1>3 DEF Sent

\* A node sends: what is held stays recent, and what is not remembered fresh.
LEMMA SendGood ==
  ASSUME LinkInv, OneInv', UNCHANGED <<found, pc, rx>>, Sent(inbox, inbox'),
         \A m \in Nodes : \A k : Recent(m, k) /\ Held(m, k) => Recent(m, k)',
         \A m \in Nodes : /\ sender'[m].packet >= sender[m].packet
                          /\ MoreToCome(m)' => Older(rx.delivered[m], sender'[m].packet)
                                               \/ (/\ MoreToCome(m)
                                                   /\ sender'[m].packet = sender[m].packet)
  PROVE  LinkInv'
<1>0. /\ Air /\ Air' /\ Sound(rx) /\ InOrder(inbox) /\ AllGood(rx, inbox)
      /\ pc = "found" => FoundRight /\ HandGood
      /\ inbox \in Seq(RightFrame) /\ rx' = rx /\ found' = found /\ pc' = pc
  BY DEF LinkInv, OneInv, Air
<1>. DEFINE d == rx.delivered
<1>1. PICK e : e = inbox'
  OBVIOUS
<1>2. /\ \A n : \A k : Recent(n, k) /\ Ahead(inbox, n, k) => Ahead(e, n, k)
      /\ \A i \in DOMAIN e : \/ i \in DOMAIN inbox /\ e[i] = inbox[i]
                             \/ /\ i \notin DOMAIN inbox /\ MoreToCome(e[i].src) /\ e[i] \in RightFrame
                                /\ e[i].packet = sender[e[i].src].packet
                                /\ sender'[e[i].src].packet = sender[e[i].src].packet
                                /\ Recent(e[i].src, e[i].packet)'
                                /\ \A j \in DOMAIN e : j <= i
  BY <1>0, <1>1, SentFacts
<1>3. \A m \in Nodes : /\ Numbered(d[m]) /\ Older(d[m], sender[m].packet + 1)
                       /\ sender[m].packet \in Nat /\ sender'[m].packet \in Nat
  BY <1>0 DEF AllGood, Kept, Numbered, Air
<1>4. \A i \in DOMAIN inbox : inbox[i].src \in Nodes /\ inbox[i].packet \in Nat
  BY <1>0 DEF RightFrame
<1>5. Kept(rx)'
  <2>1. ASSUME NEW m \in Nodes PROVE Older(d[m], sender'[m].packet + 1)
    <3>1. sender[m].packet + 1 \in Nat /\ sender'[m].packet + 1 \in Nat
          /\ sender[m].packet + 1 <= sender'[m].packet + 1
      BY <1>3
    <3>. QED
      BY <1>3, <3>1, OlderFacts
  <2>. QED
    BY <1>0, <1>3, <2>1 DEF AllGood, Kept, Numbered, Older
<1>6. ASSUME NEW c \in Buffers, rx.buffers[c].state # "unused", GoodBuffer(rx, inbox, c)
      PROVE  GoodBuffer(rx, inbox, c)'
  <2>. DEFINE n == rx.buffers[c].src
              k == rx.buffers[c].packet
  <2>1. n \in Nodes /\ Recent(n, k) /\ Ahead(inbox, n, k) /\ Older(d[n], k)
    BY <1>6 DEF GoodBuffer
  <2>2. Held(n, k)
    BY <1>6 DEF Held
  <2>3. PICK nn : nn = n
    OBVIOUS
  <2>4. PICK kk : kk = k
    OBVIOUS
  <2>5. Recent(nn, kk)' /\ Ahead(e, nn, kk)
    BY <1>2, <2>1, <2>2, <2>3, <2>4
  <2>6. Recent(n, k)' /\ Ahead(e, n, k)
    BY <1>0, <2>3, <2>4, <2>5 DEF Recent
  <2>. QED
    BY <1>0, <1>1, <1>6, <2>6 DEF GoodBuffer, Ahead, Older
<1>7. ASSUME NEW p \in Pairs, rx.pairs[p].inUse
      PROVE  GoodPair(rx, inbox, p)'
  <2>. DEFINE n == rx.pairs[p].src
              k == rx.pairs[p].packet
  <2>0. GoodPair(rx, inbox, p)
    BY <1>0, <1>7 DEF AllGood
  <2>1. n \in Nodes /\ Recent(n, k) /\ Ahead(inbox, n, k)
    BY <2>0 DEF GoodPair
  <2>2. Held(n, k)
    BY <1>7 DEF Held
  <2>3. PICK nn : nn = n
    OBVIOUS
  <2>4. PICK kk : kk = k
    OBVIOUS
  <2>5. Recent(nn, kk)' /\ Ahead(e, nn, kk)
    BY <1>2, <2>1, <2>2, <2>3, <2>4
  <2>6. Recent(n, k)' /\ Ahead(e, n, k)
    BY <1>0, <2>3, <2>4, <2>5 DEF Recent
  <2>. QED
    BY <1>0, <1>1, <2>0, <2>6 DEF GoodPair, Ahead, Older
<1>8. ASSUME NEW n \in Nodes PROVE Fresh(rx, inbox, n)'
  <2>. SUFFICES ASSUME \A p \in Pairs : ~ KnownFrom(rx, p, n)
       PROVE  /\ \A i \in DOMAIN e : e[i].src = n => Older(d[n], e[i].packet)
              /\ MoreToCome(n)' => Older(d[n], sender'[n].packet)
    BY <1>0, <1>1 DEF Fresh, KnownFrom, Older
  <2>1. /\ \A i \in DOMAIN inbox : inbox[i].src = n => Older(d[n], inbox[i].packet)
        /\ MoreToCome(n) => Older(d[n], sender[n].packet)
    BY <1>0 DEF AllGood, Fresh
  <2>2. ASSUME NEW i \in DOMAIN e, e[i].src = n PROVE Older(d[n], e[i].packet)
    BY <1>2, <2>1, <2>2
  <2>3. MoreToCome(n)' => Older(d[n], sender'[n].packet)
    <3>1. CASE Older(d[n], sender'[n].packet)
      BY <3>1
    <3>2. CASE MoreToCome(n) /\ sender'[n].packet = sender[n].packet
      BY <2>1, <3>2
    <3>. QED
      BY <3>1, <3>2
  <2>. QED
    BY <2>2, <2>3
<1>9. InOrder(inbox)'
  <2>1. ASSUME NEW i \in DOMAIN e PROVE Recent(e[i].src, e[i].packet)'
    <3>1. CASE i \in DOMAIN inbox /\ e[i] = inbox[i]
      <4>1. Recent(inbox[i].src, inbox[i].packet) /\ inbox[i].src \in Nodes
        BY <1>0, <1>4, <3>1 DEF InOrder
      <4>2. Held(inbox[i].src, inbox[i].packet)
        BY <3>1 DEF Held
      <4>3. PICK m : m = inbox[i].src
        OBVIOUS
      <4>4. PICK k : k = inbox[i].packet
        OBVIOUS
      <4>5. Recent(m, k)'
        BY <4>1, <4>2, <4>3, <4>4
      <4>6. m = e[i].src /\ k = e[i].packet
        BY <3>1, <4>3, <4>4
      <4>. QED
        BY <4>5, <4>6 DEF Recent
    <3>. QED
      BY <1>2, <3>1
  <2>2. ASSUME NEW i \in DOMAIN e, NEW j \in DOMAIN e, i < j, e[i].src = e[j].src
        PROVE  e[i].packet <= e[j].packet
    <3>0. i \in Nat /\ j \in Nat
      BY <1>0, <1>1 DEF Air
    <3>1. i \in DOMAIN inbox /\ e[i] = inbox[i]
      BY <1>2, <2>2, <3>0
    <3>2. CASE j \in DOMAIN inbox /\ e[j] = inbox[j]
      BY <1>0, <2>2, <3>1, <3>2 DEF InOrder
    <3>3. CASE e[j].packet = sender[e[j].src].packet
      BY <1>0, <2>2, <3>1, <3>3 DEF InOrder, Recent
    <3>. QED
      BY <1>2, <3>2, <3>3
  <2>. QED
    BY <1>1, <2>1, <2>2 DEF InOrder, Recent
<1>10. AllGood(rx, inbox)'
  <2>1. \A c \in Buffers : rx.buffers[c].state = "inUse" => GoodBuffer(rx, inbox, c)'
    BY <1>0, <1>6 DEF AllGood
  <2>. QED
    BY <1>0, <1>5, <1>7, <1>8, <2>1 DEF AllGood
<1>11. (pc = "found" => HandGood)'
  <2>. SUFFICES ASSUME pc = "found" PROVE HandGood'
    BY <1>0
  <2>1. HandGood /\ found.buffer \in Buffers \union {None}
    BY <1>0 DEF FoundRight
  <2>2. PICK c : c = found.buffer
    OBVIOUS
  <2>3. c # None => GoodBuffer(rx, inbox, c)'
    BY <1>6, <2>1, <2>2 DEF HandGood
  <2>4. c # None => GoodBuffer(rx, inbox, found.buffer)'
    BY <1>0, <2>2, <2>3 DEF GoodBuffer
  <2>. QED
    BY <1>0, <2>1, <2>2, <2>4 DEF HandGood
<1>. QED
  BY <1>9, <1>10, <1>11 DEF LinkInv

LEMMA SendFrameGood ==
  ASSUME LinkInv, OneInv', NEW n \in Nodes, SendFrame(n)
  PROVE  LinkInv'
<1>0. Air /\ InOrder(inbox) /\ UNCHANGED <<found, pc, rx>> /\ sender[n].packet \in Nat
  BY DEF LinkInv, OneInv, SendFrame, Air
<1>1. /\ sender'[n] = [packet |-> sender[n].packet, try |-> sender[n].try,
                       segment |-> sender[n].segment + 1]
      /\ \A m \in Nodes \ {n} : sender'[m] = sender[m]
  BY <1>0, SenderSteps
<1>2. sender[n].packet > 0 /\ sender[n].segment < Length[n][sender[n].packet]
  BY DEF SendFrame, Sending
<1>3. \A m \in Nodes : sender'[m].packet = sender[m].packet
  BY <1>1
<1>4. MoreToCome(n)
  BY <1>2 DEF MoreToCome
<1>5. Sent(inbox, inbox')
  <2>1. CASE inbox' = inbox
    BY <2>1 DEF Sent
  <2>2. CASE inbox' = Append(inbox, NewFrame(n))
    <3>1. PICK f : f = NewFrame(n)
      OBVIOUS
    <3>2. f \in RightFrame /\ f.src = n /\ f.packet = sender[n].packet
      <4>1. NewFrame(n) \in RightFrame
        BY <1>0, FrameFacts
      <4>. QED
        BY <3>1, <4>1 DEF NewFrame
    <3>3. Recent(f.src, f.packet)'
      BY <1>0, <1>2, <1>3, <3>2, SizesAssumption DEF Recent
    <3>. QED
      BY <1>3, <1>4, <2>2, <3>1, <3>2, <3>3 DEF Sent
  <2>. QED
    BY <1>0, <2>1, <2>2, FrameFacts
<1>6. \A m \in Nodes : \A k : Recent(m, k) => Recent(m, k)'
  BY <1>3 DEF Recent
<1>7. ASSUME NEW m \in Nodes, MoreToCome(m)' PROVE MoreToCome(m)
  <2>1. CASE m = n
    BY <1>4, <2>1
  <2>2. CASE m # n
    BY <1>1, <1>7, <2>2 DEF MoreToCome
  <2>. QED
    BY <2>1, <2>2
<1>8. \A m \in Nodes : sender'[m].packet >= sender[m].packet
  BY <1>0, <1>3 DEF Air
<1>. QED
  BY <1>0, <1>3, <1>5, <1>6, <1>7, <1>8, SendGood

LEMMA SendAgainGood ==
  ASSUME LinkInv, OneInv', NEW n \in Nodes, SendAgain(n)
  PROVE  LinkInv'
<1>0. Air /\ InOrder(inbox) /\ UNCHANGED <<inbox, found, pc, rx>> /\ sender[n].packet \in Nat
  BY DEF LinkInv, OneInv, SendAgain, Air
<1>1. /\ sender'[n] = [packet |-> sender[n].packet, try |-> sender[n].try + 1, segment |-> 0]
      /\ \A m \in Nodes \ {n} : sender'[m] = sender[m]
  BY <1>0, SenderSteps
<1>3. \A m \in Nodes : sender'[m].packet = sender[m].packet
  BY <1>1
<1>4. MoreToCome(n)
  BY DEF MoreToCome, SendAgain
<1>5. Sent(inbox, inbox')
  BY <1>0 DEF Sent
<1>6. \A m \in Nodes : \A k : Recent(m, k) => Recent(m, k)'
  BY <1>3 DEF Recent
<1>7. ASSUME NEW m \in Nodes, MoreToCome(m)' PROVE MoreToCome(m)
  <2>1. CASE m = n
    BY <1>4, <2>1
  <2>2. CASE m # n
    BY <1>1, <1>7, <2>2 DEF MoreToCome
  <2>. QED
    BY <2>1, <2>2
<1>8. \A m \in Nodes : sender'[m].packet >= sender[m].packet
  BY <1>0, <1>3 DEF Air
<1>. QED
  BY <1>0, <1>3, <1>5, <1>6, <1>7, <1>8, SendGood

LEMMA BeginGood ==
  ASSUME LinkInv, OneInv', NEW n \in Nodes, BeginPacket(n)
  PROVE  LinkInv'
<1>0. /\ Air /\ InOrder(inbox) /\ AllGood(rx, inbox) /\ UNCHANGED <<inbox, found, pc, rx>>
      /\ sender[n].packet \in Nat /\ Timely(n, sender[n].packet + 1)
  BY DEF LinkInv, OneInv, BeginPacket, Air
<1>1. /\ sender'[n] = [packet |-> sender[n].packet + 1, try |-> 0, segment |-> 0]
      /\ \A m \in Nodes \ {n} : sender'[m] = sender[m]
  BY <1>0, SenderSteps
<1>5. Sent(inbox, inbox')
  BY <1>0 DEF Sent
<1>2. sender'[n].packet = sender[n].packet + 1
  BY <1>1
<1>3. IdModulus \in Nat
  BY SizesAssumption
<1>6. ASSUME NEW m \in Nodes, NEW k, Recent(m, k), Held(m, k) PROVE Recent(m, k)'
  <2>1. CASE m = n
    <3>1. k > (sender[n].packet + 1) - IdModulus
      <4>. DEFINE j == sender[n].packet + 1
      <4>1. Timely(n, j)
        BY <1>0
      <4>. HIDE DEF j
      <4>2. k > j - IdModulus
        BY <1>6, <2>1, <4>1 DEF Timely, Held
      <4>. QED
        BY <4>2 DEF j
    <3>2. k \in Nat \ {0} /\ k <= sender[n].packet
      BY <1>6, <2>1 DEF Recent
    <3>3. k <= sender'[n].packet /\ k > sender'[n].packet - IdModulus
      BY <1>0, <1>2, <1>3, <3>1, <3>2
    <3>. QED
      BY <2>1, <3>2, <3>3 DEF Recent
  <2>2. CASE m # n
    BY <1>1, <1>6, <2>2 DEF Recent
  <2>. QED
    BY <2>1, <2>2
<1>7. ASSUME NEW m \in Nodes, MoreToCome(m)'
      PROVE  \/ Older(rx.delivered[m], sender'[m].packet)
             \/ MoreToCome(m) /\ sender'[m].packet = sender[m].packet
  <2>1. CASE m = n
    BY <1>0, <1>2, <2>1 DEF AllGood, Kept
  <2>2. CASE m # n
    BY <1>1, <1>7, <2>2 DEF MoreToCome
  <2>. QED
    BY <2>1, <2>2
<1>8. ASSUME NEW m \in Nodes PROVE sender'[m].packet >= sender[m].packet
  <2>1. sender[m].packet \in Nat
    BY <1>0 DEF Air
  <2>. QED
    BY <1>1, <1>2, <2>1
<1>. QED
  BY <1>0, <1>5, <1>6, <1>7, <1>8, SendGood

LEMMA LinkBegins == Init => LinkInv
<1>. SUFFICES ASSUME Init PROVE LinkInv
  OBVIOUS
<1>1. /\ sender = [n \in Nodes |-> [packet |-> 0, try |-> 0, segment |-> 0]]
      /\ inbox = <<>> /\ pc = "idle"
  BY DEF Init
<1>2. OneInv
  BY <1>1, AirBegins, SoundBegins DEF OneInv
<1>. DEFINE B == [b \in Buffers |-> NewBuffer]
            P == [p \in Pairs |-> NewPair]
            D == [n \in Nodes |-> <<>>]
<1>3. rx.buffers = B /\ rx.pairs = P /\ rx.delivered = D
  BY DEF Init
<1>4. /\ \A b \in Buffers : B[b] = NewBuffer
      /\ \A p \in Pairs : P[p] = NewPair
      /\ \A n \in Nodes : D[n] = <<>>
  OBVIOUS
<1>5. NewBuffer.state = "unused" /\ NewBuffer.parts = NoParts /\ NewPair.inUse = FALSE
  BY DEF NewBuffer, NewPair, NoParts
<1>. HIDE DEF B, P, D
<1>6. Kept(rx)
  <2>1. \A n \in Nodes : rx.delivered[n] = <<>>
    BY <1>3, <1>4
  <2>2. \A b \in Buffers : rx.buffers[b].parts = NoParts
    BY <1>3, <1>4, <1>5
  <2>3. <<>> \in Seq(Seq(Nat)) /\ \A i : i \notin DOMAIN <<>>
    OBVIOUS
  <2>. QED
    BY <2>1, <2>2, <2>3 DEF Kept, Older
<1>7. \A n \in Nodes : Fresh(rx, inbox, n)
  BY <1>1, <1>3, <1>4 DEF Fresh, Older
<1>8. AllGood(rx, inbox)
  BY <1>3, <1>4, <1>5, <1>6, <1>7 DEF AllGood
<1>9. InOrder(inbox)
  BY <1>1 DEF InOrder
<1>. QED
  BY <1>1, <1>2, <1>8, <1>9 DEF LinkInv

\* Nothing is sent or delivered.
Quiet == UNCHANGED sender /\ rx'.delivered = rx.delivered

LEMMA FindGood ==
  ASSUME LinkInv, OneInv', Find
  PROVE  LinkInv' /\ Quiet
<1>0. /\ UNCHANGED <<sender, inbox, rx>> /\ pc' = "found"
      /\ InOrder(inbox) /\ AllGood(rx, inbox)
  BY DEF LinkInv, Find
<1>. DEFINE n == Head(inbox).src
            b == FindRxBuffer(n)
            p == FindPacketIdPair(n)
<1>1. found' = [buffer |-> b, pair |-> IF b = None THEN p ELSE None]
  BY DEF Find
<1>2. b # None => b \in Buffers /\ rx.buffers[b].state = "inUse"
  <2>. DEFINE B == {c \in Buffers : rx.buffers[c].state = "inUse" /\ rx.buffers[c].src = n}
  <2>1. B \subseteq Nat \ {0} /\ b = First(B)
    BY DEF Buffers, FindRxBuffer
  <2>. HIDE DEF B, b
  <2>2. b # None => b \in B
    BY <2>1, FirstFacts
  <2>. QED
    BY <2>2 DEF B
<1>3. p # None => p \in Pairs /\ rx.pairs[p].inUse
  <2>. DEFINE P == {o \in Pairs : rx.pairs[o].inUse /\ rx.pairs[o].src = n}
  <2>1. P \subseteq Nat \ {0} /\ p = First(P)
    BY DEF Pairs, FindPacketIdPair
  <2>. HIDE DEF P, p
  <2>2. p # None => p \in P
    BY <2>1, FirstFacts
  <2>. QED
    BY <2>2 DEF P
<1>4. found'.buffer = b /\ found'.pair \in {p, None}
  BY <1>1
<1>. HIDE DEF b, p, n
<1>5. b # None => GoodBuffer(rx, inbox, b) /\ rx.buffers[b].state # "unused"
  BY <1>0, <1>2 DEF AllGood
<1>7. HandGood'
  <2>1. b # None => GoodBuffer(rx, inbox, found.buffer)'
    BY <1>0, <1>4, <1>5 DEF GoodBuffer, Recent
  <2>. QED
    BY <1>0, <1>3, <1>4, <1>5, <2>1 DEF HandGood
<1>8. InOrder(inbox)' /\ AllGood(rx, inbox)'
  BY <1>0 DEF InOrder, AllGood, Kept, Older, Recent, GoodBuffer, GoodPair, Fresh, Ahead, KnownFrom, MoreToCome
<1>. QED
  BY <1>0, <1>7, <1>8 DEF LinkInv, Quiet

\* What is said of the next rx and inbox holds then, if nothing is sent.
LEMMA GoodNext ==
  ASSUME UNCHANGED sender, NEW e, NEW q, rx' = e, inbox' = q
  PROVE  /\ AllGood(e, q) => AllGood(rx, inbox)'
         /\ InOrder(q) => InOrder(inbox)'
<1>1. InOrder(q) => InOrder(inbox)'
  BY DEF InOrder, Recent
<1>. SUFFICES ASSUME AllGood(e, q) PROVE AllGood(rx, inbox)'
  BY <1>1
<1>2. Kept(rx)'
  BY DEF AllGood, Kept, Older
<1>3. \A c \in Buffers : rx'.buffers[c].state = "inUse" => GoodBuffer(rx, inbox, c)'
  BY DEF AllGood, GoodBuffer, Older, Ahead, Recent
<1>4. \A o \in Pairs : rx'.pairs[o].inUse => GoodPair(rx, inbox, o)'
  BY DEF AllGood, GoodPair, Older, Ahead, Recent
<1>5. \A m \in Nodes : Fresh(rx, inbox, m)'
  BY DEF AllGood, Fresh, Older, KnownFrom, MoreToCome
<1>. QED
  BY <1>2, <1>3, <1>4, <1>5 DEF AllGood

LEMMA TimeoutsGood ==
  ASSUME LinkInv, OneInv', CheckTimeouts
  PROVE  LinkInv' /\ Quiet
<1>. DEFINE e == [FoldLeft(EmptyRxBuffer, rx, rx.expired) EXCEPT !.expired = <<>>]
<1>1. /\ rx' = e /\ pc' = "idle" /\ UNCHANGED <<sender, inbox, found>>
      /\ Sound(rx) /\ InOrder(inbox) /\ AllGood(rx, inbox)
  BY DEF CheckTimeouts, LinkInv, OneInv
<1>2. AllGood(e, inbox) /\ e.delivered = rx.delivered
  BY <1>1, FoldGood
<1>. HIDE DEF e
<1>3. InOrder(inbox)' /\ AllGood(rx, inbox)'
  BY <1>1, <1>2, GoodNext
<1>. QED
  BY <1>1, <1>2, <1>3 DEF LinkInv, Quiet

LEMMA RxExpiryGood ==
  ASSUME LinkInv, OneInv', NEW b \in Buffers, RxTimerExpires(b)
  PROVE  LinkInv' /\ Quiet
<1>. DEFINE d == [rx EXCEPT !.buffers[b].timer = Fired(@)]
            e == RxAssemblyExpired(d, b)
<1>1. /\ rx' = e /\ UNCHANGED <<sender, inbox, found, pc>>
      /\ Sound(rx) /\ InOrder(inbox) /\ AllGood(rx, inbox) /\ Shape(rx)
      /\ pc = "found" => FoundRight /\ HandGood
  BY DEF RxTimerExpires, LinkInv, OneInv, Sound
<1>2. OtherMarks(rx, d, b) /\ d.buffers[b].state = rx.buffers[b].state /\ Shape(d)
  BY <1>1, FiredFacts DEF OtherMarks
<1>. HIDE DEF d
<1>3. OtherMarks(d, e, b) /\ e.buffers[b].state = "stale"
  BY <1>2, ExpiredFacts
<1>. HIDE DEF e
<1>4. e.delivered = rx.delivered /\ e.pairs = rx.pairs /\ OtherMarks(rx, e, b)
  BY <1>2, <1>3 DEF OtherMarks
<1>5. /\ \A c \in Buffers : e.buffers[c].state = "unused" => rx.buffers[c].state = "unused"
      /\ \A c \in Buffers : e.buffers[c].state = "inUse" => rx.buffers[c].state = "inUse"
  <2>1. \A c \in Buffers \ {b} : e.buffers[c] = rx.buffers[c]
    BY <1>4 DEF OtherMarks
  <2>2. \A s : s = "stale" => s # "unused" /\ s # "inUse"
    OBVIOUS
  <2>. QED
    BY <1>3, <2>1, <2>2
<1>6. \A c \in Buffers : Carries(rx, e, c)
  <2>1. /\ \A c \in Buffers \ {b} : e.buffers[c] = rx.buffers[c]
        /\ e.buffers[b].src = rx.buffers[b].src /\ e.buffers[b].packet = rx.buffers[b].packet
        /\ e.buffers[b].count = rx.buffers[b].count /\ e.buffers[b].parts = rx.buffers[b].parts
    BY <1>4 DEF OtherMarks
  <2>. QED
    BY <1>5, <2>1 DEF Carries
<1>7. \A n \in Nodes : Fresh(e, inbox, n)
  BY <1>1, <1>4, FreshStays DEF AllGood
<1>8. AllGood(e, inbox)
  BY <1>1, <1>4, <1>6, <1>7, QuietGood
<1>9. InOrder(inbox)' /\ AllGood(rx, inbox)'
  BY <1>1, <1>8, GoodNext
<1>10. ASSUME pc = "found" PROVE HandGood'
  <2>1. HandGood /\ found.buffer \in Buffers \union {None}
    BY <1>1, <1>10 DEF FoundRight
  <2>2. CASE found.buffer # None
    <3>1. GoodBuffer(e, inbox, found.buffer)
      BY <1>4, <1>6, <2>1, <2>2, CarriesGood DEF HandGood
    <3>2. GoodBuffer(rx, inbox, found.buffer)'
      BY <1>1, <3>1 DEF GoodBuffer, Recent, Older, Ahead
    <3>3. e.buffers[found.buffer].state # "unused"
      BY <1>5, <2>1, <2>2 DEF HandGood
    <3>. QED
      BY <1>1, <1>4, <2>1, <3>2, <3>3 DEF HandGood
  <2>3. CASE found.buffer = None
    BY <1>1, <1>4, <2>1, <2>3 DEF HandGood
  <2>. QED
    BY <2>2, <2>3
<1>. QED
  BY <1>1, <1>4, <1>9, <1>10 DEF LinkInv, Quiet

LEMMA PairExpiryGood ==
  ASSUME LinkInv, OneInv', NEW p \in Pairs, PairTimerExpires(p)
  PROVE  LinkInv' /\ Quiet
<1>. DEFINE n == rx.pairs[p].src
            k == rx.pairs[p].packet
<1>1. /\ rx' = [rx EXCEPT !.pairs[p].timer = Fired(@), !.pairs[p].inUse = FALSE]
      /\ UNCHANGED <<sender, inbox, found, pc>>
      /\ Air /\ Sound(rx) /\ InOrder(inbox) /\ AllGood(rx, inbox) /\ Shape(rx)
      /\ pc = "found" => FoundRight /\ HandGood
      /\ ~ Repeated(p) /\ \A i \in DOMAIN inbox : inbox[i].src # n
  BY DEF PairTimerExpires, LinkInv, OneInv, Sound
<1>2. PICK e : e = rx'
  OBVIOUS
<1>3. OtherPair(rx, e, p) /\ ~ e.pairs[p].inUse
  BY <1>1, <1>2, FirePairFacts
<1>4. /\ e.delivered = rx.delivered /\ e.buffers = rx.buffers
      /\ \A o \in Pairs \ {p} : e.pairs[o] = rx.pairs[o]
  BY <1>3 DEF OtherPair
<1>5. ASSUME NEW m \in Nodes PROVE Fresh(e, inbox, m)
  <2>1. Fresh(rx, inbox, m)
    BY <1>1 DEF AllGood
  <2>2. CASE KnownFrom(rx, p, m)
    <3>1. m = n /\ rx.pairs[p].inUse /\ GoodPair(rx, inbox, p)
      BY <1>1, <2>2 DEF KnownFrom, AllGood
    <3>2. ASSUME MoreToCome(n) PROVE Older(rx.delivered[n], sender[n].packet)
      <4>1. sender[n].packet # k
        BY <1>1, <3>1, <3>2 DEF Repeated, MoreToCome
      <4>2. /\ k \in Nat /\ k <= sender[n].packet /\ sender[n].packet \in Nat
            /\ Older(rx.delivered[n], k + 1) /\ Numbered(rx.delivered[n])
        BY <1>1, <3>1 DEF GoodPair, Recent, Air, AllGood, Kept, Numbered
      <4>. HIDE DEF k, n
      <4>3. k < sender[n].packet
        BY <4>1, <4>2
      <4>. QED
        BY <4>2, <4>3, OlderFacts
    <3>. QED
      BY <1>1, <1>4, <3>1, <3>2 DEF Fresh
  <2>3. CASE ~ KnownFrom(rx, p, m)
    <3>1. \A o \in Pairs : KnownFrom(rx, o, m) => KnownFrom(e, o, m)
      BY <1>4, <2>3 DEF KnownFrom
    <3>. QED
      BY <1>4, <2>1, <3>1 DEF Fresh
  <2>. QED
    BY <2>2, <2>3
<1>6. \A c \in Buffers : Carries(rx, e, c)
  BY <1>4 DEF Carries
<1>7. AllGood(e, inbox)
  <2>1. \A o \in Pairs : e.pairs[o] = rx.pairs[o] \/ ~ e.pairs[o].inUse
    BY <1>3, <1>4
  <2>. QED
    BY <1>1, <1>4, <1>5, <1>6, <2>1, QuietGood
<1>8. InOrder(inbox)' /\ AllGood(rx, inbox)'
  BY <1>1, <1>2, <1>7, GoodNext
<1>9. ASSUME pc = "found" PROVE HandGood'
  <2>1. HandGood /\ FoundRight
    BY <1>1, <1>9
  <2>2. found.buffer # None => GoodBuffer(rx, inbox, found.buffer)'
    BY <1>1, <1>2, <1>4, <2>1, ZenonT(30) DEF HandGood, GoodBuffer, Recent, Older, Ahead
  <2>3. found.buffer # None => e.buffers[found.buffer].state # "unused"
    BY <1>4, <2>1 DEF HandGood
  <2>4. found.pair # None => e.pairs[found.pair].inUse
    <3>. SUFFICES ASSUME found.pair # None PROVE e.pairs[found.pair].inUse
      OBVIOUS
    <3>1. found.pair \in Pairs /\ rx.pairs[found.pair].inUse
          /\ rx.pairs[found.pair].src = Head(inbox).src /\ inbox # <<>>
      BY <2>1 DEF HandGood, FoundRight
    <3>2. Head(inbox) = inbox[1] /\ 1 \in DOMAIN inbox
      BY <1>1, <3>1 DEF Air
    <3>3. found.pair # p
      BY <1>1, <3>1, <3>2
    <3>. QED
      BY <1>4, <3>1, <3>3
  <2>. QED
    BY <1>1, <1>2, <2>2, <2>3, <2>4 DEF HandGood
<1>. QED
  BY <1>1, <1>2, <1>4, <1>8, <1>9 DEF LinkInv, Quiet

LEMMA LinkStep ==
  ASSUME "noTimer" \notin Mishaps, PacketTimeout # 0, Cardinality(Nodes) <= NumPairs, LinkInv, [Next]_vars
  PROVE  LinkInv' /\ [Link!LinkNext]_Link!vars
<1>. DEFINE sent == [n \in Nodes |-> sender[n].packet]
<1>1. OneInv' /\ Air
  BY OneStep DEF LinkInv, OneInv
<1>2. Quiet => UNCHANGED Link!vars
  BY DEF Quiet, Link!vars
<1>3. CASE Find
  BY <1>1, <1>2, <1>3, FindGood
<1>4. CASE Handle
  <2>1. /\ InOrder(inbox)' /\ AllGood(rx, inbox)' /\ UNCHANGED sender
        /\ \E n \in Nodes : Delivered(rx, rx', n)
    BY <1>4, HandleGood
  <2>2. LinkInv'
    BY <1>1, <1>4, <2>1 DEF LinkInv, Handle
  <2>3. PICK n \in Nodes : Delivered(rx, rx', n)
    BY <2>1
  <2>4. CASE rx'.delivered = rx.delivered
    BY <1>2, <2>1, <2>2, <2>4 DEF Quiet
  <2>5. CASE \E k \in DOMAIN Length[n] :
               /\ k <= sender[n].packet /\ Older(rx.delivered[n], k)
               /\ rx'.delivered = [rx.delivered EXCEPT ![n] = Append(@, Whole(n, k))]
    <3>1. PICK k \in DOMAIN Length[n] :
            /\ k <= sender[n].packet /\ Older(rx.delivered[n], k)
            /\ rx'.delivered = [rx.delivered EXCEPT ![n] = Append(@, Whole(n, k))]
      BY <2>5
    <3>2. sent[n] = sender[n].packet /\ sent' = sent
      BY <2>1
    <3>3. Link!Deliver(n, k)
      BY <3>1, <3>2 DEF Link!Deliver, Link!Whole, Whole, Older
    <3>. QED
      BY <2>2, <3>1, <3>3 DEF Link!LinkNext
  <2>. QED
    BY <2>3, <2>4, <2>5 DEF Delivered
<1>5. CASE CheckTimeouts
  BY <1>1, <1>2, <1>5, TimeoutsGood
<1>6. ASSUME NEW b \in Buffers, RxTimerExpires(b) PROVE LinkInv' /\ [Link!LinkNext]_Link!vars
  BY <1>1, <1>2, <1>6, RxExpiryGood
<1>7. ASSUME NEW p \in Pairs, PairTimerExpires(p) PROVE LinkInv' /\ [Link!LinkNext]_Link!vars
  BY <1>1, <1>2, <1>7, PairExpiryGood
<1>8. ASSUME NEW n \in Nodes, SendFrame(n) \/ SendAgain(n)
      PROVE LinkInv' /\ [Link!LinkNext]_Link!vars
  <2>1. LinkInv'
    BY <1>1, <1>8, SendFrameGood, SendAgainGood
  <2>2. rx' = rx
    BY <1>8 DEF SendFrame, SendAgain
  <2>3. \A m \in Nodes : sender'[m].packet = sender[m].packet
    <3>1. /\ \A m \in Nodes \ {n} : sender'[m] = sender[m]
          /\ \/ sender'[n] = [packet |-> sender[n].packet, try |-> sender[n].try,
                              segment |-> sender[n].segment + 1]
             \/ sender'[n] = [packet |-> sender[n].packet, try |-> sender[n].try + 1,
                              segment |-> 0]
      BY <1>1, <1>8, SenderSteps
    <3>. QED
      BY <3>1
  <2>4. sent' = sent
    BY <2>3
  <2>. QED
    BY <2>1, <2>2, <2>4 DEF Link!vars
<1>9. ASSUME NEW n \in Nodes, BeginPacket(n) PROVE LinkInv' /\ [Link!LinkNext]_Link!vars
  <2>1. LinkInv'
    BY <1>1, <1>9, BeginGood
  <2>2. rx' = rx /\ sender[n].packet < Len(Length[n])
    BY <1>9 DEF BeginPacket
  <2>3. /\ \A m \in Nodes \ {n} : sender'[m].packet = sender[m].packet
        /\ sender'[n].packet = sender[n].packet + 1
    <3>1. /\ \A m \in Nodes \ {n} : sender'[m] = sender[m]
          /\ sender'[n] = [packet |-> sender[n].packet + 1, try |-> 0, segment |-> 0]
      BY <1>1, <1>9, SenderSteps
    <3>. QED
      BY <3>1
  <2>4. sent[n] < Len(Length[n]) /\ sent' = [sent EXCEPT ![n] = @ + 1]
    BY <2>2, <2>3
  <2>5. Link!Begin(n)
    BY <2>2, <2>4 DEF Link!Begin
  <2>. QED
    BY <2>1, <2>5 DEF Link!LinkNext
<1>10. CASE UNCHANGED vars
  <2>1. LinkInv'
    <3>1. UNCHANGED <<sender, inbox, rx, found, pc>>
      BY <1>10 DEF vars
    <3>2. InOrder(inbox)' /\ AllGood(rx, inbox)'
      BY <3>1, GoodNext DEF LinkInv
    <3>3. pc = "found" => HandGood'
      BY <3>1 DEF LinkInv, HandGood, GoodBuffer, Recent, Older, Ahead
    <3>. QED
      BY <1>1, <3>1, <3>2, <3>3 DEF LinkInv
  <2>. QED
    BY <1>2, <1>10, <2>1 DEF vars, Quiet
<1>. QED
  BY <1>3, <1>4, <1>5, <1>6, <1>7, <1>8, <1>9, <1>10 DEF Next

\* What DataIndHandler (MAC_FrameManagement.c:499) gives the network layer is
\* what a lossy link does: each packet whole, at most once, in the order sent,
\* while a timer can always be had and there is a pair for every node in range.
THEOREM DeliversAsALink ==
  ASSUME "noTimer" \notin Mishaps, PacketTimeout # 0, Cardinality(Nodes) <= NumPairs
  PROVE  Spec => LossyLink
<1>1. Init => Link!LinkInit
  <2>. SUFFICES ASSUME Init PROVE Link!LinkInit
    OBVIOUS
  <2>1. \A n \in Nodes : sender[n].packet = 0
    BY DEF Init
  <2>2. rx.delivered = [n \in Nodes |-> <<>>]
    BY DEF Init
  <2>. QED
    BY <2>1, <2>2 DEF Link!LinkInit
<1>2. LinkInv /\ [Next]_vars => LinkInv' /\ [Link!LinkNext]_Link!vars
  BY LinkStep
<1>. QED
  BY <1>1, <1>2, LinkBegins, PTL DEF Spec, LossyLink, Link!LinkSpec

-----------------------------------------------------------------------------
(* Sums.                                                                    *)

Pick(s) == CHOOSE x \in s : TRUE
IsSum(g, h) == g = [s \in SUBSET DOMAIN h |->
                      IF s = {} THEN 0 ELSE h[Pick(s)] + g[s \ {Pick(s)}]]

LEMMA PickFacts ==
  ASSUME NEW S, IsFiniteSet(S)
  PROVE  /\ Cardinality(S) \in Nat
         /\ \A s \in SUBSET S :
              /\ Cardinality(s) \in Nat /\ Cardinality(s) <= Cardinality(S)
              /\ s = {} <=> Cardinality(s) = 0
              /\ s # {} => /\ Pick(s) \in s /\ s \ {Pick(s)} \in SUBSET S
                           /\ Cardinality(s \ {Pick(s)}) = Cardinality(s) - 1
<1>1. \A s \in SUBSET S : IsFiniteSet(s) /\ Cardinality(s) <= Cardinality(S)
  BY FS_Subset
<1>2. \A s \in SUBSET S : Cardinality(s) \in Nat
  BY <1>1, FS_CardinalityType
<1>3. \A s \in SUBSET S : s = {} <=> Cardinality(s) = 0
  BY <1>1, FS_EmptySet
<1>4. ASSUME NEW s \in SUBSET S, s # {}
      PROVE  /\ Pick(s) \in s /\ s \ {Pick(s)} \in SUBSET S
             /\ Cardinality(s \ {Pick(s)}) = Cardinality(s) - 1
  <2>1. Pick(s) \in s
    BY <1>4 DEF Pick
  <2>. QED
    BY <1>1, <2>1, FS_RemoveElement
<1>5. Cardinality(S) \in Nat
  BY FS_CardinalityType
<1>. QED
  BY <1>1, <1>2, <1>3, <1>4, <1>5

LEMMA SumExists ==
  ASSUME NEW S, IsFiniteSet(S), NEW h \in [S -> Int]
  PROVE  \E g : IsSum(g, h)
<1>. DEFINE D == SUBSET S
            n == Cardinality(S)
            Right(g, k) == \A s \in D : Cardinality(s) <= k =>
                             g[s] = IF s = {} THEN 0 ELSE h[Pick(s)] + g[s \ {Pick(s)}]
            P == {k \in 0 .. n : \E g : Right(g, k)}
<1>1. n \in Nat /\ DOMAIN h = S
  BY PickFacts
<1>2. ASSUME NEW s \in D
      PROVE  /\ Cardinality(s) \in Nat /\ Cardinality(s) <= n
             /\ s = {} <=> Cardinality(s) = 0
             /\ s # {} => /\ s \ {Pick(s)} \in D
                          /\ Cardinality(s \ {Pick(s)}) = Cardinality(s) - 1
  BY PickFacts
<1>. HIDE DEF D, n
<1>10. \A s \in D : Cardinality(s) \in Nat /\ Cardinality(s) <= n
  BY <1>2
<1>11. \A s \in D : s = {} <=> Cardinality(s) = 0
  BY <1>2
<1>3. 0 \in P
  <2>. DEFINE g == [s \in D |-> 0]
  <2>1. \A s \in D : Cardinality(s) <= 0 => s = {}
    BY <1>10, <1>11
  <2>2. Right(g, 0)
    BY <2>1
  <2>. HIDE DEF Right
  <2>. QED
    BY <1>1, <2>2
<1>4. ASSUME NEW k \in 1 .. n, k - 1 \in P PROVE k \in P
  <2>1. PICK g : Right(g, k - 1)
    BY <1>4
  <2>. DEFINE w == [s \in D |-> IF Cardinality(s) < k THEN g[s]
                                 ELSE h[Pick(s)] + g[s \ {Pick(s)}]]
  <2>2. ASSUME NEW s \in D, Cardinality(s) <= k
        PROVE  w[s] = IF s = {} THEN 0 ELSE h[Pick(s)] + w[s \ {Pick(s)}]
    <3>0. k \in Nat \ {0}
      BY <1>1
    <3>1. CASE s = {}
      <4>1. Cardinality(s) < k /\ Cardinality(s) <= k - 1
        <5>1. Cardinality(s) = 0
          BY <1>11, <3>1
        <5>. QED
          BY <3>0, <5>1
      <4>2. w[s] = g[s]
        BY <4>1
      <4>. QED
        BY <2>1, <3>1, <4>1, <4>2
    <3>2. CASE s # {}
      <4>. DEFINE t == s \ {Pick(s)}
      <4>1. t \in D /\ Cardinality(t) < k
        <5>1. t \in D /\ Cardinality(t) = Cardinality(s) - 1 /\ Cardinality(s) \in Nat
          BY <1>2, <3>2
        <5>. QED
          BY <2>2, <3>0, <5>1
      <4>. HIDE DEF t
      <4>2. w[t] = g[t]
        BY <4>1
      <4>3. CASE Cardinality(s) < k
        <5>1. Cardinality(s) <= k - 1
          <6>0. \A i, j : i \in Nat /\ j \in Nat /\ i < j => i <= j - 1
            OBVIOUS
          <6>. QED
            BY <1>10, <3>0, <4>3, <6>0
        <5>2. g[s] = h[Pick(s)] + g[t]
          BY <2>1, <3>2, <5>1 DEF t
        <5>3. w[s] = g[s]
          BY <4>3
        <5>. QED
          BY <3>2, <4>2, <5>2, <5>3 DEF t
      <4>4. CASE ~ (Cardinality(s) < k)
        <5>1. w[s] = h[Pick(s)] + g[t]
          BY <4>4 DEF t
        <5>. QED
          BY <3>2, <4>2, <5>1 DEF t
      <4>. QED
        BY <4>3, <4>4
    <3>. QED
      BY <3>1, <3>2
  <2>. HIDE DEF w
  <2>3. Right(w, k)
    BY <2>2
  <2>. HIDE DEF Right
  <2>. QED
    BY <1>1, <2>3
<1>5. n \in P
  <2>. HIDE DEF P
  <2>1. 0 .. n \subseteq P
    BY <1>1, <1>3, <1>4, Climb
  <2>. QED
    BY <1>1, <2>1
<1>6. PICK g : Right(g, n)
  BY <1>5
<1>. DEFINE w == [s \in D |-> g[s]]
<1>7. ASSUME NEW s \in D
      PROVE  w[s] = IF s = {} THEN 0 ELSE h[Pick(s)] + w[s \ {Pick(s)}]
  <2>1. g[s] = IF s = {} THEN 0 ELSE h[Pick(s)] + g[s \ {Pick(s)}]
    BY <1>2, <1>6
  <2>2. s # {} => w[s \ {Pick(s)}] = g[s \ {Pick(s)}]
    BY <1>2
  <2>. QED
    BY <2>1, <2>2
<1>8. w = [s \in D |-> w[s]]
  OBVIOUS
<1>. HIDE DEF w
<1>9. IsSum(w, h)
  BY <1>1, <1>7, <1>8 DEF IsSum, D
<1>. QED
  BY <1>9

\* g has the sums of h over the subsets of S.
SumsUp(g, h, S) == /\ g[{}] = 0 /\ SumFunction(h) = g[S]
                   /\ \A s \in SUBSET S : s # {} => g[s] = h[Pick(s)] + g[s \ {Pick(s)}]

LEMMA SumFacts ==
  ASSUME NEW S, IsFiniteSet(S), NEW h \in [S -> Int]
  PROVE  \E g : SumsUp(g, h, S)
<1>. DEFINE g == CHOOSE x : IsSum(x, h)
<1>1. IsSum(g, h)
  BY SumExists
<1>2. SumFunction(h) = g[DOMAIN h]
  BY DEF SumFunction, SumFunctionOnSet, FoldFunctionOnSet, MapThenFoldSet, IsSum, Pick
<1>. HIDE DEF g
<1>3. DOMAIN h = S
  OBVIOUS
<1>. QED
  BY <1>1, <1>2, <1>3 DEF IsSum, SumsUp

\* One summand is another.
LEMMA SumChanges ==
  ASSUME NEW S, IsFiniteSet(S), NEW h \in [S -> Int], NEW k \in [S -> Int], NEW b \in S,
         \A c \in S \ {b} : k[c] = h[c]
  PROVE  /\ SumFunction(h) \in Int /\ SumFunction(k) \in Int
         /\ SumFunction(k) = SumFunction(h) + (k[b] - h[b])
<1>8. PICK g : SumsUp(g, h, S)
  BY SumFacts
<1>9. PICK w : SumsUp(w, k, S)
  BY SumFacts
<1>1. /\ g[{}] = 0 /\ SumFunction(h) = g[S]
      /\ \A s \in SUBSET S : s # {} => g[s] = h[Pick(s)] + g[s \ {Pick(s)}]
  BY <1>8 DEF SumsUp
<1>2. /\ w[{}] = 0 /\ SumFunction(k) = w[S]
      /\ \A s \in SUBSET S : s # {} => w[s] = k[Pick(s)] + w[s \ {Pick(s)}]
  BY <1>9 DEF SumsUp
<1>. DEFINE n == Cardinality(S)
            Right(s) == /\ g[s] \in Int /\ w[s] \in Int
                        /\ b \in s => w[s] = g[s] + (k[b] - h[b])
                        /\ b \notin s => w[s] = g[s]
            P == {i \in 0 .. n : \A s \in SUBSET S : Cardinality(s) <= i => Right(s)}
<1>3. n \in Nat /\ S \in SUBSET S
  BY PickFacts
<1>4. \A s \in SUBSET S :
        /\ Cardinality(s) \in Nat /\ Cardinality(s) <= n
        /\ s = {} <=> Cardinality(s) = 0
        /\ s # {} => /\ Pick(s) \in s /\ s \ {Pick(s)} \in SUBSET S
                     /\ Cardinality(s \ {Pick(s)}) = Cardinality(s) - 1
  BY PickFacts
<1>. HIDE DEF n
<1>5. 0 \in P
  <2>1. \A s \in SUBSET S : Cardinality(s) <= 0 => s = {}
    <3>1. \A s \in SUBSET S : Cardinality(s) \in Nat
      BY <1>4
    <3>2. \A s \in SUBSET S : Cardinality(s) = 0 => s = {}
      BY <1>4
    <3>. QED
      BY <3>1, <3>2
  <2>2. Right({})
    BY <1>1, <1>2
  <2>. QED
    BY <1>3, <2>1, <2>2
<1>6. ASSUME NEW i \in 1 .. n, i - 1 \in P PROVE i \in P
  <2>1. ASSUME NEW s \in SUBSET S, Cardinality(s) <= i PROVE Right(s)
    <3>1. CASE s = {}
      BY <1>1, <1>2, <3>1
    <3>2. CASE s # {}
      <4>. DEFINE x == Pick(s)
                  t == s \ {x}
      <4>1. x \in s /\ t \in SUBSET S /\ Cardinality(t) = Cardinality(s) - 1
            /\ Cardinality(s) \in Nat /\ g[s] = h[x] + g[t] /\ w[s] = k[x] + w[t]
        BY <1>1, <1>2, <1>4, <3>2
      <4>2. Cardinality(t) <= i - 1
        BY <1>3, <2>1, <4>1
      <4>3. Right(t)
        BY <1>6, <4>1, <4>2
      <4>4. x \notin t /\ (b \in s /\ b # x => b \in t) /\ (b \notin s => b \notin t)
        OBVIOUS
      <4>5. h[x] \in Int /\ k[x] \in Int /\ h[b] \in Int /\ k[b] \in Int
            /\ (x # b => k[x] = h[x])
        BY <4>1
      <4>. HIDE DEF x, t
      <4>6. CASE x = b
        <5>1. w[t] = g[t] /\ g[t] \in Int
          BY <4>3, <4>4, <4>6
        <5>2. g[s] = h[b] + g[t] /\ w[s] = k[b] + g[t] /\ b \in s
          BY <4>1, <4>6, <5>1
        <5>. QED
          BY <4>5, <5>1, <5>2
      <4>7. CASE x # b
        <5>1. k[x] = h[x] /\ (b \in s <=> b \in t)
          BY <4>4, <4>5, <4>7 DEF t
        <5>. QED
          BY <4>1, <4>3, <4>5, <5>1
      <4>. QED
        BY <4>6, <4>7
    <3>. QED
      BY <3>1, <3>2
  <2>. HIDE DEF Right
  <2>. QED
    BY <1>3, <2>1
<1>7. n \in P
  <2>. HIDE DEF P
  <2>1. 0 .. n \subseteq P
    BY <1>3, <1>5, <1>6, Climb
  <2>. QED
    BY <1>3, <2>1
<1>10. Right(S)
  BY <1>3, <1>4, <1>7
<1>. QED
  BY <1>1, <1>2, <1>10

LEMMA SumOfNaturals ==
  ASSUME NEW S, IsFiniteSet(S), NEW h \in [S -> Nat]
  PROVE  SumFunction(h) \in Nat /\ ((\A c \in S : h[c] = 0) => SumFunction(h) = 0)
<1>9. PICK g : SumsUp(g, h, S)
  <2>1. h \in [S -> Int]
    OBVIOUS
  <2>. QED
    BY <2>1, SumFacts
<1>1. /\ g[{}] = 0 /\ SumFunction(h) = g[S]
      /\ \A s \in SUBSET S : s # {} => g[s] = h[Pick(s)] + g[s \ {Pick(s)}]
  BY <1>9 DEF SumsUp
<1>. DEFINE n == Cardinality(S)
            Right(s) == g[s] \in Nat /\ ((\A c \in S : h[c] = 0) => g[s] = 0)
            P == {i \in 0 .. n : \A s \in SUBSET S : Cardinality(s) <= i => Right(s)}
<1>3. n \in Nat /\ S \in SUBSET S
  BY PickFacts
<1>4. \A s \in SUBSET S :
        /\ Cardinality(s) \in Nat /\ Cardinality(s) <= n
        /\ s = {} <=> Cardinality(s) = 0
        /\ s # {} => /\ Pick(s) \in s /\ s \ {Pick(s)} \in SUBSET S
                     /\ Cardinality(s \ {Pick(s)}) = Cardinality(s) - 1
  BY PickFacts
<1>. HIDE DEF n
<1>5. 0 \in P
  <2>1. \A s \in SUBSET S : Cardinality(s) <= 0 => s = {}
    <3>1. \A s \in SUBSET S : Cardinality(s) \in Nat
      BY <1>4
    <3>2. \A s \in SUBSET S : Cardinality(s) = 0 => s = {}
      BY <1>4
    <3>. QED
      BY <3>1, <3>2
  <2>2. Right({})
    BY <1>1
  <2>. QED
    BY <1>3, <2>1, <2>2
<1>6. ASSUME NEW i \in 1 .. n, i - 1 \in P PROVE i \in P
  <2>1. ASSUME NEW s \in SUBSET S, Cardinality(s) <= i PROVE Right(s)
    <3>1. CASE s = {}
      BY <1>1, <3>1
    <3>2. CASE s # {}
      <4>. DEFINE x == Pick(s)
                  t == s \ {x}
      <4>1. x \in s /\ t \in SUBSET S /\ Cardinality(t) = Cardinality(s) - 1
            /\ Cardinality(s) \in Nat /\ g[s] = h[x] + g[t]
        BY <1>1, <1>4, <3>2
      <4>2. Cardinality(t) <= i - 1
        BY <1>3, <2>1, <4>1
      <4>3. Right(t)
        BY <1>6, <4>1, <4>2
      <4>4. h[x] \in Nat /\ x \in S
        BY <4>1
      <4>. HIDE DEF x, t
      <4>. QED
        BY <4>1, <4>3, <4>4
    <3>. QED
      BY <3>1, <3>2
  <2>. HIDE DEF Right
  <2>. QED
    BY <1>3, <2>1
<1>7. n \in P
  <2>. HIDE DEF P
  <2>1. 0 .. n \subseteq P
    BY <1>3, <1>5, <1>6, Climb
  <2>. QED
    BY <1>3, <2>1
<1>8. Right(S)
  BY <1>3, <1>4, <1>7
<1>. QED
  BY <1>1, <1>8

-----------------------------------------------------------------------------
(* What is in use and what is free.                                         *)

Used(r)     == {b \in Buffers : r.buffers[b].state # "unused"}
FromOne(r)  == {b \in Used(r) : r.buffers[b].unicast}
Blocks(r)   == [b \in Buffers |-> r.buffers[b].held]

\* The counters and the pool of state r agree with its buffers.
Counted(r) ==
  /\ r.inUse = Cardinality(Used(r)) /\ r.unicast = Cardinality(FromOne(r))
  /\ r.free \in Nat /\ r.free + SumFunction(Blocks(r)) = NumSegments

LEMMA BufferSets ==
  /\ IsFiniteSet(Buffers) /\ NumBuffers \in Nat
  /\ \A S \in SUBSET Buffers :
       /\ Cardinality(S) \in Nat /\ Cardinality(S) <= NumBuffers
       /\ \A b \in S : Cardinality(S \ {b}) = Cardinality(S) - 1 /\ Cardinality(S) >= 1
       /\ \A b \in Buffers \ S : Cardinality(S \union {b}) = Cardinality(S) + 1
<1>1. NumBuffers \in Nat \ {0}
  BY SizesAssumption
<1>2. IsFiniteSet(Buffers) /\ Cardinality(Buffers) = NumBuffers
  BY <1>1, FS_Interval DEF Buffers
<1>3. ASSUME NEW S \in SUBSET Buffers
      PROVE  IsFiniteSet(S) /\ Cardinality(S) \in Nat /\ Cardinality(S) <= NumBuffers
  BY <1>2, FS_Subset, FS_CardinalityType
<1>4. ASSUME NEW S \in SUBSET Buffers, NEW b \in S
      PROVE  Cardinality(S \ {b}) = Cardinality(S) - 1 /\ Cardinality(S) >= 1
  <2>1. Cardinality(S \ {b}) = Cardinality(S) - 1
    BY <1>3, FS_RemoveElement
  <2>2. Cardinality(S \ {b}) \in Nat
    BY <1>3
  <2>. QED
    BY <1>3, <2>1, <2>2
<1>5. ASSUME NEW S \in SUBSET Buffers, NEW b \in Buffers \ S
      PROVE  Cardinality(S \union {b}) = Cardinality(S) + 1
  BY <1>3, FS_AddElement
<1>. QED
  BY <1>1, <1>2, <1>3, <1>4, <1>5

\* Neither states nor counters change.
LEMMA CountedStays ==
  ASSUME NEW r, NEW e, Counted(r), e.free = r.free, e.inUse = r.inUse, e.unicast = r.unicast,
         \A c \in Buffers : /\ e.buffers[c].state = "unused" <=> r.buffers[c].state = "unused"
                            /\ e.buffers[c].unicast = r.buffers[c].unicast
                            /\ e.buffers[c].held = r.buffers[c].held
  PROVE  Counted(e)
<1>1. Used(e) = Used(r) /\ FromOne(e) = FromOne(r)
  BY DEF Used, FromOne
<1>2. Blocks(e) = Blocks(r)
  BY DEF Blocks
<1>. QED
  BY <1>1, <1>2 DEF Counted

LEMMA DecrementFacts ==
  ASSUME NEW c \in Nat, c >= 1, c <= NumBuffers, NumBuffers < 65536, NumBuffers \in Nat
  PROVE  Decremented(c) = c - 1
<1>. DEFINE M == 65536
            x == c - 1
<1>1. M \in Nat \ {0} /\ x \in Nat /\ x < M /\ x = c - 1
  OBVIOUS
<1>2. Decremented(c) = x % M
  BY DEF Decremented
<1>. HIDE DEF M, x
<1>3. x = M * (x \div M) + (x % M) /\ (x \div M) \in Int /\ x % M \in 0 .. M - 1
  BY <1>1
<1>. DEFINE q == x \div M
            w == x % M
<1>4. x = M * q + w /\ q \in Int /\ w \in Int /\ w >= 0 /\ w < M
  BY <1>1, <1>3
<1>. HIDE DEF q, w
<1>5. q = 0
  <2>1. CASE q >= 1
    <3>1. M * q >= M
      BY <1>1, <1>4, <2>1
    <3>. QED
      BY <1>1, <1>4, <3>1
  <2>2. CASE q <= -1
    <3>1. M * q <= - M
      BY <1>1, <1>4, <2>2
    <3>. QED
      BY <1>1, <1>4, <3>1
  <2>. QED
    BY <1>4, <2>1, <2>2
<1>6. w = x
  <2>1. M * q = 0
    BY <1>1, <1>5
  <2>. QED
    BY <1>1, <1>4, <2>1
<1>. QED
  BY <1>1, <1>2, <1>6 DEF w

\* Buffer b is given back, with its blocks.
LEMMA CountedGiven ==
  ASSUME NEW r, NEW e, NEW b \in Buffers, NumBuffers < 65536, Counted(r), Others(r, e, b),
         r.buffers[b].state # "unused", e.buffers[b].state = "unused",
         \A c \in Buffers : r.buffers[c].held \in Nat /\ e.buffers[c].held \in Nat,
         e.buffers[b].held = 0, e.free = r.free + r.buffers[b].held,
         e.inUse = Decremented(r.inUse),
         r.buffers[b].unicast \in BOOLEAN,
         e.unicast = IF r.buffers[b].unicast THEN Decremented(r.unicast) ELSE r.unicast
  PROVE  Counted(e)
<1>0. /\ r.inUse = Cardinality(Used(r)) /\ r.unicast = Cardinality(FromOne(r))
      /\ NumBuffers \in Nat
  BY BufferSets DEF Counted
<1>1. b \in Used(r) /\ Used(e) = Used(r) \ {b} /\ Used(r) \in SUBSET Buffers
  BY DEF Used, Others
<1>2. FromOne(e) = FromOne(r) \ {b} /\ FromOne(r) \in SUBSET Buffers
      /\ (r.buffers[b].unicast <=> b \in FromOne(r))
  BY <1>1 DEF FromOne, Used, Others
<1>3. e.inUse = Cardinality(Used(e))
  <2>1. Cardinality(Used(r)) \in Nat /\ Cardinality(Used(r)) <= NumBuffers
        /\ Cardinality(Used(e)) = Cardinality(Used(r)) - 1 /\ Cardinality(Used(r)) >= 1
    BY <1>1, BufferSets
  <2>2. Decremented(Cardinality(Used(r))) = Cardinality(Used(r)) - 1
    BY <1>0, <2>1, DecrementFacts
  <2>. QED
    BY <1>0, <2>1, <2>2
<1>4. e.unicast = Cardinality(FromOne(e))
  <2>1. CASE r.buffers[b].unicast
    <3>1. Cardinality(FromOne(r)) \in Nat /\ Cardinality(FromOne(r)) <= NumBuffers
          /\ Cardinality(FromOne(e)) = Cardinality(FromOne(r)) - 1 /\ Cardinality(FromOne(r)) >= 1
      BY <1>2, <2>1, BufferSets
    <3>2. Decremented(Cardinality(FromOne(r))) = Cardinality(FromOne(r)) - 1
      BY <1>0, <3>1, DecrementFacts
    <3>3. e.unicast = Decremented(r.unicast)
      BY <2>1
    <3>. QED
      BY <1>0, <3>1, <3>2, <3>3
  <2>2. CASE ~ r.buffers[b].unicast
    <3>1. FromOne(e) = FromOne(r)
      BY <1>2, <2>2
    <3>. QED
      BY <2>2, <3>1 DEF Counted
  <2>. QED
    BY <2>1, <2>2
<1>5. e.free + SumFunction(Blocks(e)) = NumSegments /\ e.free \in Nat
  <2>. DEFINE h == Blocks(r)
              k == Blocks(e)
  <2>1. h \in [Buffers -> Int] /\ k \in [Buffers -> Int]
    BY DEF Blocks
  <2>2. h[b] = r.buffers[b].held /\ k[b] = 0 /\ \A c \in Buffers \ {b} : k[c] = h[c]
    BY DEF Blocks, Others
  <2>3. r.free \in Nat /\ r.free + SumFunction(h) = NumSegments /\ h[b] \in Nat
    BY <2>2 DEF Counted
  <2>. HIDE DEF h, k
  <2>4. SumFunction(h) \in Int /\ SumFunction(k) \in Int /\ SumFunction(k) = SumFunction(h) + (k[b] - h[b])
    BY <2>1, <2>2, BufferSets, SumChanges
  <2>5. e.free = r.free + h[b]
    BY <2>2
  <2>6. e.free + SumFunction(k) = NumSegments /\ e.free \in Nat
    BY <2>2, <2>3, <2>4, <2>5
  <2>. QED
    BY <2>6 DEF k
<1>. QED
  BY <1>3, <1>4, <1>5 DEF Counted

\* Buffer b is taken, with as many blocks as there are.
LEMMA CountedTaken ==
  ASSUME NEW r, NEW e, NEW b \in Buffers, NEW got \in Nat, Counted(r), Others(r, e, b),
         r.buffers[b].state = "unused", e.buffers[b].state # "unused",
         \A c \in Buffers : r.buffers[c].held \in Nat /\ e.buffers[c].held \in Nat,
         r.buffers[b].held = 0, e.buffers[b].held = got, got <= r.free, e.free = r.free - got,
         e.inUse = r.inUse + 1, e.buffers[b].unicast \in BOOLEAN,
         e.unicast = IF e.buffers[b].unicast THEN r.unicast + 1 ELSE r.unicast
  PROVE  Counted(e)
<1>1. b \in Buffers \ Used(r) /\ Used(e) = Used(r) \union {b} /\ Used(r) \in SUBSET Buffers
  BY DEF Used, Others
<1>2. /\ FromOne(r) \in SUBSET Buffers /\ b \in Buffers \ FromOne(r)
      /\ e.buffers[b].unicast => FromOne(e) = FromOne(r) \union {b}
      /\ ~ e.buffers[b].unicast => FromOne(e) = FromOne(r)
  BY <1>1 DEF FromOne, Used, Others
<1>3. e.inUse = Cardinality(Used(e))
  <2>1. Cardinality(Used(e)) = Cardinality(Used(r)) + 1
    BY <1>1, BufferSets
  <2>. QED
    BY <2>1 DEF Counted
<1>4. e.unicast = Cardinality(FromOne(e))
  <2>1. CASE e.buffers[b].unicast
    <3>1. Cardinality(FromOne(e)) = Cardinality(FromOne(r)) + 1
      BY <1>2, <2>1, BufferSets
    <3>. QED
      BY <2>1, <3>1 DEF Counted
  <2>2. CASE ~ e.buffers[b].unicast
    BY <1>2, <2>2 DEF Counted
  <2>. QED
    BY <2>1, <2>2
<1>5. e.free + SumFunction(Blocks(e)) = NumSegments /\ e.free \in Nat
  <2>. DEFINE h == Blocks(r)
              k == Blocks(e)
  <2>1. h \in [Buffers -> Int] /\ k \in [Buffers -> Int]
    BY DEF Blocks
  <2>2. h[b] = 0 /\ k[b] = got /\ \A c \in Buffers \ {b} : k[c] = h[c]
    BY DEF Blocks, Others
  <2>3. r.free \in Nat /\ r.free + SumFunction(h) = NumSegments
    BY DEF Counted
  <2>. HIDE DEF h, k
  <2>4. SumFunction(h) \in Int /\ SumFunction(k) \in Int /\ SumFunction(k) = SumFunction(h) + (k[b] - h[b])
    BY <2>1, <2>2, BufferSets, SumChanges
  <2>6. e.free + SumFunction(k) = NumSegments /\ e.free \in Nat
    BY <2>2, <2>3, <2>4
  <2>. QED
    BY <2>6 DEF k
<1>. QED
  BY <1>3, <1>4, <1>5 DEF Counted

\* The parts that are there.
PartsIn(x) == {s \in Segments : x.parts[s] # None}

\* A buffer has what the code can give it.
Typed(x) ==
  /\ x.state \in {"unused", "inUse", "stale"} /\ x.src \in Nodes \union {Nobody}
  /\ x.packet \in Packet /\ x.unicast \in BOOLEAN /\ x.count \in Segments
  /\ x.parts \in [Segments -> Packet] /\ x.expected \in (1 .. MaxSegments) \union {Unknown}
  /\ x.received = Cardinality(PartsIn(x)) /\ x.held \in 0 .. MaxSegments

\* Between the calls of a handler's functions: its timer runs while a buffer
\* collects, and it has a block for every part.
Settled(x) ==
  /\ x.timer = IF x.state = "inUse" THEN Start(NoTimer) ELSE NoTimer
  /\ x.held = IF x.state = "unused" THEN 0 ELSE x.count + 1
  /\ x.state = "unused" => x.parts = NoParts

\* The handler works on it: no timer, and the blocks there were.
InWork(x) == x.state # "unused" /\ x.timer = NoTimer

PairTyped(x) == x \in Pair /\ (x.timer.own => x.timer.running >= 1)

\* All is in order, but for buffer b, which is in work.
Tidy(r, b) ==
  /\ Shape(r) /\ Counted(r)
  /\ \A c \in Buffers : Typed(r.buffers[c])
  /\ \A c \in Buffers \ {b} : Settled(r.buffers[c])
  /\ b \in Buffers => InWork(r.buffers[b])
  /\ \A p \in Pairs : PairTyped(r.pairs[p])

\* Each stale buffer is queued, once.
Queued(r) ==
  /\ r.expired \in Seq(Buffers)
  /\ \A i, j \in DOMAIN r.expired : r.expired[i] = r.expired[j] => i = j
  /\ \A c \in Buffers : r.buffers[c].state = "stale" <=> \E i \in DOMAIN r.expired : r.expired[i] = c

\* The same buffers are stale.
SameStale(r, e) ==
  /\ e.expired = r.expired
  /\ \A c \in Buffers : e.buffers[c].state = "stale" <=> r.buffers[c].state = "stale"

LEMMA QueuedStays == ASSUME NEW r, NEW e, Queued(r), SameStale(r, e) PROVE Queued(e)
BY DEF Queued, SameStale

LEMMA TimerFacts ==
  /\ NoTimer = [running |-> 0, own |-> FALSE] /\ Start(NoTimer) = [running |-> 1, own |-> TRUE]
  /\ Cancel(NoTimer) = NoTimer /\ Cancel(Start(NoTimer)) = NoTimer /\ Fired(Start(NoTimer)) = NoTimer
  /\ NoTimer # Start(NoTimer) /\ ~ (NoTimer.running > 0)
<1>1. NoTimer = [running |-> 0, own |-> FALSE]
  BY DEF NoTimer
<1>2. Start(NoTimer) = [running |-> 1, own |-> TRUE]
  BY <1>1 DEF Start
<1>. HIDE DEF NoTimer
<1>3. /\ NoTimer.running = 0 /\ ~ NoTimer.own
      /\ Start(NoTimer).running = 1 /\ Start(NoTimer).own
  BY <1>1, <1>2
<1>. HIDE DEF Start
<1>4. Cancel(NoTimer) = NoTimer
  BY <1>3 DEF Cancel
<1>5. Cancel(Start(NoTimer)) = NoTimer
  <2>. DEFINE t == Start(NoTimer)
  <2>. HIDE DEF t
  <2>1. t.running = 1 /\ t.own
    BY <1>3 DEF t
  <2>2. t.running - 1 = 0
    BY <2>1
  <2>3. Cancel(t) = [running |-> t.running - 1, own |-> FALSE]
    BY <2>1 DEF Cancel
  <2>. QED
    BY <1>1, <2>2, <2>3 DEF t
<1>6. Fired(Start(NoTimer)) = NoTimer
  <2>. DEFINE t == Start(NoTimer)
              o == t.own /\ t.running > 1
  <2>. HIDE DEF t
  <2>1. t.running = 1
    BY <1>3 DEF t
  <2>2. t.running - 1 = 0 /\ ~ o
    BY <2>1
  <2>3. Fired(t) = [running |-> t.running - 1, own |-> o]
    BY DEF Fired
  <2>4. o = FALSE
    BY <2>2
  <2>. HIDE DEF o
  <2>. QED
    BY <1>1, <2>2, <2>3, <2>4 DEF t
<1>7. NoTimer # Start(NoTimer) /\ ~ (NoTimer.running > 0)
  BY <1>3
<1>. QED
  BY <1>1, <1>2, <1>4, <1>5, <1>6, <1>7

LEMMA PairMoves ==
  ASSUME NEW x, PairTyped(x), NEW y, IsPair(y), y.inUse \in BOOLEAN,
         y.src \in Nodes \union {Nobody}, y.packet \in Packet
  PROVE  /\ y.timer = x.timer => PairTyped(y)
         /\ y.timer = Start(x.timer) => PairTyped(y)
         /\ y.timer = Cancel(x.timer) => PairTyped(y)
         /\ y.timer = Fired(x.timer) /\ x.timer.running > 0 => PairTyped(y)
<1>. DEFINE t == x.timer
<1>1. /\ t = [running |-> t.running, own |-> t.own] /\ t.running \in Nat /\ t.own \in BOOLEAN
      /\ t.own => t.running >= 1
  BY DEF PairTyped, Pair, Timer
<1>2. ASSUME NEW u \in Timer, u.own => u.running >= 1, y.timer = u PROVE PairTyped(y)
  <2>1. y = [inUse |-> y.inUse, src |-> y.src, packet |-> y.packet, timer |-> u]
    BY <1>2 DEF IsPair
  <2>2. y \in Pair
    BY <2>1 DEF Pair
  <2>. QED
    BY <1>2, <2>2 DEF PairTyped
<1>. HIDE DEF t
<1>3. t \in Timer
  BY <1>1 DEF Timer
<1>4. Start(t) \in Timer /\ Start(t).running >= 1
  <2>1. t.running + 1 \in Nat /\ t.running + 1 >= 1
    BY <1>1
  <2>. QED
    BY <2>1 DEF Start, Timer
<1>5. Cancel(t) \in Timer /\ (Cancel(t).own => Cancel(t).running >= 1)
  <2>1. CASE t.own
    <3>1. Cancel(t) = [running |-> t.running - 1, own |-> FALSE] /\ t.running - 1 \in Nat
      BY <1>1, <2>1 DEF Cancel
    <3>. QED
      BY <3>1 DEF Timer
  <2>2. CASE ~ t.own
    BY <1>1, <1>3, <2>2 DEF Cancel
  <2>. QED
    BY <2>1, <2>2
<1>6. ASSUME t.running > 0 PROVE Fired(t) \in Timer /\ (Fired(t).own => Fired(t).running >= 1)
  <2>. DEFINE o == t.own /\ t.running > 1
  <2>1. t.running - 1 \in Nat /\ o \in BOOLEAN /\ (o => t.running - 1 >= 1)
    BY <1>1, <1>6
  <2>2. Fired(t) = [running |-> t.running - 1, own |-> o]
    BY DEF Fired
  <2>. HIDE DEF o
  <2>. QED
    BY <2>1, <2>2 DEF Timer
<1>7. y.timer = t => PairTyped(y)
  BY <1>1, <1>2, <1>3
<1>8. y.timer = Start(t) => PairTyped(y)
  BY <1>2, <1>4
<1>9. y.timer = Cancel(t) => PairTyped(y)
  BY <1>2, <1>5
<1>10. y.timer = Fired(t) /\ t.running > 0 => PairTyped(y)
  BY <1>2, <1>6
<1>. QED
  BY <1>7, <1>8, <1>9, <1>10 DEF t

LEMMA SegmentSets ==
  /\ MaxSegments \in Nat \ {0} /\ NoParts \in [Segments -> Packet] /\ None \in Packet
  /\ \A x : x.parts = NoParts => PartsIn(x) = {} /\ Cardinality(PartsIn(x)) = 0
  /\ \A x : Cardinality(PartsIn(x)) \in 0 .. MaxSegments
  /\ \A x, s : s \in Segments \ PartsIn(x) =>
       Cardinality(PartsIn(x) \union {s}) = Cardinality(PartsIn(x)) + 1
<1>1. MaxSegments \in Nat \ {0}
  BY SizesAssumption
<1>2. IsFiniteSet(Segments) /\ Cardinality(Segments) = MaxSegments
  BY <1>1, FS_Interval DEF Segments
<1>3. None \in Packet
  BY DEF Packet
<1>4. NoParts \in [Segments -> Packet]
  BY <1>3 DEF NoParts
<1>5. ASSUME NEW x PROVE IsFiniteSet(PartsIn(x)) /\ Cardinality(PartsIn(x)) \in 0 .. MaxSegments
  <2>1. PartsIn(x) \in SUBSET Segments
    BY DEF PartsIn
  <2>2. IsFiniteSet(PartsIn(x)) /\ Cardinality(PartsIn(x)) <= Cardinality(Segments)
    BY <1>2, <2>1, FS_Subset
  <2>3. Cardinality(PartsIn(x)) \in Nat
    BY <2>2, FS_CardinalityType
  <2>. QED
    BY <1>1, <1>2, <2>2, <2>3
<1>6. ASSUME NEW x, x.parts = NoParts PROVE PartsIn(x) = {} /\ Cardinality(PartsIn(x)) = 0
  <2>1. PartsIn(x) = {}
    BY <1>6 DEF PartsIn, NoParts
  <2>. QED
    BY <2>1, FS_EmptySet
<1>7. ASSUME NEW x, NEW s \in Segments \ PartsIn(x)
      PROVE  Cardinality(PartsIn(x) \union {s}) = Cardinality(PartsIn(x)) + 1
  BY <1>5, FS_AddElement
<1>. QED
  BY <1>1, <1>3, <1>4, <1>5, <1>6, <1>7

\* Only the mark of buffer b and its timer change, and b stays in use.
LEMMA MarkTidy ==
  ASSUME NEW r, NEW e, NEW b \in Buffers, NEW i, NEW j, i \in {b, None}, j \in {b, None},
         Tidy(r, i), OtherMarks(r, e, b), e.expired = r.expired,
         r.buffers[b].state = "inUse", e.buffers[b].state = "inUse",
         j = b => e.buffers[b].timer = NoTimer,
         j = None => e.buffers[b].timer = Start(NoTimer)
                     /\ r.buffers[b].held = r.buffers[b].count + 1
  PROVE  Tidy(e, j) /\ SameStale(r, e)
<1>0. None \notin Buffers /\ b # None
  BY DEF Buffers, None
<1>1. /\ Shape(e) /\ \A c \in Buffers \ {b} : e.buffers[c] = r.buffers[c]
      /\ e.pairs = r.pairs
  BY DEF OtherMarks
<1>2. /\ e.buffers[b].unicast = r.buffers[b].unicast /\ e.buffers[b].held = r.buffers[b].held
      /\ e.buffers[b].src = r.buffers[b].src /\ e.buffers[b].packet = r.buffers[b].packet
      /\ e.buffers[b].count = r.buffers[b].count /\ e.buffers[b].parts = r.buffers[b].parts
      /\ e.buffers[b].expected = r.buffers[b].expected
      /\ e.buffers[b].received = r.buffers[b].received
      /\ e.free = r.free /\ e.inUse = r.inUse /\ e.unicast = r.unicast
  BY DEF OtherMarks
<1>3. "inUse" # "stale" /\ "inUse" # "unused"
  OBVIOUS
<1>4. Counted(e)
  <2>1. \A c \in Buffers : /\ e.buffers[c].state = "unused" <=> r.buffers[c].state = "unused"
                           /\ e.buffers[c].unicast = r.buffers[c].unicast
                           /\ e.buffers[c].held = r.buffers[c].held
    BY <1>1, <1>2
  <2>2. Counted(r)
    BY DEF Tidy
  <2>. QED
    BY <1>2, <2>1, <2>2, CountedStays
<1>5. SameStale(r, e)
  BY <1>1, <1>3 DEF SameStale
<1>6. \A c \in Buffers : Typed(e.buffers[c])
  <2>1. Typed(r.buffers[b])
    BY DEF Tidy
  <2>2. Typed(e.buffers[b])
    <3>1. PartsIn(e.buffers[b]) = PartsIn(r.buffers[b])
      BY <1>2 DEF PartsIn
    <3>. QED
      BY <1>2, <2>1, <3>1 DEF Typed
  <2>. QED
    BY <1>1, <2>2 DEF Tidy
<1>7. \A c \in Buffers \ {b} : Settled(e.buffers[c])
  BY <1>0, <1>1 DEF Tidy
<1>8. j = None => Settled(e.buffers[b])
  BY <1>2, <1>3 DEF Settled
<1>9. j = b => InWork(e.buffers[b])
  BY <1>3 DEF InWork
<1>10. \A c \in Buffers \ {j} : Settled(e.buffers[c])
  BY <1>0, <1>7, <1>8
<1>11. \A p \in Pairs : PairTyped(e.pairs[p])
  BY <1>1 DEF Tidy
<1>. QED
  BY <1>0, <1>1, <1>4, <1>5, <1>6, <1>9, <1>10, <1>11 DEF Tidy

LEMMA DeleteTidy ==
  ASSUME NEW r, NEW b \in Buffers, Tidy(r, None), r.buffers[b].state = "inUse"
  PROVE  LET e == DeleteRxTimer(r, b) IN
         /\ Tidy(e, b) /\ SameStale(r, e) /\ OtherMarks(r, e, b)
         /\ e.buffers[b].state = "inUse" /\ e.buffers[b].held = e.buffers[b].count + 1
<1>. DEFINE e == DeleteRxTimer(r, b)
<1>1. Shape(r) /\ Settled(r.buffers[b])
  BY DEF Tidy, Buffers, None
<1>2. /\ OtherMarks(r, e, b) /\ e.expired = r.expired /\ e.buffers[b].state = r.buffers[b].state
      /\ e.buffers[b].timer = Cancel(r.buffers[b].timer)
  BY <1>1, DeleteFacts
<1>. HIDE DEF e
<1>3. r.buffers[b].timer = Start(NoTimer) /\ r.buffers[b].held = r.buffers[b].count + 1
  BY <1>1 DEF Settled
<1>4. e.buffers[b].timer = NoTimer
  BY <1>2, <1>3, TimerFacts
<1>5. Tidy(e, b) /\ SameStale(r, e)
  <2>1. b # None
    BY DEF Buffers, None
  <2>. QED
    BY <1>2, <1>4, <2>1, MarkTidy
<1>6. e.buffers[b].held = e.buffers[b].count + 1
  BY <1>2, <1>3 DEF OtherMarks
<1>. QED
  BY <1>2, <1>5, <1>6 DEF e

LEMMA StartTidy ==
  ASSUME NEW r, NEW b \in Buffers, Tidy(r, b), r.buffers[b].state = "inUse",
         r.buffers[b].held = r.buffers[b].count + 1, NEW mishap, Timed(mishap)
  PROVE  LET e == AddRxAssemblyTimer(r, b, mishap) IN
         /\ Tidy(e, None) /\ SameStale(r, e) /\ OtherMarks(r, e, b)
         /\ e.buffers[b].state = "inUse"
<1>. DEFINE e == AddRxAssemblyTimer(r, b, mishap)
<1>1. Shape(r) /\ InWork(r.buffers[b])
  BY DEF Tidy
<1>2. /\ OtherMarks(r, e, b) /\ e.expired = r.expired /\ e.buffers[b].state = r.buffers[b].state
      /\ e.buffers[b].timer = Start(r.buffers[b].timer)
  BY <1>1, AddTimerFacts
<1>. HIDE DEF e
<1>3. e.buffers[b].timer = Start(NoTimer)
  BY <1>1, <1>2 DEF InWork
<1>4. Tidy(e, None) /\ SameStale(r, e)
  <2>1. b # None
    BY DEF Buffers, None
  <2>. QED
    BY <1>2, <1>3, <2>1, MarkTidy
<1>. QED
  BY <1>2, <1>4 DEF e

\* Buffer b is given back; the pairs keep to their types.
LEMMA GivenTidy ==
  ASSUME NEW r, NEW e, NEW b \in Buffers, NEW i, i \in {b, None}, NumBuffers < 65536, Tidy(r, i),
         r.buffers[b].state # "unused", Shape(e), Others(r, e, b),
         EmptyOf(r.buffers[b], e.buffers[b]), e.buffers[b].timer = NoTimer,
         e.free = r.free + r.buffers[b].held, e.inUse = Decremented(r.inUse),
         e.unicast = IF r.buffers[b].unicast THEN Decremented(r.unicast) ELSE r.unicast,
         \A p \in Pairs : PairTyped(e.pairs[p])
  PROVE  Tidy(e, None)
<1>0. None \notin Buffers
  BY DEF Buffers, None
<1>1. /\ e.buffers[b].state = "unused" /\ e.buffers[b].expected = Unknown
      /\ e.buffers[b].received = 0 /\ e.buffers[b].parts = NoParts /\ e.buffers[b].held = 0
      /\ e.buffers[b].src = r.buffers[b].src /\ e.buffers[b].packet = r.buffers[b].packet
      /\ e.buffers[b].count = r.buffers[b].count
      /\ e.buffers[b].unicast = r.buffers[b].unicast
  BY DEF EmptyOf
<1>2. MaxSegments \in Nat
  BY SegmentSets
<1>3. Typed(r.buffers[b]) /\ Counted(r) /\ \A c \in Buffers : r.buffers[c].held \in 0 .. MaxSegments
  BY DEF Tidy, Typed
<1>4. \A c \in Buffers : r.buffers[c].held \in Nat /\ e.buffers[c].held \in Nat
  <2>1. \A c \in Buffers : r.buffers[c].held \in Nat
    BY <1>2, <1>3
  <2>. QED
    BY <1>1, <2>1 DEF Others
<1>5. Counted(e)
  <2>1. r.buffers[b].unicast \in BOOLEAN
    BY <1>3 DEF Typed
  <2>. QED
    BY <1>1, <1>3, <1>4, <2>1, CountedGiven
<1>6. Typed(e.buffers[b])
  <2>1. PartsIn(e.buffers[b]) = {} /\ Cardinality(PartsIn(e.buffers[b])) = 0
    BY <1>1, SegmentSets
  <2>2. e.buffers[b].parts \in [Segments -> Packet] /\ e.buffers[b].held \in 0 .. MaxSegments
    BY <1>1, <1>2, SegmentSets
  <2>. QED
    BY <1>1, <1>3, <2>1, <2>2 DEF Typed
<1>7. Settled(e.buffers[b])
  BY <1>1 DEF Settled
<1>8. \A c \in Buffers : Typed(e.buffers[c])
  BY <1>6 DEF Others, Tidy
<1>9. \A c \in Buffers : Settled(e.buffers[c])
  BY <1>0, <1>7 DEF Others, Tidy
<1>. QED
  BY <1>0, <1>5, <1>8, <1>9 DEF Tidy

LEMMA EmptyTidy ==
  ASSUME NEW r, NEW b \in Buffers, Tidy(r, b), NumBuffers < 65536
  PROVE  LET e == EmptyRxBuffer(r, b) IN
         /\ Tidy(e, None) /\ Others(r, e, b) /\ e.buffers[b].state = "unused"
         /\ e.expired = r.expired
         /\ r.buffers[b].state # "stale" => SameStale(r, e)
<1>. DEFINE e == EmptyRxBuffer(r, b)
            x == r.buffers[b]
<1>1. Shape(r) /\ InWork(x)
  BY DEF Tidy
<1>2. /\ Shape(e) /\ Others(r, e, b) /\ EmptyOf(x, e.buffers[b]) /\ e.expired = r.expired
      /\ e.pairs = r.pairs /\ e.buffers[b].timer = x.timer
      /\ e.free = r.free + x.held /\ e.inUse = Decremented(r.inUse)
      /\ e.unicast = IF x.unicast THEN Decremented(r.unicast) ELSE r.unicast
  BY <1>1, EmptyFacts DEF Others, EmptyOf
<1>. HIDE DEF e
<1>3. /\ e.buffers[b].timer = NoTimer /\ x.state # "unused" /\ e.buffers[b].state = "unused"
  BY <1>1, <1>2 DEF InWork, EmptyOf
<1>4. \A p \in Pairs : PairTyped(e.pairs[p])
  BY <1>2 DEF Tidy
<1>5. Tidy(e, None)
  BY <1>2, <1>3, <1>4, GivenTidy
<1>6. x.state # "stale" => SameStale(r, e)
  BY <1>2, <1>3 DEF SameStale, Others
<1>. QED
  BY <1>2, <1>3, <1>5, <1>6 DEF e

\* A part is stored.
LEMMA StoredTidy ==
  ASSUME NEW r, NEW b \in Buffers, Tidy(r, None), r.buffers[b].state = "inUse",
         NEW f, f.packet \in Packet \ {None}, f.segment \in Segments, f.count \in Segments,
         r.buffers[b].parts[f.segment] = None
  PROVE  LET e == Stored(r, b, f) IN
         Tidy(e, None) /\ SameStale(r, e) /\ e.buffers[b].state = "inUse"
<1>. DEFINE e == Stored(r, b, f)
            x == r.buffers[b]
            y == e.buffers[b]
<1>0. Shape(r) /\ Counted(r) /\ Typed(x) /\ Settled(x) /\ None \notin Buffers
  BY DEF Tidy, Buffers, None
<1>1. /\ Shape(e) /\ Others(r, e, b) /\ e.pairs = r.pairs /\ e.free = r.free
      /\ e.inUse = r.inUse /\ e.unicast = r.unicast /\ e.expired = r.expired
      /\ y.state = x.state /\ y.src = x.src /\ y.packet = x.packet /\ y.unicast = x.unicast
      /\ y.count = x.count /\ y.held = x.held /\ y.timer = x.timer
      /\ y.parts = PutPart(x, f) /\ y.received = OneMore(x) /\ y.expected = Expects(x, f)
  BY <1>0, StoredFacts
<1>. HIDE DEF e
<1>2. "inUse" # "unused" /\ "inUse" # "stale"
  OBVIOUS
<1>3. Counted(e)
  BY <1>0, <1>1, CountedStays DEF Others
<1>4. SameStale(r, e)
  BY <1>1 DEF SameStale, Others
<1>5. Settled(y)
  BY <1>0, <1>1, <1>2 DEF Settled
<1>6. Typed(y)
  <2>1. y.parts \in [Segments -> Packet]
    BY <1>0, <1>1 DEF Typed, PutPart
  <2>2. PartsIn(y) = PartsIn(x) \union {f.segment} /\ f.segment \in Segments \ PartsIn(x)
    BY <1>0, <1>1 DEF PartsIn, PutPart, Typed
  <2>3. y.received = Cardinality(PartsIn(y))
    <3>1. Cardinality(PartsIn(y)) = Cardinality(PartsIn(x)) + 1
      BY <2>2, SegmentSets
    <3>2. x.received = Cardinality(PartsIn(x)) /\ y.received = x.received + 1
      BY <1>0, <1>1 DEF Typed, OneMore
    <3>. QED
      BY <3>1, <3>2
  <2>4. y.expected \in (1 .. MaxSegments) \union {Unknown}
    <3>1. f.count + 1 \in 1 .. MaxSegments
      BY SegmentSets DEF Segments
    <3>2. x.expected \in (1 .. MaxSegments) \union {Unknown}
      BY <1>0 DEF Typed
    <3>. QED
      BY <1>1, <3>1, <3>2 DEF Expects
  <2>. QED
    BY <1>0, <1>1, <2>1, <2>3, <2>4 DEF Typed
<1>7. \A c \in Buffers : Typed(e.buffers[c]) /\ Settled(e.buffers[c])
  BY <1>0, <1>1, <1>5, <1>6 DEF Others, Tidy
<1>8. \A p \in Pairs : PairTyped(e.pairs[p])
  BY <1>1 DEF Tidy
<1>. QED
  BY <1>0, <1>1, <1>3, <1>4, <1>7, <1>8 DEF Tidy, e

\* The functions leave all in order, while a timer can be had.
LEMMA AssembleTidy ==
  ASSUME NEW r, NEW b \in Buffers, Tidy(r, None), r.buffers[b].state = "inUse",
         NumBuffers < 65536, NEW mishap, Timed(mishap)
  PROVE  LET e == AssemblePacket(r, b, mishap) IN Tidy(e, None) /\ SameStale(r, e)
<1>. DEFINE e == AssemblePacket(r, b, mishap)
            x == r.buffers[b]
<1>0. Shape(r) /\ Settled(x) /\ Typed(x) /\ None \notin Buffers
  BY DEF Tidy, Buffers, None
<1>1. /\ Shape(e) /\ Others(r, e, b) /\ EmptyOf(x, e.buffers[b])
      /\ e.buffers[b].timer = Cancel(x.timer)
      /\ e.free = r.free + x.held /\ e.inUse = Decremented(r.inUse)
      /\ e.unicast = IF x.unicast THEN Decremented(r.unicast) ELSE r.unicast
      /\ e.expired = r.expired
      /\ mishap = "noBuffer" => e.pairs = r.pairs
      /\ mishap # "noBuffer" => Delivers(r, e, b, mishap)
  BY <1>0, AssembleFacts
<1>. HIDE DEF e
<1>2. e.buffers[b].timer = NoTimer
  BY <1>0, <1>1, TimerFacts DEF Settled
<1>3. \A p \in Pairs : PairTyped(e.pairs[p])
  <2>1. CASE e.pairs = r.pairs
    BY <2>1 DEF Tidy
  <2>2. CASE e.pairs # r.pairs
    <3>1. PICK p \in Pairs : /\ \A q \in Pairs \ {p} : e.pairs[q] = r.pairs[q]
                             /\ e.pairs[p].src = x.src /\ e.pairs[p].packet = x.packet
                             /\ e.pairs[p].inUse = TRUE
                             /\ e.pairs[p].timer = Start(r.pairs[p].timer)
      BY <1>1, <2>2 DEF Delivers
    <3>2. IsPair(e.pairs[p]) /\ PairTyped(r.pairs[p])
      BY <1>1 DEF Shape, Tidy
    <3>3. e.pairs[p].src \in Nodes \union {Nobody} /\ e.pairs[p].packet \in Packet
      BY <1>0, <3>1 DEF Typed
    <3>5. e.pairs[p].inUse \in BOOLEAN
      <4>. DEFINE v == e.pairs[p].inUse
      <4>1. v = TRUE
        BY <3>1
      <4>. HIDE DEF v
      <4>2. v \in BOOLEAN
        BY <4>1
      <4>. QED
        BY <4>2 DEF v
    <3>4. PairTyped(e.pairs[p])
      BY <3>1, <3>2, <3>3, <3>5, PairMoves
    <3>. QED
      BY <3>1, <3>4 DEF Tidy
  <2>. QED
    BY <2>1, <2>2
<1>4. "inUse" # "unused" /\ "inUse" # "stale"
  OBVIOUS
<1>5. Tidy(e, None)
  BY <1>1, <1>2, <1>3, <1>4, GivenTidy
<1>6. SameStale(r, e)
  BY <1>1, <1>4 DEF SameStale, Others, EmptyOf
<1>. QED
  BY <1>5, <1>6 DEF e

LEMMA AcceptTidy ==
  ASSUME NEW r, NEW b \in Buffers, Tidy(r, None), r.buffers[b].state = "inUse",
         NumBuffers < 65536, NEW mishap, Timed(mishap),
         NEW f, f.packet \in Packet \ {None}, f.segment \in Segments, f.count \in Segments,
         r.buffers[b].parts[f.segment] = None
  PROVE  LET e == Accept(r, b, f, mishap) IN Tidy(e, None) /\ SameStale(r, e)
<1>. DEFINE s == Stored(r, b, f)
            e == Accept(r, b, f, mishap)
<1>1. Tidy(s, None) /\ SameStale(r, s) /\ s.buffers[b].state = "inUse"
  BY StoredTidy
<1>2. e = AssemblePacket(s, b, mishap) \/ e = s
  BY AcceptCases
<1>. HIDE DEF s, e
<1>3. Tidy(e, None) /\ SameStale(s, e)
  <2>1. CASE e = s
    BY <1>1, <2>1 DEF SameStale
  <2>2. CASE e = AssemblePacket(s, b, mishap)
    BY <1>1, <2>2, AssembleTidy
  <2>. QED
    BY <1>2, <2>1, <2>2
<1>. QED
  BY <1>1, <1>3 DEF SameStale, e

LEMMA SameTidy ==
  ASSUME NEW r, NEW b \in Buffers, Tidy(r, None), r.buffers[b].state = "inUse",
         NumBuffers < 65536, NEW mishap, Timed(mishap),
         NEW f, f.packet \in Packet \ {None}, f.segment \in Segments, f.count \in Segments
  PROVE  LET e == SamePacket(r, b, f, mishap) IN Tidy(e, None) /\ SameStale(r, e)
<1>. DEFINE d == DeleteRxTimer(r, b)
            t == AddRxAssemblyTimer(d, b, mishap)
            e == SamePacket(r, b, f, mishap)
<1>1. /\ Tidy(d, b) /\ SameStale(r, d) /\ d.buffers[b].state = "inUse"
      /\ d.buffers[b].held = d.buffers[b].count + 1
  BY DeleteTidy
<1>2. e = t \/ (e = Accept(t, b, f, mishap) /\ t.buffers[b].parts[f.segment] = None)
  BY SameCases
<1>. HIDE DEF d, e
<1>3. Tidy(t, None) /\ SameStale(d, t) /\ t.buffers[b].state = "inUse"
  BY <1>1, StartTidy
<1>. HIDE DEF t
<1>4. Tidy(e, None) /\ SameStale(t, e)
  <2>1. CASE e = t
    BY <1>3, <2>1 DEF SameStale
  <2>2. CASE e = Accept(t, b, f, mishap) /\ t.buffers[b].parts[f.segment] = None
    BY <1>3, <2>2, AcceptTidy
  <2>. QED
    BY <1>2, <2>1, <2>2
<1>. QED
  BY <1>1, <1>3, <1>4 DEF SameStale, e

\* What is right of a frame.
FrameTyped(f) == /\ f.src \in Nodes /\ f.packet \in Packet \ {None} /\ f.segment \in Segments
                 /\ f.count \in Segments /\ f.unicast \in BOOLEAN

LEMMA TakenTidy ==
  ASSUME NEW r, NEW b \in Buffers, Tidy(r, None), r.buffers[b].state = "unused",
         NEW f, FrameTyped(f), NEW got \in Nat, got <= f.count + 1, got <= r.free
  PROVE  LET e == Taken(r, b, f, got) IN
         /\ Tidy(e, b) /\ SameStale(r, e) /\ e.buffers[b].state = "inUse"
         /\ e.buffers[b].held = got /\ e.buffers[b].count = f.count
         /\ e.buffers[b].parts = NoParts
<1>. DEFINE e == Taken(r, b, f, got)
            x == r.buffers[b]
            y == e.buffers[b]
<1>0. Shape(r) /\ Settled(x) /\ Typed(x) /\ Counted(r) /\ None \notin Buffers
  BY DEF Tidy, Buffers, None
<1>1. /\ Shape(e) /\ Others(r, e, b) /\ e.pairs = r.pairs
      /\ e.free = r.free - got /\ e.inUse = r.inUse + 1
      /\ e.unicast = IF f.unicast THEN r.unicast + 1 ELSE r.unicast
      /\ e.expired = r.expired
      /\ y.state = "inUse" /\ y.src = f.src /\ y.packet = f.packet /\ y.count = f.count
      /\ y.unicast = f.unicast /\ y.held = got /\ y.parts = x.parts
      /\ y.expected = x.expected /\ y.received = x.received /\ y.timer = x.timer
  BY <1>0, TakenFacts
<1>. HIDE DEF e
<1>2. "inUse" # "unused" /\ "inUse" # "stale" /\ "unused" # "stale"
  OBVIOUS
<1>3. x.held = 0 /\ x.timer = NoTimer /\ x.parts = NoParts
  BY <1>0, <1>2 DEF Settled
<1>4. MaxSegments \in Nat /\ got \in 0 .. MaxSegments
  <2>1. MaxSegments \in Nat /\ f.count + 1 <= MaxSegments /\ f.count \in Nat
    BY SegmentSets DEF FrameTyped, Segments
  <2>. QED
    BY <2>1
<1>5. Counted(e)
  <2>1. \A c \in Buffers : r.buffers[c].held \in 0 .. MaxSegments
    BY DEF Tidy, Typed
  <2>2. \A c \in Buffers : r.buffers[c].held \in Nat /\ e.buffers[c].held \in Nat
    BY <1>1, <1>4, <2>1 DEF Others
  <2>3. e.buffers[b].unicast \in BOOLEAN
    BY <1>1 DEF FrameTyped
  <2>4. e.unicast = IF e.buffers[b].unicast THEN r.unicast + 1 ELSE r.unicast
    BY <1>1
  <2>. QED
    BY <1>0, <1>1, <1>2, <1>3, <2>2, <2>3, <2>4, CountedTaken
<1>6. Typed(y)
  <2>1. PartsIn(y) = PartsIn(x)
    BY <1>1 DEF PartsIn
  <2>. QED
    BY <1>0, <1>1, <1>4, <2>1 DEF Typed, FrameTyped
<1>7. InWork(y)
  BY <1>1, <1>2, <1>3 DEF InWork
<1>8. SameStale(r, e)
  BY <1>1, <1>2 DEF SameStale, Others
<1>9. \A c \in Buffers : Typed(e.buffers[c])
  BY <1>1, <1>6 DEF Others, Tidy
<1>10. \A c \in Buffers \ {b} : Settled(e.buffers[c])
  BY <1>0, <1>1 DEF Others, Tidy
<1>11. \A p \in Pairs : PairTyped(e.pairs[p])
  BY <1>1 DEF Tidy
<1>12. Tidy(e, b)
  BY <1>1, <1>5, <1>7, <1>9, <1>10, <1>11 DEF Tidy
<1>. QED
  BY <1>1, <1>3, <1>8, <1>12 DEF e

LEMMA NewTidy ==
  ASSUME NEW r, Tidy(r, None), NumBuffers < 65536, NEW mishap, Timed(mishap),
         NEW f, FrameTyped(f)
  PROVE  LET e == NewPacket(r, f, mishap) IN Tidy(e, None) /\ SameStale(r, e)
<1>. DEFINE e == NewPacket(r, f, mishap)
            got == Got(r, f)
<1>0. Shape(r) /\ r.free \in Nat /\ f.count + 1 \in Nat /\ got \in Nat /\ got <= r.free
      /\ got <= f.count + 1 /\ (~ (got < f.count + 1) => got = f.count + 1)
  <2>1. Shape(r) /\ r.free \in Nat
    BY DEF Tidy, Counted
  <2>2. f.count + 1 \in Nat
    BY SegmentSets DEF FrameTyped, Segments
  <2>. QED
    BY <2>1, <2>2 DEF Got
<1>1. CASE e = r
  BY <1>1 DEF SameStale
<1>2. ASSUME NEW b \in Buffers, r.buffers[b].state = "unused",
             \/ e = EmptyRxBuffer(Taken(r, b, f, got), b)
             \/ /\ ~ (got < f.count + 1)
                /\ e = Accept(AddRxAssemblyTimer(Taken(r, b, f, got), b, mishap), b, f, mishap)
      PROVE  Tidy(e, None) /\ SameStale(r, e)
  <2>. DEFINE t == Taken(r, b, f, got)
              a == AddRxAssemblyTimer(t, b, mishap)
  <2>. HIDE DEF e, got
  <2>1. /\ Tidy(t, b) /\ SameStale(r, t) /\ t.buffers[b].state = "inUse"
        /\ t.buffers[b].held = got /\ t.buffers[b].count = f.count
        /\ t.buffers[b].parts = NoParts
    BY <1>0, <1>2, TakenTidy
  <2>2. e = EmptyRxBuffer(t, b) \/ (got = f.count + 1 /\ e = Accept(a, b, f, mishap))
    BY <1>0, <1>2
  <2>. HIDE DEF t
  <2>3. CASE e = EmptyRxBuffer(t, b)
    <3>1. t.buffers[b].state # "stale"
      BY <2>1
    <3>2. Tidy(e, None) /\ SameStale(t, e)
      BY <2>1, <2>3, <3>1, EmptyTidy
    <3>. QED
      BY <2>1, <3>2 DEF SameStale
  <2>4. CASE got = f.count + 1 /\ e = Accept(a, b, f, mishap)
    <3>1. /\ Tidy(a, None) /\ SameStale(t, a) /\ OtherMarks(t, a, b)
          /\ a.buffers[b].state = "inUse"
      BY <2>1, <2>4, StartTidy
    <3>. HIDE DEF a
    <3>2. a.buffers[b].parts[f.segment] = None
      BY <2>1, <3>1 DEF OtherMarks, NoParts, FrameTyped
    <3>3. Tidy(e, None) /\ SameStale(a, e)
      BY <2>4, <3>1, <3>2, AcceptTidy DEF FrameTyped
    <3>. QED
      BY <2>1, <3>1, <3>3 DEF SameStale
  <2>. QED
    BY <2>2, <2>3, <2>4
<1>3. \/ e = r
      \/ \E b \in Buffers :
           /\ r.buffers[b].state = "unused"
           /\ \/ /\ got < f.count + 1
                 /\ e = EmptyRxBuffer(Taken(r, b, f, got), b)
              \/ /\ ~ (got < f.count + 1)
                 /\ e = Accept(AddRxAssemblyTimer(Taken(r, b, f, got), b, mishap), b, f, mishap)
  BY <1>0, NewCases
<1>. QED
  BY <1>1, <1>2, <1>3

\* Pair p changes.
LEMMA PairTidy ==
  ASSUME NEW r, NEW e, NEW p \in Pairs, Tidy(r, None), OtherPair(r, e, p), PairTyped(e.pairs[p])
  PROVE  Tidy(e, None) /\ SameStale(r, e)
<1>1. /\ Shape(e) /\ e.buffers = r.buffers /\ e.free = r.free /\ e.inUse = r.inUse
      /\ e.unicast = r.unicast /\ e.expired = r.expired
      /\ \A q \in Pairs \ {p} : e.pairs[q] = r.pairs[q]
  BY DEF OtherPair
<1>2. Counted(e)
  BY <1>1, CountedStays DEF Tidy
<1>3. \A q \in Pairs : PairTyped(e.pairs[q])
  BY <1>1 DEF Tidy
<1>4. \A c \in Buffers : Typed(e.buffers[c])
  BY <1>1 DEF Tidy
<1>5. \A c \in Buffers \ {None} : Settled(e.buffers[c])
  BY <1>1 DEF Tidy
<1>6. None \notin Buffers
  BY DEF Buffers, None
<1>. QED
  BY <1>1, <1>2, <1>3, <1>4, <1>5, <1>6 DEF Tidy, SameStale

\* A pair is no longer in use.
LEMMA OffTidy ==
  ASSUME NEW r, Tidy(r, None), NEW p \in Pairs, NEW t, NEW e,
         e = SetPair(r, p, [[r.pairs[p] EXCEPT !.timer = t] EXCEPT !.inUse = FALSE]),
         \/ t = Cancel(r.pairs[p].timer)
         \/ t = Fired(r.pairs[p].timer) /\ r.pairs[p].timer.running > 0
  PROVE  Tidy(e, None) /\ SameStale(r, e)
<1>. DEFINE x == r.pairs[p]
            z == [x EXCEPT !.timer = t]
            y == [z EXCEPT !.inUse = FALSE]
<1>1. IsPair(x) /\ PairTyped(x) /\ Shape(r)
  BY DEF Shape, Tidy
<1>2. x.src \in Nodes \union {Nobody} /\ x.packet \in Packet
  BY <1>1 DEF PairTyped, Pair
<1>3. IsPair(z) /\ z.src = x.src /\ z.packet = x.packet /\ z.timer = t
  BY <1>1, PairFacts
<1>. HIDE DEF z
<1>4. /\ IsPair(y) /\ y.src = z.src /\ y.packet = z.packet /\ y.timer = z.timer
      /\ y.inUse = FALSE
  BY <1>3, PairFacts
<1>5. e = SetPair(r, p, y)
  BY DEF z
<1>. HIDE DEF y
<1>6. y.inUse \in BOOLEAN
  <2>. DEFINE v == y.inUse
  <2>1. v = FALSE
    BY <1>4
  <2>. HIDE DEF v
  <2>2. v \in BOOLEAN
    BY <2>1
  <2>. QED
    BY <2>2 DEF v
<1>7. y.src \in Nodes \union {Nobody} /\ y.packet \in Packet /\ y.timer = t /\ IsPair(y)
  BY <1>2, <1>3, <1>4
<1>8. PairTyped(y)
  BY <1>1, <1>6, <1>7, PairMoves DEF x
<1>9. OtherPair(r, e, p) /\ e.pairs[p] = y
  BY <1>1, <1>5, <1>7, SetFacts DEF OtherPair
<1>. QED
  BY <1>8, <1>9, PairTidy

LEMMA DropTidy ==
  ASSUME NEW r, Tidy(r, None), NEW p \in Pairs
  PROVE  Tidy(DropPair(r, p), None) /\ SameStale(r, DropPair(r, p))
<1>1. DropPair(r, p)
        = SetPair(r, p, [[r.pairs[p] EXCEPT !.timer = Cancel(r.pairs[p].timer)] EXCEPT !.inUse = FALSE])
  BY DEF DropPair, SetPair, Shape, Tidy
<1>. QED
  BY <1>1, OffTidy

PairFired(r, p) == [r EXCEPT !.pairs[p].timer = Fired(@), !.pairs[p].inUse = FALSE]

LEMMA FireTidy ==
  ASSUME NEW r, Tidy(r, None), NEW p \in Pairs, r.pairs[p].timer.running > 0
  PROVE  Tidy(PairFired(r, p), None) /\ SameStale(r, PairFired(r, p))
<1>1. PairFired(r, p)
        = SetPair(r, p, [[r.pairs[p] EXCEPT !.timer = Fired(r.pairs[p].timer)] EXCEPT !.inUse = FALSE])
  BY DEF PairFired, SetPair, Shape, Tidy
<1>. QED
  BY <1>1, OffTidy

LEMMA DataIndTidy ==
  ASSUME NEW r, Tidy(r, None), NumBuffers < 65536, NEW mishap, Timed(mishap),
         NEW f, FrameTyped(f), NEW b \in Buffers \union {None}, NEW p \in Pairs \union {None},
         b # None => r.buffers[b].state = "inUse",
         p # None => r.pairs[p].inUse
  PROVE  LET e == DataInd(r, b, p, f, mishap) IN Tidy(e, None) /\ SameStale(r, e)
<1>. DEFINE e == DataInd(r, b, p, f, mishap)
<1>1. CASE b # None
  <2>0. b \in Buffers /\ r.buffers[b].state = "inUse"
    BY <1>1
  <2>1. CASE Id(r.buffers[b].packet) = Id(f.packet)
    <3>1. e = SamePacket(r, b, f, mishap)
      BY <1>1, <2>1 DEF DataInd
    <3>. QED
      BY <2>0, <3>1, SameTidy DEF FrameTyped
  <2>2. CASE Id(r.buffers[b].packet) # Id(f.packet)
    <3>. DEFINE d == DeleteRxTimer(r, b)
                w == EmptyRxBuffer(d, b)
    <3>1. e = NewPacket(w, f, mishap)
      BY <1>1, <2>2 DEF DataInd
    <3>. HIDE DEF e
    <3>2. Tidy(d, b) /\ SameStale(r, d) /\ d.buffers[b].state = "inUse"
      BY <2>0, DeleteTidy
    <3>. HIDE DEF d
    <3>3. d.buffers[b].state # "stale"
      BY <3>2
    <3>4. Tidy(w, None) /\ SameStale(d, w)
      BY <2>0, <3>2, <3>3, EmptyTidy
    <3>. HIDE DEF w
    <3>5. Tidy(e, None) /\ SameStale(w, e)
      BY <3>1, <3>4, NewTidy
    <3>. QED
      BY <3>2, <3>4, <3>5 DEF SameStale, e
  <2>. QED
    BY <2>1, <2>2
<1>2. CASE b = None /\ p # None
  <2>0. p \in Pairs /\ r.pairs[p].inUse /\ PairTyped(r.pairs[p]) /\ Shape(r)
    BY <1>2 DEF Tidy
  <2>5. /\ r.pairs[p].src \in Nodes \union {Nobody} /\ r.pairs[p].packet \in Packet
        /\ r.pairs[p].inUse \in BOOLEAN
    BY <2>0 DEF PairTyped, Pair
  <2>1. CASE Id(r.pairs[p].packet) = Id(f.packet)
    <3>. DEFINE d == [r EXCEPT !.pairs[p].timer = Cancel(@)]
                w == AddPairTimeout(d, p, mishap)
    <3>1. e = w
      BY <1>2, <2>1 DEF DataInd
    <3>0. p \in Pairs /\ Shape(r)
      BY <2>0
    <3>2. /\ OtherPair(r, d, p) /\ d.pairs[p].src = r.pairs[p].src
          /\ d.pairs[p].packet = r.pairs[p].packet /\ d.pairs[p].inUse = r.pairs[p].inUse
          /\ d.pairs[p].timer = Cancel(r.pairs[p].timer)
      BY <3>0, CancelPairFacts
    <3>. HIDE DEF d, e
    <3>3. Shape(d) /\ IsPair(d.pairs[p])
      BY <2>0, <3>2 DEF OtherPair, Shape
    <3>10. d.pairs[p].inUse \in BOOLEAN
      BY <2>5, <3>2
    <3>11. d.pairs[p].src \in Nodes \union {Nobody} /\ d.pairs[p].packet \in Packet
      BY <2>5, <3>2
    <3>12. PairTyped(r.pairs[p]) /\ d.pairs[p].timer = Cancel(r.pairs[p].timer) /\ IsPair(d.pairs[p])
      BY <2>0, <3>2, <3>3
    <3>4. PairTyped(d.pairs[p])
      BY <3>10, <3>11, <3>12, PairMoves
    <3>5. Tidy(d, None) /\ SameStale(r, d)
      BY <2>0, <3>2, <3>4, PairTidy
    <3>6. /\ OtherPair(d, w, p) /\ w.pairs[p].src = d.pairs[p].src
          /\ w.pairs[p].packet = d.pairs[p].packet /\ w.pairs[p].inUse = d.pairs[p].inUse
          /\ w.pairs[p].timer = Start(d.pairs[p].timer)
      BY <2>0, <3>3, AddPairFacts
    <3>. HIDE DEF w
    <3>7. IsPair(w.pairs[p])
      BY <2>0, <3>6 DEF OtherPair, Shape
    <3>8. PairTyped(w.pairs[p])
      BY <2>5, <3>2, <3>4, <3>6, <3>7, PairMoves
    <3>9. Tidy(w, None) /\ SameStale(d, w)
      BY <2>0, <3>5, <3>6, <3>8, PairTidy
    <3>. QED
      BY <3>1, <3>5, <3>9 DEF SameStale, e
  <2>2. CASE Id(r.pairs[p].packet) # Id(f.packet)
    <3>. DEFINE w == DropPair(r, p)
    <3>1. e = NewPacket(w, f, mishap)
      BY <1>2, <2>2 DEF DataInd
    <3>5. Tidy(w, None) /\ SameStale(r, w)
      BY <2>0, DropTidy
    <3>. HIDE DEF w, e
    <3>7. Tidy(e, None) /\ SameStale(w, e)
      BY <3>1, <3>5, NewTidy
    <3>. QED
      BY <3>5, <3>7 DEF SameStale, e
  <2>. QED
    BY <2>1, <2>2
<1>3. CASE b = None /\ p = None
  <2>1. e = NewPacket(r, f, mishap)
    BY <1>3 DEF DataInd
  <2>. QED
    BY <2>1, NewTidy
<1>. QED
  BY <1>1, <1>2, <1>3

\* A stale buffer is ready to be emptied.
LEMMA StaleTidy ==
  ASSUME NEW r, NEW b \in Buffers, Tidy(r, None), r.buffers[b].state = "stale"
  PROVE  Tidy(r, b)
<1>0. None \notin Buffers
  BY DEF Buffers, None
<1>1. "stale" # "unused" /\ "stale" # "inUse"
  OBVIOUS
<1>2. Settled(r.buffers[b])
  BY <1>0 DEF Tidy
<1>3. InWork(r.buffers[b])
  BY <1>1, <1>2 DEF Settled, InWork
<1>. QED
  BY <1>0, <1>3 DEF Tidy

\* The stale buffers of e are those from place i on.
StaleFrom(e, l, i) == \A c \in Buffers : e.buffers[c].state = "stale" <=> \E j \in i .. Len(l) : l[j] = c

LEMMA FoldTidy ==
  ASSUME NEW r, Tidy(r, None), Queued(r), NumBuffers < 65536
  PROVE  LET e == [FoldLeft(EmptyRxBuffer, r, r.expired) EXCEPT !.expired = <<>>]
         IN Tidy(e, None) /\ Queued(e)
<1>. DEFINE l == r.expired
            n == Len(l)
            z == FoldLeft(EmptyRxBuffer, r, l)
            e == [z EXCEPT !.expired = <<>>]
<1>1. /\ l \in Seq(Buffers) /\ n \in Nat /\ (\A i \in 1 .. n : l[i] \in Buffers)
      /\ \A i, j \in 1 .. n : l[i] = l[j] => i = j
      /\ \A c \in Buffers : r.buffers[c].state = "stale" <=> \E i \in 1 .. n : l[i] = c
  BY DEF Queued
<1>2. PICK g : EmptiesList(g, r, l) /\ z = g[n]
  BY <1>1, FoldFacts
<1>. HIDE DEF n, z
<1>. DEFINE P == {i \in 0 .. n : Tidy(g[i], None) /\ StaleFrom(g[i], l, i + 1)}
<1>3. 0 \in P
  <2>1. g[0] = r
    BY <1>2 DEF EmptiesList
  <2>. QED
    BY <1>1, <2>1 DEF StaleFrom, n
<1>4. ASSUME NEW i \in 1 .. n, i - 1 \in P PROVE i \in P
  <2>. DEFINE h == g[i - 1]
              b == l[i]
  <2>1. g[i] = EmptyRxBuffer(h, b) /\ b \in Buffers
    BY <1>1, <1>2 DEF EmptiesList, n
  <2>2. Tidy(h, None) /\ StaleFrom(h, l, i)
    BY <1>4
  <2>. HIDE DEF h, b
  <2>3. h.buffers[b].state = "stale"
    BY <1>1, <2>1, <2>2 DEF StaleFrom, n, b
  <2>4. Tidy(h, b)
    BY <2>1, <2>2, <2>3, StaleTidy
  <2>5. Tidy(g[i], None) /\ Others(h, g[i], b) /\ g[i].buffers[b].state = "unused"
    BY <2>1, <2>4, EmptyTidy
  <2>6. StaleFrom(g[i], l, i + 1)
    <3>1. ASSUME NEW c \in Buffers \ {b}
          PROVE  g[i].buffers[c].state = "stale" <=> \E j \in i + 1 .. Len(l) : l[j] = c
      <4>1. g[i].buffers[c].state = "stale" <=> \E j \in i .. Len(l) : l[j] = c
        BY <2>2, <2>5 DEF StaleFrom, Others
      <4>2. \A j : j \in i .. Len(l) <=> j = i \/ j \in i + 1 .. Len(l)
        BY <1>1 DEF n
      <4>. QED
        BY <4>1, <4>2 DEF b
    <3>2. ~ \E j \in i + 1 .. Len(l) : l[j] = b
      <4>1. SUFFICES ASSUME NEW j \in i + 1 .. Len(l), l[j] = b PROVE FALSE
        OBVIOUS
      <4>2. j \in 1 .. n /\ j # i
        BY <1>1 DEF n
      <4>. QED
        BY <1>1, <4>1, <4>2 DEF b
    <3>3. g[i].buffers[b].state # "stale"
      BY <2>5
    <3>. QED
      BY <3>1, <3>2, <3>3 DEF StaleFrom
  <2>. QED
    BY <2>5, <2>6
<1>. HIDE DEF P
<1>5. n \in P
  <2>0. n \in Nat
    BY <1>1
  <2>1. 0 .. n \subseteq P
    BY <2>0, <1>3, <1>4, Climb
  <2>. QED
    BY <2>0, <2>1
<1>6. Tidy(z, None) /\ StaleFrom(z, l, n + 1)
  BY <1>2, <1>5 DEF P
<1>7. \A c \in Buffers : z.buffers[c].state # "stale"
  BY <1>1, <1>6 DEF StaleFrom, n
<1>8. /\ Shape(e) /\ e.buffers = z.buffers /\ e.pairs = z.pairs /\ e.expired = <<>>
      /\ e.free = z.free /\ e.inUse = z.inUse /\ e.unicast = z.unicast
  <2>1. Shape(z)
    BY <1>6 DEF Tidy
  <2>. QED
    BY <2>1, StateFacts
<1>. HIDE DEF e
<1>9. Counted(e)
  BY <1>6, <1>8, CountedStays DEF Tidy
<1>10. Tidy(e, None)
  BY <1>6, <1>8, <1>9 DEF Tidy
<1>11. Queued(e)
  <2>1. <<>> \in Seq(Buffers) /\ DOMAIN <<>> = {}
    OBVIOUS
  <2>. QED
    BY <1>7, <1>8, <2>1 DEF Queued
<1>. QED
  BY <1>10, <1>11 DEF e, z, l

\* The invariant: all is in order between the steps, and what Find has found
\* is still in use when it is handled.
TidyInv ==
  /\ Air /\ Tidy(rx, None) /\ Queued(rx) /\ pc \in {"idle", "found", "timeouts"}
  /\ found \in [buffer : Buffers \union {None}, pair : Pairs \union {None}]
  /\ pc = "found" => /\ inbox # <<>>
                     /\ found.buffer # None => rx.buffers[found.buffer].state = "inUse"
                     /\ found.pair # None => rx.pairs[found.pair].inUse

LEMMA TidyBegins == Init => TidyInv
<1>. SUFFICES ASSUME Init PROVE TidyInv
  OBVIOUS
<1>0. Air /\ Shape(rx)
  BY AirBegins, SoundBegins DEF Sound
<1>1. pc = "idle" /\ found = [buffer |-> None, pair |-> None]
  BY DEF Init
<1>. DEFINE B == [b \in Buffers |-> NewBuffer]
            P == [p \in Pairs |-> NewPair]
<1>2. /\ rx.buffers = B /\ rx.pairs = P /\ rx.free = NumSegments /\ rx.inUse = 0
      /\ rx.unicast = 0 /\ rx.expired = <<>>
  BY DEF Init
<1>3. (\A b \in Buffers : B[b] = NewBuffer) /\ (\A p \in Pairs : P[p] = NewPair)
  OBVIOUS
<1>. HIDE DEF B, P
<1>4. \A b \in Buffers : rx.buffers[b] = NewBuffer
  BY <1>2, <1>3
<1>5. /\ NewBuffer.state = "unused" /\ NewBuffer.src = Nobody /\ NewBuffer.packet = None
      /\ NewBuffer.unicast = FALSE /\ NewBuffer.count = 0 /\ NewBuffer.parts = NoParts
      /\ NewBuffer.expected = Unknown /\ NewBuffer.received = 0 /\ NewBuffer.held = 0
      /\ NewBuffer.timer = NoTimer
  BY DEF NewBuffer, NoParts
<1>6. Typed(NewBuffer)
  <2>1. MaxSegments \in Nat \ {0} /\ 0 \in Segments /\ NoParts \in [Segments -> Packet]
        /\ None \in Packet /\ Cardinality(PartsIn(NewBuffer)) = 0
    BY <1>5, SegmentSets DEF Segments
  <2>2. NewBuffer.unicast \in BOOLEAN
    BY DEF NewBuffer
  <2>3. 0 \in 0 .. MaxSegments
    BY <2>1
  <2>. QED
    BY <1>5, <2>1, <2>2, <2>3 DEF Typed
<1>7. Settled(NewBuffer)
  BY <1>5 DEF Settled
<1>8. PairTyped(NewPair)
  <2>1. None \in Packet
    BY SegmentSets
  <2>2. NoTimer \in Timer /\ ~ NoTimer.own
    BY DEF NoTimer, Timer
  <2>3. NewPair \in Pair /\ NewPair.timer = NoTimer
    BY <2>1, <2>2 DEF NewPair, Pair
  <2>. QED
    BY <2>2, <2>3 DEF PairTyped
<1>9. Counted(rx)
  <2>1. Used(rx) = {} /\ FromOne(rx) = {} /\ Cardinality({}) = 0
    BY <1>4, <1>5, FS_EmptySet DEF Used, FromOne
  <2>2. SumFunction(Blocks(rx)) = 0
    <3>1. Blocks(rx) \in [Buffers -> Nat] /\ \A b \in Buffers : Blocks(rx)[b] = 0
      BY <1>4, <1>5 DEF Blocks
    <3>. QED
      BY <3>1, SumOfNaturals, BufferSets
  <2>3. NumSegments \in Nat
    BY SizesAssumption
  <2>. QED
    BY <1>2, <2>1, <2>2, <2>3 DEF Counted
<1>10. Tidy(rx, None)
  <2>1. None \notin Buffers
    BY DEF Buffers, None
  <2>2. \A p \in Pairs : PairTyped(rx.pairs[p])
    BY <1>2, <1>3, <1>8
  <2>. QED
    BY <1>0, <1>4, <1>6, <1>7, <1>9, <2>1, <2>2 DEF Tidy
<1>11. Queued(rx)
  <2>1. <<>> \in Seq(Buffers) /\ DOMAIN <<>> = {}
    OBVIOUS
  <2>2. \A b \in Buffers : rx.buffers[b].state # "stale"
    BY <1>4, <1>5
  <2>. QED
    BY <1>2, <2>1, <2>2 DEF Queued
<1>. QED
  BY <1>0, <1>1, <1>10, <1>11 DEF TidyInv

LEMMA FrameIsTyped == \A f \in RightFrame : FrameTyped(f)
<1>. SUFFICES ASSUME NEW f \in RightFrame PROVE FrameTyped(f)
  OBVIOUS
<1>. DEFINE n == f.src
            k == f.packet
<1>1. /\ n \in Nodes /\ k \in 1 .. Len(Length[n]) /\ f.unicast \in BOOLEAN
      /\ f.count = Length[n][k] - 1 /\ f.segment \in Nat /\ f.segment <= f.count
  BY DEF RightFrame
<1>2. /\ Length[n] \in Seq(1 .. MaxSegments) /\ Length[n][k] \in 1 .. MaxSegments
      /\ MaxSegments \in Nat \ {0} /\ Len(Length[n]) \in Nat
  BY <1>1, LengthFacts
<1>3. f.count \in Segments /\ f.segment \in Segments
  <2>1. PICK m : m = Length[n][k]
    OBVIOUS
  <2>2. /\ m \in 1 .. MaxSegments /\ MaxSegments \in Nat /\ f.count = m - 1
        /\ f.segment \in Nat /\ f.segment <= f.count
    BY <1>1, <1>2, <2>1
  <2>. QED
    BY <2>2 DEF Segments
<1>4. k \in Packet \ {None}
  <2>1. DOMAIN Length[n] = 1 .. Len(Length[n])
    BY <1>2
  <2>2. k # None
    BY <1>1, <1>2 DEF None
  <2>. QED
    BY <1>1, <2>1, <2>2 DEF Packet
<1>. QED
  BY <1>1, <1>3, <1>4 DEF FrameTyped

LEMMA FindTidy ==
  ASSUME TidyInv, Find
  PROVE  TidyInv'
<1>0. UNCHANGED <<sender, inbox, rx>> /\ pc' = "found" /\ inbox # <<>>
  BY DEF Find
<1>. DEFINE n == Head(inbox).src
            b == FindRxBuffer(n)
            p == FindPacketIdPair(n)
            q == IF b = None THEN p ELSE None
<1>1. found' = [buffer |-> b, pair |-> q]
  BY DEF Find
<1>2. b # None => b \in Buffers /\ rx.buffers[b].state = "inUse"
  <2>. DEFINE B == {c \in Buffers : rx.buffers[c].state = "inUse" /\ rx.buffers[c].src = n}
  <2>1. B \subseteq Nat \ {0} /\ b = First(B)
    BY DEF Buffers, FindRxBuffer
  <2>. HIDE DEF B, b
  <2>2. b # None => b \in B
    BY <2>1, FirstFacts
  <2>. QED
    BY <2>2 DEF B
<1>3. p # None => p \in Pairs /\ rx.pairs[p].inUse
  <2>. DEFINE P == {o \in Pairs : rx.pairs[o].inUse /\ rx.pairs[o].src = n}
  <2>1. P \subseteq Nat \ {0} /\ p = First(P)
    BY DEF Pairs, FindPacketIdPair
  <2>. HIDE DEF P, p
  <2>2. p # None => p \in P
    BY <2>1, FirstFacts
  <2>. QED
    BY <2>2 DEF P
<1>. HIDE DEF b, p, n
<1>4. q \in {p, None}
  OBVIOUS
<1>. HIDE DEF q
<1>5. found'.buffer = b /\ found'.pair = q
  BY <1>1
<1>6. b \in Buffers \union {None} /\ q \in Pairs \union {None}
  BY <1>2, <1>3, <1>4
<1>7. found' \in [buffer : Buffers \union {None}, pair : Pairs \union {None}]
  BY <1>1, <1>6
<1>8. Air' /\ Tidy(rx, None)' /\ Queued(rx)'
  BY <1>0, AirStep DEF TidyInv, Next
<1>9. found'.buffer # None => rx'.buffers[found'.buffer].state = "inUse"
  BY <1>0, <1>2, <1>5
<1>10. found'.pair # None => rx'.pairs[found'.pair].inUse
  BY <1>0, <1>3, <1>4, <1>5
<1>. QED
  BY <1>0, <1>7, <1>8, <1>9, <1>10 DEF TidyInv

LEMMA HandleTidy ==
  ASSUME TidyInv, Handle, "noTimer" \notin Mishaps, PacketTimeout # 0, NumBuffers < 65536
  PROVE  Tidy(rx', None) /\ Queued(rx')
<1>. DEFINE f == Head(inbox)
<1>1. PICK mishap \in (Mishaps \ {"expiry"}) \union {"none"} :
        rx' = DataInd(rx, found.buffer, found.pair, f, mishap)
  BY DEF Handle
<1>2. Timed(mishap)
  BY <1>1 DEF Timed
<1>3. FrameTyped(f)
  <2>1. f \in RightFrame
    BY DEF TidyInv, Handle, Air
  <2>. QED
    BY <2>1, FrameIsTyped
<1>4. /\ found.buffer \in Buffers \union {None} /\ found.pair \in Pairs \union {None}
      /\ found.buffer # None => rx.buffers[found.buffer].state = "inUse"
      /\ Tidy(rx, None) /\ Queued(rx)
  BY DEF TidyInv, Handle
<1>5. found.pair # None => rx.pairs[found.pair].inUse
  BY DEF TidyInv, Handle
<1>. HIDE DEF f
<1>6. Tidy(rx', None) /\ SameStale(rx, rx')
  BY <1>1, <1>2, <1>3, <1>4, <1>5, DataIndTidy
<1>. QED
  BY <1>4, <1>6, QueuedStays

LEMMA RxExpiryTidy ==
  ASSUME NEW r, Tidy(r, None), Queued(r), NEW b \in Buffers, r.buffers[b].timer.running > 0
  PROVE  LET e == RxAssemblyExpired([r EXCEPT !.buffers[b].timer = Fired(@)], b)
         IN Tidy(e, None) /\ Queued(e)
<1>. DEFINE d == [r EXCEPT !.buffers[b].timer = Fired(@)]
            e == RxAssemblyExpired(d, b)
            x == r.buffers[b]
            y == e.buffers[b]
<1>0. Shape(r) /\ Settled(x) /\ Typed(x) /\ Counted(r) /\ None \notin Buffers
  BY DEF Tidy, Buffers, None
<1>1. x.timer # NoTimer
  BY TimerFacts
<1>2. "inUse" # "unused" /\ "inUse" # "stale" /\ "unused" # "stale"
  OBVIOUS
<1>3. x.state = "inUse" /\ x.timer = Start(NoTimer) /\ x.held = x.count + 1
  BY <1>0, <1>1, <1>2 DEF Settled
<1>4. OtherMarks(r, d, b) /\ d.expired = r.expired /\ d.buffers[b].timer = Fired(x.timer) /\ Shape(d)
  BY <1>0, FiredFacts DEF OtherMarks
<1>. HIDE DEF d
<1>5. /\ OtherMarks(d, e, b) /\ e.expired = Append(d.expired, b)
      /\ y.timer = d.buffers[b].timer /\ y.state = "stale"
  BY <1>4, ExpiredFacts
<1>. HIDE DEF e
<1>6. OtherMarks(r, e, b) /\ y.timer = NoTimer /\ e.expired = Append(r.expired, b)
  BY <1>3, <1>4, <1>5, TimerFacts DEF OtherMarks
<1>7. /\ Shape(e) /\ e.pairs = r.pairs /\ (\A c \in Buffers \ {b} : e.buffers[c] = r.buffers[c])
      /\ e.free = r.free /\ e.inUse = r.inUse /\ e.unicast = r.unicast
  BY <1>6 DEF OtherMarks
<1>8. /\ y.src = x.src /\ y.packet = x.packet /\ y.unicast = x.unicast /\ y.count = x.count
      /\ y.parts = x.parts /\ y.expected = x.expected /\ y.received = x.received
      /\ y.held = x.held
  BY <1>6 DEF OtherMarks
<1>9. Counted(e)
  <2>1. \A c \in Buffers : /\ e.buffers[c].state = "unused" <=> r.buffers[c].state = "unused"
                           /\ e.buffers[c].unicast = r.buffers[c].unicast
                           /\ e.buffers[c].held = r.buffers[c].held
    BY <1>2, <1>3, <1>5, <1>7, <1>8
  <2>. QED
    BY <1>0, <1>7, <2>1, CountedStays
<1>10. Typed(y)
  <2>1. PartsIn(y) = PartsIn(x)
    BY <1>8 DEF PartsIn
  <2>. QED
    BY <1>0, <1>5, <1>8, <2>1 DEF Typed
<1>11. Settled(y)
  BY <1>2, <1>3, <1>5, <1>6, <1>8 DEF Settled
<1>12. Tidy(e, None)
  <2>1. \A c \in Buffers : Typed(e.buffers[c])
    BY <1>7, <1>10 DEF Tidy
  <2>2. \A c \in Buffers : Settled(e.buffers[c])
    BY <1>0, <1>7, <1>11 DEF Tidy
  <2>3. \A p \in Pairs : PairTyped(e.pairs[p])
    BY <1>7 DEF Tidy
  <2>. QED
    BY <1>0, <1>7, <1>9, <2>1, <2>2, <2>3 DEF Tidy
<1>13. Queued(e)
  <2>. DEFINE l == r.expired
              n == Len(l)
              m == e.expired
  <2>1. /\ l \in Seq(Buffers) /\ n \in Nat /\ DOMAIN l = 1 .. n
        /\ \A i, j \in 1 .. n : l[i] = l[j] => i = j
        /\ \A c \in Buffers : r.buffers[c].state = "stale" <=> \E i \in 1 .. n : l[i] = c
    BY DEF Queued
  <2>2. m = Append(l, b)
    BY <1>6
  <2>. HIDE DEF l, m
  <2>3. /\ m \in Seq(Buffers) /\ DOMAIN m = 1 .. n + 1 /\ m[n + 1] = b
        /\ \A i \in 1 .. n : m[i] = l[i]
    BY <2>1, <2>2
  <2>4. \A i \in 1 .. n : l[i] # b
    BY <1>2, <1>3, <2>1
  <2>. HIDE DEF n
  <2>5. /\ \A i : i \in 1 .. n + 1 <=> i \in 1 .. n \/ i = n + 1
        /\ n + 1 \notin 1 .. n
    BY <2>1
  <2>6. \A i, j \in 1 .. n + 1 : m[i] = m[j] => i = j
    BY <2>1, <2>3, <2>4, <2>5
  <2>7. \A c \in Buffers : e.buffers[c].state = "stale" <=> \E i \in 1 .. n + 1 : m[i] = c
    <3>1. \A c \in Buffers \ {b} : e.buffers[c].state = "stale" <=> \E i \in 1 .. n : l[i] = c
      BY <1>7, <2>1
    <3>2. ASSUME NEW c \in Buffers \ {b}
          PROVE  (\E i \in 1 .. n : l[i] = c) <=> \E i \in 1 .. n + 1 : m[i] = c
      BY <2>3, <2>5
    <3>3. \E i \in 1 .. n + 1 : m[i] = b
      BY <2>3, <2>5
    <3>. QED
      BY <1>5, <3>1, <3>2, <3>3
  <2>. QED
    BY <2>3, <2>6, <2>7 DEF Queued, m
<1>. QED
  BY <1>12, <1>13 DEF e, d

LEMMA TidyStep ==
  ASSUME TidyInv, [Next]_vars, Mishaps \intersect {"expiry", "noTimer"} = {}, PacketTimeout # 0, NumBuffers < 65536
  PROVE  TidyInv'
<1>0. /\ Air /\ Air' /\ Tidy(rx, None) /\ Queued(rx) /\ pc \in {"idle", "found", "timeouts"}
      /\ found \in [buffer : Buffers \union {None}, pair : Pairs \union {None}]
  BY AirStep DEF TidyInv
<1>1. CASE Find
  BY <1>1, FindTidy
<1>2. CASE Handle
  <2>1. Tidy(rx', None) /\ Queued(rx')
    BY <1>2, HandleTidy
  <2>2. pc' = "timeouts" /\ found' = [buffer |-> None, pair |-> None]
    BY <1>2 DEF Handle
  <2>. QED
    BY <1>0, <2>1, <2>2 DEF TidyInv
<1>3. CASE CheckTimeouts
  <2>1. /\ rx' = [FoldLeft(EmptyRxBuffer, rx, rx.expired) EXCEPT !.expired = <<>>]
        /\ pc' = "idle" /\ found' = found
    BY <1>3 DEF CheckTimeouts
  <2>2. Tidy(rx', None) /\ Queued(rx')
    BY <1>0, <2>1, FoldTidy
  <2>. QED
    BY <1>0, <2>1, <2>2 DEF TidyInv
<1>4. ASSUME NEW b \in Buffers, RxTimerExpires(b) PROVE TidyInv'
  <2>1. /\ rx' = RxAssemblyExpired([rx EXCEPT !.buffers[b].timer = Fired(@)], b)
        /\ UNCHANGED <<sender, inbox, found, pc>> /\ rx.buffers[b].timer.running > 0
        /\ pc # "found"
    BY <1>4 DEF RxTimerExpires, MayExpire
  <2>2. Tidy(rx', None) /\ Queued(rx')
    BY <1>0, <2>1, RxExpiryTidy
  <2>. QED
    BY <1>0, <2>1, <2>2 DEF TidyInv
<1>5. ASSUME NEW p \in Pairs, PairTimerExpires(p) PROVE TidyInv'
  <2>1. /\ rx' = [rx EXCEPT !.pairs[p].timer = Fired(@), !.pairs[p].inUse = FALSE]
        /\ UNCHANGED <<sender, inbox, found, pc>> /\ rx.pairs[p].timer.running > 0
        /\ pc # "found"
    BY <1>5 DEF PairTimerExpires, MayExpire
  <2>2. Tidy(rx', None) /\ SameStale(rx, rx')
    <3>1. rx' = PairFired(rx, p)
      BY <2>1 DEF PairFired
    <3>. QED
      BY <1>0, <2>1, <3>1, FireTidy
  <2>3. Queued(rx')
    BY <1>0, <2>2, QueuedStays
  <2>. QED
    BY <1>0, <2>1, <2>2, <2>3 DEF TidyInv
<1>6. ASSUME NEW n \in Nodes, SendFrame(n) \/ SendAgain(n) \/ BeginPacket(n) PROVE TidyInv'
  <2>1. UNCHANGED <<found, pc, rx>>
    BY <1>6 DEF SendFrame, SendAgain, BeginPacket
  <2>2. inbox' = inbox \/ \E f \in RightFrame : inbox' = Append(inbox, f)
    <3>1. CASE SendFrame(n)
      BY <1>0, <3>1, FrameFacts
    <3>. QED
      BY <1>6, <3>1 DEF SendAgain, BeginPacket
  <2>3. inbox # <<>> => inbox' # <<>>
    <3>1. inbox \in Seq(RightFrame)
      BY <1>0 DEF Air
    <3>2. \A q \in Seq(RightFrame), f \in RightFrame : Append(q, f) # <<>>
      OBVIOUS
    <3>. QED
      BY <2>2, <3>1, <3>2
  <2>. QED
    BY <1>0, <2>1, <2>3 DEF TidyInv
<1>7. CASE UNCHANGED vars
  BY <1>0, <1>7 DEF TidyInv, vars
<1>. QED
  BY <1>1, <1>2, <1>3, <1>4, <1>5, <1>6, <1>7 DEF Next

-----------------------------------------------------------------------------
(* What follows from the order.                                             *)

LEMMA CountsFollow == TidyInv => CountsAreBuffers
BY DEF TidyInv, Tidy, Counted, CountsAreBuffers, Used, FromOne, UsedBuffers

LEMMA SegmentsFollow == TidyInv => SegmentsConserved
<1>. SUFFICES ASSUME TidyInv PROVE SegmentsConserved
  OBVIOUS
<1>1. Tidy(rx, None) /\ None \notin Buffers
  BY DEF TidyInv, Buffers, None
<1>2. rx.free + SumFunction([b \in Buffers |-> rx.buffers[b].held]) = NumSegments
  BY <1>1 DEF Tidy, Counted, Blocks
<1>3. ASSUME NEW b \in Buffers
      PROVE  rx.buffers[b].held = IF b \in UsedBuffers THEN rx.buffers[b].count + 1 ELSE 0
  <2>1. Settled(rx.buffers[b])
    BY <1>1 DEF Tidy
  <2>. QED
    BY <2>1 DEF Settled, UsedBuffers
<1>. QED
  BY <1>2, <1>3 DEF SegmentsConserved

LEMMA ReclaimFollows == TidyInv => Reclaimable
<1>. SUFFICES ASSUME TidyInv PROVE Reclaimable
  OBVIOUS
<1>1. Tidy(rx, None) /\ Queued(rx) /\ None \notin Buffers
  BY DEF TidyInv, Buffers, None
<1>2. ASSUME NEW b \in Buffers
      PROVE  /\ rx.buffers[b].timer = IF rx.buffers[b].state = "inUse" THEN Start(NoTimer) ELSE NoTimer
             /\ Cardinality({i \in DOMAIN rx.expired : rx.expired[i] = b})
                  = IF rx.buffers[b].state = "stale" THEN 1 ELSE 0
  <2>. DEFINE I == {i \in DOMAIN rx.expired : rx.expired[i] = b}
  <2>1. Settled(rx.buffers[b])
    BY <1>1 DEF Tidy
  <2>2. CASE rx.buffers[b].state = "stale"
    <3>1. PICK i \in DOMAIN rx.expired : rx.expired[i] = b
      BY <1>1, <2>2 DEF Queued
    <3>2. I = {i}
      BY <1>1, <3>1 DEF Queued
    <3>3. Cardinality(I) = 1
      BY <3>2, FS_Singleton
    <3>. QED
      BY <2>1, <2>2, <3>3 DEF Settled
  <2>3. CASE rx.buffers[b].state # "stale"
    <3>1. I = {}
      BY <1>1, <2>3 DEF Queued
    <3>2. Cardinality(I) = 0
      BY <3>1, FS_EmptySet
    <3>. QED
      BY <2>1, <2>3, <3>2 DEF Settled
  <2>. QED
    BY <2>2, <2>3
<1>. QED
  BY <1>2 DEF Reclaimable

LEMMA AirTyped ==
  ASSUME Air
  PROVE  /\ sender \in [Nodes -> [packet : Packet, try : 0 .. Repeats, segment : 0 .. MaxSegments]]
         /\ inbox \in Seq(Frame) /\ Len(inbox) <= QueueSize
<1>0. \A n \in Nodes : /\ Length[n] \in Seq(1 .. MaxSegments) /\ DOMAIN Length[n] = 1 .. Len(Length[n])
                       /\ Len(Length[n]) \in Nat
  BY LengthFacts
<1>1. ASSUME NEW n \in Nodes
      PROVE  sender[n] \in [packet : Packet, try : 0 .. Repeats, segment : 0 .. MaxSegments]
  <2>. DEFINE s == sender[n]
  <2>1. /\ s = [packet |-> s.packet, try |-> s.try, segment |-> s.segment]
        /\ s.packet \in Nat /\ s.try \in Nat /\ s.segment \in Nat
        /\ s.packet <= Len(Length[n]) /\ s.try <= Repeats
        /\ s.packet = 0 => s.segment = 0
        /\ s.packet > 0 => s.segment <= Length[n][s.packet]
    BY DEF Air
  <2>. HIDE DEF s
  <2>2. s.packet \in Packet
    <3>1. CASE s.packet = 0
      BY <3>1 DEF Packet, None
    <3>2. CASE s.packet # 0
      <4>1. s.packet \in DOMAIN Length[n]
        BY <1>0, <2>1, <3>2
      <4>. QED
        BY <4>1 DEF Packet
    <3>. QED
      BY <3>1, <3>2
  <2>3. s.try \in 0 .. Repeats
    BY <2>1, SizesAssumption
  <2>4. s.segment \in 0 .. MaxSegments
    <3>1. CASE s.packet = 0
      BY <2>1, <3>1, SegmentSets
    <3>2. CASE s.packet # 0
      <4>1. Length[n][s.packet] \in 1 .. MaxSegments
        BY <2>1, <3>2, LengthFacts
      <4>. QED
        BY <2>1, <3>2, <4>1, SegmentSets
    <3>. QED
      BY <3>1, <3>2
  <2>5. s \in [packet : Packet, try : 0 .. Repeats, segment : 0 .. MaxSegments]
    BY <2>1, <2>2, <2>3, <2>4
  <2>. QED
    BY <2>5 DEF s
<1>2. sender \in [Nodes -> [packet : Packet, try : 0 .. Repeats, segment : 0 .. MaxSegments]]
  <2>1. sender = [n \in Nodes |-> sender[n]]
    BY DEF Air
  <2>. QED
    BY <1>1, <2>1
<1>3. ASSUME NEW f \in RightFrame PROVE f \in Frame
  <2>. DEFINE n == f.src
  <2>1. /\ f = [src |-> f.src, packet |-> f.packet, segment |-> f.segment, count |-> f.count,
                unicast |-> f.unicast]
        /\ n \in Nodes /\ f.packet \in 1 .. Len(Length[n])
    BY DEF RightFrame
  <2>2. f.count \in Segments /\ f.segment \in Segments /\ f.unicast \in BOOLEAN
    BY FrameIsTyped DEF FrameTyped
  <2>3. f.packet \in DOMAIN Length[n]
    BY <1>0, <2>1
  <2>4. f \in [src : {n}, packet : DOMAIN Length[n], segment : Segments, count : Segments,
               unicast : BOOLEAN]
    BY <2>1, <2>2, <2>3
  <2>. QED
    BY <2>1, <2>4 DEF Frame
<1>4. inbox \in Seq(Frame) /\ Len(inbox) <= QueueSize
  <2>1. inbox \in Seq(RightFrame) /\ Len(inbox) <= QueueSize /\ RightFrame \subseteq Frame
    BY <1>3 DEF Air
  <2>2. \A i \in 1 .. Len(inbox) : inbox[i] \in Frame
    BY <2>1
  <2>. QED
    BY <2>1, <2>2
<1>. QED
  BY <1>2, <1>4

LEMMA TypeFollows == ASSUME TidyInv, NumBuffers < 65536 PROVE TypeOK
<1>1. Air /\ Tidy(rx, None) /\ Queued(rx) /\ Shape(rx) /\ Counted(rx) /\ None \notin Buffers
  BY DEF TidyInv, Tidy, Buffers, None
<1>2. ASSUME NEW b \in Buffers PROVE rx.buffers[b] \in Buffer
  <2>. DEFINE x == rx.buffers[b]
  <2>1. IsBuffer(x) /\ Typed(x) /\ Settled(x)
    BY <1>1 DEF Shape, Tidy
  <2>. HIDE DEF x
  <2>2. x.timer \in Timer
    <3>1. NoTimer \in Timer /\ Start(NoTimer) \in Timer
      <4>1. [running |-> 0, own |-> FALSE] \in Timer /\ [running |-> 1, own |-> TRUE] \in Timer
        BY DEF Timer
      <4>. QED
        BY <4>1, TimerFacts
    <3>. QED
      BY <2>1, <3>1 DEF Settled
  <2>3. x.received \in 0 .. MaxSegments
    BY <2>1, SegmentSets DEF Typed
  <2>4. /\ x.state \in {"unused", "inUse", "stale"} /\ x.src \in Nodes \union {Nobody}
        /\ x.packet \in Packet /\ x.count \in Segments
        /\ x.parts \in [Segments -> Packet] /\ x.expected \in (1 .. MaxSegments) \union {Unknown}
        /\ x.held \in 0 .. MaxSegments
    BY <2>1 DEF Typed
  <2>5. x.unicast \in BOOLEAN
    BY <2>1 DEF Typed
  <2>6. x = [state |-> x.state, src |-> x.src, packet |-> x.packet, unicast |-> x.unicast,
             count |-> x.count, parts |-> x.parts, expected |-> x.expected,
             received |-> x.received, held |-> x.held, timer |-> x.timer]
    BY <2>1 DEF IsBuffer
  <2>7. x \in Buffer
    BY <2>2, <2>3, <2>4, <2>5, <2>6 DEF Buffer
  <2>. QED
    BY <2>7 DEF x
<1>3. rx.buffers \in [Buffers -> Buffer]
  <2>1. rx.buffers = [b \in Buffers |-> rx.buffers[b]]
    BY <1>1 DEF Shape
  <2>. QED
    BY <1>2, <2>1
<1>4. rx.pairs \in [Pairs -> Pair]
  <2>1. rx.pairs = [p \in Pairs |-> rx.pairs[p]] /\ \A p \in Pairs : rx.pairs[p] \in Pair
    BY <1>1 DEF Shape, Tidy, PairTyped
  <2>. QED
    BY <2>1
<1>5. rx.free \in 0 .. NumSegments
  <2>1. MaxSegments \in Nat /\ NumSegments \in Nat
    BY SizesAssumption
  <2>2. \A b \in Buffers : rx.buffers[b].held \in Nat
    BY <1>1, <2>1 DEF Tidy, Typed
  <2>3. Blocks(rx) \in [Buffers -> Nat]
    BY <2>2 DEF Blocks
  <2>4. SumFunction(Blocks(rx)) \in Nat
    BY <2>3, SumOfNaturals, BufferSets
  <2>. QED
    BY <1>1, <2>1, <2>4 DEF Counted
<1>6. rx.inUse \in Counter /\ rx.unicast \in Counter
  <2>1. Used(rx) \in SUBSET Buffers /\ FromOne(rx) \in SUBSET Buffers
    BY DEF Used, FromOne
  <2>2. /\ Cardinality(Used(rx)) \in Nat /\ Cardinality(Used(rx)) <= NumBuffers
        /\ Cardinality(FromOne(rx)) \in Nat /\ Cardinality(FromOne(rx)) <= NumBuffers
        /\ NumBuffers \in Nat
    BY <2>1, BufferSets
  <2>3. rx.inUse = Cardinality(Used(rx)) /\ rx.unicast = Cardinality(FromOne(rx))
    BY <1>1 DEF Counted
  <2>4. \A k \in Nat : k <= NumBuffers => k \in Counter
    <3>. DEFINE m == 65535
    <3>1. m \in Nat /\ NumBuffers <= m /\ Counter = 0 .. m
      BY <2>2 DEF Counter
    <3>. HIDE DEF m
    <3>. QED
      BY <2>2, <3>1
  <2>. QED
    BY <2>2, <2>3, <2>4
<1>7. rx.expired \in Seq(Buffers)
  BY <1>1 DEF Queued
<1>. QED
  BY <1>1, <1>3, <1>4, <1>5, <1>6, <1>7, AirTyped DEF TidyInv, TypeOK

-----------------------------------------------------------------------------

\* TypeOK: the counters, the pool and the records of MAC_FrameManagement.c keep
\* to their types.  The counters are uint16_t (:123-124): they do not wrap
\* when a buffer is emptied, so no buffer is emptied that is not in use.
THEOREM ReceiverTyped ==
  ASSUME Mishaps \intersect {"expiry", "noTimer"} = {}, PacketTimeout # 0, NumBuffers < 65536
  PROVE  Spec => []TypeOK
<1>1. TidyInv /\ [Next]_vars => TidyInv'
  BY TidyStep
<1>2. TidyInv => TypeOK
  BY TypeFollows
<1>. QED
  BY <1>1, <1>2, TidyBegins, PTL DEF Spec

\* NewPacket counts a buffer when it takes it and EmptyRxBuffer when it gives
\* it back (:531-535, :834-839): in every state the two counters are the number
\* of buffers in use.
THEOREM CountersAreRight ==
  ASSUME Mishaps \intersect {"expiry", "noTimer"} = {}, PacketTimeout # 0, NumBuffers < 65536
  PROVE  Spec => []CountsAreBuffers
<1>1. TidyInv /\ [Next]_vars => TidyInv'
  BY TidyStep
<1>. QED
  BY <1>1, CountsFollow, TidyBegins, PTL DEF Spec

\* The segment blocks are in the pool or held, as many as it has parts, by a
\* buffer in use, whether its packet is completed, abandoned or given up.
THEOREM SegmentsAreConserved ==
  ASSUME Mishaps \intersect {"expiry", "noTimer"} = {}, PacketTimeout # 0, NumBuffers < 65536
  PROVE  Spec => []SegmentsConserved
<1>1. TidyInv /\ [Next]_vars => TidyInv'
  BY TidyStep
<1>. QED
  BY <1>1, SegmentsFollow, TidyBegins, PTL DEF Spec

\* No buffer in use is left without a timer or a place in the queue of
\* CheckTimeouts, none has both, and no timer is left of one given back: the
\* callback would queue a buffer that is unused or another packet's.
THEOREM BuffersAreReclaimable ==
  ASSUME Mishaps \intersect {"expiry", "noTimer"} = {}, PacketTimeout # 0, NumBuffers < 65536
  PROVE  Spec => []Reclaimable
<1>1. TidyInv /\ [Next]_vars => TidyInv'
  BY TidyStep
<1>. QED
  BY <1>1, ReclaimFollows, TidyBegins, PTL DEF Spec
=============================================================================
