------------------------ MODULE ChunkUniqueIDProofs ------------------------
(***************************************************************************)
(* What the operators on chunk names compute, for every ring size: the     *)
(* name of a chunk behaves as its number in the stream.                    *)
(***************************************************************************)
EXTENDS ChunkUniqueID, TLAPS

\* Multiplication by the ring size keeps the order, with room for a position.
LEMMA CyclesAreApart ==
  ASSUME NEW i \in Nat, NEW j \in Nat, i < j
  PROVE  i * BufferSize + BufferSize <= j * BufferSize
<1>1. BufferSize \in Nat
  BY RingAssumption
<1>2. PICK d \in Nat : j = i + 1 + d
  <2>1. j - i - 1 \in Nat /\ j = i + 1 + (j - i - 1)
    OBVIOUS
  <2>2. QED
    BY <2>1
<1>3. j * BufferSize = i * BufferSize + BufferSize + d * BufferSize
  BY <1>1, <1>2
<1>4. d * BufferSize \in Nat /\ i * BufferSize \in Nat
  BY <1>1
<1>5. QED
  BY <1>1, <1>3, <1>4

LEMMA OrdType ==
  ASSUME NEW c \in ChunkIDs
  PROVE  Ord(c) \in Nat /\ c.cycle \in Nat /\ c.pos \in Nat /\ c.pos < BufferSize
<1>1. c.cycle \in Nat /\ c.pos \in Nat /\ c.pos < BufferSize
  BY RingAssumption DEF ChunkIDs, Positions
<1>2. c.cycle * BufferSize \in Nat
  BY <1>1, RingAssumption
<1>3. QED
  BY <1>1, <1>2 DEF Ord

\* IncID names the next chunk of the stream (until the cycle itself wraps).
THEOREM IncIDIsSuccessor ==
  ASSUME NEW c \in ChunkIDs, c.cycle + 1 < CycleModulus
  PROVE  IncID(c) \in ChunkIDs /\ Ord(IncID(c)) = Ord(c) + 1
<1>1. /\ c.cycle \in Nat /\ c.pos \in Nat /\ c.pos < BufferSize
      /\ BufferSize \in Nat /\ CycleModulus \in Nat
  BY OrdType, RingAssumption
<1>2. CASE c.pos + 1 >= BufferSize
  <2>1. (c.cycle + 1) % CycleModulus = c.cycle + 1
    BY <1>1
  <2>2. IncID(c) = [cycle |-> c.cycle + 1, pos |-> 0]
    BY <1>2, <2>1 DEF IncID, ChunkID
  <2>3. (c.cycle + 1) * BufferSize = c.cycle * BufferSize + BufferSize
    BY <1>1
  <2>4. c.pos = BufferSize - 1 /\ c.cycle * BufferSize \in Nat
    BY <1>1, <1>2
  <2>5. QED
    BY <1>1, <2>2, <2>3, <2>4 DEF Ord, ChunkIDs, Positions
<1>3. CASE ~(c.pos + 1 >= BufferSize)
  <2>1. IncID(c) = [cycle |-> c.cycle, pos |-> c.pos + 1]
    BY <1>3 DEF IncID, ChunkID
  <2>2. c.cycle * BufferSize \in Nat
    BY <1>1
  <2>3. QED
    BY <1>1, <1>3, <2>1, <2>2 DEF Ord, ChunkIDs, Positions
<1>4. QED
  BY <1>2, <1>3

\* The comparison operators order names by their numbers.
THEOREM OrderIsNumeric ==
  ASSUME NEW a \in ChunkIDs, NEW b \in ChunkIDs
  PROVE  /\ Before(a, b) <=> Ord(a) < Ord(b)
         /\ After(a, b) <=> Ord(a) > Ord(b)
         /\ AtOrAfter(a, b) <=> Ord(a) >= Ord(b)
<1>1. /\ a.cycle \in Nat /\ a.pos \in Nat /\ a.pos < BufferSize
      /\ b.cycle \in Nat /\ b.pos \in Nat /\ b.pos < BufferSize
      /\ BufferSize \in Nat
  BY OrdType, RingAssumption
<1>2. a.cycle * BufferSize \in Nat /\ b.cycle * BufferSize \in Nat
  BY <1>1
<1>3. CASE a.cycle < b.cycle
  <2>1. a.cycle * BufferSize + BufferSize <= b.cycle * BufferSize
    BY <1>1, <1>3, CyclesAreApart
  <2>2. QED
    BY <1>1, <1>2, <1>3, <2>1 DEF Before, After, AtOrAfter, Ord
<1>4. CASE b.cycle < a.cycle
  <2>1. b.cycle * BufferSize + BufferSize <= a.cycle * BufferSize
    BY <1>1, <1>4, CyclesAreApart
  <2>2. QED
    BY <1>1, <1>2, <1>4, <2>1 DEF Before, After, AtOrAfter, Ord
<1>5. CASE a.cycle = b.cycle
  <2>1. /\ a = [cycle |-> a.cycle, pos |-> a.pos]
        /\ b = [cycle |-> b.cycle, pos |-> b.pos]
    BY DEF ChunkIDs
  <2>2. ASSUME a.pos = b.pos
        PROVE  a = b
    <3>1. [cycle |-> a.cycle, pos |-> a.pos] = [cycle |-> b.cycle, pos |-> b.pos]
      BY <1>5, <2>2
    <3>2. QED
      BY <2>1, <3>1, Zenon
  <2>3. QED
    BY <1>1, <1>2, <1>5, <2>2 DEF Before, After, AtOrAfter, Ord
<1>6. QED
  BY <1>1, <1>3, <1>4, <1>5

\* The test the handlers write as (a - b).GetCycle() == 0 after a >= b says that
\* b is less than one ring behind a: the slot of b has not been reused up to a.
THEOREM OneCycleMeansOneRing ==
  ASSUME NEW a \in ChunkIDs, NEW b \in ChunkIDs
  PROVE  WithinOneCycle(a, b) <=> Ord(b) <= Ord(a) /\ Ord(a) < Ord(b) + BufferSize
<1>1. /\ a.cycle \in 0 .. (CycleModulus - 1) /\ a.pos \in Nat /\ a.pos < BufferSize
      /\ b.cycle \in 0 .. (CycleModulus - 1) /\ b.pos \in Nat /\ b.pos < BufferSize
      /\ BufferSize \in Nat \ {0} /\ CycleModulus \in Nat \ {0}
  BY OrdType, RingAssumption DEF ChunkIDs
<1>2. a.cycle * BufferSize \in Nat /\ b.cycle * BufferSize \in Nat
  BY <1>1
<1>3. b.pos % BufferSize = b.pos /\ b.pos \div BufferSize = 0
  BY <1>1
<1>4. SUFFICES ASSUME Ord(b) <= Ord(a)
               PROVE  Minus(a, b).cycle = 0 <=> Ord(a) < Ord(b) + BufferSize
  BY OrderIsNumeric, OrdType DEF WithinOneCycle
<1>5. b.cycle <= a.cycle
  <2>1. SUFFICES ASSUME a.cycle < b.cycle PROVE FALSE
    BY <1>1
  <2>2. a.cycle * BufferSize + BufferSize <= b.cycle * BufferSize
    BY <1>1, <2>1, CyclesAreApart
  <2>3. QED
    BY <1>1, <1>2, <1>4, <2>2 DEF Ord
<1>6. (a.cycle - b.cycle) % CycleModulus = a.cycle - b.cycle
  BY <1>1, <1>5
<1> DEFINE borrow == IF a.pos < b.pos THEN 1 ELSE 0
<1>7. Minus(a, b).cycle = IF a.cycle - b.cycle > borrow THEN a.cycle - b.cycle - borrow
                                                       ELSE 0
  BY <1>1, <1>3, <1>6 DEF Minus, MinusInt, ChunkID
<1>8. CASE a.cycle = b.cycle
  BY <1>1, <1>2, <1>7, <1>8 DEF Ord
<1>9. CASE a.cycle = b.cycle + 1
  <2>1. a.cycle * BufferSize = b.cycle * BufferSize + BufferSize
    BY <1>1, <1>9
  <2>2. QED
    BY <1>1, <1>2, <1>7, <1>9, <2>1 DEF Ord
<1>10. CASE a.cycle > b.cycle + 1
  <2>1. (b.cycle + 1) * BufferSize + BufferSize <= a.cycle * BufferSize
    BY <1>1, <1>10, CyclesAreApart
  <2>2. (b.cycle + 1) * BufferSize = b.cycle * BufferSize + BufferSize
    BY <1>1
  <2>3. QED
    BY <1>1, <1>2, <1>7, <1>10, <2>1, <2>2 DEF Ord
<1>11. QED
  BY <1>1, <1>5, <1>8, <1>9, <1>10

\* Going back by less than a ring is exact unless the stream is younger than
\* that; then the result lies ahead of the chunk it started from.
THEOREM ShortOffset ==
  ASSUME NEW c \in ChunkIDs, NEW k \in 0 .. (BufferSize - 1)
  PROVE  /\ MinusInt(c, k) \in ChunkIDs
         /\ Ord(MinusInt(c, k)) = IF k <= Ord(c) THEN Ord(c) - k
                                                 ELSE Ord(c) - k + BufferSize
<1>1. /\ c.cycle \in 0 .. (CycleModulus - 1) /\ c.pos \in Nat /\ c.pos < BufferSize
      /\ BufferSize \in Nat \ {0} /\ CycleModulus \in Nat \ {0}
  BY OrdType, RingAssumption DEF ChunkIDs
<1>2. c.cycle * BufferSize \in Nat
  BY <1>1
<1>3. k % BufferSize = k /\ k \div BufferSize = 0
  BY <1>1
<1>4. CASE k <= c.pos
  <2>1. MinusInt(c, k) = [cycle |-> c.cycle, pos |-> c.pos - k]
    BY <1>1, <1>3, <1>4 DEF MinusInt, ChunkID
  <2>2. QED
    BY <1>1, <1>2, <1>4, <2>1 DEF Ord, ChunkIDs, Positions
<1>5. CASE k > c.pos /\ c.cycle = 0
  <2>1. MinusInt(c, k) = [cycle |-> 0, pos |-> c.pos + BufferSize - k]
    BY <1>1, <1>3, <1>5 DEF MinusInt, ChunkID
  <2>2. QED
    BY <1>1, <1>2, <1>5, <2>1 DEF Ord, ChunkIDs, Positions
<1>6. CASE k > c.pos /\ c.cycle > 0
  <2>1. MinusInt(c, k) = [cycle |-> c.cycle - 1, pos |-> c.pos + BufferSize - k]
    BY <1>1, <1>3, <1>6 DEF MinusInt, ChunkID
  <2>2. c.cycle * BufferSize = (c.cycle - 1) * BufferSize + BufferSize
    BY <1>1
  <2>3. (c.cycle - 1) * BufferSize \in Nat
    BY <1>1, <1>6
  <2>4. QED
    BY <1>1, <1>2, <1>6, <2>1, <2>2, <2>3 DEF Ord, ChunkIDs, Positions
<1>7. QED
  BY <1>1, <1>4, <1>5, <1>6
=============================================================================
