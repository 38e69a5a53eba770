--------------------------- MODULE ChunkUniqueID ---------------------------
(***************************************************************************)
(* Chunk identifiers: common/ChunkUniqueID.cpp.  A chunk is named by a     *)
(* cycle and a position in a ring of BufferSize positions, and the program *)
(* compares and subtracts such names all over the client.  Ord gives the   *)
(* number a name stands for; ChunkUniqueIDProofs shows what each operator  *)
(* computes in terms of it.                                                *)
(***************************************************************************)
EXTENDS Integers

CONSTANTS
  BufferSize,     \* STD_BUFFERSIZE, the size every received name is given
  CycleModulus    \* 2^32: the cycle is a uint32_t

ASSUME RingAssumption ==
  BufferSize \in Nat \ {0} /\ CycleModulus \in Nat \ {0}

Positions == 0 .. (BufferSize - 1)
ChunkIDs == [cycle : 0 .. (CycleModulus - 1), pos : Positions]

ChunkID(cycle, pos) == [cycle |-> cycle, pos |-> pos]

\* The first chunk of a channel: ChunkUniqueID().
FirstChunk == ChunkID(0, 0)

\* The number of the chunk in the stream.
Ord(c) == c.cycle * BufferSize + c.pos

IncIDOffByOne(c) == \* mutant
  IF c.pos >= BufferSize THEN ChunkID((c.cycle + 1) % CycleModulus, 0)
                         ELSE ChunkID(c.cycle, c.pos + 1)

\* IncID and operator++
IncID(c) ==
  IF c.pos + 1 >= BufferSize THEN ChunkID((c.cycle + 1) % CycleModulus, 0)
                             ELSE ChunkID(c.cycle, c.pos + 1)

\* operator<, and the others by way of it
Before(a, b) == a.cycle < b.cycle \/ (a.cycle = b.cycle /\ a.pos < b.pos)

After(a, b) == a.cycle > b.cycle \/ (a.cycle = b.cycle /\ a.pos > b.pos)

AtOrAfter(a, b) == After(a, b) \/ a = b

\* operator-(int).  A borrow from the cycle is counted even when there is no
\* cycle left: the cycle is then 0 but the position has wrapped around.
MinusInt(c, k) ==
  LET posToSub == k % BufferSize
      borrow == IF c.pos < posToSub THEN 1 ELSE 0
      cycleToSub == k \div BufferSize + borrow
  IN ChunkID(IF c.cycle > cycleToSub THEN c.cycle - cycleToSub ELSE 0,
             c.pos + borrow * BufferSize - posToSub)

\* operator-(ChunkUniqueID).  The cycles are subtracted as uint32_t before the
\* result is widened, so the test for a negative result never succeeds.
Minus(a, b) == MinusInt(ChunkID((a.cycle - b.cycle) % CycleModulus, a.pos), b.pos)

\* "1 cycle max diff", as the handlers test it (only when a is at or after b).
WithinOneCycle(a, b) == AtOrAfter(a, b) /\ Minus(a, b).cycle = 0
=============================================================================
