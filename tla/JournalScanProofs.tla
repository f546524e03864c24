-------------------------- MODULE JournalScanProofs --------------------------
(***************************************************************************)
(* compute_cache finds what JournalLayout calls ComputeCache, for every    *)
(* partition, every block size and every content.                          *)
(***************************************************************************)
EXTENDS JournalScan, JournalLayoutProofs

\* Blocks cover the partition: those that are read start in it, and together
\* they reach its end.
LEMMA BlockCover ==
    /\ BlockCount \in Nat
    /\ BlockCount * BlockWords >= Capacity
    /\ \A b \in 0 .. BlockCount - 1 : b * BlockWords < Capacity
<1>1. BlockWords \in Nat /\ BlockWords > 0 /\ Capacity \in Nat /\ Capacity > 0
  BY GeometryAssumption, BlockAssumption
<1>2. BlockCount \in Nat /\ BlockCount * BlockWords >= Capacity
  BY <1>1, SMT DEF BlockCount
<1>3. BlockCount * BlockWords <= Capacity + BlockWords - 1
  BY <1>1, SMT DEF BlockCount
<1>4. ASSUME NEW b \in 0 .. BlockCount - 1 PROVE b * BlockWords < Capacity
  <2>1. (b + 1) * BlockWords <= BlockCount * BlockWords
    BY <1>1, <1>2, <1>4, SMT
  <2>2. (b + 1) * BlockWords = b * BlockWords + BlockWords
    BY <1>1, <1>2, <1>4, SMT
  <2>3. b * BlockWords \in Nat /\ BlockCount * BlockWords \in Nat
    BY <1>1, <1>2, <1>4, SMT
  <2> QED
    BY <1>1, <1>3, <2>1, <2>2, <2>3
<1> QED
  BY <1>2, <1>4

\* The slice of the buffer that a block fills, and where it ends.
LEMMA BlockFacts ==
    ASSUME block \in 0 .. BlockCount
    PROVE  /\ BlockStart \in Nat
           /\ BlockEnd <= Capacity
           /\ BlockEnd = Capacity \/ BlockEnd = BlockStart + BlockWords
           /\ BlockEnd \in Nat /\ BlockLen \in Int /\ BlockLen <= BlockWords
           /\ BlockEnd = BlockStart + BlockLen
           /\ block < BlockCount => BlockLen > 0
           /\ block = BlockCount => BlockStart >= Capacity
<1>1. BlockWords \in Nat /\ BlockWords > 0 /\ Capacity \in Nat /\ Capacity > 0
  BY GeometryAssumption, BlockAssumption
<1>2. block \in Nat /\ BlockStart \in Nat
  BY <1>1, BlockCover, SMT DEF BlockStart
<1>3. \A m, n \in Nat : Min({m, n}) = IF m <= n THEN m ELSE n
  BY MinOfTwo
<1>4. BlockEnd = IF BlockStart + BlockWords <= Capacity
                 THEN BlockStart + BlockWords ELSE Capacity
  BY <1>1, <1>2, <1>3 DEF BlockEnd
<1>5. block < BlockCount => BlockStart < Capacity
  BY <1>2, BlockCover DEF BlockStart
<1>6. block = BlockCount => BlockStart >= Capacity
  BY BlockCover DEF BlockStart
<1> QED
  BY <1>1, <1>2, <1>4, <1>5, <1>6 DEF BlockLen

ScanTypeInv == TypeOK /\ ScanInv

LEMMA ScanInit == Init => ScanTypeInv
<1> SUFFICES ASSUME Init PROVE ScanTypeInv
  OBVIOUS
<1>1. TypeOK
  BY BlockCover, BlockAssumption
     DEF Init, TypeOK, BufferIndex, Word, Cache
<1>2. Position = 0
  BY BlockAssumption DEF Init, Position, BlockStart
<1>3. ScanInv
  BY <1>2 DEF Init, ScanInv, Describes, Addr, NoAddr
<1> QED
  BY <1>1, <1>3 DEF ScanTypeInv

LEMMA ScanReadStep ==
    ASSUME ScanTypeInv, Read
    PROVE  ScanTypeInv'
<1> USE DEF ScanTypeInv
<1>1. block \in 0 .. BlockCount /\ block < BlockCount /\ chunk = 0
  BY DEF Read, TypeOK, ScanInv
<1>2. /\ BlockStart' = BlockStart /\ BlockEnd' = BlockEnd
      /\ BlockLen' = BlockLen /\ Position' = Position
  BY <1>1 DEF Read, BlockStart, BlockEnd, BlockLen, Position
<1>3. \A i \in BufferIndex : i < BlockLen => BlockStart + i \in Addr
  BY <1>1, BlockFacts, GeometryAssumption DEF BufferIndex, Addr
<1>4. buf' \in [BufferIndex -> Word]
  BY <1>3 DEF Read, TypeOK
<1>5. TypeOK'
  BY <1>4, BlockAssumption DEF Read, TypeOK
<1>6. \A i \in BufferIndex : i < BlockLen => buf'[i] = flash[BlockStart + i]
  BY DEF Read
<1>7. 0 <= BlockLen
  BY <1>1, BlockFacts
<1>8. ScanInv'
  BY <1>1, <1>2, <1>6, <1>7 DEF Read, ScanInv, Describes
<1> QED
  BY <1>5, <1>8

LEMMA ScanChunkStep ==
    ASSUME ScanTypeInv, ScanChunk
    PROVE  ScanTypeInv'
<1> USE DEF ScanTypeInv
<1>1. /\ block \in 0 .. BlockCount /\ block < BlockCount
      /\ chunk \in Nat /\ chunk < BlockLen /\ pc = "scan"
  BY BlockAssumption DEF ScanChunk, TypeOK, ScanInv
<1>2. /\ BlockStart' = BlockStart /\ BlockEnd' = BlockEnd
      /\ BlockLen' = BlockLen
  BY <1>1 DEF ScanChunk, BlockStart, BlockEnd, BlockLen
<1>3. /\ Position \in Addr /\ Position' = Position + 1
      /\ chunk \in BufferIndex
      /\ chunk + 1 <= BlockLen /\ chunk + 1 \in 0 .. BlockWords
  BY <1>1, <1>2, BlockFacts, GeometryAssumption, BlockAssumption
     DEF ScanChunk, Position, BufferIndex, Addr
<1>4. buf[chunk] = flash[Position] /\ flash[Position] \in Word
  BY <1>1, <1>3 DEF ScanInv, Position, TypeOK
<1>5. result' = Visit(result, flash[Position], Position)
  BY <1>4 DEF ScanChunk, Position
<1>6. /\ result \in Cache
      /\ result.address \in Addr \cup {NoAddr}
      /\ result.empty \in Addr \cup {NoAddr}
  BY DEF TypeOK, Cache
<1>7. result' \in Cache
  BY <1>3, <1>5, <1>6 DEF Visit, Cache, IsState
<1>8. TypeOK'
  BY <1>3, <1>7 DEF ScanChunk, TypeOK
<1>9. Describes(result, Position)
  BY DEF ScanInv
<1>10. Describes(result, Position)'
  <2>1. flash' = flash
    BY DEF ScanChunk
  <2>2. CASE IsState(flash[Position])
    <3>1. result' = [state |-> flash[Position].data, address |-> Position,
                     empty |-> NoAddr]
      BY <1>5, <2>2 DEF Visit
    <3>2. /\ Position # NoAddr /\ Position < Position + 1
          /\ NoAddr < Position + 1
      BY <1>3 DEF NoAddr, Addr
    <3>3. \A a \in Addr : ~(Position < a /\ a < Position + 1)
      BY <1>3 DEF Addr
    <3> QED
      BY <1>3, <2>1, <2>2, <3>1, <3>2, <3>3 DEF Describes
  <2>3. CASE ~IsState(flash[Position]) /\ flash[Position] = Erased /\ result.empty = NoAddr
    <3>1. result' = [result EXCEPT !.empty = Position]
      BY <1>5, <2>3 DEF Visit
    <3> QED
      BY <1>3, <1>6, <1>9, <2>1, <2>3, <3>1 DEF Describes, Cache, Addr, NoAddr
  <2>4. CASE ~IsState(flash[Position])
              /\ ~(flash[Position] = Erased /\ result.empty = NoAddr)
    <3>1. result' = result
      BY <1>5, <2>4 DEF Visit
    <3> QED
      BY <1>3, <1>6, <1>9, <2>1, <2>4, <3>1 DEF Describes, Addr, NoAddr
  <2> QED
    BY <2>2, <2>3, <2>4
<1>11. ScanInv'
  BY <1>1, <1>2, <1>3, <1>10 DEF ScanChunk, ScanInv
<1> QED
  BY <1>8, <1>11

LEMMA ScanNextBlockStep ==
    ASSUME ScanTypeInv, NextBlock
    PROVE  ScanTypeInv'
<1> USE DEF ScanTypeInv
<1>1. /\ block \in 0 .. BlockCount /\ block < BlockCount
      /\ chunk = BlockLen /\ block' = block + 1 /\ chunk' = 0
      /\ flash' = flash /\ result' = result /\ pc' = "read"
  BY DEF NextBlock, TypeOK, ScanInv
<1>2. TypeOK'
  BY <1>1, BlockCover, BlockAssumption DEF NextBlock, TypeOK
<1>3. Position = BlockEnd
  BY <1>1, BlockFacts DEF Position
<1>4. Position' = BlockStart + BlockWords
  <2>1. (block + 1) * BlockWords = block * BlockWords + BlockWords
    BY <1>1, BlockCover, BlockAssumption, SMT
  <2>2. BlockStart' = (block + 1) * BlockWords
    BY <1>1 DEF BlockStart
  <2>3. BlockStart + BlockWords \in Nat
    BY <1>1, BlockFacts, BlockAssumption
  <2> QED
    BY <1>1, <2>1, <2>2, <2>3 DEF BlockStart, Position
\* Between the old position and the new one lies no word of the partition.
<1>5. /\ Position \in Nat /\ Position' \in Nat /\ Position <= Position'
      /\ \A a \in Addr : a < Position' => a < Position
  BY <1>1, <1>3, <1>4, BlockFacts, BlockAssumption, GeometryAssumption DEF Addr
<1>6. Describes(result, Position)'
  <2>1. Describes(result, Position)
    BY DEF ScanInv
  <2>2. result.address \in Int /\ result.empty \in Int
    BY GeometryAssumption DEF TypeOK, Cache, Addr, NoAddr
  <2> QED
    BY <1>1, <1>5, <2>1, <2>2 DEF Describes
<1>7. ScanInv'
  BY <1>1, <1>6 DEF ScanInv
<1> QED
  BY <1>2, <1>7

LEMMA ScanStep == ScanTypeInv /\ [Next]_vars => ScanTypeInv'
<1> SUFFICES ASSUME ScanTypeInv, [Next]_vars PROVE ScanTypeInv'
  OBVIOUS
<1>1. CASE Read
  BY <1>1, ScanReadStep
<1>2. CASE ScanChunk
  BY <1>2, ScanChunkStep
<1>3. CASE NextBlock
  BY <1>3, ScanNextBlockStep
<1>4. CASE ReadError \/ Return \/ UNCHANGED vars
  <2>1. UNCHANGED <<flash, buf, block, chunk, result>>
    BY <1>4 DEF ReadError, Return, vars
  <2>2. \/ pc' = "error"
        \/ pc' = "done" /\ block = BlockCount
        \/ pc' = pc
    BY <1>4 DEF ReadError, Return, vars
  <2>3. TypeOK'
    BY <2>1, <2>2 DEF ScanTypeInv, TypeOK
  <2>4. Position' = Position /\ BlockStart' = BlockStart /\ BlockLen' = BlockLen
    BY <2>1 DEF Position, BlockStart, BlockEnd, BlockLen
  <2>5. Describes(result, Position)'
    BY <2>1, <2>4 DEF ScanTypeInv, ScanInv, Describes
  <2>6. ScanInv'
    BY <2>1, <2>2, <2>4, <2>5 DEF ScanTypeInv, ScanInv
  <2> QED
    BY <2>3, <2>6 DEF ScanTypeInv
<1> QED
  BY <1>1, <1>2, <1>3, <1>4 DEF Next

LEMMA ScanAlways == Spec => []ScanTypeInv
  BY ScanInit, ScanStep, PTL DEF Spec

\* The loop invariant of compute_cache.
THEOREM ScanInvariant == Spec => []ScanInv
<1>1. ScanTypeInv => ScanInv
  BY DEF ScanTypeInv
<1> QED
  BY <1>1, ScanAlways, PTL

LEMMA DescribesAll ==
    ASSUME TypeOK, NEW p \in Nat, p >= Capacity, Describes(result, p)
    PROVE  result = ComputeCache(flash)
<1>1. /\ result.address \in Addr \cup {NoAddr}
      /\ result.empty \in Addr \cup {NoAddr}
      /\ result = [state |-> result.state, address |-> result.address,
                   empty |-> result.empty]
  BY DEF TypeOK, Cache
<1>2. \A a \in Addr : a < p
  BY GeometryAssumption DEF Addr
<1>3. \A a \in Addr : a > NoAddr
  BY DEF Addr, NoAddr
<1>4. LastValid(flash) = result.address /\ Durable(flash) = result.state
  <2>1. CASE result.address = NoAddr
    <3>1. \A a \in Addr : ~IsState(flash[a])
      BY <1>2, <1>3, <2>1 DEF Describes
    <3> QED
      BY <2>1, <3>1, NoneIsDurable DEF Describes
  <2>2. CASE result.address # NoAddr
    <3>1. /\ result.address \in Addr /\ IsState(flash[result.address])
          /\ result.state = flash[result.address].data
          /\ \A b \in Addr : b > result.address => ~IsState(flash[b])
      BY <1>1, <1>2, <2>2 DEF Describes, Addr
    <3> QED
      BY <3>1, NewestIsDurable
  <2> QED
    BY <2>1, <2>2
<1>5. FirstEmpty(flash) = result.empty
  <2>1. \A a \in Addr : a > result.address /\ flash[a] = Erased =>
            result.empty # NoAddr /\ result.empty <= a
    BY <1>1, <1>2 DEF Describes, Addr, NoAddr
  <2>2. result.empty # NoAddr => /\ result.empty \in Addr
                                 /\ flash[result.empty] = Erased
                                 /\ result.empty > result.address
    BY <1>1 DEF Describes
  <2>3. FirstEmpty(flash) # NoAddr => /\ FirstEmpty(flash) \in Addr
                                      /\ flash[FirstEmpty(flash)] = Erased
                                      /\ FirstEmpty(flash) > result.address
    BY <1>4, ScanEmpty
  <2>4. \A b \in Addr : b > result.address /\ flash[b] = Erased =>
            FirstEmpty(flash) # NoAddr /\ FirstEmpty(flash) <= b
    BY <1>4, ScanEmpty
  <2> QED
    BY <2>1, <2>2, <2>3, <2>4 DEF Addr
<1> QED
  BY <1>1, <1>4, <1>5 DEF ComputeCache

\* compute_cache returns the newest state and the first free word behind it,
\* also when the last block is short and the buffer still holds words of the
\* block before.
THEOREM ScanCorrect == Spec => []FindsNewest
<1>1. ScanTypeInv => FindsNewest
  <2> SUFFICES ASSUME ScanTypeInv, pc = "done" PROVE result = ComputeCache(flash)
    BY DEF FindsNewest
  <2>1. TypeOK /\ block \in 0 .. BlockCount /\ block = BlockCount /\ chunk \in Nat
    BY BlockAssumption DEF ScanTypeInv, TypeOK, ScanInv
  <2>2. Position \in Nat /\ Position >= Capacity
    BY <2>1, BlockFacts, GeometryAssumption DEF Position
  <2>3. Describes(result, Position)
    BY DEF ScanTypeInv, ScanInv
  <2> QED
    BY <2>1, <2>2, <2>3, DescribesAll
<1> QED
  BY <1>1, ScanAlways, PTL
=============================================================================
