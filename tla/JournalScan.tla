---------------------------- MODULE JournalScan ----------------------------
(***************************************************************************)
(* FlashJournal::compute_cache, libs/ec-slimloader-state/src/flash.rs: the *)
(* loop that reads the partition block by block into a buffer in RAM and   *)
(* looks at the words of each block.  It must find what JournalLayout      *)
(* calls ComputeCache, whatever the partition holds and whatever the block *)
(* size is; the partition need not be a whole number of blocks.            *)
(***************************************************************************)
EXTENDS JournalLayout

CONSTANTS
    BlockWords,     \* words in the buffer: BLOCK_SIZE / 2
    Zero            \* the byte the buffer is initialised with

ASSUME BlockAssumption == BlockWords \in Nat \ {0} /\ Zero \in Bytes

VARIABLES
    flash,  \* the partition, which the scan only reads
    buf,    \* the buffer
    block,  \* block_i
    chunk,  \* chunk_i, the next word of the block to look at
    result, \* the Cache found so far
    pc      \* read, scan, done or error

vars == <<flash, buf, block, chunk, result, pc>>

BufferIndex == 0 .. BlockWords - 1

\* capacity.div_ceil(BLOCK_SIZE)
BlockCount == (Capacity + BlockWords - 1) \div BlockWords

BlockStart == block * BlockWords
BlockEnd == Min({BlockStart + BlockWords, Capacity})

\* The words of the buffer that the current block fills: the slice.
BlockLen == BlockEnd - BlockStart

TypeOK ==
    /\ flash \in [Addr -> Word]
    /\ buf \in [BufferIndex -> Word]
    /\ block \in 0 .. BlockCount
    /\ chunk \in 0 .. BlockWords
    /\ result \in Cache
    /\ pc \in {"read", "scan", "done", "error"}

Init ==
    /\ flash \in [Addr -> Word]
    /\ buf = [i \in BufferIndex |-> [data |-> Zero, crc |-> Zero]]
    /\ block = 0
    /\ chunk = 0
    /\ result = [state |-> NoState, address |-> NoAddr, empty |-> NoAddr]
    /\ pc = "read"

\* Read the next block.  What lies behind the slice stays in the buffer.
Read ==
    /\ pc = "read"
    /\ block < BlockCount
    /\ buf' = [i \in BufferIndex |->
                IF i < BlockLen THEN flash[BlockStart + i] ELSE buf[i]]
    /\ chunk' = 0
    /\ pc' = "scan"
    /\ UNCHANGED <<flash, block, result>>

ReadError ==
    /\ pc = "read"
    /\ block < BlockCount
    /\ pc' = "error"
    /\ UNCHANGED <<flash, buf, block, chunk, result>>

\* Mutant: a state does not reset the empty slot found before it.
VisitNoReset(c, w, address) ==
    IF IsState(w)
    THEN [c EXCEPT !.state = w.data, !.address = address]
    ELSE IF w = Erased /\ c.empty = NoAddr
    THEN [c EXCEPT !.empty = address]
    ELSE c

\* Mutant: the first state counts, not the last.
VisitFirst(c, w, address) ==
    IF IsState(w) /\ c.address = NoAddr
    THEN [state |-> w.data, address |-> address, empty |-> NoAddr]
    ELSE IF w = Erased /\ c.empty = NoAddr
    THEN [c EXCEPT !.empty = address]
    ELSE c

\* The match on State::try_new: a state supersedes all that was found before
\* it, an erased word counts if it is the first since, others are skipped.
Visit(c, w, address) ==
    IF IsState(w)
    THEN [state |-> w.data, address |-> address, empty |-> NoAddr]
    ELSE IF w = Erased /\ c.empty = NoAddr
    THEN [c EXCEPT !.empty = address]
    ELSE c

ScanChunk ==
    /\ pc = "scan"
    /\ chunk < BlockLen
    /\ result' = Visit(result, buf[chunk], BlockStart + chunk)
    /\ chunk' = chunk + 1
    /\ UNCHANGED <<flash, buf, block, pc>>

\* Mutant: the same block is read again.
SameBlock ==
    /\ pc = "scan"
    /\ chunk = BlockLen
    /\ chunk' = 0
    /\ pc' = "read"
    /\ UNCHANGED <<flash, buf, block, result>>

NextBlock ==
    /\ pc = "scan"
    /\ chunk = BlockLen
    /\ block' = block + 1
    /\ chunk' = 0
    /\ pc' = "read"
    /\ UNCHANGED <<flash, buf, result>>

Return ==
    /\ pc = "read"
    /\ block = BlockCount
    /\ pc' = "done"
    /\ UNCHANGED <<flash, buf, block, chunk, result>>

Next == Read \/ ReadError \/ ScanChunk \/ NextBlock \/ Return

Spec == Init /\ [][Next]_vars /\ WF_vars(Next)

-----------------------------------------------------------------------------
\* The cache that compute_cache returns is the newest valid state of the
\* partition and the first erased word behind it: no stale word of the buffer
\* is taken for one of the flash, and none of the flash is missed.
FindsNewest == pc = "done" => result = ComputeCache(flash)

\* compute_cache returns.
ScanTerminates == <>(pc \in {"done", "error"})

-----------------------------------------------------------------------------
(***************************************************************************)
(* The loop invariant: result describes the words looked at so far.        *)
(***************************************************************************)
Position == BlockStart + chunk

\* r is what a scan of the words below p finds.
Describes(r, p) ==
    /\ r.address < p /\ r.empty < p
    /\ r.address = NoAddr => r.state = NoState
    /\ r.address # NoAddr => /\ IsState(flash[r.address])
                             /\ r.state = flash[r.address].data
    /\ r.empty # NoAddr => flash[r.empty] = Erased /\ r.empty > r.address
    /\ \A a \in Addr : r.address < a /\ a < p =>
        /\ ~IsState(flash[a])
        /\ flash[a] = Erased => r.empty # NoAddr /\ r.empty <= a

ScanInv ==
    /\ \A i \in BufferIndex :
        pc = "scan" /\ i < BlockLen => buf[i] = flash[BlockStart + i]
    /\ pc = "scan" => block < BlockCount /\ chunk <= BlockLen
    /\ pc = "read" => chunk = 0
    /\ pc = "done" => block = BlockCount
    /\ Describes(result, Position)
=============================================================================
