---------------------------- MODULE FlashJournal ----------------------------
(***************************************************************************)
(* The boot journal, libs/ec-slimloader-state/src/flash.rs: FlashJournal   *)
(* keeps the newest boot State in a NOR flash partition by appending       *)
(* two-byte words to it, and makes room by erasing pages in an order that  *)
(* keeps a State readable at every instant.                                *)
(*                                                                         *)
(* `set` is an async call that programs and erases the medium byte by      *)
(* byte; a step of this module is one byte.  Between any two steps the     *)
(* power may fail (everything but the flash is lost), or the medium may    *)
(* report an error (the call returns Err and leaves its cache as it was).  *)
(***************************************************************************)
EXTENDS JournalLayout

CONSTANTS
    InitialFlash,   \* what the partition may hold when it is first used
    FaultyMedium,   \* TRUE: a byte operation may silently leave any byte
    CallerRetries   \* TRUE: a holder calls set again after an Err

ASSUME EnvironmentAssumption ==
    /\ InitialFlash \subseteq [Addr -> Word]
    /\ FaultyMedium \in BOOLEAN
    /\ CallerRetries \in BOOLEAN

VARIABLES
    flash,  \* the contents of the partition, the only state that persists
    cache,  \* FlashJournal.cache: last_valid_state and first_empty_slot
    pc,     \* where the holder of the journal is
    at,     \* the word the medium is working on
    half,   \* the first byte of that word is done
    arg     \* the state passed to set

vars == <<flash, cache, pc, at, half, arg>>

NoCache == [state |-> NoState, address |-> NoAddr, empty |-> NoAddr]

\* The steps of a set in progress.  Those of one call, in order, are:
\*   an empty slot is left:        append, readback
\*   full, newest not in page 0:   eraseFirst, writeFirst, eraseRest, readback
\*   full, newest in page 0:       eraseTail, writeSecond, readback
\*   full, and no state at all:    eraseAll, writeBlank, readback
Setting == {"append", "eraseFirst", "writeFirst", "eraseRest",
            "eraseTail", "writeSecond", "eraseAll", "writeBlank", "readback"}

\* off: no handle exists.  refused: new returned an error.
\* ready: new or set returned Ok.  rejected: set returned ReadbackFailed.
\* failed: the medium reported an error.
Resting == {"off", "refused", "ready", "rejected", "failed"}

TypeOK ==
    /\ flash \in [Addr -> Word]
    /\ cache \in Cache
    /\ pc \in Setting \cup Resting
    /\ at \in Addr
    /\ half \in BOOLEAN
    /\ arg \in StateData \cup {NoState}

Init ==
    /\ flash \in InitialFlash
    /\ cache = NoCache
    /\ pc = "off"
    /\ at = 0
    /\ half = FALSE
    /\ arg = NoState

-----------------------------------------------------------------------------
(***************************************************************************)
(* The medium: a NorFlash that erases and programs in ascending order,     *)
(* one byte at a time (flash/mock.rs; the real part is external).          *)
(***************************************************************************)
\* What a byte holds after the medium was told to make it v.
Settled(v) == IF FaultyMedium THEN Bytes ELSE {v}

\* Programming can only clear bits: over anything but an erased byte the
\* outcome is the conjunction of both, which can be any byte.
Programmed(old, v) == IF old = FF THEN Settled(v) ELSE Bytes

\* Program arg into the word at, then continue with the step `then` at word
\* `next`.
Write(then, next) ==
    \/ /\ ~half
       /\ \E b \in Programmed(flash[at].data, arg) :
            flash' = [flash EXCEPT ![at].data = b]
       /\ half' = TRUE
       /\ UNCHANGED <<cache, pc, at, arg>>
    \/ /\ half
       /\ \E b \in Programmed(flash[at].crc, Crc[arg]) :
            flash' = [flash EXCEPT ![at].crc = b]
       /\ half' = FALSE
       /\ pc' = then
       /\ at' = next
       /\ UNCHANGED <<cache, arg>>

\* Mutant: the last page is followed by one word more.
EraseTooFar(end, then, next) ==
    \/ /\ ~half
       /\ \E b \in Settled(FF) : flash' = [flash EXCEPT ![at].data = b]
       /\ half' = TRUE
       /\ UNCHANGED <<cache, pc, at, arg>>
    \/ /\ half
       /\ \E b \in Settled(FF) : flash' = [flash EXCEPT ![at].crc = b]
       /\ half' = FALSE
       /\ IF at + 1 <= end
          THEN at' = at + 1 /\ pc' = pc
          ELSE at' = next /\ pc' = then
       /\ UNCHANGED <<cache, arg>>

\* Erase from the word at up to the word end.
Erase(end, then, next) ==
    \/ /\ ~half
       /\ \E b \in Settled(FF) : flash' = [flash EXCEPT ![at].data = b]
       /\ half' = TRUE
       /\ UNCHANGED <<cache, pc, at, arg>>
    \/ /\ half
       /\ \E b \in Settled(FF) : flash' = [flash EXCEPT ![at].crc = b]
       /\ half' = FALSE
       /\ IF at + 1 < end
          THEN at' = at + 1 /\ pc' = pc
          ELSE at' = next /\ pc' = then
       /\ UNCHANGED <<cache, arg>>

-----------------------------------------------------------------------------
(***************************************************************************)
(* FlashJournal::new.                                                      *)
(***************************************************************************)
New ==
    /\ pc = "off"
    /\ PageCount >= 2
    /\ pc' = "ready"
    /\ cache' = ComputeCache(flash)
    /\ UNCHANGED <<flash, at, half, arg>>

\* There are too few pages, or the read in compute_cache fails: the caller
\* gets Err, and no handle.
NewError ==
    /\ pc = "off"
    /\ pc' = "refused"
    /\ UNCHANGED <<flash, cache, at, half, arg>>

-----------------------------------------------------------------------------
(***************************************************************************)
(* FlashJournal::set, up to its first operation on the medium.             *)
(***************************************************************************)
Callable == pc = "ready" \/ (CallerRetries /\ pc \in {"rejected", "failed"})

Begin(s, step, word) ==
    /\ Callable
    /\ cache.state # s
    /\ pc' = step
    /\ at' = word
    /\ half' = FALSE
    /\ arg' = s
    /\ UNCHANGED <<flash, cache>>

\* The journal already holds s.
SetSame(s) ==
    /\ Callable
    /\ cache.state = s
    /\ pc' = "ready"
    /\ arg' = s
    /\ UNCHANGED <<flash, cache, at, half>>

SetAppend(s) ==
    /\ cache.empty # NoAddr
    /\ Begin(s, "append", cache.empty)

\* Mutant: the page of the newest state is not looked at.
SetWrapAnywhere(s) ==
    /\ cache.empty = NoAddr
    /\ cache.address # NoAddr
    /\ Begin(s, "eraseFirst", PageStart(0))

\* The newest state is not in the first page, so that page goes first.
SetWrap(s) ==
    /\ cache.empty = NoAddr
    /\ cache.address # NoAddr
    /\ AddressToPage(cache.address) > 0
    /\ Begin(s, "eraseFirst", PageStart(0))

\* The newest state is in the first page: the other pages go.
SetTail(s) ==
    /\ cache.empty = NoAddr
    /\ cache.address # NoAddr
    /\ AddressToPage(cache.address) = 0
    /\ Begin(s, "eraseTail", PageStart(1))

SetBlank(s) ==
    /\ cache.empty = NoAddr
    /\ cache.address = NoAddr
    /\ Begin(s, "eraseAll", 0)

(***************************************************************************)
(* The rest of set.                                                        *)
(***************************************************************************)
Append == pc = "append" /\ Write("readback", 0)

\* Mutant: all pages are erased before the new state is written.
EraseFirstAndRest ==
    pc = "eraseFirst" /\ Erase(PageEnd(PageCount), "writeFirst", 0)

EraseFirst == pc = "eraseFirst" /\ Erase(PageEnd(1), "writeFirst", 0)
WriteFirst == pc = "writeFirst" /\ Write("eraseRest", PageStart(1))
EraseRest == pc = "eraseRest" /\ Erase(PageEnd(PageCount), "readback", 0)

EraseTail ==
    pc = "eraseTail" /\ Erase(PageEnd(PageCount), "writeSecond", PageStart(1))
WriteSecond == pc = "writeSecond" /\ Write("readback", 0)

EraseAll == pc = "eraseAll" /\ Erase(Capacity, "writeBlank", 0)
WriteBlank == pc = "writeBlank" /\ Write("readback", 0)

\* Mutant: the cache is patched instead of recomputed.
ReadbackPatches ==
    /\ pc = "readback"
    /\ cache' = [cache EXCEPT !.state = arg]
    /\ pc' = "ready"
    /\ UNCHANGED <<flash, at, half, arg>>

\* Mutant: the outcome is not compared.
ReadbackTrusts ==
    /\ pc = "readback"
    /\ cache' = ComputeCache(flash)
    /\ pc' = "ready"
    /\ UNCHANGED <<flash, at, half, arg>>

\* Mutant: read again until the state shows up.
ReadbackRepeats ==
    /\ pc = "readback"
    /\ cache' = ComputeCache(flash)
    /\ pc' = IF cache'.state = arg THEN "ready" ELSE "readback"
    /\ UNCHANGED <<flash, at, half, arg>>

\* Recompute the cache and compare what it says with what was asked for.
Readback ==
    /\ pc = "readback"
    /\ cache' = ComputeCache(flash)
    /\ pc' = IF cache'.state = arg THEN "ready" ELSE "rejected"
    /\ UNCHANGED <<flash, at, half, arg>>

\* Any erase, write or read of the medium may report an error.
IoError ==
    /\ pc \in Setting
    /\ pc' = "failed"
    /\ at' = 0
    /\ half' = FALSE
    /\ UNCHANGED <<flash, cache, arg>>

\* Power loss, or a reset; also what a holder does that drops its handle.
PowerLoss ==
    /\ pc # "off"
    /\ pc' = "off"
    /\ cache' = NoCache
    /\ at' = 0
    /\ half' = FALSE
    /\ arg' = NoState
    /\ UNCHANGED flash

-----------------------------------------------------------------------------
Call ==
    \E s \in StateData :
        SetSame(s) \/ SetAppend(s) \/ SetWrap(s) \/ SetTail(s) \/ SetBlank(s)

\* The steps set takes by itself once it was called.
Step ==
    \/ Append
    \/ EraseFirst \/ WriteFirst \/ EraseRest
    \/ EraseTail \/ WriteSecond
    \/ EraseAll \/ WriteBlank
    \/ Readback

Next == New \/ NewError \/ Call \/ Step \/ IoError \/ PowerLoss

Spec == Init /\ [][Next]_vars

\* set is driven by an executor that polls it until it is done: while there
\* is power it takes its next step.
FairSpec == Spec /\ WF_vars(Step)

-----------------------------------------------------------------------------
(***************************************************************************)
(* Properties.                                                             *)
(***************************************************************************)
\* A handle that `set` may be called on agrees with the flash: the cache
\* that get() reads and that the next set relies on is what a fresh scan of
\* the partition would yield.
CacheCoherent == pc \in {"ready", "rejected"} => cache = ComputeCache(flash)

\* Wherever a set is cut short, by a power loss or by an error of the medium,
\* the next scan finds the state that was current when set was called or the
\* one it was called with: never an older one, never none.
OldOrNew ==
    pc \in Setting \cup {"failed"} => Durable(flash) \in {cache.state, arg}

\* Without faults of the medium the readback at the end of set never fails:
\* the word just written has become the newest one, whatever interrupted sets
\* have left behind in the other words.
ReadbackSucceeds == pc # "rejected"

\* A set that returned Ok has stored its argument, even on a medium that
\* silently stores something else: the readback catches it.
OkIsDurable == pc = "ready" /\ arg # NoState => Durable(flash) = arg

\* NOR flash clears bits and can set them only by an erase: no step programs
\* a byte that is not erased.
ProgramsOnlyErased ==
    [][\A a \in Addr, b \in {"data", "crc"} :
        \/ flash'[a][b] \in {flash[a][b], FF}
        \/ flash[a][b] = FF]_vars

\* A set comes to an end: it returns, or the power fails.
SetTerminates == pc \in Setting ~> pc \notin Setting

\* The comment in the wrap-around branch of set: "Last valid state is not in
\* the first page, so we can erase it freely."
FirstPageIsFree ==
    pc = "eraseFirst" => LastValid(flash) \notin PageStart(0) .. PageEnd(1) - 1

-----------------------------------------------------------------------------
(***************************************************************************)
(* The journal is a register that survives power loss.  A set takes effect *)
(* when the scan of the flash starts to find the new state: with the last  *)
(* byte of an append, or, when the journal wraps around, with the first    *)
(* byte erased of the old state.                                           *)
(***************************************************************************)
Handle == CASE pc \in {"off", "refused"} -> "closed"
            [] pc = "ready" -> "open"
            [] pc \in Setting -> "setting"
            [] pc \in {"rejected", "failed"} -> "broken"

Register == INSTANCE StateRegister WITH
    Values <- StateData, NoValue <- NoState,
    stored <- Durable(flash), handle <- Handle, view <- cache.state, arg <- arg

\* The journal implements StateRegister.
ImplementsRegister == Register!Spec

-----------------------------------------------------------------------------
(***************************************************************************)
(* The invariant behind these properties, for a medium without faults and  *)
(* holders that do not call set again after an error.  It says of every    *)
(* step of set what the flash holds relative to the cache, which is that   *)
(* of before the call.                                                     *)
(***************************************************************************)
\* The state in the cache is in its place, and no word behind it is a state,
\* the word a possibly excepted.
CachedUpTo(a) ==
    /\ cache.address # NoAddr => /\ cache.state \in StateData
                                 /\ flash[cache.address] = StateWord(cache.state)
    /\ cache.address = NoAddr => cache.state = NoState
    /\ \A b \in Addr : b > cache.address /\ b # a => ~IsState(flash[b])

ErasedFrom(lo, hi) == \A b \in Addr : lo <= b /\ b < hi => flash[b] = Erased

\* The word at is being programmed, or erased.
Programming == flash[at] = IF half THEN [data |-> arg, crc |-> FF] ELSE Erased
Wiping == half => flash[at].data = FF

\* The old state has not been touched by the erase that validates the new one.
OldRemains == at < cache.address \/ (at = cache.address /\ ~half)

AppendInv ==
    pc = "append" => /\ at > cache.address
                     /\ Programming
                     /\ CachedUpTo(at)

WrapInv ==
    /\ pc \in {"eraseFirst", "writeFirst", "eraseRest"} =>
        cache.address >= PageWords
    /\ pc = "eraseFirst" => /\ at < PageWords
                            /\ Wiping
                            /\ CachedUpTo(NoAddr)
                            /\ ErasedFrom(0, at)
    /\ pc = "writeFirst" => /\ at = 0
                            /\ Programming
                            /\ CachedUpTo(NoAddr)
                            /\ ErasedFrom(1, PageWords)
    /\ pc = "eraseRest" => /\ at >= PageWords
                           /\ Wiping
                           /\ flash[0] = StateWord(arg)
                           /\ ErasedFrom(1, at)
                           /\ \A b \in Addr : b > cache.address => ~IsState(flash[b])
                           /\ cache.state \in StateData
                           /\ OldRemains =>
                                flash[cache.address] = StateWord(cache.state)

TailInv ==
    /\ pc \in {"eraseTail", "writeSecond"} =>
        cache.address \in 0 .. PageWords - 1
    /\ pc = "eraseTail" => /\ at >= PageWords
                           /\ Wiping
                           /\ CachedUpTo(NoAddr)
                           /\ ErasedFrom(PageWords, at)
    /\ pc = "writeSecond" => /\ at = PageWords
                             /\ Programming
                             /\ CachedUpTo(at)

BlankInv ==
    /\ pc \in {"eraseAll", "writeBlank"} => cache.address = NoAddr
    /\ pc = "eraseAll" => /\ Wiping
                          /\ CachedUpTo(NoAddr)
                          /\ ErasedFrom(0, at)
    /\ pc = "writeBlank" => /\ at = 0
                            /\ Programming
                            /\ CachedUpTo(at)

\* The new state has become the one that a scan finds.
Committed ==
    \/ pc = "readback"
    \/ pc = "eraseRest" /\ ~OldRemains
    \/ pc \in {"append", "writeSecond", "writeBlank"} /\ half /\ Crc[arg] = FF

\* What holds of every handle, and of every set in progress.
OpenInv ==
    /\ pc \notin {"off", "refused"} => Capacity > PageWords
    /\ pc \in Setting => arg \in StateData
    /\ pc \in Resting \cup {"readback"} => ~half
    /\ pc \in {"off", "refused"} => cache.state = NoState /\ arg = NoState
    /\ pc = "ready" /\ arg # NoState => cache.state = arg

\* What holds at every step of a set, and after one that failed.
SetInv ==
    /\ pc \in Setting => cache.state # arg
    /\ AppendInv
    /\ WrapInv
    /\ TailInv
    /\ BlankInv
    /\ pc = "readback" => Durable(flash) = arg
    /\ pc = "failed" => Durable(flash) \in {cache.state, arg}
=============================================================================
