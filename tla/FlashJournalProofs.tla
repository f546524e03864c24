------------------------- MODULE FlashJournalProofs -------------------------
(***************************************************************************)
(* Proofs about FlashJournal, for partitions of every size, any codec that *)
(* satisfies CodecAssumption and any initial contents.                     *)
(***************************************************************************)
EXTENDS FlashJournal, JournalLayoutProofs

\* A byte written to the word a changes that word only.
LEMMA ByteWritten ==
    ASSUME NEW f \in [Addr -> Word], NEW a \in Addr, NEW b \in Bytes
    PROVE  /\ [f EXCEPT ![a].data = b] \in [Addr -> Word]
           /\ [f EXCEPT ![a].data = b][a] = [data |-> b, crc |-> f[a].crc]
           /\ \A c \in Addr : c # a => [f EXCEPT ![a].data = b][c] = f[c]
           /\ [f EXCEPT ![a].crc = b] \in [Addr -> Word]
           /\ [f EXCEPT ![a].crc = b][a] = [data |-> f[a].data, crc |-> b]
           /\ \A c \in Addr : c # a => [f EXCEPT ![a].crc = b][c] = f[c]
  BY DEF Word

\* What the medium may leave in a byte is a byte.
LEMMA ProgrammedType ==
    ASSUME NEW old, NEW v \in Bytes
    PROVE  Programmed(old, v) \subseteq Bytes /\ Settled(v) \subseteq Bytes
  BY DEF Programmed, Settled

-----------------------------------------------------------------------------
(***************************************************************************)
(* Type correctness, on any medium and for any holder.                     *)
(***************************************************************************)
TypeInv == TypeOK /\ OpenInv

LEMMA TypeInit == Init => TypeInv
<1> SUFFICES ASSUME Init PROVE TypeInv
  OBVIOUS
<1>1. 0 \in Addr /\ NoAddr \in Addr \cup {NoAddr}
  BY GeometryAssumption DEF Addr
<1> QED
  BY <1>1, EnvironmentAssumption, Zenon
     DEF Init, TypeInv, TypeOK, OpenInv, NoCache, Cache, Setting, Resting

\* A step of Write keeps the types if its continuation does.
LEMMA WriteType ==
    ASSUME TypeOK, arg \in StateData, NEW then, NEW next \in Addr, Write(then, next)
    PROVE  /\ flash' \in [Addr -> Word]
           /\ at' \in Addr
           /\ half' \in BOOLEAN
           /\ cache' = cache /\ arg' = arg
           /\ pc' = pc \/ (pc' = then /\ half' = FALSE)
<1>1. CASE ~half
  <2>1. PICK b \in Programmed(flash[at].data, arg) :
            flash' = [flash EXCEPT ![at].data = b]
    BY <1>1 DEF Write
  <2>2. b \in Bytes
    BY <2>1, CodecAssumption, ProgrammedType
  <2>3. flash' \in [Addr -> Word]
    BY <2>1, <2>2, ByteWritten DEF TypeOK
  <2>4. half' = TRUE /\ cache' = cache /\ pc' = pc /\ at' = at /\ arg' = arg
    BY <1>1 DEF Write
  <2>5. at' \in Addr
    BY <2>4 DEF TypeOK
  <2>6. half' \in BOOLEAN
    BY <2>4
  <2> QED
    BY <2>3, <2>4, <2>5, <2>6
<1>2. CASE half
  <2>1. PICK b \in Programmed(flash[at].crc, Crc[arg]) :
            flash' = [flash EXCEPT ![at].crc = b]
    BY <1>2 DEF Write
  <2>2. b \in Bytes
    BY <2>1, CodecAssumption, ProgrammedType
  <2>3. flash' \in [Addr -> Word]
    BY <2>1, <2>2, ByteWritten DEF TypeOK
  <2>4. half' = FALSE /\ cache' = cache /\ pc' = then /\ at' = next /\ arg' = arg
    BY <1>2 DEF Write
  <2> QED
    BY <2>3, <2>4, Zenon
<1> QED
  BY <1>1, <1>2

LEMMA EraseType ==
    ASSUME TypeOK, NEW end \in 0 .. Capacity, NEW then, NEW next \in Addr,
           Erase(end, then, next)
    PROVE  /\ flash' \in [Addr -> Word]
           /\ at' \in Addr
           /\ half' \in BOOLEAN
           /\ cache' = cache /\ arg' = arg
           /\ pc' = pc \/ (pc' = then /\ half' = FALSE)
<1>1. CASE ~half
  <2>1. PICK b \in Settled(FF) : flash' = [flash EXCEPT ![at].data = b]
    BY <1>1 DEF Erase
  <2>2. b \in Bytes
    BY <2>1, CodecAssumption, ProgrammedType
  <2>3. flash' \in [Addr -> Word]
    BY <2>1, <2>2, ByteWritten DEF TypeOK
  <2>4. half' = TRUE /\ cache' = cache /\ pc' = pc /\ at' = at /\ arg' = arg
    BY <1>1 DEF Erase
  <2>5. at' \in Addr
    BY <2>4 DEF TypeOK
  <2>6. half' \in BOOLEAN
    BY <2>4
  <2> QED
    BY <2>3, <2>4, <2>5, <2>6
<1>2. CASE half
  <2>1. PICK b \in Settled(FF) : flash' = [flash EXCEPT ![at].crc = b]
    BY <1>2 DEF Erase
  <2>2. b \in Bytes
    BY <2>1, CodecAssumption, ProgrammedType
  <2>3. flash' \in [Addr -> Word]
    BY <2>1, <2>2, ByteWritten DEF TypeOK
  <2>4. at' \in Addr
    BY <1>2, GeometryAssumption DEF Erase, TypeOK, Addr
  <2> QED
    BY <1>2, <2>3, <2>4 DEF Erase
<1> QED
  BY <1>1, <1>2 DEF TypeOK

LEMMA TypeStep == TypeInv /\ [Next]_vars => TypeInv'
<1> SUFFICES ASSUME TypeInv, [Next]_vars PROVE TypeInv'
  OBVIOUS
<1> USE DEF TypeInv
<1>0. 0 \in Addr /\ Capacity \in 0 .. Capacity
  BY GeometryAssumption DEF Addr
<1>a. Capacity > PageWords =>
        /\ PageStart(1) \in Addr
        /\ PageEnd(1) \in 0 .. Capacity
        /\ PageEnd(PageCount) \in 0 .. Capacity
  BY PageFacts, GeometryAssumption DEF Addr
<1>1. CASE New
  <2>1. cache' \in Cache
    BY <1>1, ComputeCacheType DEF New, TypeOK
  <2> QED
    BY <1>1, <2>1, PageFacts DEF New, TypeOK, OpenInv, Setting, Resting
<1>2. CASE NewError
  BY <1>2 DEF NewError, TypeOK, OpenInv, Setting, Resting
<1>3. CASE Call
  <2>1. PICK s \in StateData :
            SetSame(s) \/ SetAppend(s) \/ SetWrap(s) \/ SetTail(s) \/ SetBlank(s)
    BY <1>3 DEF Call
  <2>2. Callable => Capacity > PageWords
    BY DEF Callable, OpenInv
  <2>3. CASE SetSame(s)
    BY <2>2, <2>3 DEF SetSame, Callable, TypeOK, OpenInv, Setting, Resting
  <2>4. ASSUME NEW step \in Setting, NEW word \in Addr, Begin(s, step, word)
        PROVE  TypeInv'
    BY <2>2, <2>4 DEF Begin, TypeOK, OpenInv, Setting, Resting
  <2>5. CASE SetAppend(s)
    <3>1. cache.empty \in Addr
      BY <2>5 DEF SetAppend, TypeOK, Cache
    <3> QED
      BY <2>4, <2>5, <3>1 DEF SetAppend, Setting
  <2>6. CASE SetWrap(s)
    BY <1>0, <2>4, <2>6, PageFacts DEF SetWrap, Setting
  <2>7. CASE SetTail(s)
    BY <1>a, <2>2, <2>4, <2>7 DEF SetTail, Begin, Setting
  <2>8. CASE SetBlank(s)
    BY <1>0, <2>4, <2>8 DEF SetBlank, Setting
  <2> QED
    BY <2>1, <2>3, <2>5, <2>6, <2>7, <2>8
<1>4. CASE Step
  <2>1. pc \in Setting /\ Capacity > PageWords /\ arg \in StateData
    BY <1>4 DEF Step, Append, EraseFirst, WriteFirst, EraseRest, EraseTail,
                WriteSecond, EraseAll, WriteBlank, Readback, OpenInv, Setting
  <2>2. ASSUME NEW then \in Setting, NEW next \in Addr, Write(then, next),
               pc # "readback"
        PROVE  TypeInv'
    BY <2>1, <2>2, WriteType DEF TypeOK, OpenInv, Setting, Resting
  <2>3. ASSUME NEW end \in 0 .. Capacity, NEW then \in Setting,
               NEW next \in Addr, Erase(end, then, next), pc # "readback"
        PROVE  TypeInv'
    BY <2>1, <2>3, EraseType DEF TypeOK, OpenInv, Setting, Resting
  <2>4. CASE Append
    BY <1>0, <2>2, <2>4 DEF Append, Setting
  <2>5. CASE EraseFirst
    BY <1>0, <1>a, <2>1, <2>3, <2>5 DEF EraseFirst, Setting
  <2>6. CASE WriteFirst
    BY <1>a, <2>1, <2>2, <2>6 DEF WriteFirst, Setting
  <2>7. CASE EraseRest
    BY <1>0, <1>a, <2>1, <2>3, <2>7 DEF EraseRest, Setting
  <2>8. CASE EraseTail
    BY <1>a, <2>1, <2>3, <2>8 DEF EraseTail, Setting
  <2>9. CASE WriteSecond
    BY <1>0, <2>2, <2>9 DEF WriteSecond, Setting
  <2>10. CASE EraseAll
    BY <1>0, <2>3, <2>10 DEF EraseAll, Setting
  <2>11. CASE WriteBlank
    BY <1>0, <2>2, <2>11 DEF WriteBlank, Setting
  <2>12. CASE Readback
    <3>1. cache' \in Cache
      BY <2>12, ComputeCacheType DEF Readback, TypeOK
    <3> QED
      BY <2>1, <2>12, <3>1 DEF Readback, TypeOK, OpenInv, Setting, Resting
  <2> QED
    BY <1>4, <2>4, <2>5, <2>6, <2>7, <2>8, <2>9, <2>10, <2>11, <2>12 DEF Step
<1>5. CASE IoError
  BY <1>0, <1>5 DEF IoError, TypeOK, OpenInv, Setting, Resting
<1>6. CASE PowerLoss
  BY <1>0, <1>6 DEF PowerLoss, NoCache, Cache, TypeOK, OpenInv, Setting, Resting
<1>7. CASE UNCHANGED vars
  BY <1>7 DEF vars, TypeOK, OpenInv
<1> QED
  BY <1>1, <1>2, <1>3, <1>4, <1>5, <1>6, <1>7 DEF Next

\* Every variable keeps its type: in particular the medium is never asked to
\* work on a word outside the partition, in any branch of set.
THEOREM TypeCorrect == Spec => []TypeOK
<1>1. Spec => []TypeInv
  BY TypeInit, TypeStep, PTL DEF Spec
<1>2. TypeInv => TypeOK
  BY DEF TypeInv
<1> QED
  BY <1>1, <1>2, PTL

-----------------------------------------------------------------------------
(***************************************************************************)
(* The cache and the flash agree, on any medium.                           *)
(***************************************************************************)
LEMMA CoherentStep ==
    ASSUME ~CallerRetries, TypeInv, CacheCoherent, [Next]_vars
    PROVE  CacheCoherent'
<1> USE DEF CacheCoherent
<1>1. CASE New
  BY <1>1 DEF New
<1>2. CASE NewError
  BY <1>2 DEF NewError
<1>3. CASE Call
  BY <1>3 DEF Call, SetSame, SetAppend, SetWrap, SetTail, SetBlank, Begin, Callable
<1>4. CASE Readback
  BY <1>4 DEF Readback
<1>5. CASE Step /\ ~Readback
  <2>1. pc \in Setting \ {"readback"}
    BY <1>5 DEF Step, Append, EraseFirst, WriteFirst, EraseRest, EraseTail,
                WriteSecond, EraseAll, WriteBlank, Setting
  <2>2. pc' \in Setting
    BY <1>5, <2>1 DEF Step, Append, EraseFirst, WriteFirst, EraseRest, EraseTail,
                WriteSecond, EraseAll, WriteBlank, Setting, Write, Erase
  <2> QED
    BY <2>2 DEF Setting
<1>6. CASE IoError \/ PowerLoss
  BY <1>6 DEF IoError, PowerLoss
<1>7. CASE UNCHANGED vars
  BY <1>7 DEF vars
<1> QED
  BY <1>1, <1>2, <1>3, <1>4, <1>5, <1>6, <1>7 DEF Next

LEMMA CoherentAlways ==
    ASSUME ~CallerRetries
    PROVE  Spec => [](TypeInv /\ CacheCoherent)
<1>1. Init => CacheCoherent
  BY DEF Init, CacheCoherent
<1>2. TypeInv /\ CacheCoherent /\ [Next]_vars => (TypeInv /\ CacheCoherent)'
  BY TypeStep, CoherentStep
<1> QED
  BY <1>1, <1>2, TypeInit, PTL DEF Spec

\* The cache of a handle that set may be called on is what a scan of the
\* flash yields, even on a medium that silently stores other bytes than it is
\* given: set recomputes the cache on every path that returns Ok.
THEOREM CacheFollowsFlash ==
    ASSUME ~CallerRetries
    PROVE  Spec => []CacheCoherent
BY CoherentAlways, PTL

\* A set that returned Ok has stored its argument, even on such a medium.
THEOREM OkMeansStored ==
    ASSUME ~CallerRetries
    PROVE  Spec => []OkIsDurable
<1>1. TypeInv /\ CacheCoherent => OkIsDurable
  BY DEF TypeInv, OpenInv, CacheCoherent, OkIsDurable, ComputeCache
<1> QED
  BY <1>1, CoherentAlways, PTL

-----------------------------------------------------------------------------
(***************************************************************************)
(* A set in progress, on a medium without faults.                          *)
(***************************************************************************)
LEMMA WordFacts ==
    /\ \A w : w.data = FF => ~IsState(w)
    /\ ~IsState(Erased)
    /\ Erased.data = FF /\ Erased.crc = FF
    /\ \A s \in StateData : IsState(StateWord(s)) /\ StateWord(s).data = s
    /\ \A w \in Word : IsState(w) => w.data \in StateData /\ w = StateWord(w.data)
    /\ \A a \in Addr : a # NoAddr /\ a > NoAddr
    /\ NoState \notin StateData
  BY CodecAssumption, GeometryAssumption
     DEF IsState, Erased, StateWord, Word, Addr, NoAddr

\* The two steps of programming an erased word.
LEMMA WriteFacts ==
    ASSUME TypeOK, ~FaultyMedium, arg \in StateData, Programming,
           NEW then, NEW next, Write(then, next)
    PROVE  /\ \A c \in Addr : c # at => flash'[c] = flash[c]
           /\ cache' = cache /\ arg' = arg
           /\ \/ /\ ~half /\ half' /\ pc' = pc /\ at' = at
                 /\ flash'[at] = [data |-> arg, crc |-> FF]
              \/ /\ half /\ ~half' /\ pc' = then /\ at' = next
                 /\ flash'[at] = StateWord(arg)
<1>0. flash \in [Addr -> Word] /\ at \in Addr /\ arg \in Bytes /\ Crc[arg] \in Bytes
  BY CodecAssumption DEF TypeOK
<1>1. CASE ~half
  <2>1. Programmed(flash[at].data, arg) = {arg}
    BY <1>1 DEF Programming, Programmed, Settled, Erased
  <2>2. flash' = [flash EXCEPT ![at].data = arg]
    BY <1>1, <2>1 DEF Write
  <2>3. /\ flash'[at] = [data |-> arg, crc |-> flash[at].crc]
        /\ \A c \in Addr : c # at => flash'[c] = flash[c]
    BY <1>0, <2>2 DEF Word
  <2> QED
    BY <1>1, <2>3 DEF Write, Programming, Erased
<1>2. CASE half
  <2>1. Programmed(flash[at].crc, Crc[arg]) = {Crc[arg]}
    BY <1>2 DEF Programming, Programmed, Settled
  <2>2. flash' = [flash EXCEPT ![at].crc = Crc[arg]]
    BY <1>2, <2>1 DEF Write
  <2>3. /\ flash'[at] = [data |-> flash[at].data, crc |-> Crc[arg]]
        /\ \A c \in Addr : c # at => flash'[c] = flash[c]
    BY <1>0, <2>2 DEF Word
  <2> QED
    BY <1>2, <2>3 DEF Write, Programming, StateWord
<1> QED
  BY <1>1, <1>2

\* The two steps of erasing a word.
LEMMA EraseFacts ==
    ASSUME TypeOK, ~FaultyMedium, Wiping,
           NEW end, NEW then, NEW next, Erase(end, then, next)
    PROVE  /\ \A c \in Addr : c # at => flash'[c] = flash[c]
           /\ cache' = cache /\ arg' = arg
           /\ \/ /\ ~half /\ half' /\ pc' = pc /\ at' = at
                 /\ flash'[at].data = FF
              \/ /\ half /\ ~half' /\ flash'[at] = Erased
                 /\ at + 1 < end /\ at' = at + 1 /\ pc' = pc
              \/ /\ half /\ ~half' /\ flash'[at] = Erased
                 /\ ~(at + 1 < end) /\ at' = next /\ pc' = then
<1>0. flash \in [Addr -> Word] /\ at \in Addr /\ FF \in Bytes
  BY CodecAssumption DEF TypeOK
<1>1. CASE ~half
  <2>1. flash' = [flash EXCEPT ![at].data = FF]
    BY <1>1 DEF Erase, Settled
  <2>2. /\ flash'[at] = [data |-> FF, crc |-> flash[at].crc]
        /\ \A c \in Addr : c # at => flash'[c] = flash[c]
    BY <1>0, <2>1 DEF Word
  <2> QED
    BY <1>1, <2>2 DEF Erase
<1>2. CASE half
  <2>1. flash' = [flash EXCEPT ![at].crc = FF]
    BY <1>2 DEF Erase, Settled
  <2>2. /\ flash'[at] = [data |-> flash[at].data, crc |-> FF]
        /\ \A c \in Addr : c # at => flash'[c] = flash[c]
    BY <1>0, <2>1 DEF Word
  <2>3. flash'[at] = Erased
    BY <1>2, <2>2 DEF Wiping, Erased
  <2> QED
    BY <1>2, <2>2, <2>3 DEF Erase
<1> QED
  BY <1>1, <1>2

\* What a handle knows of the flash when set is called on it.
LEMMA ReadyFacts ==
    ASSUME TypeInv, CacheCoherent, pc = "ready"
    PROVE  /\ CachedUpTo(NoAddr)
           /\ cache.empty # NoAddr => /\ cache.empty \in Addr
                                      /\ cache.empty > cache.address
                                      /\ flash[cache.empty] = Erased
<1>1. /\ cache.state = Durable(flash)
      /\ cache.address = LastValid(flash)
      /\ cache.empty = FirstEmpty(flash)
  BY DEF CacheCoherent, ComputeCache
<1>2. \A b \in Addr : b > cache.address => ~IsState(flash[b])
  BY <1>1, ScanFinds
<1>3. CASE Valid(flash) = {}
  BY <1>1, <1>2, <1>3, ScanFinds, ScanEmpty DEF CachedUpTo
<1>4. CASE Valid(flash) # {}
  <2>1. /\ cache.address \in Addr
        /\ IsState(flash[cache.address])
        /\ cache.state = flash[cache.address].data
    BY <1>1, <1>4, ScanFinds
  <2>2. cache.state \in StateData /\ flash[cache.address] = StateWord(cache.state)
    BY <2>1, WordFacts DEF TypeInv, TypeOK
  <2> QED
    BY <1>1, <1>2, <2>1, <2>2, WordFacts, ScanEmpty DEF CachedUpTo
<1> QED
  BY <1>3, <1>4

\* What every step of a set may rely on.
LEMMA SettingFacts ==
    ASSUME TypeInv, SetInv, pc \in Setting
    PROVE  /\ TypeOK
           /\ at \in Addr
           /\ cache.address \in Addr \cup {NoAddr}
           /\ cache.address \in Int
           /\ arg \in StateData
           /\ cache.state # arg
           /\ PageWords \in Addr /\ 0 \in Addr /\ PageWords > 0
           /\ Capacity > PageWords
<1>1. /\ TypeOK
      /\ at \in Addr
      /\ cache.address \in Addr \cup {NoAddr}
      /\ arg \in StateData
      /\ cache.state # arg
      /\ Capacity > PageWords
  BY DEF TypeInv, TypeOK, OpenInv, SetInv, Cache, Setting
<1>2. PageWords \in Addr /\ 0 \in Addr /\ PageWords > 0
  BY <1>1, GeometryAssumption DEF Addr
<1>3. cache.address \in Int
  BY <1>1, GeometryAssumption DEF Addr, NoAddr
<1> QED
  BY <1>1, <1>2, <1>3

\* The word a holds arg, and no word behind it is a state: a readback is due.
LEMMA ReadbackDue ==
    ASSUME NEW a \in Addr, arg' = arg, arg \in StateData,
           pc' = "readback", cache' = cache, cache.state # arg,
           flash'[a] = StateWord(arg),
           \A b \in Addr : b > a => ~IsState(flash'[b])
    PROVE  SetInv'
<1>1. Durable(flash') = arg
  BY WordFacts, NewestIsDurable
<1> QED
  BY <1>1 DEF SetInv, AppendInv, WrapInv, TailInv, BlankInv, Setting

LEMMA AppendStep ==
    ASSUME TypeInv, SetInv, ~FaultyMedium, Append
    PROVE  SetInv'
<1>1. /\ pc = "append" /\ at > cache.address
      /\ Programming /\ CachedUpTo(at)
      /\ Write("readback", 0)
  BY DEF Append, SetInv, AppendInv
<1>2. pc \in Setting
  BY <1>1 DEF Setting
<1>3. CASE ~half
  <2>1. /\ \A c \in Addr : c # at => flash'[c] = flash[c]
        /\ cache' = cache /\ arg' = arg
        /\ half' /\ pc' = pc /\ at' = at
        /\ flash'[at] = [data |-> arg, crc |-> FF]
    BY <1>1, <1>2, <1>3, SettingFacts, WriteFacts
  <2>2. CachedUpTo(at)'
    BY <1>1, <1>2, <2>1, SettingFacts, WordFacts DEF CachedUpTo
  <2>3. Programming'
    BY <2>1 DEF Programming
  <2> QED
    BY <1>1, <1>2, <2>1, <2>2, <2>3, SettingFacts
       DEF SetInv, AppendInv, WrapInv, TailInv, BlankInv
<1>4. CASE half
  <2>1. /\ \A c \in Addr : c # at => flash'[c] = flash[c]
        /\ cache' = cache /\ arg' = arg
        /\ pc' = "readback"
        /\ flash'[at] = StateWord(arg)
    BY <1>1, <1>2, <1>4, SettingFacts, WriteFacts
  <2>2. \A b \in Addr : b > at => ~IsState(flash'[b])
    BY <1>1, <1>2, <2>1, SettingFacts DEF CachedUpTo, Addr
  <2> QED
    BY <1>2, <2>1, <2>2, SettingFacts, ReadbackDue
<1> QED
  BY <1>3, <1>4

LEMMA WriteSecondStep ==
    ASSUME TypeInv, SetInv, ~FaultyMedium, WriteSecond
    PROVE  SetInv'
<1>1. /\ pc = "writeSecond" /\ at = PageWords
      /\ cache.address \in 0 .. PageWords - 1
      /\ Programming /\ CachedUpTo(at)
      /\ Write("readback", 0)
  BY DEF WriteSecond, SetInv, TailInv
<1>2. pc \in Setting
  BY <1>1 DEF Setting
<1>3. CASE ~half
  <2>1. /\ \A c \in Addr : c # at => flash'[c] = flash[c]
        /\ cache' = cache /\ arg' = arg
        /\ half' /\ pc' = pc /\ at' = at
        /\ flash'[at] = [data |-> arg, crc |-> FF]
    BY <1>1, <1>2, <1>3, SettingFacts, WriteFacts
  <2>2. CachedUpTo(at)'
    BY <1>1, <1>2, <2>1, SettingFacts, WordFacts DEF CachedUpTo
  <2>3. Programming'
    BY <2>1 DEF Programming
  <2> QED
    BY <1>1, <1>2, <2>1, <2>2, <2>3, SettingFacts
       DEF SetInv, AppendInv, WrapInv, TailInv, BlankInv
<1>4. CASE half
  <2>1. /\ \A c \in Addr : c # at => flash'[c] = flash[c]
        /\ cache' = cache /\ arg' = arg
        /\ pc' = "readback"
        /\ flash'[at] = StateWord(arg)
    BY <1>1, <1>2, <1>4, SettingFacts, WriteFacts
  <2>2. \A b \in Addr : b > at => ~IsState(flash'[b])
    BY <1>1, <1>2, <2>1, SettingFacts DEF CachedUpTo, Addr
  <2> QED
    BY <1>2, <2>1, <2>2, SettingFacts, ReadbackDue
<1> QED
  BY <1>3, <1>4

LEMMA WriteBlankStep ==
    ASSUME TypeInv, SetInv, ~FaultyMedium, WriteBlank
    PROVE  SetInv'
<1>1. /\ pc = "writeBlank" /\ at = 0
      /\ cache.address = NoAddr
      /\ Programming /\ CachedUpTo(at)
      /\ Write("readback", 0)
  BY DEF WriteBlank, SetInv, BlankInv
<1>2. pc \in Setting
  BY <1>1 DEF Setting
<1>3. CASE ~half
  <2>1. /\ \A c \in Addr : c # at => flash'[c] = flash[c]
        /\ cache' = cache /\ arg' = arg
        /\ half' /\ pc' = pc /\ at' = at
        /\ flash'[at] = [data |-> arg, crc |-> FF]
    BY <1>1, <1>2, <1>3, SettingFacts, WriteFacts
  <2>2. CachedUpTo(at)'
    BY <1>1, <1>2, <2>1, SettingFacts, WordFacts DEF CachedUpTo
  <2>3. Programming'
    BY <2>1 DEF Programming
  <2> QED
    BY <1>1, <1>2, <2>1, <2>2, <2>3, SettingFacts
       DEF SetInv, AppendInv, WrapInv, TailInv, BlankInv
<1>4. CASE half
  <2>1. /\ \A c \in Addr : c # at => flash'[c] = flash[c]
        /\ cache' = cache /\ arg' = arg
        /\ pc' = "readback"
        /\ flash'[at] = StateWord(arg)
    BY <1>1, <1>2, <1>4, SettingFacts, WriteFacts
  <2>2. \A b \in Addr : b > at => ~IsState(flash'[b])
    BY <1>1, <1>2, <2>1, SettingFacts, WordFacts DEF CachedUpTo, Addr
  <2> QED
    BY <1>2, <2>1, <2>2, SettingFacts, ReadbackDue
<1> QED
  BY <1>3, <1>4

LEMMA WriteFirstStep ==
    ASSUME TypeInv, SetInv, ~FaultyMedium, WriteFirst
    PROVE  SetInv'
<1>1. /\ pc = "writeFirst" /\ at = 0
      /\ cache.address >= PageWords
      /\ Programming /\ CachedUpTo(NoAddr)
      /\ ErasedFrom(1, PageWords)
      /\ Write("eraseRest", PageWords)
  BY PageFacts DEF WriteFirst, SetInv, WrapInv
<1>2. pc \in Setting
  BY <1>1 DEF Setting
<1>3. cache.address \in Addr /\ cache.address # at /\ cache.address # NoAddr
  BY <1>1, <1>2, SettingFacts, GeometryAssumption DEF NoAddr
<1>4. CASE ~half
  <2>1. /\ \A c \in Addr : c # at => flash'[c] = flash[c]
        /\ cache' = cache /\ arg' = arg
        /\ half' /\ pc' = pc /\ at' = at
        /\ flash'[at] = [data |-> arg, crc |-> FF]
    BY <1>1, <1>2, <1>4, SettingFacts, WriteFacts
  <2>2. CachedUpTo(NoAddr)'
    BY <1>1, <1>2, <1>3, <2>1, SettingFacts, WordFacts DEF CachedUpTo, Addr
  <2>3. Programming'
    BY <2>1 DEF Programming
  <2>4. ErasedFrom(1, PageWords)'
    BY <1>1, <2>1 DEF ErasedFrom
  <2> QED
    BY <1>1, <1>2, <2>1, <2>2, <2>3, <2>4, SettingFacts
       DEF SetInv, AppendInv, WrapInv, TailInv, BlankInv
<1>5. CASE half
  <2>1. /\ \A c \in Addr : c # at => flash'[c] = flash[c]
        /\ cache' = cache /\ arg' = arg
        /\ ~half' /\ pc' = "eraseRest" /\ at' = PageWords
        /\ flash'[0] = StateWord(arg)
    BY <1>1, <1>2, <1>5, SettingFacts, WriteFacts
  <2>2. ErasedFrom(1, PageWords)'
    BY <1>1, <2>1 DEF ErasedFrom
  <2>3. /\ \A b \in Addr : b > cache.address => ~IsState(flash'[b])
        /\ cache.state \in StateData
        /\ flash'[cache.address] = StateWord(cache.state)
    BY <1>1, <1>2, <1>3, <2>1, SettingFacts, WordFacts DEF CachedUpTo, Addr
  <2>4. /\ Wiping' /\ at' >= PageWords
    BY <1>2, <2>1, SettingFacts DEF Wiping, Addr
  <2> QED
    BY <1>1, <1>2, <2>1, <2>2, <2>3, <2>4, SettingFacts
       DEF SetInv, AppendInv, WrapInv, TailInv, BlankInv
<1> QED
  BY <1>4, <1>5

\* A word that is being erased is not a state, nor is one that was erased.
LEMMA ErasedNoState ==
    ASSUME NEW a
    PROVE  /\ flash'[a].data = FF => ~IsState(flash'[a])
           /\ flash'[a] = Erased => flash'[a].data = FF
  BY WordFacts

LEMMA EraseFirstStep ==
    ASSUME TypeInv, SetInv, ~FaultyMedium, EraseFirst
    PROVE  SetInv'
<1>1. pc \in Setting
  BY DEF EraseFirst, Setting
<1>2. /\ pc = "eraseFirst" /\ at < PageWords
      /\ cache.address >= PageWords
      /\ Wiping /\ CachedUpTo(NoAddr) /\ ErasedFrom(0, at)
      /\ Erase(PageWords, "writeFirst", 0)
  BY <1>1, SettingFacts, PageFacts DEF EraseFirst, SetInv, WrapInv
<1>3. cache.address \in Addr /\ cache.address # at /\ cache.address # NoAddr
  BY <1>1, <1>2, SettingFacts, GeometryAssumption DEF NoAddr, Addr
<1>4. /\ \A c \in Addr : c # at => flash'[c] = flash[c]
      /\ cache' = cache /\ arg' = arg
      /\ flash'[at].data = FF
  BY <1>1, <1>2, SettingFacts, EraseFacts, WordFacts
<1>5. CachedUpTo(NoAddr)'
  BY <1>1, <1>2, <1>3, <1>4, SettingFacts, ErasedNoState DEF CachedUpTo
<1>6. CASE ~half
  <2>1. half' /\ pc' = pc /\ at' = at
    BY <1>1, <1>2, <1>6, SettingFacts, EraseFacts
  <2>2. ErasedFrom(0, at)' /\ Wiping'
    BY <1>2, <1>4, <2>1 DEF ErasedFrom, Wiping, Addr
  <2> QED
    BY <1>1, <1>2, <1>4, <1>5, <2>1, <2>2, SettingFacts
       DEF SetInv, AppendInv, WrapInv, TailInv, BlankInv
<1>7. CASE half /\ at + 1 < PageWords
  <2>1. ~half' /\ pc' = pc /\ at' = at + 1 /\ flash'[at] = Erased
    BY <1>1, <1>2, <1>7, SettingFacts, EraseFacts
  <2>2. ErasedFrom(0, at)' /\ Wiping'
    BY <1>1, <1>2, <1>4, <2>1, SettingFacts DEF ErasedFrom, Wiping, Addr
  <2> QED
    BY <1>1, <1>2, <1>4, <1>5, <1>7, <2>1, <2>2, SettingFacts
       DEF SetInv, AppendInv, WrapInv, TailInv, BlankInv
<1>8. CASE half /\ ~(at + 1 < PageWords)
  <2>1. ~half' /\ pc' = "writeFirst" /\ at' = 0 /\ flash'[at] = Erased
    BY <1>1, <1>2, <1>8, SettingFacts, EraseFacts
  <2>2. \A b \in Addr : b < PageWords => flash'[b] = Erased
    BY <1>1, <1>2, <1>4, <1>8, <2>1, SettingFacts, GeometryAssumption
       DEF ErasedFrom, Addr
  <2>3. Programming' /\ ErasedFrom(1, PageWords)'
    BY <1>1, <2>1, <2>2, SettingFacts DEF Programming, ErasedFrom
  <2> QED
    BY <1>1, <1>2, <1>4, <1>5, <2>1, <2>3, SettingFacts
       DEF SetInv, AppendInv, WrapInv, TailInv, BlankInv
<1> QED
  BY <1>6, <1>7, <1>8

LEMMA EraseRestStep ==
    ASSUME TypeInv, SetInv, ~FaultyMedium, EraseRest
    PROVE  SetInv'
<1>1. pc \in Setting
  BY DEF EraseRest, Setting
<1>2. /\ pc = "eraseRest" /\ at >= PageWords
      /\ cache.address >= PageWords
      /\ Wiping /\ flash[0] = StateWord(arg) /\ ErasedFrom(1, at)
      /\ \A b \in Addr : b > cache.address => ~IsState(flash[b])
      /\ cache.state \in StateData
      /\ OldRemains => flash[cache.address] = StateWord(cache.state)
      /\ Erase(Capacity, "readback", 0)
  BY PageFacts DEF EraseRest, SetInv, WrapInv
<1>3. cache.address \in Addr /\ at # 0
  BY <1>1, <1>2, SettingFacts, GeometryAssumption DEF NoAddr, Addr
<1>4. /\ \A c \in Addr : c # at => flash'[c] = flash[c]
      /\ cache' = cache /\ arg' = arg
      /\ flash'[at].data = FF
  BY <1>1, <1>2, SettingFacts, EraseFacts, WordFacts
<1>5. /\ flash'[0] = StateWord(arg)
      /\ \A b \in Addr : b > cache.address => ~IsState(flash'[b])
  BY <1>1, <1>2, <1>3, <1>4, SettingFacts, ErasedNoState
<1>6. CASE ~half
  <2>1. half' /\ pc' = pc /\ at' = at
    BY <1>1, <1>2, <1>6, SettingFacts, EraseFacts
  <2>2. ErasedFrom(1, at)' /\ Wiping'
    BY <1>2, <1>4, <2>1 DEF ErasedFrom, Wiping, Addr
  <2>3. OldRemains' => flash'[cache.address] = StateWord(cache.state)
    BY <1>1, <1>2, <1>3, <1>4, <2>1, SettingFacts DEF OldRemains, Addr
  <2> QED
    BY <1>1, <1>2, <1>4, <1>5, <2>1, <2>2, <2>3, SettingFacts
       DEF SetInv, AppendInv, WrapInv, TailInv, BlankInv
<1>7. CASE half /\ at + 1 < Capacity
  <2>1. ~half' /\ pc' = pc /\ at' = at + 1 /\ flash'[at] = Erased
    BY <1>1, <1>2, <1>7, SettingFacts, EraseFacts
  <2>2. ErasedFrom(1, at)' /\ Wiping'
    BY <1>1, <1>2, <1>4, <2>1, SettingFacts DEF ErasedFrom, Wiping, Addr
  <2>3. OldRemains' => flash'[cache.address] = StateWord(cache.state)
    BY <1>1, <1>2, <1>3, <1>4, <2>1, SettingFacts DEF OldRemains, Addr
  <2>4. at' >= PageWords
    BY <1>1, <1>2, <2>1, SettingFacts, GeometryAssumption DEF Addr
  <2> QED
    BY <1>1, <1>2, <1>4, <1>5, <2>1, <2>2, <2>3, <2>4, SettingFacts
       DEF SetInv, AppendInv, WrapInv, TailInv, BlankInv
<1>8. CASE half /\ ~(at + 1 < Capacity)
  <2>1. pc' = "readback" /\ flash'[at] = Erased
    BY <1>1, <1>2, <1>8, SettingFacts, EraseFacts
  <2>2. \A b \in Addr : b > 0 => flash'[b] = Erased
    BY <1>1, <1>2, <1>4, <1>8, <2>1, SettingFacts, GeometryAssumption
       DEF ErasedFrom, Addr
  <2>3. \A b \in Addr : b > 0 => ~IsState(flash'[b])
    BY <2>2, WordFacts
  <2> QED
    BY <1>1, <1>4, <1>5, <2>1, <2>3, SettingFacts, ReadbackDue
<1> QED
  BY <1>6, <1>7, <1>8

LEMMA EraseTailStep ==
    ASSUME TypeInv, SetInv, ~FaultyMedium, EraseTail
    PROVE  SetInv'
<1>1. pc \in Setting
  BY DEF EraseTail, Setting
<1>2. /\ pc = "eraseTail" /\ at >= PageWords
      /\ cache.address \in 0 .. PageWords - 1
      /\ Wiping /\ CachedUpTo(NoAddr) /\ ErasedFrom(PageWords, at)
      /\ Erase(Capacity, "writeSecond", PageWords)
  BY PageFacts DEF EraseTail, SetInv, TailInv
<1>3. cache.address \in Addr /\ cache.address < at /\ cache.address # NoAddr
  BY <1>1, <1>2, SettingFacts, GeometryAssumption DEF NoAddr, Addr
<1>4. /\ \A c \in Addr : c # at => flash'[c] = flash[c]
      /\ cache' = cache /\ arg' = arg
      /\ flash'[at].data = FF
  BY <1>1, <1>2, SettingFacts, EraseFacts, WordFacts
<1>5. CachedUpTo(NoAddr)'
  BY <1>1, <1>2, <1>3, <1>4, SettingFacts, ErasedNoState DEF CachedUpTo
<1>6. CASE ~half
  <2>1. half' /\ pc' = pc /\ at' = at
    BY <1>1, <1>2, <1>6, SettingFacts, EraseFacts
  <2>2. ErasedFrom(PageWords, at)' /\ Wiping'
    BY <1>2, <1>4, <2>1 DEF ErasedFrom, Wiping, Addr
  <2> QED
    BY <1>1, <1>2, <1>4, <1>5, <2>1, <2>2, SettingFacts
       DEF SetInv, AppendInv, WrapInv, TailInv, BlankInv
<1>7. CASE half /\ at + 1 < Capacity
  <2>1. ~half' /\ pc' = pc /\ at' = at + 1 /\ flash'[at] = Erased
    BY <1>1, <1>2, <1>7, SettingFacts, EraseFacts
  <2>2. ErasedFrom(PageWords, at)' /\ Wiping'
    BY <1>1, <1>2, <1>4, <2>1, SettingFacts DEF ErasedFrom, Wiping, Addr
  <2>3. at' >= PageWords
    BY <1>1, <1>2, <2>1, SettingFacts, GeometryAssumption DEF Addr
  <2> QED
    BY <1>1, <1>2, <1>4, <1>5, <2>1, <2>2, <2>3, SettingFacts
       DEF SetInv, AppendInv, WrapInv, TailInv, BlankInv
<1>8. CASE half /\ ~(at + 1 < Capacity)
  <2>1. ~half' /\ pc' = "writeSecond" /\ at' = PageWords /\ flash'[at] = Erased
    BY <1>1, <1>2, <1>8, SettingFacts, EraseFacts
  <2>2. \A b \in Addr : b >= PageWords => flash'[b] = Erased
    BY <1>1, <1>2, <1>4, <1>8, <2>1, SettingFacts, GeometryAssumption
       DEF ErasedFrom, Addr
  <2>3. Programming' /\ CachedUpTo(at)'
    <3>1. PageWords >= PageWords
      BY GeometryAssumption
    <3> QED
      BY <1>1, <1>5, <2>1, <2>2, <3>1, SettingFacts, WordFacts
         DEF Programming, CachedUpTo
  <2> QED
    BY <1>1, <1>2, <1>4, <2>1, <2>3, SettingFacts
       DEF SetInv, AppendInv, WrapInv, TailInv, BlankInv
<1> QED
  BY <1>6, <1>7, <1>8

LEMMA EraseAllStep ==
    ASSUME TypeInv, SetInv, ~FaultyMedium, EraseAll
    PROVE  SetInv'
<1>1. pc \in Setting
  BY DEF EraseAll, Setting
<1>2. /\ pc = "eraseAll" /\ cache.address = NoAddr
      /\ Wiping /\ CachedUpTo(NoAddr) /\ ErasedFrom(0, at)
      /\ Erase(Capacity, "writeBlank", 0)
  BY DEF EraseAll, SetInv, BlankInv
<1>4. /\ \A c \in Addr : c # at => flash'[c] = flash[c]
      /\ cache' = cache /\ arg' = arg
      /\ flash'[at].data = FF
  BY <1>1, <1>2, SettingFacts, EraseFacts, WordFacts
<1>5. CachedUpTo(NoAddr)'
  BY <1>1, <1>2, <1>4, SettingFacts, ErasedNoState DEF CachedUpTo
<1>6. CASE ~half
  <2>1. half' /\ pc' = pc /\ at' = at
    BY <1>1, <1>2, <1>6, SettingFacts, EraseFacts
  <2>2. ErasedFrom(0, at)' /\ Wiping'
    BY <1>2, <1>4, <2>1 DEF ErasedFrom, Wiping, Addr
  <2> QED
    BY <1>1, <1>2, <1>4, <1>5, <2>1, <2>2, SettingFacts
       DEF SetInv, AppendInv, WrapInv, TailInv, BlankInv
<1>7. CASE half /\ at + 1 < Capacity
  <2>1. ~half' /\ pc' = pc /\ at' = at + 1 /\ flash'[at] = Erased
    BY <1>1, <1>2, <1>7, SettingFacts, EraseFacts
  <2>2. ErasedFrom(0, at)' /\ Wiping'
    BY <1>1, <1>2, <1>4, <2>1, SettingFacts DEF ErasedFrom, Wiping, Addr
  <2> QED
    BY <1>1, <1>2, <1>4, <1>5, <2>1, <2>2, SettingFacts
       DEF SetInv, AppendInv, WrapInv, TailInv, BlankInv
<1>8. CASE half /\ ~(at + 1 < Capacity)
  <2>1. ~half' /\ pc' = "writeBlank" /\ at' = 0 /\ flash'[at] = Erased
    BY <1>1, <1>2, <1>8, SettingFacts, EraseFacts
  <2>2. \A b \in Addr : flash'[b] = Erased
    BY <1>1, <1>2, <1>4, <1>8, <2>1, SettingFacts, GeometryAssumption
       DEF ErasedFrom, Addr
  <2>3. Programming' /\ CachedUpTo(at)'
    BY <1>1, <1>5, <2>1, <2>2, SettingFacts, WordFacts
       DEF Programming, CachedUpTo
  <2> QED
    BY <1>1, <1>2, <1>4, <2>1, <2>3, SettingFacts
       DEF SetInv, AppendInv, WrapInv, TailInv, BlankInv
<1> QED
  BY <1>6, <1>7, <1>8

\* Where each branch of a call leaves the invariant.
LEMMA CallStep ==
    ASSUME ~CallerRetries, TypeInv, CacheCoherent, NEW s \in StateData,
           \/ SetSame(s) \/ SetAppend(s) \/ SetWrap(s) \/ SetTail(s) \/ SetBlank(s)
    PROVE  SetInv'
<1>1. pc = "ready"
  BY DEF SetSame, SetAppend, SetWrap, SetTail, SetBlank, Begin, Callable
<1>2. /\ CachedUpTo(NoAddr)
      /\ cache.empty # NoAddr => /\ cache.empty \in Addr
                                 /\ cache.empty > cache.address
                                 /\ flash[cache.empty] = Erased
  BY <1>1, ReadyFacts
<1>3. cache.address \in Addr \cup {NoAddr} /\ cache.address \in Int
  BY GeometryAssumption DEF TypeInv, TypeOK, Cache, Addr, NoAddr
<1>4. Capacity > PageWords /\ PageWords \in Addr
  BY <1>1, GeometryAssumption DEF TypeInv, OpenInv, Addr
<1>5. CASE SetSame(s)
  BY <1>5 DEF SetSame, SetInv, AppendInv, WrapInv, TailInv, BlankInv, Setting
<1>6. ASSUME NEW step, NEW word, Begin(s, step, word)
      PROVE  /\ flash' = flash /\ cache' = cache /\ half' = FALSE /\ arg' = s
             /\ pc' = step /\ at' = word
             /\ cache.state # s
             /\ CachedUpTo(NoAddr)'
             /\ Wiping'
             /\ flash[word] = Erased => Programming'
  BY <1>2, <1>6 DEF Begin, CachedUpTo, Wiping, Programming
<1>7. CASE SetAppend(s)
  <2>1. /\ cache.empty # NoAddr /\ pc' = "append" /\ at' = cache.empty
        /\ cache' = cache /\ flash' = flash /\ arg' = s /\ cache.state # s
        /\ CachedUpTo(NoAddr)' /\ Programming'
    BY <1>2, <1>6, <1>7 DEF SetAppend
  <2>2. CachedUpTo(at)'
    BY <2>1, WordFacts DEF CachedUpTo
  <2> QED
    BY <1>2, <2>1, <2>2 DEF SetInv, AppendInv, WrapInv, TailInv, BlankInv
<1>8. CASE SetWrap(s)
  <2>1. /\ cache.address \in Addr /\ cache.address >= PageWords
        /\ pc' = "eraseFirst" /\ at' = 0
        /\ cache' = cache /\ arg' = s /\ cache.state # s
        /\ CachedUpTo(NoAddr)' /\ Wiping'
    BY <1>3, <1>6, <1>8, PageFacts DEF SetWrap
  <2>2. ErasedFrom(0, at)' /\ 0 < PageWords
    BY <2>1, GeometryAssumption DEF ErasedFrom, Addr
  <2> QED
    BY <2>1, <2>2 DEF SetInv, AppendInv, WrapInv, TailInv, BlankInv
<1>9. CASE SetTail(s)
  <2>1. /\ cache.address \in Addr /\ cache.address < PageWords
        /\ pc' = "eraseTail" /\ at' = PageWords
        /\ cache' = cache /\ arg' = s /\ cache.state # s
        /\ CachedUpTo(NoAddr)' /\ Wiping'
    BY <1>3, <1>6, <1>9, PageFacts DEF SetTail
  <2>2. /\ ErasedFrom(PageWords, at)' /\ PageWords >= PageWords
        /\ cache.address \in 0 .. PageWords - 1
    BY <2>1, GeometryAssumption DEF ErasedFrom, Addr
  <2> QED
    BY <2>1, <2>2 DEF SetInv, AppendInv, WrapInv, TailInv, BlankInv
<1>10. CASE SetBlank(s)
  <2>1. /\ cache.address = NoAddr
        /\ pc' = "eraseAll" /\ at' = 0
        /\ cache' = cache /\ arg' = s /\ cache.state # s
        /\ CachedUpTo(NoAddr)' /\ Wiping'
    BY <1>6, <1>10 DEF SetBlank
  <2>2. ErasedFrom(0, at)'
    BY <2>1 DEF ErasedFrom, Addr
  <2> QED
    BY <2>1, <2>2 DEF SetInv, AppendInv, WrapInv, TailInv, BlankInv
<1> QED
  BY <1>5, <1>7, <1>8, <1>9, <1>10

-----------------------------------------------------------------------------
(***************************************************************************)
(* What a scan finds while a set is in progress: the new state once it is  *)
(* Committed, the old one until then.                                      *)
(***************************************************************************)
\* The words up to the cached state decide, if no word behind it is a state.
LEMMA OldIsDurable ==
    ASSUME CachedUpTo(NoAddr), cache.address \in Addr \cup {NoAddr}
    PROVE  Durable(flash) = cache.state
<1>1. \A b \in Addr : b > cache.address => ~IsState(flash[b])
  BY WordFacts DEF CachedUpTo
<1>2. CASE cache.address = NoAddr
  BY <1>1, <1>2, WordFacts, NoneIsDurable DEF CachedUpTo
<1>3. CASE cache.address # NoAddr
  <2>1. /\ cache.address \in Addr
        /\ IsState(flash[cache.address])
        /\ flash[cache.address].data = cache.state
    BY <1>3, WordFacts DEF CachedUpTo
  <2> QED
    BY <1>1, <2>1, NewestIsDurable
<1> QED
  BY <1>2, <1>3

\* A word that is being programmed behind the cached state is a state as soon
\* as its second byte is programmed, or does not need to be.
LEMMA AppendedDurable ==
    ASSUME TypeOK, at \in Addr, Programming, CachedUpTo(at), arg \in StateData,
           at > cache.address, cache.address \in Addr \cup {NoAddr},
           cache.address \in Int
    PROVE  Durable(flash) = IF half /\ Crc[arg] = FF THEN arg ELSE cache.state
<1>1. CASE half /\ Crc[arg] = FF
  <2>1. IsState(flash[at]) /\ flash[at].data = arg
    BY <1>1 DEF Programming, IsState
  <2>2. \A b \in Addr : b > at => ~IsState(flash[b])
    BY DEF CachedUpTo, Addr
  <2> QED
    BY <1>1, <2>1, <2>2, NewestIsDurable
<1>2. CASE ~(half /\ Crc[arg] = FF)
  <2>1. ~IsState(flash[at])
    BY <1>2, WordFacts DEF Programming, IsState
  <2>2. CachedUpTo(NoAddr)
    BY <2>1 DEF CachedUpTo
  <2> QED
    BY <1>2, <2>2, OldIsDurable
<1> QED
  BY <1>1, <1>2

LEMMA DurableExact ==
    ASSUME TypeInv, SetInv, pc \in Setting
    PROVE  Durable(flash) = IF Committed THEN arg ELSE cache.state
<1>1. CASE pc \in {"append", "writeSecond", "writeBlank"}
  <2>1. at > cache.address /\ Programming /\ CachedUpTo(at)
    BY <1>1, SettingFacts, GeometryAssumption
       DEF SetInv, AppendInv, TailInv, BlankInv, NoAddr, Addr
  <2>2. Durable(flash) = IF half /\ Crc[arg] = FF THEN arg ELSE cache.state
    BY <2>1, SettingFacts, AppendedDurable
  <2>3. Committed <=> half /\ Crc[arg] = FF
    BY <1>1 DEF Committed
  <2> QED
    BY <2>2, <2>3
<1>2. CASE pc \in {"eraseFirst", "writeFirst", "eraseTail", "eraseAll"}
  <2>1. CachedUpTo(NoAddr)
    BY <1>2 DEF SetInv, WrapInv, TailInv, BlankInv
  <2>2. ~Committed
    BY <1>2 DEF Committed
  <2> QED
    BY <2>1, <2>2, SettingFacts, OldIsDurable
<1>3. CASE pc = "eraseRest"
  <2>1. /\ at >= PageWords /\ cache.address >= PageWords
        /\ Wiping /\ flash[0] = StateWord(arg) /\ ErasedFrom(1, at)
        /\ \A b \in Addr : b > cache.address => ~IsState(flash[b])
        /\ cache.state \in StateData
        /\ OldRemains => flash[cache.address] = StateWord(cache.state)
    BY <1>3 DEF SetInv, WrapInv
  <2>2. cache.address \in Addr
    BY <2>1, SettingFacts, GeometryAssumption DEF NoAddr, Addr
  <2>3. Committed <=> ~OldRemains
    BY <1>3 DEF Committed
  <2>4. CASE OldRemains
    BY <2>1, <2>2, <2>3, <2>4, WordFacts, NewestIsDurable
  <2>5. CASE ~OldRemains
    <3>1. at > cache.address \/ (at = cache.address /\ half)
      BY <2>2, <2>5, SettingFacts DEF OldRemains, Addr
    <3>2. \A b \in Addr : b > 0 => ~IsState(flash[b])
      <4> TAKE b \in Addr
      <4> HAVE b > 0
      <4>1. CASE b > cache.address
        BY <2>1, <4>1
      <4>2. CASE b < at
        <5>1. flash[b] = Erased
          BY <2>1, <4>2 DEF ErasedFrom, Addr
        <5> QED
          BY <5>1, WordFacts
      <4>3. CASE b = at /\ half
        BY <2>1, <4>3, WordFacts DEF Wiping
      <4> QED
        BY <2>2, <3>1, <4>1, <4>2, <4>3, SettingFacts DEF Addr
    <3>3. 0 \in Addr /\ IsState(flash[0]) /\ flash[0].data = arg
      BY <2>1, SettingFacts, WordFacts
    <3> QED
      BY <2>3, <2>5, <3>2, <3>3, NewestIsDurable
  <2> QED
    BY <2>4, <2>5
<1>4. CASE pc = "readback"
  BY <1>4 DEF SetInv, Committed
<1> QED
  BY <1>1, <1>2, <1>3, <1>4 DEF Setting

\* Once the new state is found it stays: no later step of the set brings the
\* old one back.
LEMMA CommittedStays ==
    ASSUME TypeInv, SetInv, Committed, Step, pc' \in Setting
    PROVE  Committed'
<1>1. pc \in Setting /\ at \in Int /\ cache.address \in Int
  BY SettingFacts DEF Committed, Setting, Addr
<1>2. CASE Append
  BY <1>2 DEF Append, Write, Committed
<1>3. CASE WriteSecond
  BY <1>3 DEF WriteSecond, Write, Committed
<1>4. CASE WriteBlank
  BY <1>4 DEF WriteBlank, Write, Committed
<1>5. CASE EraseRest
  <2>1. pc = "eraseRest" /\ ~OldRemains
    BY <1>5 DEF EraseRest, Committed
  <2>2. cache' = cache
    BY <1>5 DEF EraseRest, Erase
  <2>3. \/ pc' = "readback"
        \/ /\ pc' = "eraseRest"
           /\ (at' = at /\ half') \/ at' = at + 1
    BY <1>5, <2>1 DEF EraseRest, Erase
  <2>4. at > cache.address \/ (at = cache.address /\ half)
    BY <1>1, <2>1 DEF OldRemains
  <2>5. pc' = "eraseRest" => ~OldRemains'
    BY <1>1, <2>2, <2>3, <2>4 DEF OldRemains
  <2> QED
    BY <2>3, <2>5 DEF Committed
<1>6. CASE EraseFirst \/ WriteFirst \/ EraseTail \/ EraseAll
  BY <1>6 DEF Committed, EraseFirst, WriteFirst, EraseTail, EraseAll
<1>7. CASE Readback
  BY <1>7 DEF Readback, Setting
<1> QED
  BY <1>2, <1>3, <1>4, <1>5, <1>6, <1>7 DEF Step

-----------------------------------------------------------------------------
(***************************************************************************)
(* The invariant of set, and what it shows.                                *)
(***************************************************************************)
\* The inductive invariant: types, an honest cache, and the progress of set.
JournalInv == TypeInv /\ CacheCoherent /\ SetInv /\ ReadbackSucceeds

LEMMA JournalInit == Init => JournalInv
<1> SUFFICES ASSUME Init PROVE JournalInv
  OBVIOUS
<1>1. CacheCoherent /\ SetInv /\ ReadbackSucceeds
  BY DEF Init, CacheCoherent, SetInv, AppendInv, WrapInv, TailInv, BlankInv,
         ReadbackSucceeds, Setting
<1> QED
  BY <1>1, TypeInit DEF JournalInv

LEMMA ReadbackStep ==
    ASSUME JournalInv, Readback
    PROVE  pc' = "ready"
  BY DEF JournalInv, SetInv, Readback, ComputeCache

LEMMA SetStep ==
    ASSUME ~FaultyMedium, ~CallerRetries, JournalInv, [Next]_vars
    PROVE  SetInv' /\ ReadbackSucceeds'
<1> USE DEF JournalInv
<1>1. CASE New \/ NewError \/ PowerLoss
  BY <1>1 DEF New, NewError, PowerLoss, ReadbackSucceeds, Setting,
              SetInv, AppendInv, WrapInv, TailInv, BlankInv
<1>2. CASE Call
  <2>1. SetInv'
    BY <1>2, CallStep DEF Call
  <2>2. ReadbackSucceeds'
    BY <1>2 DEF Call, SetSame, SetAppend, SetWrap, SetTail, SetBlank, Begin,
                ReadbackSucceeds
  <2> QED
    BY <2>1, <2>2
<1>3. CASE Readback
  <2>1. pc' = "ready"
    BY <1>3, ReadbackStep
  <2> QED
    BY <2>1 DEF ReadbackSucceeds, Setting, SetInv, AppendInv, WrapInv, TailInv,
                BlankInv
<1>4. CASE Step /\ ~Readback
  <2>1. SetInv'
    BY <1>4, AppendStep, EraseFirstStep, WriteFirstStep, EraseRestStep,
       EraseTailStep, WriteSecondStep, EraseAllStep, WriteBlankStep DEF Step
  <2>2. pc' # "rejected"
    BY <1>4 DEF Step, Append, EraseFirst, WriteFirst, EraseRest, EraseTail,
                WriteSecond, EraseAll, WriteBlank, Write, Erase
  <2> QED
    BY <2>1, <2>2 DEF ReadbackSucceeds
<1>5. CASE IoError
  <2>1. Durable(flash) \in {cache.state, arg}
    BY <1>5, DurableExact DEF IoError
  <2> QED
    BY <1>5, <2>1 DEF IoError, ReadbackSucceeds, Setting,
                      SetInv, AppendInv, WrapInv, TailInv, BlankInv
<1>6. CASE UNCHANGED vars
  BY <1>6 DEF vars, ReadbackSucceeds, SetInv, AppendInv, WrapInv, TailInv,
              BlankInv, CachedUpTo, ErasedFrom, Programming, Wiping, OldRemains
<1> QED
  BY <1>1, <1>2, <1>3, <1>4, <1>5, <1>6 DEF Next

LEMMA JournalStep ==
    ASSUME ~FaultyMedium, ~CallerRetries
    PROVE  JournalInv /\ [Next]_vars => JournalInv'
  BY TypeStep, CoherentStep, SetStep DEF JournalInv

LEMMA JournalAlways ==
    ASSUME ~FaultyMedium, ~CallerRetries
    PROVE  Spec => []JournalInv
  BY JournalInit, JournalStep, PTL DEF Spec

\* The invariant of every step of set, as the runs check it.
THEOREM SetInvariant ==
    ASSUME ~FaultyMedium, ~CallerRetries
    PROVE  Spec => []SetInv
<1>1. JournalInv => SetInv
  BY DEF JournalInv
<1> QED
  BY <1>1, JournalAlways, PTL

\* Wherever set is cut short, by a power loss or by an error of the medium,
\* what the next scan finds is the old state or the new one.
THEOREM NeverLost ==
    ASSUME ~FaultyMedium, ~CallerRetries
    PROVE  Spec => []OldOrNew
<1>1. JournalInv => OldOrNew
  BY DurableExact DEF JournalInv, OldOrNew, SetInv
<1> QED
  BY <1>1, JournalAlways, PTL

\* On a medium without faults set never returns ReadbackFailed, whatever
\* interrupted sets have left behind on the flash.
THEOREM NoReadbackFailure ==
    ASSUME ~FaultyMedium, ~CallerRetries
    PROVE  Spec => []ReadbackSucceeds
<1>1. JournalInv => ReadbackSucceeds
  BY DEF JournalInv
<1> QED
  BY <1>1, JournalAlways, PTL

LEMMA WriteErased ==
    ASSUME TypeOK, arg \in StateData, Programming,
           NEW then, NEW next, Write(then, next)
    PROVE  \A a \in Addr, b \in {"data", "crc"} :
              flash'[a][b] \in {flash[a][b], FF} \/ flash[a][b] = FF
<1>1. flash \in [Addr -> Word] /\ at \in Addr
  BY DEF TypeOK
<1>2. CASE ~half
  <2>1. PICK v : flash' = [flash EXCEPT ![at].data = v]
    BY <1>2 DEF Write
  <2>2. flash[at].data = FF
    BY <1>2 DEF Programming, Erased
  <2> QED
    BY <1>1, <2>1, <2>2 DEF Word
<1>3. CASE half
  <2>1. PICK v : flash' = [flash EXCEPT ![at].crc = v]
    BY <1>3 DEF Write
  <2>2. flash[at].crc = FF
    BY <1>3 DEF Programming
  <2> QED
    BY <1>1, <2>1, <2>2 DEF Word
<1> QED
  BY <1>2, <1>3

LEMMA EraseErases ==
    ASSUME TypeOK, ~FaultyMedium,
           NEW end, NEW then, NEW next, Erase(end, then, next)
    PROVE  \A a \in Addr, b \in {"data", "crc"} :
              flash'[a][b] \in {flash[a][b], FF}
<1>1. flash \in [Addr -> Word] /\ at \in Addr
  BY DEF TypeOK
<1>2. \/ flash' = [flash EXCEPT ![at].data = FF]
      \/ flash' = [flash EXCEPT ![at].crc = FF]
  BY DEF Erase, Settled
<1> QED
  BY <1>1, <1>2 DEF Word

\* set programs a byte only where an erase, or the partition's first use, has
\* left it erased: no bit is ever asked to go from 0 back to 1 by programming.
THEOREM OnlyErasedProgrammed ==
    ASSUME ~FaultyMedium, ~CallerRetries
    PROVE  Spec => ProgramsOnlyErased
<1>1. ASSUME JournalInv, [Next]_vars
      PROVE  [\A a \in Addr, b \in {"data", "crc"} :
                \/ flash'[a][b] \in {flash[a][b], FF}
                \/ flash[a][b] = FF]_vars
  <2>1. CASE flash' = flash
    BY <2>1
  <2>2. CASE Append \/ WriteFirst \/ WriteSecond \/ WriteBlank
    <3>1. pc \in Setting /\ Programming
      BY <1>1, <2>2 DEF JournalInv, SetInv, AppendInv, WrapInv, TailInv, BlankInv,
                        Append, WriteFirst, WriteSecond, WriteBlank, Setting
    <3> QED
      BY <1>1, <2>2, <3>1, SettingFacts, WriteErased
         DEF JournalInv, Append, WriteFirst, WriteSecond, WriteBlank
  <2>3. CASE EraseFirst \/ EraseRest \/ EraseTail \/ EraseAll
    BY <1>1, <2>3, EraseErases
       DEF JournalInv, TypeInv, EraseFirst, EraseRest, EraseTail, EraseAll
  <2> QED
    BY <1>1, <2>1, <2>2, <2>3
       DEF Next, New, NewError, Call, SetSame, SetAppend, SetWrap,
           SetTail, SetBlank, Begin, Step, Readback, IoError, PowerLoss, vars
<1> QED
  BY <1>1, JournalAlways, PTL DEF Spec, ProgramsOnlyErased

-----------------------------------------------------------------------------
(***************************************************************************)
(* The refinement.                                                         *)
(***************************************************************************)
LEMMA HandleFacts ==
    /\ pc \in {"off", "refused"} => Handle = "closed"
    /\ pc = "ready" => Handle = "open"
    /\ pc \in Setting => Handle = "setting"
    /\ pc \in {"rejected", "failed"} => Handle = "broken"
  BY DEF Handle, Setting

LEMMA HandleFactsPrimed ==
    /\ pc' \in {"off", "refused"} => Handle' = "closed"
    /\ pc' = "ready" => Handle' = "open"
    /\ pc' \in Setting => Handle' = "setting"
    /\ pc' \in {"rejected", "failed"} => Handle' = "broken"
  BY DEF Handle, Setting

LEMMA RegisterInit ==
    ASSUME Init
    PROVE  Register!Init
<1>1. TypeInv
  BY TypeInit
<1>2. Durable(flash) \in StateData \cup {NoState}
  BY <1>1, ComputeCacheType DEF TypeInv, TypeOK
<1>3. Handle = "closed"
  BY HandleFacts DEF Init
<1> QED
  BY <1>2, <1>3 DEF Init, NoCache, Register!Init

\* What a scan finds during a set, as a state predicate.
FoundDuringSet ==
    pc \in Setting => Durable(flash) = IF Committed THEN arg ELSE cache.state

LEMMA RegisterStep ==
    ASSUME ~FaultyMedium, ~CallerRetries, JournalInv, FoundDuringSet,
           FoundDuringSet', [Next]_vars
    PROVE  [Register!Next]_(Register!vars)
<1> USE DEF Register!Next, Register!vars
<1>1. CASE New
  <2>1. /\ Handle = "closed" /\ Handle' = "open"
        /\ cache'.state = Durable(flash) /\ arg' = NoState
        /\ flash' = flash
    BY <1>1, HandleFacts, HandleFactsPrimed
       DEF New, ComputeCache, JournalInv, TypeInv, OpenInv
  <2> QED
    BY <2>1 DEF Register!Open
<1>2. CASE NewError
  <2>1. /\ Handle = "closed" /\ Handle' = "closed"
        /\ cache' = cache /\ arg' = arg /\ flash' = flash
    BY <1>2, HandleFacts, HandleFactsPrimed DEF NewError
  <2> QED
    BY <2>1
<1>3. CASE Call
  <2>1. PICK s \in StateData :
            SetSame(s) \/ SetAppend(s) \/ SetWrap(s) \/ SetTail(s) \/ SetBlank(s)
    BY <1>3 DEF Call
  <2>2. Handle = "open" /\ flash' = flash /\ cache' = cache /\ arg' = s
    BY <2>1, HandleFacts
       DEF SetSame, SetAppend, SetWrap, SetTail, SetBlank, Begin, Callable
  <2>3. CASE SetSame(s)
    <3>1. Handle' = "open" /\ s = cache.state
      BY <2>3, HandleFactsPrimed DEF SetSame
    <3> QED
      BY <2>2, <3>1 DEF Register!SetSame
  <2>4. CASE ~SetSame(s)
    <3>1. Handle' = "setting" /\ s # cache.state
      BY <2>1, <2>4, HandleFactsPrimed
         DEF SetAppend, SetWrap, SetTail, SetBlank, Begin, Setting
    <3> QED
      BY <2>2, <3>1 DEF Register!SetBegin
  <2> QED
    BY <2>3, <2>4
<1>4. CASE Readback
  <2>1. pc' = "ready"
    BY <1>4, ReadbackStep
  <2>2. /\ Handle = "setting" /\ Handle' = "open"
        /\ Durable(flash) = arg
        /\ cache'.state = arg /\ arg' = arg /\ flash' = flash
    BY <1>4, <2>1, HandleFacts, HandleFactsPrimed
       DEF Readback, ComputeCache, JournalInv, SetInv, Setting
  <2> QED
    BY <2>2 DEF Register!SetOk
<1>5. CASE Step /\ ~Readback
  <2>1. pc \in Setting /\ pc' \in Setting
    BY <1>5 DEF Step, Append, EraseFirst, WriteFirst, EraseRest, EraseTail,
                WriteSecond, EraseAll, WriteBlank, Write, Erase, Setting
  <2>2. cache' = cache /\ arg' = arg
    BY <1>5 DEF Step, Append, EraseFirst, WriteFirst, EraseRest, EraseTail,
                WriteSecond, EraseAll, WriteBlank, Write, Erase
  <2>3. Handle = "setting" /\ Handle' = "setting"
    BY <2>1, HandleFacts, HandleFactsPrimed
  <2>4. Durable(flash) = IF Committed THEN arg ELSE cache.state
    BY <2>1 DEF FoundDuringSet
  <2>5. Durable(flash') = IF Committed' THEN arg ELSE cache.state
    BY <2>1, <2>2 DEF FoundDuringSet
  <2>6. Committed => Committed'
    BY <1>5, <2>1, CommittedStays DEF JournalInv
  <2>7. CASE Committed'
    BY <2>2, <2>3, <2>5, <2>7 DEF Register!Commit
  <2>8. CASE ~Committed'
    BY <2>2, <2>3, <2>4, <2>5, <2>6, <2>8
  <2> QED
    BY <2>7, <2>8
<1>6. CASE IoError
  <2>1. /\ Handle = "setting" /\ Handle' = "broken"
        /\ cache' = cache /\ arg' = arg /\ flash' = flash
    BY <1>6, HandleFacts, HandleFactsPrimed DEF IoError
  <2> QED
    BY <2>1 DEF Register!SetErr
<1>7. CASE PowerLoss
  <2>1. /\ Handle' = "closed" /\ flash' = flash
        /\ cache'.state = NoState /\ arg' = NoState
    BY <1>7, HandleFactsPrimed DEF PowerLoss, NoCache
  <2> QED
    BY <2>1 DEF Register!Close
<1>8. CASE UNCHANGED vars
  <2>1. flash' = flash /\ cache' = cache /\ arg' = arg /\ Handle' = Handle
    BY <1>8 DEF vars, Handle
  <2> QED
    BY <2>1
<1> QED
  BY <1>1, <1>2, <1>3, <1>4, <1>5, <1>6, <1>7, <1>8 DEF Next

\* The journal implements a register that survives power loss: a set, however
\* many words and pages it touches, replaces the stored state in one instant.
THEOREM JournalIsRegister ==
    ASSUME ~FaultyMedium, ~CallerRetries
    PROVE  Spec => ImplementsRegister
<1>1. JournalInv => FoundDuringSet
  BY DurableExact DEF JournalInv, FoundDuringSet
<1>2. JournalInv /\ FoundDuringSet /\ FoundDuringSet' /\ [Next]_vars =>
        [Register!Next]_(Register!vars)
  BY RegisterStep
<1> QED
  BY <1>1, <1>2, RegisterInit, JournalAlways, PTL
     DEF Spec, ImplementsRegister, Register!Spec
=============================================================================
