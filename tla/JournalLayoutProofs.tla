------------------------ MODULE JournalLayoutProofs ------------------------
(***************************************************************************)
(* Facts about what a scan finds, for every content of a partition of any  *)
(* size, used by the proofs about FlashJournal and JournalScan.            *)
(***************************************************************************)
EXTENDS JournalLayout, WellFoundedInduction, TLAPS

\* Every non-empty set of natural numbers has a least element.
LEMMA LeastNat ==
    ASSUME NEW T \in SUBSET Nat, T # {}
    PROVE  \E x \in T : \A y \in T : x <= y
<1> DEFINE R == {ss \in Nat \X Nat : ss[1] < ss[2]}
<1>1. IsWellFoundedOn(R, Nat)
  BY NatLessThanWellFounded, Zenon DEF OpToRel
<1>2. \A m, n \in Nat : m < n => <<m, n>> \in R
  OBVIOUS
<1> HIDE DEF R
<1>3. PICK x \in T : \A y \in T : ~ (<<y, x>> \in R)
  BY <1>1, WFMin
<1>4. \A y \in T : ~ (y < x)
  BY <1>2, <1>3
<1> QED
  BY <1>4

\* Max and Min of a non-empty set of addresses are what their names say.
LEMMA MaxAddr ==
    ASSUME NEW S \in SUBSET Addr, S # {}
    PROVE  Max(S) \in S /\ \A y \in S : y <= Max(S)
<1>1. Capacity \in Nat
  BY GeometryAssumption
<1> DEFINE T == {n \in Nat : \E y \in S : n = Capacity - y}
<1>2. \A y \in S : Capacity - y \in T
  BY <1>1 DEF Addr
<1>3. T \in SUBSET Nat /\ T # {}
  BY <1>2
<1>4. PICK t \in T : \A u \in T : t <= u
  BY <1>3, LeastNat
<1>5. PICK x \in S : t = Capacity - x
  OBVIOUS
<1> HIDE DEF T
<1>6. \A y \in S : x >= y
  BY <1>1, <1>2, <1>4, <1>5 DEF Addr
<1>7. Max(S) \in S /\ \A y \in S : Max(S) >= y
  BY <1>6, Zenon DEF Max
<1> QED
  BY <1>1, <1>7 DEF Addr

LEMMA MinAddr ==
    ASSUME NEW S \in SUBSET Addr, S # {}
    PROVE  Min(S) \in S /\ \A y \in S : Min(S) <= y
<1>1. S \in SUBSET Nat
  BY GeometryAssumption DEF Addr
<1>2. PICK x \in S : \A y \in S : x <= y
  BY <1>1, LeastNat
<1> QED
  BY <1>2, Zenon DEF Min

\* A scan finds the valid word with the highest address.
LEMMA ScanFinds ==
    ASSUME NEW f
    PROVE  /\ Valid(f) = {} => LastValid(f) = NoAddr /\ Durable(f) = NoState
           /\ Valid(f) # {} => /\ LastValid(f) \in Addr
                               /\ IsState(f[LastValid(f)])
                               /\ Durable(f) = f[LastValid(f)].data
           /\ \A b \in Addr : b > LastValid(f) => ~IsState(f[b])
<1>1. CASE Valid(f) = {}
  BY <1>1 DEF LastValid, Durable, Valid
<1>2. CASE Valid(f) # {}
  <2>1. Valid(f) \in SUBSET Addr
    BY DEF Valid
  <2>2. /\ LastValid(f) \in Valid(f)
        /\ \A y \in Valid(f) : y <= LastValid(f)
    BY <1>2, <2>1, MaxAddr DEF LastValid
  <2>3. LastValid(f) \in Addr /\ IsState(f[LastValid(f)])
    BY <2>2 DEF Valid
  <2>4. \A b \in Addr : b > LastValid(f) => b \notin Valid(f)
    BY <2>2, <2>3, GeometryAssumption DEF Addr
  <2> QED
    BY <1>2, <2>3, <2>4 DEF Durable, Valid
<1> QED
  BY <1>1, <1>2

\* The first free word is behind the last state, and the first such one.
LEMMA ScanEmpty ==
    ASSUME NEW f
    PROVE  /\ FirstEmpty(f) = NoAddr =>
                \A b \in Addr : b > LastValid(f) => f[b] # Erased
           /\ FirstEmpty(f) # NoAddr => /\ FirstEmpty(f) \in Addr
                                        /\ f[FirstEmpty(f)] = Erased
                                        /\ FirstEmpty(f) > LastValid(f)
           /\ \A b \in Addr : b > LastValid(f) /\ f[b] = Erased =>
                FirstEmpty(f) <= b
<1>1. CASE Empty(f) = {}
  BY <1>1 DEF FirstEmpty, Empty, NoAddr, Addr
<1>2. CASE Empty(f) # {}
  <2>1. Empty(f) \in SUBSET Addr
    BY DEF Empty
  <2>2. /\ FirstEmpty(f) \in Empty(f)
        /\ \A y \in Empty(f) : FirstEmpty(f) <= y
    BY <1>2, <2>1, MinAddr DEF FirstEmpty
  <2>3. FirstEmpty(f) # NoAddr
    BY <2>1, <2>2, GeometryAssumption DEF Addr, NoAddr
  <2> QED
    BY <2>2, <2>3 DEF Empty
<1> QED
  BY <1>1, <1>2

\* A state with no state behind it is what a scan finds.
LEMMA NewestIsDurable ==
    ASSUME NEW f, NEW a \in Addr, IsState(f[a]),
           \A b \in Addr : b > a => ~IsState(f[b])
    PROVE  LastValid(f) = a /\ Durable(f) = f[a].data
<1>1. a \in Valid(f)
  BY DEF Valid
<1>2. LastValid(f) \in Addr /\ IsState(f[LastValid(f)])
  BY <1>1, ScanFinds
<1>3. ~(LastValid(f) > a) /\ ~(a > LastValid(f))
  BY <1>2, ScanFinds
<1>4. LastValid(f) = a
  BY <1>2, <1>3, GeometryAssumption DEF Addr
<1> QED
  BY <1>1, <1>4, ScanFinds

\* Without any state a scan finds none.
LEMMA NoneIsDurable ==
    ASSUME NEW f, \A b \in Addr : ~IsState(f[b])
    PROVE  LastValid(f) = NoAddr /\ Durable(f) = NoState
  BY ScanFinds DEF Valid

\* What a scan yields is a cache.
LEMMA ComputeCacheType ==
    ASSUME NEW f \in [Addr -> Word]
    PROVE  /\ ComputeCache(f) \in Cache
           /\ Durable(f) \in StateData \cup {NoState}
<1>1. LastValid(f) \in Addr \cup {NoAddr}
  BY ScanFinds
<1>2. Durable(f) \in StateData \cup {NoState}
  BY ScanFinds DEF IsState
<1>3. FirstEmpty(f) \in Addr \cup {NoAddr}
  BY ScanEmpty
<1> QED
  BY <1>1, <1>2, <1>3 DEF ComputeCache, Cache

LEMMA MinOfTwo ==
    \A m, n \in Nat : Min({m, n}) = IF m <= n THEN m ELSE n
<1>1. \A m, n \in Nat : m < n => Min({m, n}) = m /\ Min({n, m}) = m
  BY SMT DEF Min
<1>2. \A m \in Nat : Min({m, m}) = m
  BY SMT DEF Min
<1> TAKE m, n \in Nat
<1>3. CASE m = n
  BY <1>2, <1>3
<1>4. CASE m < n
  BY <1>1, <1>4
<1>5. CASE n < m
  BY <1>1, <1>5
<1> QED
  BY <1>3, <1>4, <1>5

\* The pages in words: a partition has two pages if it is larger than one,
\* the first page ends at PageWords and the last one with the partition.
LEMMA PageFacts ==
    /\ PageCount >= 2 <=> Capacity > PageWords
    /\ PageCount < 2 <=> Capacity <= PageWords
    /\ \A a \in Addr : /\ AddressToPage(a) > 0 <=> a >= PageWords
                       /\ AddressToPage(a) = 0 <=> a < PageWords
    /\ PageStart(0) = 0
    /\ PageStart(1) = PageWords
    /\ Capacity > PageWords => PageEnd(1) = PageWords
    /\ PageEnd(PageCount) = Capacity
<1>1. PageWords \in Nat /\ PageWords > 0 /\ Capacity \in Nat /\ Capacity > 0
  BY GeometryAssumption
<1>2. \A a \in Nat : /\ (a \div PageWords > 0) <=> a >= PageWords
                     /\ (a \div PageWords = 0) <=> a < PageWords
  BY <1>1, SMT
<1>3. PageCount < 2 <=> Capacity <= PageWords
  BY <1>1, SMT DEF PageCount
<1>4. PageCount * PageWords >= Capacity /\ PageCount \in Nat
  BY <1>1, SMT DEF PageCount
<1>7. PageEnd(PageCount) = Capacity
  <2>1. PageCount * PageWords \in Nat
    BY <1>1, <1>4, SMT
  <2> QED
    BY <2>1, <1>1, <1>4, MinOfTwo DEF PageEnd
<1>8. Capacity > PageWords => PageEnd(1) = PageWords
  BY <1>1, MinOfTwo DEF PageEnd
<1> QED
  BY <1>1, <1>2, <1>3, <1>4, <1>7, <1>8 DEF Addr, AddressToPage, PageStart
=============================================================================
