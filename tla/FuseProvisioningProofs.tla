----------------------- MODULE FuseProvisioningProofs -----------------------
(***************************************************************************)
(* That a burn can be interrupted and resumed in the images that a         *)
(* verifying bootloader starts: for every width of the words, every set of *)
(* key tables and every mix of the two builds of the bootloader.           *)
(***************************************************************************)
EXTENDS FuseProvisioning, TLAPS

\* The driver finds every shadow register where the hardware has it.
LEMMA DriverOffset ==
    \A w \in Words : OtpToShadowOffset(w) = Home(w)
<1> SUFFICES ASSUME NEW w \in Words
             PROVE  OtpToShadowOffset(w) = Home(w)
    OBVIOUS
<1>1. CASE w = 96
    BY <1>1 DEF OtpToShadowOffset, Home
<1>2. CASE w \in 120 .. 127
    BY <1>2 DEF OtpToShadowOffset, Home
<1> QED  BY <1>1, <1>2 DEF Words, BootCfg0, Rkth

\* So that the application reads the table that is in force.
LEMMA DriverReads ==
    ShadowRkth = RkthInForce
<1>1. \A w \in Rkth : OtpToShadowOffset(w) = Home(w)
    BY DriverOffset DEF Words
<1> QED  BY <1>1 DEF ShadowRkth, RkthInForce

\* A copy of the fuses has the type of the shadow registers.
LEMMA ReloadType ==
    ASSUME TypeOK
    PROVE  ReloadShadow \in [Offsets -> SUBSET Bits]
<1> SUFFICES ASSUME NEW o \in Offsets
             PROVE  fuses[CHOOSE w \in Words : o = Home(w)] \in SUBSET Bits
    BY DEF ReloadShadow
<1>1. \E w \in Words : o = Home(w)
    BY DEF Offsets
<1>2. (CHOOSE w \in Words : o = Home(w)) \in Words
    BY <1>1
<1> QED  BY <1>2 DEF TypeOK

\* Storing a table keeps the type of the shadow registers.
LEMMA WithRkthType ==
    ASSUME NEW sh \in [Offsets -> SUBSET Bits], NEW k \in Tables
    PROVE  WithRkth(sh, k) \in [Offsets -> SUBSET Bits]
<1> SUFFICES ASSUME NEW o \in Offsets
             PROVE  (IF \E w \in Rkth : o = OtpToShadowOffset(w)
                     THEN k[CHOOSE w \in Rkth : o = OtpToShadowOffset(w)]
                     ELSE sh[o]) \in SUBSET Bits
    BY DEF WithRkth
<1>1. CASE \E w \in Rkth : o = OtpToShadowOffset(w)
  <2>1. (CHOOSE w \in Rkth : o = OtpToShadowOffset(w)) \in Rkth
      BY <1>1
  <2> QED  BY <1>1, <2>1 DEF Tables
<1>2. CASE ~ \E w \in Rkth : o = OtpToShadowOffset(w)
    BY <1>2
<1> QED  BY <1>1, <1>2

\* What a boot leaves in the shadow registers, and where it ends.  The table
\* of an image that was verified is in force.
LEMMA BootType ==
    ASSUME TypeOK, NEW k \in KeyTables, NEW sh \in [Offsets -> SUBSET Bits],
           Bootload(k, sh)
    PROVE  /\ shadow' \in [Offsets -> SUBSET Bits] /\ pc' \in {"off", "app"}
           /\ verified' \in KeyTables \cup {None}
           /\ verified' # None => RkthInForce' = verified'
<1>1. k \in Tables
    BY FuseAssumption
<1>2. CASE CheckImage(k)
  <2>1. ReloadShadow \in [Offsets -> SUBSET Bits]
      BY ReloadType
  <2>2. WithRkth(ReloadShadow, k) \in [Offsets -> SUBSET Bits]
      BY <1>1, <2>1, WithRkthType
  <2> QED  BY <1>2, <2>1, <2>2 DEF CheckImage
<1>3. CASE shadow' = sh /\ pc' = "app" /\ verified' = None
    BY <1>3
<1> QED  BY <1>2, <1>3 DEF Bootload

\* The registers the host writes.
LEMMA HostType ==
    ASSUME NEW k \in KeyTables
    PROVE  [o \in Offsets |->
              IF o = Home(BootCfg0) THEN Boot0Value ELSE k[o \div 4]]
           \in [Offsets -> SUBSET Bits]
<1> SUFFICES ASSUME NEW o \in Offsets, o # Home(BootCfg0)
             PROVE  k[o \div 4] \in SUBSET Bits
    BY FuseAssumption
<1>1. PICK w \in Words : o = 4 * w
    BY DEF Offsets, Home
<1>2. w \in Rkth
    BY <1>1 DEF Words, Home, BootCfg0
<1>3. o \div 4 = w
    BY <1>1, <1>2 DEF Rkth
<1>4. k \in [Rkth -> SUBSET Bits]
    BY FuseAssumption DEF Tables
<1> QED  BY <1>2, <1>3, <1>4

-----------------------------------------------------------------------------
\* Neither a boot nor a run of the host changes the fuses or is a press.
LEMMA BootStep ==
    ASSUME TypeOK, NEW k \in KeyTables, PowerOn(k) \/ Run(k)
    PROVE  /\ shadow' \in [Offsets -> SUBSET Bits]
           /\ pc = "off" /\ pc' \in {"off", "app"}
           /\ verified' \in KeyTables \cup {None}
           /\ verified' # None => RkthInForce' = verified'
           /\ UNCHANGED <<fuses, next, data, used>>
<1>1. CASE PowerOn(k)
    BY <1>1, ReloadType, BootType DEF PowerOn
<1>2. CASE Run(k)
    BY <1>2, HostType, BootType DEF Run
<1> QED  BY <1>1, <1>2

\* The burn ends with the word 127, so that the index stays in the register.
THEOREM TypeCorrect == Spec => []TypeOK
<1>1. Init => TypeOK
  <2> SUFFICES ASSUME Init PROVE TypeOK
      OBVIOUS
  <2>1. Zero \in Tables
      BY DEF Zero, Tables
  <2> QED  BY <2>1 DEF Init, TypeOK, Blank, Rkth
<1>2. TypeOK /\ [Next]_vars => TypeOK'
  <2> SUFFICES ASSUME TypeOK, [Next]_vars PROVE TypeOK'
      OBVIOUS
  <2>z. Zero \in Tables /\ 120 \in Rkth
      BY DEF Zero, Tables, Rkth
  <2>o. TurnedOff => /\ pc' = "off" /\ shadow' \in [Offsets -> SUBSET Bits]
                     /\ next' \in Rkth /\ data' \in Tables /\ used' = used
                     /\ verified' = None
      BY <2>z DEF TurnedOff, Blank
  <2>1. ASSUME NEW k \in KeyTables, PowerOn(k) \/ Run(k) PROVE TypeOK'
      BY <2>1, BootStep DEF TypeOK
  <2>2. CASE LongPress
    <3>1. RkthInForce \in Tables
        BY DEF RkthInForce, Tables, TypeOK, Offsets, Words
    <3>2. ShadowRkth \in Tables
        BY <3>1, DriverReads
    <3>3. used' \in KeyTables \cup {None, Mixed}
        BY <2>2 DEF LongPress, Remember, TypeOK
    <3> QED  BY <2>2, <2>z, <3>2, <3>3 DEF LongPress, TypeOK
  <2>3. CASE BurnWord
    <3>1. next \in Words /\ data[next] \in SUBSET Bits
        BY DEF TypeOK, Words, Tables
    <3>2. fuses' \in [Words -> SUBSET Bits]
        BY <2>3, <3>1 DEF BurnWord, TypeOK
    <3>3. next' \in Rkth
        BY <2>3 DEF BurnWord, TypeOK, Rkth
    <3> QED  BY <2>3, <3>2, <3>3 DEF BurnWord, TypeOK, history
  <2>4. CASE BurnBoot0
    <3>1. fuses' \in [Words -> SUBSET Bits]
        BY <2>4, FuseAssumption DEF BurnBoot0, TypeOK, Words
    <3> QED  BY <2>4, <2>z, <3>1 DEF BurnBoot0, TypeOK, history
  <2>5. CASE Interrupted
    <3>1. Current.word \in Words /\ Current.bits \in SUBSET Bits
      <4>1. CASE pc = "rkth"
          BY <4>1 DEF Current, TypeOK, Words, Tables
      <4>2. CASE pc = "boot0"
          BY <4>2, FuseAssumption DEF Current, Words
      <4> QED  BY <2>5, <4>1, <4>2 DEF Interrupted
    <3>2. fuses' \in [Words -> SUBSET Bits]
        BY <2>5, <3>1 DEF Interrupted, TypeOK
    <3> QED  BY <2>5, <2>o, <3>2 DEF Interrupted, TypeOK
  <2>6. CASE Reset
      BY <2>6, <2>o DEF Reset, TypeOK
  <2>7. CASE UNCHANGED vars
      BY <2>7 DEF vars, history, TypeOK
  <2> QED  BY <2>1, <2>2, <2>3, <2>4, <2>5, <2>6, <2>7 DEF Next
<1> QED  BY <1>1, <1>2, PTL DEF Spec

-----------------------------------------------------------------------------
\* A step that leaves the shadow registers and the running image alone.
LEMMA SameImage ==
    ASSUME BurnInv, UNCHANGED <<shadow, verified>>
    PROVE  verified' # None => RkthInForce' = verified'
BY DEF BurnInv, RkthInForce

\* A press in a verified image is remembered with the table it burns.
LEMMA PressKeepsInv ==
    ASSUME TypeOK, BurnInv, LongPress
    PROVE  BurnInv'
<1>0. verified' # None => RkthInForce' = verified'
    BY SameImage DEF LongPress
<1>1. ShadowRkth \in Tables /\ RkthInForce = ShadowRkth
    BY DriverReads DEF RkthInForce, Tables, TypeOK, Offsets, Words
<1>2. /\ used' # None
      /\ used' \in Tables => /\ used' = ShadowRkth /\ ShadowRkth # Zero
                             /\ used \in {None, ShadowRkth}
  <2>1. CASE verified # None /\ used \in {None, verified}
    <3>1. used' = verified /\ verified \in Tables \ {Zero}
        BY <2>1, FuseAssumption DEF LongPress, Remember, TypeOK
    <3>2. verified = ShadowRkth
        BY <1>1, <2>1 DEF BurnInv
    <3> QED  BY <2>1, <3>1, <3>2, FuseAssumption
  <2>2. CASE ~(verified # None /\ used \in {None, verified})
      BY <2>2, FuseAssumption DEF LongPress, Remember
  <2> QED  BY <2>1, <2>2
<1>3. fuses' = fuses /\ data' = ShadowRkth /\ next' = 120
    BY DEF LongPress
<1>4. ASSUME used' \in Tables
      PROVE  /\ \A w \in Rkth : fuses[w] \subseteq used'[w]
             /\ pc' = "boot0" \/ fuses[BootCfg0] # {} => FuseRkth = used'
  <2>1. CASE used = None
    <3>1. \A w \in Words : fuses[w] = {}
        BY <2>1 DEF BurnInv, Blank
    <3>2. \A w \in Rkth : fuses[w] = {}
        BY <3>1 DEF Words
    <3>3. fuses[BootCfg0] = {}
        BY <3>1 DEF Words
    <3> QED  BY <1>2, <1>4, <2>1, <3>2, <3>3 DEF LongPress
  <2>2. CASE used = ShadowRkth
      BY <1>4, <1>1, <1>2, <2>2 DEF LongPress, BurnInv
  <2> QED  BY <1>2, <1>4, <2>1, <2>2
<1>5. \A w \in Rkth : ~(w < next')
    BY <1>3 DEF Rkth
<1>6. FuseRkth' = FuseRkth
    BY <1>3 DEF FuseRkth
<1> QED  BY <1>0, <1>2, <1>3, <1>4, <1>5, <1>6 DEF BurnInv

\* A word passed by the burn holds the table's bits.
LEMMA BurnKeepsInv ==
    ASSUME TypeOK, BurnInv, BurnWord
    PROVE  BurnInv'
<1>0. verified' # None => RkthInForce' = verified'
    BY SameImage DEF BurnWord, history
<1>1. /\ next \in Rkth /\ next \in Words /\ BootCfg0 \in Words /\ next # BootCfg0
      /\ fuses' = [fuses EXCEPT ![next] = @ \cup data[next]]
      /\ data' = data /\ used' = used /\ pc = "rkth" /\ used # None
    BY DEF TypeOK, BurnWord, Words, Rkth, BootCfg0, BurnInv, history
<1>2. \A w \in Rkth : fuses'[w] = IF w = next THEN fuses[w] \cup data[w] ELSE fuses[w]
    BY <1>1 DEF TypeOK, Words
<1>3. fuses'[BootCfg0] = fuses[BootCfg0]
    BY <1>1 DEF TypeOK
<1>4. \A w \in Rkth : w < next => data[w] \subseteq fuses'[w]
    BY <1>1, <1>2 DEF BurnInv
<1>5. data[next] \subseteq fuses'[next]
    BY <1>1, <1>2
<1>6. ASSUME used \in Tables
      PROVE  \A w \in Rkth : fuses'[w] \subseteq used[w]
    BY <1>1, <1>2, <1>6 DEF BurnInv
<1>7. CASE next = 127
  <2>1. \A w \in Rkth : data[w] \subseteq fuses'[w]
    <3>1. \A w \in Rkth : w < next \/ w = next
        BY <1>7 DEF Rkth
    <3> QED  BY <1>4, <1>5, <3>1
  <2>2. ASSUME used \in Tables PROVE FuseRkth' = used
    <3>1. data = used
        BY <1>1, <2>2 DEF BurnInv
    <3>2. \A w \in Rkth : fuses'[w] = used[w]
        BY <1>6, <2>1, <2>2, <3>1
    <3> QED  BY <2>2, <3>2 DEF FuseRkth, Tables
  <2>3. pc' = "boot0"
      BY <1>7 DEF BurnWord
  <2> QED  BY <1>0, <1>1, <1>6, <2>2, <2>3 DEF BurnInv
<1>8. CASE next # 127
  <2>1. pc' = "rkth" /\ next' = next + 1
      BY <1>1, <1>8 DEF BurnWord
  <2>2. \A w \in Rkth : w < next' => data'[w] \subseteq fuses'[w]
    <3>1. \A w \in Rkth : w < next' => w < next \/ w = next
        BY <1>1, <2>1 DEF Rkth
    <3> QED  BY <1>1, <1>4, <1>5, <3>1
  <2>3. ASSUME used \in Tables, fuses[BootCfg0] # {}
        PROVE  FuseRkth' = used
    <3>1. FuseRkth = used
        BY <2>3 DEF BurnInv
    <3>2. \A w \in Rkth : fuses'[w] = fuses[w]
        BY <1>1, <1>2, <2>3, <3>1 DEF BurnInv, FuseRkth
    <3> QED  BY <3>1, <3>2 DEF FuseRkth
  <2> QED  BY <1>0, <1>1, <1>3, <1>6, <2>1, <2>2, <2>3 DEF BurnInv
<1> QED  BY <1>7, <1>8

\* An interrupted word holds no bits but the table's.
LEMMA InterruptedKeepsInv ==
    ASSUME TypeOK, BurnInv, Interrupted
    PROVE  BurnInv'
<1>0. used # None /\ used' = used /\ pc' = "off" /\ verified' = None
    BY DEF BurnInv, Interrupted, TurnedOff
<1>1. CASE pc = "rkth"
  <2>1. PICK bits \in SUBSET data[next] :
            fuses' = [fuses EXCEPT ![next] = @ \cup bits]
      BY <1>1 DEF Interrupted, Current
  <2>2. /\ next \in Words /\ BootCfg0 \in Words /\ next # BootCfg0 /\ next \in Rkth
      BY DEF TypeOK, Words, Rkth, BootCfg0
  <2>3. \A w \in Rkth : fuses[w] \subseteq fuses'[w] /\ fuses'[w] \subseteq fuses[w] \cup data[w]
      BY <2>1, <2>2 DEF TypeOK, Words
  <2>4. fuses'[BootCfg0] = fuses[BootCfg0]
      BY <2>1, <2>2 DEF TypeOK
  <2>5. ASSUME used \in Tables PROVE \A w \in Rkth : fuses'[w] \subseteq used[w]
      BY <1>1, <2>3, <2>5 DEF BurnInv
  <2>6. ASSUME used \in Tables, fuses[BootCfg0] # {}
        PROVE  FuseRkth' = used
    <3>1. FuseRkth = used
        BY <2>6 DEF BurnInv
    <3>2. \A w \in Rkth : fuses'[w] = fuses[w]
        BY <1>1, <2>3, <2>6, <3>1 DEF BurnInv, FuseRkth
    <3> QED  BY <3>1, <3>2 DEF FuseRkth
  <2> QED  BY <1>0, <2>4, <2>5, <2>6 DEF BurnInv
<1>2. CASE pc = "boot0"
  <2>1. PICK bits \in SUBSET Boot0Value :
            fuses' = [fuses EXCEPT ![BootCfg0] = @ \cup bits]
      BY <1>2 DEF Interrupted, Current
  <2>2. \A w \in Rkth : fuses'[w] = fuses[w]
      BY <2>1 DEF TypeOK, Words, Rkth, BootCfg0
  <2>3. FuseRkth' = FuseRkth
      BY <2>2 DEF FuseRkth
  <2> QED  BY <1>0, <1>2, <2>2, <2>3 DEF BurnInv
<1> QED  BY <1>1, <1>2 DEF Interrupted

\* BOOT_CFG0 is burned when the table is complete.
LEMMA Boot0KeepsInv ==
    ASSUME TypeOK, BurnInv, BurnBoot0
    PROVE  BurnInv'
<1>0. verified' # None => RkthInForce' = verified'
    BY SameImage DEF BurnBoot0, history
<1>1. used # None /\ used' = used /\ pc' = "app" /\ pc = "boot0"
    BY DEF BurnInv, BurnBoot0, history
<1>2. \A w \in Rkth : fuses'[w] = fuses[w]
    BY DEF BurnBoot0, TypeOK, Words, Rkth, BootCfg0
<1>3. FuseRkth' = FuseRkth
    BY <1>2 DEF FuseRkth
<1> QED  BY <1>0, <1>1, <1>2, <1>3 DEF BurnInv

\* The invariant behind an interrupted and resumed burn.
THEOREM BurnInvariant == Spec => []BurnInv
<1>1. Init => BurnInv
  <2> SUFFICES ASSUME Init PROVE BurnInv
      OBVIOUS
  <2> QED  BY FuseAssumption DEF Init, BurnInv, Blank
<1>2. TypeOK /\ BurnInv /\ [Next]_vars => BurnInv'
  <2> SUFFICES ASSUME TypeOK, BurnInv, [Next]_vars PROVE BurnInv'
      OBVIOUS
  <2>1. ASSUME NEW k \in KeyTables, PowerOn(k) \/ Run(k) PROVE BurnInv'
    <3>1. /\ pc = "off" /\ pc' \in {"off", "app"} /\ UNCHANGED <<fuses, next, data, used>>
          /\ verified' # None => RkthInForce' = verified'
        BY <2>1, BootStep
    <3>2. FuseRkth' = FuseRkth
        BY <3>1 DEF FuseRkth
    <3> QED  BY <3>1, <3>2 DEF BurnInv
  <2>2. CASE LongPress
      BY <2>2, PressKeepsInv
  <2>3. CASE BurnWord
      BY <2>3, BurnKeepsInv
  <2>4. CASE BurnBoot0
      BY <2>4, Boot0KeepsInv
  <2>5. CASE Interrupted
      BY <2>5, InterruptedKeepsInv
  <2>6. CASE Reset
    <3>1. pc' = "off" /\ fuses' = fuses /\ used' = used /\ verified' = None
        BY <2>6 DEF Reset, TurnedOff
    <3>2. FuseRkth' = FuseRkth
        BY <3>1 DEF FuseRkth
    <3> QED  BY <3>1, <3>2 DEF BurnInv
  <2>7. CASE UNCHANGED vars
    <3>1. FuseRkth' = FuseRkth
        BY <2>7 DEF vars, FuseRkth
    <3>2. verified' # None => RkthInForce' = verified'
        BY <2>7, SameImage DEF vars, history
    <3> QED  BY <2>7, <3>1, <3>2 DEF vars, history, BurnInv
  <2> QED  BY <2>1, <2>2, <2>3, <2>4, <2>5, <2>6, <2>7 DEF Next
<1> QED  BY <1>1, <1>2, TypeCorrect, PTL DEF Spec

\* A device whose USER1 was only pressed in verified images with one key table
\* has exactly that table in its fuses once secure boot is on, at whatever bit
\* its burns were interrupted and whatever was booted before they were resumed.
THEOREM BurnIsResumable == Spec => []SecureMeansThatTable
<1>1. BurnInv => SecureMeansThatTable
  <2> SUFFICES ASSUME BurnInv, NEW k \in KeyTables, FuseSecure, used = k
               PROVE  FuseRkth = k
      BY DEF SecureMeansThatTable
  <2>1. k \in Tables /\ k # Zero
      BY FuseAssumption
  <2>2. fuses[BootCfg0] # {}
      BY DEF FuseSecure
  <2> QED  BY <2>1, <2>2 DEF BurnInv
<1> QED  BY <1>1, BurnInvariant, PTL
=============================================================================
