--------------------------- MODULE ImageLoadProofs ---------------------------
(***************************************************************************)
(* Theorems about ImageLoad, for every memory layout, every set of slots   *)
(* and every image.                                                        *)
(***************************************************************************)
EXTENDS ImageLoad, TLAPS

\* The steps that work on an image in RAM.
WithImage == {"certBlock", "otp", "reload", "enroll", "authenticate", "jump", "booted"}

LEMMA ZeroIsUsize == 0 \in Usize
  BY ImageAssumption DEF Usize

\* The header of "no image" is a header like any other.
LEMMA NoIvtType == NoIvt \in Ivts
  BY ZeroIsUsize DEF NoIvt, Ivts

\* A slot with a partition has a name, so that "no slot" is not one.
LEMMA ImageTypes ==
  ASSUME TypeOK, LoadInv, pc \in WithImage
  PROVE  /\ ram \in [slot : Slots, at : Usize, ivt : Ivts, body : BodyType]
         /\ ram.ivt.ptr \in Usize
         /\ ram.body.rkth \in Rkths
  <1>1. ram \in [slot : Slots, at : Usize, ivt : Ivts, body : BodyType]
    BY DEF TypeOK, LoadInv, ImageInRam, WithImage
  <1> QED BY <1>1 DEF Ivts, BodyType

-----------------------------------------------------------------------------
(***************************************************************************)
(* Type correctness.  TypeOK is not inductive: what Copy leaves in RAM has *)
(* its type only for a slot that exists, and Enroll and BootApplication    *)
(* only look at an image because there is one.                             *)
(***************************************************************************)
LEMMA TypeStep == ASSUME TypeOK, LoadInv, [Next]_vars PROVE TypeOK'
  <1>1. ASSUME NEW s \in Slots, Call(s) PROVE TypeOK'
    BY <1>1 DEF Call, TypeOK, MaxCalls, BootErrors
  <1>2. CASE ReadIvt
    <2>1. PICK h \in Headers : /\ ivt' = IF IvtError(h) = "none" THEN h ELSE NoIvt
                               /\ ReturnOr(IvtError(h), "copy")
      BY <1>2 DEF ReadIvt
    <2>2. ivt' \in Ivts
      BY <2>1, NoIvtType, ImageAssumption
    <2>3. IvtError(h) \in BootErrors \cup {"none"}
      BY DEF IvtError, BootErrors
    <2> QED BY <1>2, <2>1, <2>2, <2>3 DEF ReadIvt, ReturnOr, TypeOK
  <1>3. CASE Copy
    <2>1. PICK h \in Headers, b \in Bodies :
            /\ ram' = IF CopyError(h) = "none"
                      THEN [slot |-> slot, at |-> ivt.ptr, ivt |-> h, body |-> b]
                      ELSE NoImage
            /\ ReturnOr(CopyError(h), "certBlock")
      BY <1>3 DEF Copy
    <2>2. CopyError(h) \in BootErrors \cup {"none"}
      BY DEF CopyError, BootErrors
    <2>3. slot \in Slots
      BY <1>3, ImageAssumption DEF Copy, LoadInv, Accepted
    <2>4. ivt.ptr \in Usize
      BY DEF TypeOK, Ivts
    <2>5. ram' \in [slot : Slots, at : Usize, ivt : Ivts, body : BodyType] \cup {NoImage}
      BY <2>1, <2>3, <2>4, ImageAssumption
    <2> QED BY <1>3, <2>1, <2>2, <2>5 DEF Copy, ReturnOr, TypeOK
  <1>4. CASE ReadError
    BY <1>4 DEF ReadError, TypeOK, BootErrors
  <1>5. CASE CertBlock
    BY <1>5 DEF CertBlock, Panic, TypeOK, BootErrors, Panics
  <1>6. CASE HashError
    BY <1>6 DEF HashError, TypeOK, BootErrors
  <1>7. CASE OtpInit
    BY <1>7 DEF OtpInit, Panic, TypeOK, Panics
  <1>8. CASE Reload
    BY <1>8 DEF Reload, TypeOK
  <1>9. CASE OtpError
    BY <1>9 DEF OtpError, Panic, TypeOK, Panics
  <1>10. CASE Enroll
    <2>1. ram.body.rkth \in Rkths
      BY <1>10, ImageTypes DEF Enroll, WithImage
    <2>2. shadow' \in Boot
      BY <1>10, <2>1 DEF Enroll, TypeOK, Boot
    <2> QED BY <1>10, <2>2 DEF Enroll, TypeOK
  <1>11. CASE Authenticate
    BY <1>11 DEF Authenticate, ReturnOr, TypeOK, BootErrors
  <1>12. CASE BootApplication
    <2>1. ram.ivt.ptr \in Usize
      BY <1>12, ImageTypes DEF BootApplication, WithImage
    <2> QED BY <1>12, <2>1 DEF BootApplication, TypeOK
  <1>13. CASE Reset
    <2>1. calls' \in 0 .. MaxCalls
      BY <1>13 DEF Reset, MaxCalls
    <2> QED BY <1>13, <2>1, NoIvtType, ZeroIsUsize DEF Reset, TypeOK
  <1>14. CASE UNCHANGED vars
    BY <1>14 DEF vars, TypeOK
  <1> QED BY <1>1, <1>2, <1>3, <1>4, <1>5, <1>6, <1>7, <1>8, <1>9, <1>10, <1>11,
             <1>12, <1>13, <1>14 DEF Next

-----------------------------------------------------------------------------
(***************************************************************************)
(* The inductive invariant.  What a header must satisfy depends on the     *)
(* slot only.                                                              *)
(***************************************************************************)
LEMMA AcceptedStays ==
  ASSUME Accepted(ivt), UNCHANGED <<slot, ivt>> PROVE Accepted(ivt)'
  BY DEF Accepted, IvtError, InLoadRange

LEMMA ImageStays ==
  ASSUME ImageInRam, UNCHANGED <<slot, ivt, ram>> PROVE ImageInRam'
  BY AcceptedStays DEF ImageInRam

\* The steps of check_image and the jump leave the image alone.
LEMMA ImageStep ==
  ASSUME LoadInv, pc \in WithImage, UNCHANGED <<slot, ivt, ram>> PROVE ImageInRam'
  BY ImageStays DEF LoadInv, WithImage

LEMMA LoadStep == ASSUME TypeOK, LoadInv, [Next]_vars PROVE LoadInv'
  <1>1. ASSUME NEW s \in Slots, Call(s) PROVE LoadInv'
    BY <1>1 DEF Call, LoadInv, OtpIsReleased
  <1>2. CASE ReadIvt
    <2>1. PICK h \in Headers : /\ ivt' = IF IvtError(h) = "none" THEN h ELSE NoIvt
                               /\ ReturnOr(IvtError(h), "copy")
      BY <1>2 DEF ReadIvt
    <2>2. slot \in DOMAIN SlotSize /\ UNCHANGED slot
      BY <1>2 DEF ReadIvt, LoadInv
    <2>3. CASE IvtError(h) = "none"
      <3>1. Accepted(ivt)'
        BY <2>1, <2>2, <2>3 DEF Accepted, IvtError, InLoadRange
      <3> QED BY <1>2, <2>1, <2>3, <3>1 DEF ReadIvt, ReturnOr, LoadInv, OtpIsReleased
    <2>4. CASE IvtError(h) # "none"
      <3>1. IvtError(h) # "otp"
        BY DEF IvtError
      <3> QED BY <1>2, <2>1, <2>4, <3>1 DEF ReadIvt, ReturnOr, LoadInv, OtpIsReleased
    <2> QED BY <2>3, <2>4
  <1>3. CASE Copy
    <2>1. PICK h \in Headers, b \in Bodies :
            /\ ram' = IF CopyError(h) = "none"
                      THEN [slot |-> slot, at |-> ivt.ptr, ivt |-> h, body |-> b]
                      ELSE NoImage
            /\ ReturnOr(CopyError(h), "certBlock")
      BY <1>3 DEF Copy
    <2>2. CASE CopyError(h) = "none"
      <3>1. h = ivt
        BY <2>2 DEF CopyError
      <3>2. Accepted(ivt)'
        BY <1>3, AcceptedStays DEF Copy, LoadInv
      <3>3. ram' # NoImage
        <4>1. slot \in Slots /\ ivt.ptr \in Usize
          BY <1>3, ImageAssumption DEF Copy, LoadInv, Accepted, TypeOK, Ivts
        <4>2. ram' \in [slot : Slots, at : Usize, ivt : Ivts, body : BodyType]
          BY <2>1, <2>2, <4>1, ImageAssumption
        <4> QED BY <4>2, ImageAssumption
      <3>4. ImageInRam'
        BY <1>3, <2>1, <2>2, <3>1, <3>2, <3>3 DEF Copy, ImageInRam
      <3> QED BY <1>3, <2>1, <2>2, <3>4 DEF Copy, ReturnOr, LoadInv, OtpIsReleased
    <2>3. CASE CopyError(h) # "none"
      <3>1. CopyError(h) # "otp"
        BY DEF CopyError
      <3> QED BY <1>3, <2>1, <2>3, <3>1 DEF Copy, ReturnOr, LoadInv, OtpIsReleased
    <2> QED BY <2>2, <2>3
  <1>4. CASE ReadError
    BY <1>4 DEF ReadError, LoadInv, OtpIsReleased
  <1>5. CASE CertBlock
    <2>1. ImageInRam'
      BY <1>5, ImageStep DEF CertBlock, WithImage
    <2>2. pc' \in {"idle", "panicked", "otp"} /\ result' # "otp" /\ ~held'
      BY <1>5 DEF CertBlock, Panic, LoadInv, OtpIsReleased
    <2> QED BY <2>1, <2>2 DEF LoadInv, OtpIsReleased
  <1>6. CASE HashError
    BY <1>6 DEF HashError, LoadInv, OtpIsReleased
  <1>7. CASE OtpInit
    <2>1. ImageInRam'
      BY <1>7, ImageStep DEF OtpInit, WithImage
    <2>2. ~held
      BY <1>7 DEF OtpInit, LoadInv
    <2> QED BY <1>7, <2>1, <2>2 DEF OtpInit, LoadInv, OtpIsReleased
  <1>8. CASE Reload
    <2>1. ImageInRam'
      BY <1>8, ImageStep DEF Reload, WithImage
    <2> QED BY <1>8, <2>1 DEF Reload, LoadInv, OtpIsReleased
  <1>9. CASE OtpError
    BY <1>9 DEF OtpError, Panic, LoadInv, OtpIsReleased
  <1>10. CASE Enroll
    <2>1. ImageInRam'
      BY <1>10, ImageStep DEF Enroll, WithImage
    <2>2. fuses'.secure => shadow' = fuses'
      BY <1>10 DEF Enroll, LoadInv
    <2> QED BY <1>10, <2>1, <2>2 DEF Enroll, LoadInv, OtpIsReleased
  <1>11. CASE Authenticate
    <2>1. ImageInRam'
      BY <1>11, ImageStep DEF Authenticate, WithImage
    <2>2. PICK a \in RomAnswers :
            ReturnOr(IF SkbootAuthenticate(a) THEN "none" ELSE "Authenticate", "jump")
      BY <1>11 DEF Authenticate
    <2>3. SkbootAuthenticate(a) => ram.body.key = shadow.rkth
      BY DEF SkbootAuthenticate, RomAnswers, RomAccepts
    <2>4. pc' = "jump" /\ fuses'.secure => ram'.body.key = fuses'.rkth
      BY <1>11, <2>2, <2>3 DEF Authenticate, ReturnOr, LoadInv
    <2>5. pc' \in {"jump", "idle"} /\ result' # "otp"
      BY <2>2 DEF ReturnOr, LoadInv, OtpIsReleased
    <2> QED BY <1>11, <2>1, <2>4, <2>5 DEF Authenticate, LoadInv, OtpIsReleased
  <1>12. CASE BootApplication
    <2>1. ImageInRam'
      BY <1>12, ImageStep DEF BootApplication, WithImage
    <2>2. vtor' = ivt'.ptr
      BY <1>12 DEF BootApplication, LoadInv, ImageInRam
    <2> QED BY <1>12, <2>1, <2>2 DEF BootApplication, LoadInv, OtpIsReleased
  <1>13. CASE Reset
    BY <1>13 DEF Reset, LoadInv, OtpIsReleased
  <1>14. CASE UNCHANGED vars
    <2>1. UNCHANGED <<pc, calls, slot, ivt, ram, fuses, shadow, held, result, vtor>>
      BY <1>14 DEF vars
    <2>2. Accepted(ivt)' = Accepted(ivt) /\ ImageInRam' = ImageInRam
      BY <2>1 DEF ImageInRam, Accepted, IvtError, InLoadRange
    <2> QED BY <2>1, <2>2 DEF LoadInv, OtpIsReleased
  <1> QED BY <1>1, <1>2, <1>3, <1>4, <1>5, <1>6, <1>7, <1>8, <1>9, <1>10, <1>11,
             <1>12, <1>13, <1>14 DEF Next

\* At every step of check_and_boot, whatever the slot yields and whenever the
\* device is reset, the header in use is the one that was checked, the shadow
\* registers are what the fuses say where it counts, and the OTP driver is free
\* outside its use.
THEOREM LoadInvariant == Spec => [](TypeOK /\ LoadInv)
<1>1. Init => TypeOK /\ LoadInv
  <2> SUFFICES ASSUME Init PROVE TypeOK /\ LoadInv
    OBVIOUS
  <2>1. calls \in 0 .. MaxCalls
    BY DEF Init, MaxCalls
  <2>2. TypeOK
    BY <2>1, NoIvtType, ZeroIsUsize DEF Init, TypeOK
  <2>3. LoadInv
    BY DEF Init, LoadInv, OtpIsReleased
  <2> QED BY <2>2, <2>3
<1>2. TypeOK /\ LoadInv /\ [Next]_vars => (TypeOK /\ LoadInv)'
  BY TypeStep, LoadStep
<1> QED BY <1>1, <1>2, PTL DEF Spec

\* Every variable keeps its type: check_and_boot returns a BootError or
\* panics, and the processor is sent to an address.
THEOREM TypeCorrect == Spec => []TypeOK
  BY LoadInvariant, PTL

-----------------------------------------------------------------------------
\* No byte of a copy lies outside the load range, for every range, every
\* pointer and every length: the end is checked with an addition that cannot
\* wrap around, so that no byte in between does.
THEOREM CopyIsContained == Spec => []CopyStaysInside
<1>1. TypeOK /\ LoadInv => CopyStaysInside
  <2> SUFFICES ASSUME TypeOK, LoadInv, pc = "copy", NEW i \in 0 .. ivt.len - 1
               PROVE  InLoadRange((ivt.ptr + i) % AddrSpace)
    BY DEF CopyStaysInside
  <2>1. ivt.ptr \in Usize /\ ivt.len \in Usize
    BY DEF TypeOK, Ivts
  <2>2. /\ ivt.ptr + ivt.len < AddrSpace
        /\ InLoadRange(ivt.ptr)
        /\ InLoadRange(ivt.ptr + ivt.len)
    <3>1. IvtError(ivt) = "none"
      BY DEF LoadInv, Accepted
    <3> QED BY <2>1, <3>1, ImageAssumption DEF IvtError, Usize
  <2>3. (ivt.ptr + i) % AddrSpace = ivt.ptr + i
    BY <2>1, <2>2, ImageAssumption DEF Usize
  <2> QED BY <2>1, <2>2, <2>3, ImageAssumption DEF InLoadRange, Usize
<1> QED BY <1>1, LoadInvariant, PTL

\* What is started is the image this call copied, at the address it was copied
\* to, with a header that passes the checks.
THEOREM JumpIsToTheCopy == Spec => []JumpsToTheCopy
<1>1. LoadInv => JumpsToTheCopy
  BY DEF LoadInv, ImageInRam, Accepted, JumpsToTheCopy
<1> QED BY <1>1, LoadInvariant, PTL

\* On a device with the secure boot fuse only images signed under the fused
\* key table run, whatever the shadow registers held at reset.
THEOREM SecureBootHolds == Spec => []SecureBootKeepsKeys
<1>1. LoadInv => SecureBootKeepsKeys
  BY DEF LoadInv, SecureBootKeepsKeys
<1> QED BY <1>1, LoadInvariant, PTL

\* Every correctly signed image meets the key table it is signed under.  Only
\* Enroll puts an image before the ROM, and it finds the fuses in the shadow
\* registers.
THEOREM TrustedIsAccepted == Spec => []RejectsOnlyUntrusted
<1>1. Init => RejectsOnlyUntrusted
  BY DEF Init, RejectsOnlyUntrusted
<1>2. TypeOK /\ LoadInv /\ RejectsOnlyUntrusted /\ [Next]_vars
        => RejectsOnlyUntrusted'
  <2> SUFFICES ASSUME TypeOK, LoadInv, RejectsOnlyUntrusted, [Next]_vars,
                      pc' = "authenticate", Trusted'
               PROVE  RomAccepts'
    BY DEF RejectsOnlyUntrusted
  <2>1. Enroll \/ UNCHANGED vars
    BY DEF Next, Call, ReadIvt, Copy, ReadError, CertBlock, HashError, OtpInit,
           Reload, OtpError, Authenticate, BootApplication, Reset, ReturnOr, Panic
  <2>2. CASE Enroll
    <3>1. shadow = fuses /\ shadow \in Boot /\ ram.body.rkth \in Rkths
      BY <2>2, ImageTypes DEF Enroll, LoadInv, TypeOK, WithImage
    <3>2. UNCHANGED <<ram, fuses>>
      BY <2>2 DEF Enroll
    <3>3. shadow'.rkth = ram.body.rkth
      BY <2>2, <3>1, <3>2 DEF Enroll, Trusted, Boot
    <3> QED BY <3>2, <3>3 DEF Trusted, RomAccepts
  <2>3. CASE UNCHANGED vars
    BY <2>3 DEF vars, RejectsOnlyUntrusted, Trusted, RomAccepts
  <2> QED BY <2>1, <2>2, <2>3
<1> QED BY <1>1, <1>2, LoadInvariant, PTL DEF Spec

\* Otp::init never finds the driver in use, also in the second call.
THEOREM OtpIsFree == Spec => []OtpIsReleased
<1>1. LoadInv => OtpIsReleased
  BY DEF LoadInv
<1> QED BY <1>1, LoadInvariant, PTL
=============================================================================
