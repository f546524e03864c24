------------------------------ MODULE ImageLoad ------------------------------
(***************************************************************************)
(* Imxrt::check_and_boot, libs/ec-slimloader-imxrt: the header of an image *)
(* is read from the slot and checked, the image is copied to RAM, the copy *)
(* is compared with the header and authenticated by the boot ROM, and the  *)
(* processor jumps to it.  The bootloader calls it for the target and, if  *)
(* that returns an error, for the backup.                                  *)
(*                                                                         *)
(* The slot may change at any time (it is external memory, and the host    *)
(* can write to it), so that every read of it yields any image at all.     *)
(* Of an image the model keeps the fields of its IVT and a body: what      *)
(* check_image finds where the certificate block should be, and the key    *)
(* hash under which the ROM accepts its signature.                         *)
(***************************************************************************)
EXTENDS Integers

CONSTANTS
    AddrSpace,          \* usize arithmetic is modulo this
    LoadStart, LoadEnd, \* LOAD_RANGE
    SlotMin, SlotMax,   \* SLOT_SIZE_RANGE
    SlotSize,           \* the capacity of every slot the board has
    Slots,              \* what a State can name
    IvtLen,             \* bytes of the IVT: 64
    CertHeaderLen,      \* bytes of a certificate block header: 32
    RkhsLen,            \* bytes of the four root key hashes: 128
    Headers, Bodies,    \* the images a read may yield
    Rkths,              \* root key table hashes
    NoKey,              \* the key of an image whose signature is wrong
    NoImage,            \* RAM holds no image copied by this call
    NoSlot,
    OverflowChecks      \* the builds considered: TRUE panics on overflow

Usize == 0 .. AddrSpace - 1

Ivts == [len : Usize, xip : BOOLEAN, off : Usize, ptr : Usize]
BodyType == [hlen : Usize, tlen : Usize, rkth : Rkths, key : Rkths \cup {NoKey}]
Boot == [secure : BOOLEAN, rkth : Rkths]

ASSUME ImageAssumption ==
    /\ AddrSpace \in Nat \ {0}
    /\ LoadStart \in Usize /\ LoadEnd \in Usize
    /\ SlotMin \in Usize /\ SlotMax \in Usize
    /\ IvtLen \in Usize /\ CertHeaderLen \in Usize /\ RkhsLen \in Usize
    /\ DOMAIN SlotSize \subseteq Slots
    /\ \A s \in DOMAIN SlotSize : SlotSize[s] \in Usize
    /\ Headers \subseteq Ivts /\ Bodies \subseteq BodyType
    /\ NoKey \notin Rkths /\ NoSlot \notin Slots
    /\ NoImage \notin [slot : Slots, at : Usize, ivt : Ivts, body : BodyType]
    /\ OverflowChecks \subseteq BOOLEAN

BootErrors == {"SlotUnknown", "TooLarge", "TooSmall", "Markers", "MemoryRegion",
               "ChangeAfterRead", "Authenticate", "IO", "Hash"}
Panics == {"slice", "overflow", "otp", "rom"}

VARIABLES
    pc,     \* idle, readIvt, copy, certBlock, otp, reload, enroll,
            \* authenticate, jump, booted or panicked
    calls,  \* calls of check_and_boot since the reset
    slot,   \* its argument
    ivt,    \* the header that was read first
    ram,    \* the image this call has copied and compared, and where to
    fuses,  \* what the OTP fuses say
    shadow, \* what the shadow registers say
    held,   \* otp.rs: INITIALIZED
    result, \* the BootError returned, or the reason of a panic
    vtor    \* where the processor was sent

vars == <<pc, calls, slot, ivt, ram, fuses, shadow, held, result, vtor>>

MaxCalls == 2

NoIvt == [len |-> 0, xip |-> FALSE, off |-> 0, ptr |-> 0]

TypeOK ==
    /\ pc \in {"idle", "readIvt", "copy", "certBlock", "otp", "reload", "enroll",
               "authenticate", "jump", "booted", "panicked"}
    /\ calls \in 0 .. MaxCalls
    /\ slot \in Slots \cup {NoSlot}
    /\ ivt \in Ivts
    /\ ram \in [slot : Slots, at : Usize, ivt : Ivts, body : BodyType] \cup {NoImage}
    /\ fuses \in Boot /\ shadow \in Boot
    /\ held \in BOOLEAN
    /\ result \in BootErrors \cup Panics \cup {"none"}
    /\ vtor \in Usize

Init ==
    /\ pc = "idle"
    /\ calls = 0
    /\ slot = NoSlot
    /\ ivt = NoIvt
    /\ ram = NoImage
    /\ fuses \in Boot
    /\ shadow \in Boot
    /\ held = FALSE
    /\ result = "none"
    /\ vtor = 0

-----------------------------------------------------------------------------
\* return an error, or go on at the step `then`.
ReturnOr(error, then) ==
    IF error = "none" THEN pc' = then /\ UNCHANGED result
                      ELSE pc' = "idle" /\ result' = error

Panic(reason) == pc' = "panicked" /\ result' = reason

\* start: the target first, then the backup.
Call(s) ==
    /\ pc = "idle"
    /\ calls < MaxCalls
    /\ calls' = calls + 1
    /\ slot' = s
    /\ ram' = NoImage
    /\ IF s \notin DOMAIN SlotSize
       THEN pc' = "idle" /\ result' = "SlotUnknown"
       ELSE IF SlotSize[s] >= SlotMax
       THEN pc' = "idle" /\ result' = "TooLarge"
       ELSE pc' = "readIvt" /\ result' = "none"
    /\ UNCHANGED <<ivt, fuses, shadow, held, vtor>>

InLoadRange(p) == LoadStart <= p /\ p < LoadEnd

\* Mutant: only the first byte is looked at.
IvtErrorStartOnly(h) ==
    IF ~h.xip THEN "Markers"
    ELSE IF h.len > SlotSize[slot] THEN "TooLarge"
    ELSE IF h.len < SlotMin THEN "TooSmall"
    ELSE IF h.ptr + h.len >= AddrSpace THEN "TooLarge"
    ELSE IF ~InLoadRange(h.ptr) THEN "MemoryRegion"
    ELSE "none"

\* The checks of the header, in their order.  target_end_ptr has no value if
\* the sum overflows.
IvtError(h) ==
    IF ~h.xip THEN "Markers"
    ELSE IF h.len > SlotSize[slot] THEN "TooLarge"
    ELSE IF h.len < SlotMin THEN "TooSmall"
    ELSE IF h.ptr + h.len >= AddrSpace THEN "TooLarge"
    ELSE IF ~InLoadRange(h.ptr) \/ ~InLoadRange(h.ptr + h.len) THEN "MemoryRegion"
    ELSE "none"

ReadIvt ==
    /\ pc = "readIvt"
    /\ \E h \in Headers :
        /\ ivt' = IF IvtError(h) = "none" THEN h ELSE NoIvt
        /\ ReturnOr(IvtError(h), "copy")
    /\ UNCHANGED <<calls, slot, ram, fuses, shadow, held, vtor>>

\* Mutant: only the lengths are compared.
CopyErrorLength(h) ==
    IF ivt.len < IvtLen THEN "TooSmall"
    ELSE IF h.len # ivt.len THEN "ChangeAfterRead"
    ELSE "none"

CopyError(h) ==
    IF ivt.len < IvtLen THEN "TooSmall"
    ELSE IF h # ivt THEN "ChangeAfterRead"
    ELSE "none"

\* ivt.len bytes are copied to ivt.ptr, and the IVT is read again from there.
Copy ==
    /\ pc = "copy"
    /\ \E h \in Headers, b \in Bodies :
        /\ ram' = IF CopyError(h) = "none"
                  THEN [slot |-> slot, at |-> ivt.ptr, ivt |-> h, body |-> b]
                  ELSE NoImage
        /\ ReturnOr(CopyError(h), "certBlock")
    /\ UNCHANGED <<calls, slot, ivt, fuses, shadow, held, vtor>>

\* The slot cannot be read.  What was copied so far is no image.
ReadError ==
    /\ pc \in {"readIvt", "copy"}
    /\ pc' = "idle"
    /\ result' = "IO"
    /\ UNCHANGED <<calls, slot, ivt, ram, fuses, shadow, held, vtor>>

-----------------------------------------------------------------------------
(***************************************************************************)
(* check_image.                                                            *)
(***************************************************************************)
RkhsSum == ram.ivt.off + ram.body.hlen + ram.body.tlen
RkhsOffset == RkhsSum % AddrSpace

\* A slice [o..] of the image panics if o is behind its end.
CertBlock ==
    /\ pc = "certBlock"
    /\ \E checked \in OverflowChecks :
       IF ram.ivt.off > ram.ivt.len THEN Panic("slice")
       ELSE IF ram.ivt.len - ram.ivt.off < CertHeaderLen
       THEN pc' = "idle" /\ result' = "TooLarge"
       ELSE IF RkhsSum >= AddrSpace /\ checked
       THEN Panic("overflow")
       ELSE IF RkhsOffset > ram.ivt.len THEN Panic("slice")
       ELSE IF ram.ivt.len - RkhsOffset < RkhsLen
       THEN pc' = "idle" /\ result' = "TooLarge"
       ELSE pc' = "otp" /\ UNCHANGED result
    /\ UNCHANGED <<calls, slot, ivt, ram, fuses, shadow, held, vtor>>

\* The hash peripheral reports an error.
HashError ==
    /\ pc = "certBlock"
    /\ ram.ivt.off + CertHeaderLen <= ram.ivt.len
    /\ RkhsSum < AddrSpace \/ FALSE \in OverflowChecks
    /\ RkhsOffset + RkhsLen <= ram.ivt.len
    /\ pc' = "idle"
    /\ result' = "Hash"
    /\ UNCHANGED <<calls, slot, ivt, ram, fuses, shadow, held, vtor>>

\* Otp::init.
OtpInit ==
    /\ pc = "otp"
    /\ IF held THEN Panic("otp") /\ UNCHANGED held
               ELSE held' = TRUE /\ pc' = "reload" /\ UNCHANGED result
    /\ UNCHANGED <<calls, slot, ivt, ram, fuses, shadow, vtor>>

\* Mutant: the driver is not dropped.
ReloadLeaks ==
    /\ pc = "reload"
    /\ shadow' = fuses
    /\ pc' = "enroll"
    /\ UNCHANGED <<calls, slot, ivt, ram, fuses, held, result, vtor>>

\* Mutant: the shadow registers are taken as they are.
ReloadSkipped ==
    /\ pc = "reload"
    /\ held' = FALSE
    /\ pc' = "enroll"
    /\ UNCHANGED <<calls, slot, ivt, ram, fuses, shadow, result, vtor>>

\* The fuses are copied to the shadow registers, and the driver is dropped.
Reload ==
    /\ pc = "reload"
    /\ shadow' = fuses
    /\ held' = FALSE
    /\ pc' = "enroll"
    /\ UNCHANGED <<calls, slot, ivt, ram, fuses, result, vtor>>

\* A read or the reload of the fuses fails, and its result is unwrapped.
OtpError ==
    /\ pc = "reload"
    /\ Panic("rom")
    /\ UNCHANGED <<calls, slot, ivt, ram, fuses, shadow, held, vtor>>

\* Mutant: the secure boot fuse is not considered.
EnrollAlways ==
    /\ pc = "enroll"
    /\ shadow' = [shadow EXCEPT !.rkth = ram.body.rkth]
    /\ pc' = "authenticate"
    /\ UNCHANGED <<calls, slot, ivt, ram, fuses, held, result, vtor>>

\* Mutant: development mode is not considered.
EnrollNever ==
    /\ pc = "enroll"
    /\ pc' = "authenticate"
    /\ UNCHANGED <<calls, slot, ivt, ram, fuses, shadow, held, result, vtor>>

\* Without the secure boot fuse the image's own key table is used.
Enroll ==
    /\ pc = "enroll"
    /\ shadow' = IF ram.body.rkth # shadow.rkth /\ ~shadow.secure
                 THEN [shadow EXCEPT !.rkth = ram.body.rkth] ELSE shadow
    /\ pc' = "authenticate"
    /\ UNCHANGED <<calls, slot, ivt, ram, fuses, held, result, vtor>>

\* What the ROM makes of the image in RAM: it authenticates it against the
\* shadow registers.
RomAccepts == ram.body.key = shadow.rkth

\* What the calls into the ROM may report.  It may fail for reasons of its own.
RomAnswers ==
    {a \in [init : BOOLEAN, deinit : BOOLEAN,
            status : {"Success", "Fail", "InvalidArgument", "unknown"},
            verified : {"TrackerVerified", "False", "unknown"}] :
        a.status = "Success" /\ a.verified = "TrackerVerified" => RomAccepts}

\* skboot_authenticate returns Ok.  check_image does not tell its errors apart.
SkbootAuthenticate(a) ==
    a.init /\ a.deinit /\ a.status = "Success" /\ a.verified = "TrackerVerified"

Authenticate ==
    /\ pc = "authenticate"
    /\ \E a \in RomAnswers :
        ReturnOr(IF SkbootAuthenticate(a) THEN "none" ELSE "Authenticate", "jump")
    /\ UNCHANGED <<calls, slot, ivt, ram, fuses, shadow, held, vtor>>

\* Mutant: the header offset is added, in units of *mut u32.
BootApplicationBehind ==
    /\ pc = "jump"
    /\ vtor' = ram.ivt.ptr + 4 * ram.ivt.off
    /\ pc' = "booted"
    /\ UNCHANGED <<calls, slot, ivt, ram, fuses, shadow, held, result>>

\* boot_application(ram_ivt.target_ptr)
BootApplication ==
    /\ pc = "jump"
    /\ vtor' = ram.ivt.ptr
    /\ pc' = "booted"
    /\ UNCHANGED <<calls, slot, ivt, ram, fuses, shadow, held, result>>

-----------------------------------------------------------------------------
\* A reset at any time.  The debug probe may have set the shadow registers.
Reset ==
    /\ pc' = "idle"
    /\ calls' = 0
    /\ slot' = NoSlot
    /\ ivt' = NoIvt
    /\ ram' = NoImage
    /\ shadow' \in Boot
    /\ held' = FALSE
    /\ result' = "none"
    /\ vtor' = 0
    /\ UNCHANGED fuses

Next ==
    \/ \E s \in Slots : Call(s)
    \/ ReadIvt \/ Copy \/ ReadError
    \/ CertBlock \/ HashError
    \/ OtpInit \/ Reload \/ OtpError \/ Enroll \/ Authenticate
    \/ BootApplication
    \/ Reset

Spec == Init /\ [][Next]_vars

-----------------------------------------------------------------------------
(***************************************************************************)
(* Properties.                                                             *)
(***************************************************************************)
\* Every byte of a copy lies in the load range, so that no image overwrites
\* the bootloader, also at the end of the range and of the address space.
CopyStaysInside ==
    pc = "copy" =>
        \A i \in 0 .. ivt.len - 1 : InLoadRange((ivt.ptr + i) % AddrSpace)

\* The processor is sent to the place the image was copied to by this call,
\* and the image found there has the header that was checked, although the
\* slot may have changed between the two reads.
JumpsToTheCopy ==
    pc = "booted" =>
        /\ ram # NoImage
        /\ ram.slot = slot
        /\ vtor = ram.at
        /\ IvtError(ram.ivt) = "none"

\* With the secure boot fuse set an image runs only if it is signed under the
\* fused key table: neither what the debug probe left in the shadow registers
\* nor what a first call made of them counts.
SecureBootKeepsKeys ==
    pc = "booted" /\ fuses.secure => ram.body.key = fuses.rkth

\* A signature is the right one for the image's own table and, with secure
\* boot, for the fused one.
Trusted == /\ ram.body.key = ram.body.rkth
           /\ fuses.secure => ram.body.rkth = fuses.rkth

\* check_image puts no correctly signed image before the ROM with key tables
\* in the shadow registers under which it has to be rejected, whatever the
\* debug probe or a first call of check_and_boot has left there.
RejectsOnlyUntrusted == pc = "authenticate" /\ Trusted => RomAccepts

\* The second call of check_and_boot never finds the OTP driver taken.
OtpIsReleased == result # "otp"

\* What each step of check_and_boot relies on: the inductive invariant.
Accepted(h) == slot \in DOMAIN SlotSize /\ IvtError(h) = "none"

ImageInRam ==
    /\ ram # NoImage
    /\ ram.slot = slot /\ ram.at = ivt.ptr /\ ram.ivt = ivt
    /\ Accepted(ivt)

\* From the header on, what was checked is what is copied, authenticated and
\* started; between the reload of the shadow registers and the verdict of the
\* ROM, and with secure boot to the end, the fuses are what counts; the OTP
\* driver is held only while it is in use.
LoadInv ==
    /\ pc = "readIvt" => slot \in DOMAIN SlotSize
    /\ pc = "copy" => Accepted(ivt)
    /\ pc \in {"certBlock", "otp", "reload", "enroll", "authenticate", "jump",
              "booted"} => ImageInRam
    /\ pc = "enroll" => shadow = fuses
    /\ pc = "authenticate" /\ fuses.secure => shadow = fuses
    /\ pc \in {"jump", "booted"} /\ fuses.secure => ram.body.key = fuses.rkth
    /\ pc = "booted" => vtor = ivt.ptr
    /\ held => pc \in {"reload", "panicked"}
    /\ OtpIsReleased

\* The doc of Board::check_and_boot: "Yields [BootError] if at any stage the
\* boot is aborted."
AbortYieldsError == result \notin {"slice", "overflow"}
=============================================================================
