--------------------------- MODULE FuseProvisioning ---------------------------
(***************************************************************************)
(* Burning the fuses.  A long press of USER1 in the application            *)
(* (examples/rt685s/application) copies the root key table hash (RKTH)     *)
(* from the shadow registers to the OTP fuses, one word after the other,   *)
(* and then the word BOOT_CFG0 that turns secure boot on.  What the shadow *)
(* registers hold was put there by the boot ROM, by the bootloader's       *)
(* check_image or by the host (bootloader-tool run).                       *)
(*                                                                         *)
(* A fuse can be set and never cleared.  Power may fail at any time, also  *)
(* while a word is being programmed, and a press can be repeated at the    *)
(* next boot, then perhaps under an image with another key table.          *)
(* Registers are addressed by their word in the fuse map (registers.json); *)
(* the value of a word is the set of its bits that are 1.                  *)
(***************************************************************************)
EXTENDS Integers

CONSTANTS
    Bits,           \* the bits of a word
    Boot0Value,     \* what the application writes to BOOT_CFG0
    SecureBootEn,   \* the bits of the field secure_boot_en
    KeyTables,      \* RKTHs of the images that exist
    Verifying,      \* bootloaders considered; FALSE: feature non-secure
    None, Mixed     \* no table, and not one verified table only

BootCfg0 == 96
Rkth == 120 .. 127
Words == {BootCfg0} \cup Rkth

Tables == [Rkth -> SUBSET Bits]
Zero == [w \in Rkth |-> {}]

ASSUME FuseAssumption ==
    /\ Boot0Value \subseteq Bits
    /\ SecureBootEn \subseteq Bits
    /\ Boot0Value \cap SecureBootEn # {}
    /\ KeyTables \subseteq Tables \ {Zero}
    /\ Verifying \subseteq BOOLEAN
    /\ None \notin Tables /\ Mixed \notin Tables /\ None # Mixed

\* Where the hardware has the shadow register of a word.
Home(w) == 4 * w
Offsets == {Home(w) : w \in Words}

VARIABLES
    pc,      \* off, app, rkth (burning the RKTH) or boot0
    fuses,   \* the OTP fuses, by word
    shadow,  \* the shadow registers, by offset
    next,    \* the word of the RKTH to be burned next
    data,    \* the RKTH to burn: rkth_shadow
    verified,\* history: the key table of the image that runs, if the
             \* bootloader verified it
    used     \* history: the key table of the verified images in which USER1
             \* was pressed; Mixed if there were two, or one not verified

history == <<verified, used>>
vars == <<pc, fuses, shadow, next, data, history>>

TypeOK ==
    /\ pc \in {"off", "app", "rkth", "boot0"}
    /\ fuses \in [Words -> SUBSET Bits]
    /\ shadow \in [Offsets -> SUBSET Bits]
    /\ next \in Rkth
    /\ data \in Tables
    /\ verified \in KeyTables \cup {None}
    /\ used \in KeyTables \cup {None, Mixed}

Blank(S) == [x \in S |-> {}]

Init ==
    /\ pc = "off"
    /\ fuses = Blank(Words)
    /\ shadow = Blank(Offsets)
    /\ next = 120
    /\ data = Zero
    /\ verified = None /\ used = None

-----------------------------------------------------------------------------
(***************************************************************************)
(* Registers.                                                              *)
(***************************************************************************)
\* Four ranges of words have shadow registers.
OtpToShadowOffset(w) ==
    CASE w \in 8 .. 9     -> (w - 8) * 4 + 32
      [] w \in 95 .. 104  -> (w - 95) * 4 + 380
      [] w \in 106 .. 127 -> (w - 106) * 4 + 424
      [] w \in 492 .. 495 -> (w - 492) * 4 + 1968

\* Reading and writing the RKTH in the shadow registers, word by word.
ShadowRkth == [w \in Rkth |-> shadow[OtpToShadowOffset(w)]]
WithRkth(sh, table) ==
    [o \in Offsets |-> IF \E w \in Rkth : o = OtpToShadowOffset(w)
                       THEN table[CHOOSE w \in Rkth : o = OtpToShadowOffset(w)]
                       ELSE sh[o]]

FuseRkth == [w \in Rkth |-> fuses[w]]
FuseSecure == fuses[BootCfg0] \cap SecureBootEn # {}

\* The RKTH the boot ROM authenticates images with.
RkthInForce == [w \in Rkth |-> shadow[Home(w)]]

\* The ROM copies the fuses to the shadow registers.
ReloadShadow == [o \in Offsets |-> fuses[CHOOSE w \in Words : o = Home(w)]]

-----------------------------------------------------------------------------
(***************************************************************************)
(* Booting an image with the key table k, sh being the shadow registers    *)
(* that the bootloader finds.                                              *)
(***************************************************************************)
DevMode(sh) == sh[OtpToShadowOffset(BootCfg0)] \cap SecureBootEn = {}

\* check_image; the ROM then accepts the image if its table is in force.
CheckImage(k) ==
    /\ shadow' = IF DevMode(ReloadShadow) THEN WithRkth(ReloadShadow, k)
                                          ELSE ReloadShadow
    /\ pc' = IF RkthInForce' = k THEN "app" ELSE "off"
    /\ verified' = IF RkthInForce' = k THEN k ELSE None

\* The bootloader, built with or without verification.
Bootload(k, sh) ==
    \/ TRUE \in Verifying /\ CheckImage(k)
    \/ FALSE \in Verifying /\ shadow' = sh /\ pc' = "app" /\ verified' = None

\* Power on.  With secure boot the ROM starts only a bootloader that is
\* signed under the fused table.
PowerOn(k) ==
    /\ pc = "off"
    /\ FuseSecure => FuseRkth = k
    /\ Bootload(k, ReloadShadow)
    /\ UNCHANGED <<fuses, next, data, used>>

\* bootloader-tool run sets the shadow registers and resets the processor.
Run(k) ==
    /\ pc = "off"
    /\ Bootload(k, [o \in Offsets |->
                      IF o = Home(BootCfg0) THEN Boot0Value ELSE k[o \div 4]])
    /\ UNCHANGED <<fuses, next, data, used>>

-----------------------------------------------------------------------------
(***************************************************************************)
(* The long press.                                                         *)
(***************************************************************************)
\* The history of the presses.
Remember == IF verified # None /\ used \in {None, verified} THEN verified ELSE Mixed

\* Mutant: fuses that hold something are taken to hold the right table.
LongPressOnce ==
    /\ pc = "app"
    /\ used' = Remember
    /\ data' = ShadowRkth
    /\ next' = 120
    /\ pc' = IF FuseRkth = Zero /\ ShadowRkth # Zero THEN "rkth" ELSE "boot0"
    /\ UNCHANGED <<fuses, shadow, verified>>

\* The RKTH is burned if the fuses differ from the shadow registers, unless
\* the latter hold no table.
LongPress ==
    /\ pc = "app"
    /\ used' = Remember
    /\ data' = ShadowRkth
    /\ next' = 120
    /\ pc' = IF FuseRkth # ShadowRkth /\ ShadowRkth # Zero THEN "rkth" ELSE "boot0"
    /\ UNCHANGED <<fuses, shadow, verified>>

\* Mutant: the last word is left out.
BurnWordSeven ==
    /\ pc = "rkth"
    /\ fuses' = [fuses EXCEPT ![next] = @ \cup data[next]]
    /\ IF next = 126 THEN pc' = "boot0" /\ UNCHANGED next
                     ELSE next' = next + 1 /\ UNCHANGED pc
    /\ UNCHANGED <<shadow, data, history>>

\* Mutant: the end of the register is missed.
BurnWordPast ==
    /\ pc = "rkth"
    /\ fuses' = [fuses EXCEPT ![next] = @ \cup data[next]]
    /\ IF next > 127 THEN pc' = "boot0" /\ UNCHANGED next
                     ELSE next' = next + 1 /\ UNCHANGED pc
    /\ UNCHANGED <<shadow, data, history>>

\* Mutant: the first word is burned again and again.
BurnWordStuck ==
    /\ pc = "rkth"
    /\ fuses' = [fuses EXCEPT ![next] = @ \cup data[next]]
    /\ next' = 120
    /\ UNCHANGED <<pc, shadow, data, history>>

BurnWord ==
    /\ pc = "rkth"
    /\ fuses' = [fuses EXCEPT ![next] = @ \cup data[next]]
    /\ IF next = 127 THEN pc' = "boot0" /\ UNCHANGED next
                     ELSE next' = next + 1 /\ UNCHANGED pc
    /\ UNCHANGED <<shadow, data, history>>

\* BOOT_CFG0 is written if it is blank.
BurnBoot0 ==
    /\ pc = "boot0"
    /\ fuses' = IF fuses[BootCfg0] = {}
                THEN [fuses EXCEPT ![BootCfg0] = Boot0Value] ELSE fuses
    /\ pc' = "app" /\ next' = 120 /\ data' = Zero
    /\ UNCHANGED <<shadow, history>>

\* What is being programmed.
Current ==
    CASE pc = "rkth" -> [word |-> next, bits |-> data[next]]
      [] pc = "boot0" -> [word |-> BootCfg0, bits |-> Boot0Value]

\* The device loses power or hangs until it is reset: RAM and the shadow
\* registers are lost.
TurnedOff ==
    /\ pc' = "off"
    /\ shadow' = Blank(Offsets)
    /\ next' = 120
    /\ data' = Zero
    /\ verified' = None
    /\ UNCHANGED used

\* Power fails, or programming reports an error and the application panics:
\* some of the bits of the word are set.
Interrupted ==
    /\ pc \in {"rkth", "boot0"}
    /\ pc = "boot0" => fuses[BootCfg0] = {}
    /\ \E bits \in SUBSET Current.bits :
        fuses' = [fuses EXCEPT ![Current.word] = @ \cup bits]
    /\ TurnedOff

\* USER2 or a power cycle; or reading the fuses fails, and the application
\* panics.
Reset ==
    /\ pc \in {"app", "boot0"}
    /\ TurnedOff
    /\ UNCHANGED fuses

Next ==
    \/ \E k \in KeyTables : PowerOn(k) \/ Run(k)
    \/ LongPress \/ BurnWord \/ BurnBoot0
    \/ Interrupted \/ Reset

\* The application has no other task while it burns: a press runs to its end
\* unless it is interrupted.
Fairness == WF_vars(BurnWord) /\ WF_vars(BurnBoot0)

Spec == Init /\ [][Next]_vars /\ Fairness

-----------------------------------------------------------------------------
(***************************************************************************)
(* Properties.                                                             *)
(***************************************************************************)
\* If USER1 has only ever been pressed in images with the key table k that a
\* verifying bootloader had started, a device with secure boot on has exactly
\* k in its fuses: it boots the images of k and no others, however often the
\* burning was interrupted and resumed, and also if images with other tables
\* were booted in between.  It is check_image that puts the whole table back
\* into the shadow registers before a press resumes the burn.  A bootloader
\* without verification leaves there what the ROM loads from the half-burned
\* fuses; the press finds no difference, and turns secure boot on.
SecureMeansThatTable ==
    \A k \in KeyTables : FuseSecure /\ used = k => FuseRkth = k

\* The table of a verified image is the one in force while it runs.  As long
\* as USER1 was pressed under one such table only: the fuses hold no bit that
\* is not in it, a burn is about it, and nothing is written to BOOT_CFG0 before
\* it is complete.  A burn has completed the words it has passed.
BurnInv ==
    /\ verified # None => RkthInForce = verified
    /\ used = None => fuses = Blank(Words) /\ pc \in {"off", "app"}
    /\ used \in Tables =>
          /\ \A w \in Rkth : fuses[w] \subseteq used[w]
          /\ pc = "rkth" => data = used
          /\ pc = "boot0" \/ fuses[BootCfg0] # {} => FuseRkth = used
    /\ pc = "rkth" => \A w \in Rkth : w < next => data[w] \subseteq fuses[w]

\* A press on a device with blank BOOT_CFG0 fuses turns secure boot on or is
\* interrupted.
PressTurnsSecureBootOn ==
    pc \in {"rkth", "boot0"} /\ fuses[BootCfg0] = {}
        ~> FuseSecure \/ pc = "off"

\* "Requesting write of fuses, but RKTH is not set to something useful": secure
\* boot is never turned on while the fuses hold no table at all.
SecureBootNeedsTable == FuseSecure => FuseRkth # Zero
=============================================================================
