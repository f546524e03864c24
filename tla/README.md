# ec-slimloader in TLA+

This directory holds a TLA+ model of ec-slimloader, a bootloader for embedded
controllers that keeps several application images, tries a new one once and
falls back to a backup if the new image does not confirm itself. The modules
are translated from the Rust sources; they are checked with TLC on small
instances and, where the result must not depend on the instance, proved with
TLAPS. `PROJECT.json` maps every definition to the lines it models and lists
the runs, the theorems, the findings and the hazards.

Paths below are relative to the repository root.

## Inventory of the system

| Part | State | Operations | Hard behaviour |
| --- | --- | --- | --- |
| Boot journal, `libs/ec-slimloader-state/src/flash.rs` | flash partition; cache (newest state, its address, first free slot) | `new`, `get`, `set`, `compute_cache`, `erase_pages` | power loss between any two bytes, wrap-around without a moment of no state, errors of the medium, stale cache |
| State codec, `.../state.rs` | none: two bytes with a CRC | `State::new`, `try_new`, accessors, `with_status` | half-written words, the value 0xff |
| NOR medium and mock, `.../flash/mock.rs` | bytes, a shutoff counter | `read`, `erase`, `write` | shutoff in the middle of an operation |
| Boot protocol, `libs/ec-slimloader/src/lib.rs` | the journal; local state | `start`, `set_status` | resets between storing a status and acting on it, fallback within a boot |
| i.MX RT board, `libs/ec-slimloader-imxrt/src` | slots in external flash, RAM, VTOR | `init`, `check_and_boot`, `abort` | headers read twice, pointer arithmetic, jump |
| Image verification, `.../verification.rs` | shadow registers, OTP driver | `check_image`, `skboot_authenticate` | driver acquired and released on every path, panics on malformed offsets |
| ROM API, `libs/imxrt-rom/src` | OTP driver flag, fuses, shadow registers | `Otp::init`, drop, reads and writes of registers of several words | one-time writes, offsets, a write interrupted within a word |
| Example application, `examples/rt685s/application` | the journal; fuses | button presses: store a state, reboot, burn fuses | confirming the right image; power loss between fuses, a burn resumed under another image |
| Example bootloader, bsp | partition map | policy | - |
| Key material, `bootloader-tool/src/processors/certificates.rs`, `otp.rs` | key and certificate files | `generate certificates`, `generate otp` | files that exist, are torn, or were removed and made again |
| Signing, `bootloader-tool/src/commands/sign.rs`, `processors/mbi`, `objcopy.rs` | image files, a signature file | `sign` with a key, without, or with a signature of an HSM | inputs of different ages; the layout must be what the loader reads |
| Rest of `bootloader-tool` | the device behind a probe | `download`, `run`, parsing of arguments and configuration | - |

Interaction. The bootloader and the application never run at the same time and
share only the boot journal and the image slots. The bootloader opens the
journal in `Board::init`, decides from the stored State which slot to boot,
stores what it is about to do, and jumps. The application opens the journal
again, derives which slot it runs from, and stores the next State when asked
to. The host replaces images through the debug probe while the device is off.
Concurrency is therefore not of threads but of a program with the failure of
its power: every `await` of `set` is a point where everything but the flash
may disappear. The tool is a sequence of commands that communicate through files;
each command trusts what earlier ones, or a user, left there.

What makes each part correct:

* journal: a register that survives power loss. A set takes effect in a single
  instant, `Ok` means stored, a set cut short leaves the old value or the new
  one, the cache never disagrees with the flash, erased bytes only are
  programmed, every set returns;
* scan: finds the newest valid word and the first free word behind it, for
  any contents and any block size;
* codec: what is programmed is read back; no torn word is a State or a free slot;
* boot protocol: an image with a separate backup is started at most once until it
  is confirmed; a good backup comes up; an image confirms only itself; a separate
  backup has been confirmed;
* board and verification: the header that was checked is the one that is used,
  the copy stays in its range, secure boot counts the fuses only, a good image is
  not rejected, and every failure is an error rather than a panic;
* provisioning: in images that a verifying bootloader started, no order of
  interruptions and resumed burns leaves secure boot enabled with another key table
  hash than theirs;
* tool: only authentic images reach the flash, whatever the ages of keys,
  certificates, signatures and ELF files; key material is never overwritten; `sign`
  accepts what `generate` makes; the image is laid out as the loader reads it, and
  every byte of a segment is where it was linked to.

## Modules

| Module | Models |
| --- | --- |
| `JournalLayout` | words, states, what a scan finds (`Durable`, `ComputeCache`), pages |
| `StateRegister` | abstract specification of the journal |
| `FlashJournal` | `FlashJournal::new` and `set` byte by byte; refines `StateRegister` |
| `JournalScan` | the loop of `compute_cache` |
| `StateCodec` | the real two bytes, and the life of one word; the checksum is a constant |
| `Crc8` | the CRC of the code, for TLC |
| `Slimloader` | `start`, the application, and the environment, over `StateRegister` |
| `ImageLoad` | `check_and_boot` and `check_image`, the OTP driver, fuses and shadow registers |
| `FuseProvisioning` | the long press of the application, the words of fuses and shadow registers, and the boots in between |
| `MasterBootImage` | what `objcopy`, `CertBlock` and the image builder of the tool compute |
| `SignTool` | `generate`, `sign` and `download` over the files, over `MasterBootImage` |
| `JournalLayoutProofs`, `FlashJournalProofs`, `JournalScanProofs`, `SlimloaderProofs`, `ImageLoadProofs`, `FuseProvisioningProofs`, `SignToolProofs`, `StateCodecProofs` | theorems |
| `MCFlashJournal`, `MCJournalScan`, `MCStateCodec`, `MCSlimloader`, `MCImageLoad`, `MCFuseProvisioning`, `MCSignTool` | instances for TLC |

They fit together as follows. `StateCodec` shows that `try_new`, with the real
bits, classifies words as `JournalLayout` does, and that what `JournalLayout` assumes of
bytes and states holds of them (`CodecAsAssumed`), so the journal can be modelled with
abstract bytes. `JournalScan` shows that `compute_cache` computes
`ComputeCache`, so `FlashJournal` can take the scan as one step (the partition
is not written to meanwhile). `FlashJournal` implements `StateRegister`, so
`Slimloader` can use the register for the journal; conversely bootloader and application
use it only as `StateRegister` allows (`JournalUsedAsRegister`), and never call a `set`
again after it failed (`NeverRetries`). `ImageLoad` opens up the step
that `Slimloader` takes as one, `check_and_boot`, which starts an image, returns
an error or panics. `FuseProvisioning` continues where `ImageLoad` ends: what
`check_image` left in the shadow registers is what the application burns. `SignTool`
produces the images that `ImageLoad` reads; `LoaderFindsBlock` looks for the
certificate block and the key hashes at the offsets that `check_image` uses.

### FlashJournal

`flash` is the partition, `cache` the field of the same name, `pc` the point
where `set` is. The first action of a call evaluates the conditions of `set` up
to its first operation on the medium (`SetSame` the early return, `SetAppend`,
`SetWrap`, `SetTail`, `SetBlank` the four branches); then one step programs or
erases one byte of the word `at`, `half` telling which. `Readback` is the
trailing `compute_cache` and comparison. `IoError` is the `?` on any operation of
the medium: the call ends with the cache as it was. `PowerLoss` forgets all but
the flash. Addresses count words of two bytes; a `State` is identified with
its data byte.

Programming a byte that is not erased leaves an arbitrary byte, so that a
mistake there cannot go unnoticed. With `FaultyMedium` every byte operation may
leave an arbitrary byte. With `CallerRetries` a holder calls `set` again on the
handle that returned an error, which no caller in the repository does: they
panic.

### Slimloader

`pc` follows `start` (`intent`, the three places where a status is stored,
`check`, `fallback`, `checkBackup`) and the application (`started`, `app`,
`appSet`). `set` takes effect (`StoreCommits`) at some time between its call and
its return, as `StateRegister` allows. `image` says for each slot what
`check_and_boot` does with it: it starts the image, returns an error, or panics
(`check_image` slices with an offset from the image without a bounds check).
`attempts` and `proven` are history variables. `attempts` counts the starts of the
slot that is the target, be it as the target or as its own backup, since it was
made `Initial` and until it is confirmed; it stops at `MaxAttempts`, one more than a
target with a separate backup may have. `proven` are the slots that were confirmed,
or that the first State vouches for; a replaced image does not withdraw it.

`PolicyAssumption` says what a `BootStatePolicy` must satisfy: it accepts the
states the bootloader itself makes of the default state. A policy that does not
is given the default again at every boot. `OrdinaryPolicy` is what the theorems ask
for beyond that: the default is an attempt at a slot that is its own backup, and
whether a policy accepts a State depends on the slots only. The default of the
trait and the policy of the example board are ordinary, and TLC evaluates the
condition on the instance of the run.

### ImageLoad

`pc` is the place in `check_and_boot` or `check_image`; `calls` counts the calls in
a boot, of which `start` makes two. Every read of the slot yields any image, since
external flash may change between the two reads. An image is its IVT (`len`, `xip`
for the expected type, `off`, `ptr`) and a body: the two lengths of the
certificate block header, the key table hash `check_image` computes, and the one
the signature is right for. Addresses are taken modulo `AddrSpace`; `OverflowChecks`
says which builds are considered, which matters only for `rkhs_offset`.
`ram` is kept only for an image that goes on to `check_image`. What the ROM answers
is external: it reports success and `TrackerVerified` only for an image signed
under the key table in the shadow registers, and may fail for reasons of its own
(a comment in the code speaks of false negatives). `Reset`
leaves any values in the shadow registers, which `bootloader-tool run` sets before
it resets the device.

### FuseProvisioning

A word is the set of its bits that are 1, so that programming is a union. `fuses`
and `shadow` are addressed as in the code, by word and by offset; `OtpToShadowOffset` is
the table of ranges in `registers.rs`, and `Home` where the hardware has a register.
`PowerOn` and `Run` are the boots, after a reset by power and by `bootloader-tool run`, of
an image with the key table `k`, under a bootloader built with or without
verification. `LongPress` evaluates the conditions of the branch; `BurnWord` is one
iteration of `write_fuse` and `BurnBoot0` the second block. `Interrupted` sets any
subset of the bits of the word in progress: power fails, or the ROM reports an error
and the application panics. Two history variables: `verified` is the key table of the
running image if the bootloader verified it, and `used` the key table of the verified
images in which the button was pressed; it is `Mixed` once there were two, or one press
in an image that was not verified.

### MasterBootImage and SignTool

A file holds `NoFile`, `Torn` (a write that did not end) or a content. A key is the
name of its file and a generation, `made` counting the generations, so that a key that was removed
and generated again is another key. A certificate says whose key it carries, whose
key signed it, and whether it is a CA. A signature is its key and what was signed.
One command runs at a time, one step for each file it writes. `prototyped` is the part
of the configuration that says which certificates the tool generates; the others are
files that the user provides. The ELF file may be rebuilt at any time: its content
is chosen when it is read. `Error` ends a command anywhere, `Killed` ends it while it
writes a file, `Remove` is a user that wants a new key, `HsmSigns` an HSM that signs what was
exported. All signatures are in one file, of which the tool gets whatever was left there.

Of an ELF file `MasterBootImage` keeps the program headers and the entry point; the
byte `k` of segment `i` is `<<i, k>>`. `Parts` is the order and length of the parts of the
signed file, `Header` what the header says about them.

## Runs

| Run | Shows | Size |
| --- | --- | --- |
| `journal_fresh` | refinement of `StateRegister`, cache coherence, the inductive invariant, only erased bytes programmed, with errors and power losses at every byte | 3 pages of 2 words, 1.1 million states |
| `journal_any` | from every content of the partition: old or new at every instant, no failing readback | 2 pages of 2 words, 0.7 million states |
| `journal_faulty` | silently wrong bytes: `Ok` still means stored, every set ends | 2 pages, 0.3 million states |
| `journal_retry` | violation: a retry after an error erases the page of the newest state | |
| `scan` | the scan finds what it must, and ends | 5 words in blocks of 2, every content |
| `codec` | all 196 states and 65536 words, with the real CRC, of which TLC also evaluates `ChecksumAssumption` | exhaustive, no bound |
| `boot` | any journal, a policy that rejects some states, failing reads, images replaced at any time: one start of a target with a separate backup until it is confirmed, the application knows its slot and confirms only itself, a separate backup is proven, a good backup comes up unless a malformed target is tried first, the inductive invariant | 2 slots with and 1 without a partition, 20324 states |
| `image_load` | copy in range, jump to what was checked, secure boot, no correctly signed image meets the wrong keys, OTP driver released, the inductive invariant | 16 addresses, 4 slots, 91 headers, 48 bodies |
| `image_errors` | violation: a malformed image panics instead of yielding an error | |
| `fuse_burn` | interrupted and resumed burns, in verified images of one table, end with exactly that table; the inductive invariant; any press turns secure boot on or is interrupted | words of 2 bits, 2 key tables, both builds, 5950 states |
| `fuse_zero` | violation: secure boot is turned on in a device without a key table | |
| `sign` | only authentic images reach the flash, the inductive invariant, key material is kept, generated chains verify, the layout is the loader's, no byte of a segment is lost | 7 ELF files, chains of 3 and of 1, 1.1 million states |

Bounds. Three states are needed for an old one, a new one and a third one that
must not come back; the bytes have one value more, for 0xff, and as in the real
encoding a byte can be both a data byte and a checksum. Two pages are the
smallest partition the code accepts and three pages have a page that is neither
the first nor the last; two words in a page make the first and the last word of
a page differ. Nothing bounds the number of sets or of crashes: the runs
explore all reachable states. The theorems below remove the bounds on pages,
words and bytes. In the boot protocol two slots are what the example board has,
and the third stands for the slots a State can name and a device lacks. Images are
chosen around the limits: the load range has images that end before it, at its end
and behind it, and images that cross the end of the address space; offsets fall
inside, at and behind the end of an image. The two key table hashes are symmetric:
they are only compared.

Fuse words have two bits, so that an interruption can leave a part of a word; the two
key tables share words, differ in others, and have blank words. The fuse and
offset numbers are the real ones. In `SignTool` a chain of three certificates has a root,
an intermediate certificate and a leaf, and a chain of one certificate is both; one
configuration has all of them generated, the other one leaves the single one to an HSM.
`MaxVersion` is 2 (an old key and a new one) and `MaxLosses` 1 (one file is torn or removed): the
theorems have no such bounds to their values. The ELF files are one with the prelude,
a gap and bss, one of a length that is not aligned, and one for each reason `objcopy` and `sign` have to
reject an ELF file. An image too short for its header, which ends the command before
anything is signed, is left to the theorems.

Fairness. `FairSpec` of `FlashJournal` has weak fairness of the steps of a set in
progress: the executor polls the future until it is ready, and the medium
answers every operation. `FairSpec` of `Slimloader` has weak fairness of starting
after a reset and of the steps of the bootloader, which runs alone and never
waits for anything but the medium. Neither assumes anything of the application,
of the host, of errors or of power. `JournalScan` has weak fairness of its loop.
`FuseProvisioning` has weak fairness of burning the next word: while it burns, the application
awaits nothing and has no other task; an interruption is possible at any time.

Deadlock is checked except where the modelled program stops, which the
configurations say.

## Findings

* `journal_retry`: after an error of the medium in the wrap-around branch the
  cache is stale. A second `set` on the same handle may erase the first page with
  the only valid state in it, against the comment in that branch.
* `image_errors`: `check_image` slices with offsets of the image before it is
  authenticated. `Board::check_and_boot` promises a `BootError` for every aborted
  boot; an offset behind the end of the image panics, and the backup is not tried.
* `fuse_zero`: the check that the shadow registers hold a key table guards only the
  burning of the table. `BOOT_CFG0` is burned in any case, and a device whose
  bootloader was built with `non-secure` ends with secure boot on and no table.
  The third limit below is the same gap.

Limits of the code that were met while modelling, and that no run states:

* A target that is its own backup, as in the default state, is what the bootloader falls
  back to: from `Failed` it is started again at every boot, confirmed or not. `StartedOnce`
  is therefore about targets with a separate backup.
* A malformed target ends the boot in a panic (`image_errors`). If it was `Initial`, the
  next reset finds `Attempting` and goes to the backup. If it was `Confirmed`, nothing is
  stored before the panic: every boot ends the same way and the backup is never tried.
  `GoodBackupBoots` excepts a malformed target that is tried first.
* Under a bootloader without verification, a burn that was interrupted in the RKTH is not
  resumed. The ROM loads the half-burned table into the shadow registers; the next press
  finds the two equal, skips the RKTH and burns `BOOT_CFG0`: secure boot is on with a
  table of which no image has the key. `check_image` prevents it in a verifying build, as
  it writes the whole table to the shadow registers first.
* `generate` makes a chain of a single certificate with a leaf that is no CA
  (`certificates.rs:177`), and `CertBlock::verify` requires a CA of the first certificate
  (`cert_block.rs:263`): such a chain has to come from elsewhere.
* The tool does not check the size of an image against its slot (`objcopy.rs:74` has it as
  a TODO), while `bootloader-tool/README.md:76` says that sections are not too large. The
  loader rejects such an image when it is read.
* A press under a second key table after an interrupted burn of the first sets the union of
  both hashes, with which no image boots: `used` is then `Mixed`, of which
  `SecureMeansThatTable` says nothing. Likewise a `BOOT_CFG0` of which an interruption left
  some bits is never completed.
* `Attempting` is stored before the image is read, so finding it does not mean that the image
  was started.

## What is proved

The theorems about the journal hold for every `Capacity`, `PageWords`, `BlockWords`, every set of
bytes and states that satisfies `CodecAssumption` (0xff is no data byte of a
state, every state has a checksum) and every initial content of the partition.

| Theorem | Assumes | Statement |
| --- | --- | --- |
| `TypeCorrect` | - | `Spec => []TypeOK` |
| `CacheFollowsFlash`, `OkMeansStored` | no retries | `[]CacheCoherent`, `[]OkIsDurable` |
| `SetInvariant` | no retries, no silent faults | `Spec => []SetInv` |
| `NeverLost` | same | `Spec => []OldOrNew` |
| `NoReadbackFailure` | same | `Spec => []ReadbackSucceeds` |
| `OnlyErasedProgrammed` | same | `Spec => ProgramsOnlyErased` |
| `JournalIsRegister` | same | `Spec => ImplementsRegister` |
| `ScanInvariant`, `ScanCorrect` | - | `Spec => []ScanInv`, `Spec => []FindsNewest` |
| `BootInvariant`, `TypeCorrect` | `OrdinaryPolicy` | `Spec => [](TypeOK /\ BootInv)` of `Slimloader`, `[]TypeOK` |
| `TriedOnce`, `SlotIsKnown`, `BackupWasConfirmed` | `OrdinaryPolicy` | `[]StartedOnce`, `[]AppKnowsItsSlot`, `[]BackupIsProven` |
| `ConfirmedByItself` | `OrdinaryPolicy` | `Spec => ConfirmsOnlyItself` |
| `LoadInvariant`, `TypeCorrect` | - | `Spec => [](TypeOK /\ LoadInv)` of `ImageLoad` |
| `CopyIsContained`, `JumpIsToTheCopy` | - | `[]CopyStaysInside`, `[]JumpsToTheCopy` |
| `SecureBootHolds`, `OtpIsFree` | - | `[]SecureBootKeepsKeys`, `[]OtpIsReleased` |
| `TrustedIsAccepted` | - | `[]RejectsOnlyUntrusted` |
| `TypeCorrect`, `BurnInvariant`, `BurnIsResumable` of `FuseProvisioning` | - | `[]TypeOK`, `[]BurnInv`, `[]SecureMeansThatTable` |
| `TypeCorrect`, `ToolInvariant`, `DownloadsAuthentic` of `SignTool` | - | `[]TypeOK`, `[]ToolInv`, `[]FlashAuthenticates` |
| `GeneratedVerifies` | - | `[]GeneratedChainVerifies` |
| `NoSegmentOverwritten`, `HeaderLeadsToBlock` | `ElfAssumption`, `LayoutAssumption` | `[]SegmentsIntact`, `[]LoaderFindsBlock` |
| `KeysKept` | - | `Spec => KeyMaterialKept` |
| `ReadBack`, `HalfIsNoState`, `LayoutIsReal` of `StateCodec` | `ChecksumAssumption` | `[]FieldsSurvive`, `[]TornIsNoState`, `[]AgreesWithLayout` |
| `CodecAsAssumed` | `ChecksumAssumption` | `CodecAssumption` of `JournalLayout` for the real bytes |
| `AccessorsDefined` | `ChecksumAssumption` | a word that `try_new` accepts has a status and two slots, and is `New` of them |
| `JournalUsedAsRegister` | `OrdinaryPolicy` | `Spec` of `Slimloader` implies `Spec` of `StateRegister` |
| `NeverRetries` | - | `[](handle = "broken" => pc = "panicked")` |

The argument for the journal. `OldOrNew` is not inductive: it does not say which
words are erased, nor that no state lies behind the cached one. The inductive
invariant `JournalInv` has four parts: `TypeInv` (types, and that a set in progress
has a partition of more than one page), `CacheCoherent`, `SetInv`, and
`ReadbackSucceeds`. `SetInv` says for every step of each branch what the flash
holds: the cached state is in its place and no word behind it is a state
(`CachedUpTo`), which words have been erased (`ErasedFrom`), and how far the word
at work is (`Programming`, `Wiping`). While the pages behind the first are erased,
the old state counts until the erase reaches it (`OldRemains`), and from then on
the new one in word 0 is the only state left. One lemma for each step shows that
it keeps `SetInv`. `DurableExact` derives what a scan would find at each step: the
new state if `Committed`, else the old one. `CommittedStays` shows that this
changes at most once, which is the refinement: the step that makes `Committed`
true is `Commit` of the register, every other byte is a stuttering step.

The facts about the scan that both developments use (the newest valid word is
unique, the first free word is the least one) and about pages (`PageFacts`, with
integer division) are in `JournalLayoutProofs`. `JournalScanProofs` shows that
`Describes(result, Position)` is kept by every word looked at and by the step from
a block to the next, also when the last block is short: between the end of the
partition and the end of that block there is no address.

The theorems about `ImageLoad` hold for every address space, load range, slot size
and set of images, and for every build. `TypeOK` is not inductive there,
since later steps look at an image only because there is one; `LoadInv` says for
each step what the earlier ones have established. The copy stays in range because
the end pointer comes from an addition that does not wrap around, so no byte
between the two ends does.

The theorems about `Slimloader` hold for every set of slots and partitions and every
first content of the journal. None of the properties is inductive, for they say
nothing of the State in RAM. `BootInv` says what the bootloader and the application
may rely on: before the image is checked, the State in RAM is the one in the journal
(`LoaderInv`); while an application runs, the journal holds the State it was started
with or the one its button stores, and the slot it runs from is the one that State
stands for (`AppInv`); if the target was started since it was made `Initial` and is not
confirmed, the journal has a valid State that is not `Initial`, and a target with a separate
backup was started once (`AttemptInv`). The last part is where the policy
matters: if it rejected the State that the bootloader stored, the next boot would
take the default and start the target again.

The theorems about `FuseProvisioning` hold for every width of a word, every set of key
tables, and every mix of the two builds. `BurnInv` says that the table of a verified image stays in
force while it runs, so that a press in it is about the whole table. As long as there were only
presses in verified images of one table, the fuses hold no bit that is not in it, the words
before the one in progress are complete, and `BOOT_CFG0` stays blank until all of them are: the two
inclusions together make the fuses equal to the table. They rest on `DriverOffset`: the driver finds the shadow
registers where the hardware has them.

The theorems about `SignTool` hold for all ELF files, chains, configurations and
bounds. The inductive invariant `ToolInv` has three parts. `SignInv` carries the verification from the step that does it to the download: the block
of a running command is verified, and a merged file is authentic. It does not depend on the
order or the age of the files, since `sign` verifies what it reads and checks
the signature against the image it makes, not the one it exported.

`GeneratedInv` is why `sign` accepts what `generate` made. `GeneratedChainVerifies` is not
inductive, for it says nothing of the keys: a certificate fits its successor only because
both name the same generation of a key. As long as no file was torn or removed, a secret
that is there is the first of its name, and a certificate that is there is the one made of
first keys (`FirstCertificate`) or the supplied one. `FirstChain` then goes through the
checks of `CertBlock::verify`.

`LayoutInv` says that an image is made only of an ELF file that passed `objcopy` and is long
enough for its header, whatever became of the ELF file since. From there on the two layout
properties are about the operators of `MasterBootImage`. `objcopy` compares each segment with the
one kept before it; `AllOrdered` concludes that any two kept segments are apart, by looking at a
nearest pair that is not (`LeastNat`). So at most one segment provides a byte (`FlatImage`),
and all of them lie within the bounds of the image (`Span`). For the header, `PartEnd` is a
recursive function over the parts of a file; that there is such a function is shown by
writing it down for the six parts of a file and the mark behind them (`PartEndDefined`,
`SixParts`, `SevenParts`).
The offset of the certificate block is a multiple of the alignment by `Aligned`, from division with
remainder.

The theorems about `StateCodec` hold for every checksum that satisfies `ChecksumAssumption`: no byte with
two valid slots has the checksum 0xff. That this is so of CRC-8/OPENSAFETY is what TLC evaluates, for
all 256 bytes. The rest is arithmetic of the three fields: they do not overlap, and since
slots end at 6, no data byte is 0xff. `WordInv` says for each phase of the life of a word which
bytes it holds; only what happens to a word that was erased before matters.

The two theorems that tie `Slimloader` to the journal: every step of bootloader and application
is a step of `StateRegister` or leaves it alone, where `BootInv` provides that only States are
set; and `handle = "broken"` goes with a panic. With `JournalIsRegister`, whose hypothesis that
holders do not retry is the second one, what is proved of `Slimloader` over the register
applies to the journal in flash.

Only model-checked: liveness (`SetTerminates`, `ScanTerminates`, `GoodBackupBoots`,
`PressTurnsSecureBootOn`), which needs fairness, and the values of the CRC (`Crc8`), which need a recursive operator
and bitwise operations. All invariants and action properties of the passing runs are proved.

## What is not modelled

* Bits. The medium of the mock programs and erases whole bytes, and so does the
  model. In a real part an interrupted program operation can leave some bits
  uncleared. The words of 369 ordered pairs of distinct states differ only by
  cleared bits, so that a partly programmed word can be another valid state; what
  order a part clears bits in is not known to the code.
* The order of an erase. Pages and bytes are erased in ascending order, as the
  mock does. An erase of a real sector is not ordered; within a page whose old
  state is being erased after the new one was written this does not matter, but
  if the newest old state is in the second page and older ones are in later
  pages, it matters that whole pages are erased in ascending order only for
  which of them a reset leaves behind.
* A silent fault while the journal wraps around. If the new state is not stored in
  the first page, the old one is erased before the readback reports it. `set`
  returns an error, as `OkIsDurable` shows, but no state is left.
* In `ImageLoad`, the build of the board without verification (feature `non-secure`, which
  `FuseProvisioning` has), and the reset pin that the EVK build sets in `boot_cfg_1`.
* The wear of the journal. A comment on `Status` says that its values let bits be
  dropped in the happy flow; that holds for the data byte, but not for the CRC, and
  `set` always programs a new word.
* Of the tool: a configuration without the section of the image, for which `sign` skips the
  check of the base address (`download` needs the section); what `nxpimage` makes of a chain of
  which a certificate that the block does not need is missing; two commands at the same time, the prelude (a file of its own for the probe),
  the value of the HMAC (no image kind in use has one), `generate_pure` and `generate_nxp`, which no
  command calls, parsing of arguments and configuration, progress bars. Addresses of segments are natural
  numbers: an ELF file whose segments end behind the 32-bit address space, where `paddr + memsz` of
  `objcopy.rs:39` would overflow, is not considered.
* The alignment and bounds checks of the mock, LEDs, logging, the debug probe, hashes
  and signature algorithms (external crates and programs), the table of ROM functions (a foreign
  interface), the flash configuration block (constant data).

## Plan

Done: the journal, its scan and codec, the abstract register, the boot protocol, the
loading of an image, the provisioning of fuses and the tool, with proofs of every safety property
of the runs. Next, in this order:

1. More about the parts between the modules: that the header of an image `SignTool` downloads passes the
   checks of `ImageLoad`, and that `check_and_boot` as `ImageLoad` has it is what `Slimloader` takes as one step.
2. `Slimloader` over `FlashJournal` itself on a small instance. The two refinements make it
   redundant in principle.
3. The prelude of an image and its download.
