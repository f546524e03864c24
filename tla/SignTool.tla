------------------------------ MODULE SignTool ------------------------------
(***************************************************************************)
(* bootloader-tool, a program of the host: generate certificates, generate *)
(* otp, sign, and download, which signs and writes the result to the       *)
(* external flash.  Its commands communicate through files, which survive  *)
(* from one to the next: keys and certificates that were generated once    *)
(* are kept, the ELF file is rebuilt, an HSM signs what an earlier command *)
(* has exported.  A command may be killed at any time, and what it was     *)
(* writing is then torn.                                                   *)
(*                                                                         *)
(* A file is NoFile, Torn or its content.  Each step of a command writes   *)
(* one file or runs one program of the SPSDK.  One command runs at a time. *)
(* The ELF file is built anew at any time: a command finds some content.   *)
(***************************************************************************)
EXTENDS MasterBootImage, FiniteSets

CONSTANTS
    Elf,            \* the contents of the ELF file that there may be, by name
    Chains,         \* config.certificates: the length of each chain
    Prototypes,     \* the sets of certificates that may have a prototype
    RunStart,       \* run_start of the configuration
    Places,         \* where in the flash images go
    MaxVersion,     \* how often a key is generated
    MaxLosses,      \* how many files the user removes
    NoFile, Torn

Certs == UNION {{<<c, i>> : i \in 1 .. Chains[c]} : c \in DOMAIN Chains}
Otp == <<0, 0>>
Secrets == Certs \cup {Otp}

\* The v-th key generated for a certificate.
Keys == [cert : Certs, v : 1 .. MaxVersion]
Key(p, v) == [cert |-> p, v |-> v]

Certificates == [key : Keys, issuer : Keys, ca : BOOLEAN]
Blocks == [certs : Seq(Certificates), roots : [DOMAIN Chains -> Keys]]
Images == [elf : DOMAIN Elf, block : Blocks]
Signatures == [key : Keys, of : Images]
Signed == [image : Images, sig : Signatures]

\* The arguments of sign and download.  A signature that is given is used, with
\* --dont-sign or without.  Where place is NoFile nothing is downloaded.
Commands == [chain : DOMAIN Chains, mode : {"sign", "dontSign", "given"},
             place : Places \cup {NoFile}]

ASSUME ToolAssumption ==
    /\ Chains \in Seq(Nat \ {0}) /\ Chains # <<>>
    /\ Prototypes \subseteq SUBSET Certs
    /\ MaxVersion \in Nat \ {0} /\ MaxLosses \in Nat
    /\ NoFile # Torn /\ NoFile \notin Places
    /\ \A f \in {NoFile, Torn} :
          f \notin Nat \cup Certificates \cup DOMAIN Elf \cup Images
                    \cup Signatures \cup Signed

ASSUME ElfAssumption ==
    /\ RunStart \in Nat
    /\ \A e \in DOMAIN Elf :
          /\ Elf[e].entry \in Nat
          /\ Elf[e].segs \in Seq([paddr : Nat, filesz : Nat, memsz : Nat])

VARIABLES
    prototyped, \* the certificates with a prototype, <<chain, index>>
    secret,     \* the private keys and the OTP master key, by their version
    made,       \* how many of them were generated so far
    cert,       \* the certificates
    unsigned,   \* <INPUT_FILE>.unsigned.bin
    prestage,   \* <INPUT_FILE>.mbi-proto.bin
    signature,  \* the file the last signature was written to
    output,     \* <INPUT_FILE>.signed.bin
    flash,      \* what was downloaded
    pc,         \* the step of the command that runs, or idle
    at,         \* generate: the certificate it is at
    cmd,        \* sign: its arguments
    block,      \* sign: the certificate block
    losses      \* history: files removed or torn

keyFiles == <<secret, made, cert>>
imageFiles == <<unsigned, prestage, signature, output, flash>>
locals == <<at, cmd, block>>
vars == <<prototyped, keyFiles, imageFiles, pc, locals, losses>>

NoCommand == [chain |-> 1, mode |-> "sign", place |-> NoFile]
NoBlock == [certs |-> <<>>, roots |-> [c \in DOMAIN Chains |-> Key(<<c, 1>>, 1)]]

KeyFilesOK ==
    /\ prototyped \in Prototypes
    /\ secret \in [Secrets -> (1 .. MaxVersion) \cup {NoFile, Torn}]
    /\ made \in [Secrets -> 0 .. MaxVersion]
    /\ \A p \in Secrets : secret[p] \in Nat => secret[p] = made[p]
    /\ cert \in [Certs -> Certificates \cup {NoFile, Torn}]

ImageFilesOK ==
    /\ unsigned \in DOMAIN Elf \cup {NoFile, Torn}
    /\ prestage \in Images \cup {NoFile, Torn}
    /\ signature \in Signatures \cup {NoFile, Torn}
    /\ output \in Signed \cup {NoFile, Torn}
    /\ flash \in [Places -> Signed \cup {NoFile, Torn}]

LocalsOK ==
    /\ pc \in {"idle", "key", "cert", "flatten", "block", "prestage", "sign",
               "merge", "flash"}
    /\ at \in Certs
    /\ cmd \in Commands
    /\ block \in Blocks
    /\ losses \in 0 .. MaxLosses

TypeOK == KeyFilesOK /\ ImageFilesOK /\ LocalsOK

\* A certificate without a prototype was made elsewhere, where its key stays.
Supplied(p) ==
    [key |-> Key(p, 1), ca |-> p[2] < Chains[p[1]] \/ p[2] = 1,
     issuer |-> IF p[2] = 1 THEN Key(p, 1) ELSE Key(<<p[1], p[2] - 1>>, 1)]

Init ==
    /\ prototyped \in Prototypes
    /\ secret = [p \in Secrets |-> NoFile]
    /\ made = [p \in Secrets |-> 0]
    /\ cert = [p \in Certs |-> IF p \in prototyped THEN NoFile ELSE Supplied(p)]
    /\ unsigned = NoFile /\ prestage = NoFile /\ signature = NoFile
    /\ output = NoFile /\ flash = [p \in Places |-> NoFile]
    /\ pc = "idle" /\ at = <<1, 1>> /\ cmd = NoCommand /\ block = NoBlock
    /\ losses = 0

Readable(file) == file \notin {NoFile, Torn}

\* The command ends, with a result or an error.
Done == pc' = "idle" /\ at' = <<1, 1>> /\ cmd' = NoCommand /\ block' = NoBlock

-----------------------------------------------------------------------------
(***************************************************************************)
(* generate.                                                               *)
(***************************************************************************)
\* A program of the SPSDK or the tool writes the secret p.
NewSecret(p) ==
    /\ made[p] < MaxVersion
    /\ made' = [made EXCEPT ![p] = @ + 1]
    /\ secret' = [secret EXCEPT ![p] = made[p] + 1]

GenerateOtp ==
    /\ pc = "idle"
    /\ secret[Otp] = NoFile
    /\ NewSecret(Otp)
    /\ UNCHANGED <<prototyped, cert, imageFiles, pc, locals, losses>>

Generate ==
    /\ pc = "idle"
    /\ pc' = "key"
    /\ UNCHANGED <<prototyped, keyFiles, imageFiles, locals, losses>>

\* Mutant: an existing key is generated again.
PrivateKeyAnew ==
    /\ pc = "key" /\ at \in prototyped
    /\ NewSecret(at)
    /\ pc' = "cert"
    /\ UNCHANGED <<prototyped, cert, imageFiles, locals, losses>>

\* generate_private_key.  A key that exists is kept.
PrivateKey ==
    /\ pc = "key" /\ at \in prototyped
    /\ IF secret[at] = NoFile THEN NewSecret(at) ELSE UNCHANGED <<secret, made>>
    /\ pc' = "cert"
    /\ UNCHANGED <<prototyped, cert, imageFiles, locals, losses>>

Parent(p) == IF p[2] = 1 THEN p ELSE <<p[1], p[2] - 1>>
IsLeaf(p) == p[2] = Chains[p[1]]

\* Mutant: certificates are issued by the root.
IssuerRoot(p) == <<p[1], 1>>

\* The certificate whose key issues p.
Issuer(p) == Parent(p)

\* Mutant: the last chain does not end the loop.
AdvancePast ==
    /\ at' = IF IsLeaf(at) THEN <<at[1] + 1, 1>> ELSE <<at[1], at[2] + 1>>
    /\ pc' = "key" /\ UNCHANGED <<cmd, block>>

\* The next certificate of the chain, or the root of the next chain.
Advance ==
    IF IsLeaf(at) /\ at[1] = Len(Chains) THEN Done
    ELSE /\ at' = IF IsLeaf(at) THEN <<at[1] + 1, 1>> ELSE <<at[1], at[2] + 1>>
         /\ pc' = "key" /\ UNCHANGED <<cmd, block>>

\* generate_certificate.  A certificate that exists is kept.
Certify ==
    /\ pc = "cert" /\ Issuer(at) \in prototyped
    /\ IF cert[at] # NoFile THEN UNCHANGED cert
       ELSE /\ Readable(secret[at]) /\ Readable(secret[Issuer(at)])
            /\ cert' = [cert EXCEPT ![at] =
                          [key |-> Key(at, secret[at]), ca |-> ~IsLeaf(at),
                           issuer |-> Key(Issuer(at), secret[Issuer(at)])]]
    /\ Advance
    /\ UNCHANGED <<prototyped, secret, made, imageFiles, losses>>

-----------------------------------------------------------------------------
(***************************************************************************)
(* sign and download.                                                      *)
(***************************************************************************)
Sign(c) ==
    /\ pc = "idle"
    /\ cmd' = c
    /\ pc' = "flatten"
    /\ UNCHANGED <<prototyped, keyFiles, imageFiles, at, block, losses>>

\* The configuration has the section of the image, without which sign skips the
\* comparison with run_start and download fails.
Flattens(e) == Accepted(Elf[e]) /\ BaseAddr(Elf[e]) = RunStart

\* The ELF file, which holds e, is read, checked and flattened.
Flatten(e) ==
    /\ pc = "flatten"
    /\ Flattens(e)
    /\ unsigned' = e
    /\ pc' = "block"
    /\ UNCHANGED <<prototyped, keyFiles, prestage, signature, output, flash, locals, losses>>

\* What nxpimage makes of the certificates.
NewBlock ==
    [certs |-> [i \in 1 .. Chains[cmd.chain] |-> cert[<<cmd.chain, i>>]],
     roots |-> [c \in DOMAIN Chains |-> cert[<<c, 1>>].key]]

\* The OTP key is read, the certificate block is built and verified.  nxpimage,
\* which is external, is taken to read the certificates of all chains.
MakeBlock ==
    /\ pc = "block"
    /\ Readable(secret[Otp])
    /\ \A p \in Certs : Readable(cert[p])
    /\ Verify(NewBlock)
    /\ block' = NewBlock
    /\ pc' = "prestage"
    /\ UNCHANGED <<prototyped, keyFiles, imageFiles, at, cmd, losses>>

\* The image that is made of the flat image and the block.
NewImage == [elf |-> unsigned, block |-> block]

PrepareToSign ==
    /\ pc = "prestage"
    /\ LongEnough(Elf[unsigned])
    /\ prestage' = NewImage
    /\ IF cmd.mode = "dontSign" THEN Done
       ELSE pc' = (IF cmd.mode = "given" THEN "merge" ELSE "sign") /\ UNCHANGED locals
    /\ UNCHANGED <<prototyped, keyFiles, unsigned, signature, output, flash, losses>>

Leaf(c) == <<c, Chains[c]>>
HasKey(p) == p \in prototyped /\ Readable(secret[p])

SignImage ==
    /\ pc = "sign"
    /\ HasKey(Leaf(cmd.chain))
    /\ signature' = [key |-> Key(Leaf(cmd.chain), secret[Leaf(cmd.chain)]),
                     of |-> prestage]
    /\ pc' = "merge"
    /\ UNCHANGED <<prototyped, keyFiles, unsigned, prestage, output, flash, locals, losses>>

SignatureFits == Readable(signature) /\ Check(NewImage, signature)

\* Mutant: the signature is not checked.
MergeUnchecked ==
    /\ pc = "merge"
    /\ Readable(signature)
    /\ output' = [image |-> NewImage, sig |-> signature]
    /\ IF cmd.place = NoFile THEN Done ELSE pc' = "flash" /\ UNCHANGED locals
    /\ UNCHANGED <<prototyped, keyFiles, unsigned, prestage, signature, flash, losses>>

\* The image is made again, and written with the signature if that fits.
MergeWithSignature ==
    /\ pc = "merge"
    /\ SignatureFits
    /\ output' = [image |-> NewImage, sig |-> signature]
    /\ IF cmd.place = NoFile THEN Done ELSE pc' = "flash" /\ UNCHANGED locals
    /\ UNCHANGED <<prototyped, keyFiles, unsigned, prestage, signature, flash, losses>>

Download ==
    /\ pc = "flash"
    /\ flash' = [flash EXCEPT ![cmd.place] = output]
    /\ Done
    /\ UNCHANGED <<prototyped, keyFiles, unsigned, prestage, signature, output, losses>>

\* Any step may return an error: something is missing, does not pass a check,
\* or another program fails.
Error ==
    /\ pc # "idle"
    /\ Done
    /\ UNCHANGED <<prototyped, keyFiles, imageFiles, losses>>

-----------------------------------------------------------------------------
(***************************************************************************)
(* The rest of the world.                                                  *)
(***************************************************************************)
\* The tool is killed, or fails, while it writes a file.
Killed ==
    /\ losses < MaxLosses
    /\ losses' = losses + 1
    /\ Done
    /\ UNCHANGED <<prototyped, made>>
    /\ \/ \E p \in Secrets :
             /\ \/ pc = "idle" /\ p = Otp
                \/ pc = "key" /\ p = at /\ at \in prototyped
             /\ secret[p] = NoFile
             /\ secret' = [secret EXCEPT ![p] = Torn]
             /\ UNCHANGED <<cert, imageFiles>>
       \/ /\ pc = "cert" /\ cert[at] = NoFile
          /\ cert' = [cert EXCEPT ![at] = Torn]
          /\ UNCHANGED <<secret, imageFiles>>
       \/ /\ pc = "flatten" /\ \E e \in DOMAIN Elf : Flattens(e)
          /\ unsigned' = Torn
          /\ UNCHANGED <<secret, cert, prestage, signature, output, flash>>
       \/ /\ pc = "prestage" /\ LongEnough(Elf[unsigned])
          /\ prestage' = Torn
          /\ UNCHANGED <<secret, cert, unsigned, signature, output, flash>>
       \/ /\ pc = "sign" /\ HasKey(Leaf(cmd.chain))
          /\ signature' = Torn
          /\ UNCHANGED <<secret, cert, unsigned, prestage, output, flash>>
       \/ /\ pc = "merge" /\ SignatureFits
          /\ output' = Torn
          /\ UNCHANGED <<secret, cert, unsigned, prestage, signature, flash>>
       \/ /\ pc = "flash" /\ flash' = [flash EXCEPT ![cmd.place] = Torn]
          /\ UNCHANGED <<secret, cert, unsigned, prestage, signature, output>>

\* The user removes a key or a certificate, to have a new one.
Remove ==
    /\ pc = "idle"
    /\ losses < MaxLosses
    /\ losses' = losses + 1
    /\ \/ \E p \in Secrets : /\ secret[p] # NoFile
                             /\ secret' = [secret EXCEPT ![p] = NoFile]
                             /\ UNCHANGED cert
       \/ \E p \in prototyped : /\ cert[p] # NoFile
                                /\ cert' = [cert EXCEPT ![p] = NoFile]
                                /\ UNCHANGED secret
    /\ UNCHANGED <<prototyped, made, imageFiles, pc, locals>>

\* An HSM, or openssl, signs what was exported.
HsmSigns ==
    /\ pc = "idle"
    /\ Readable(prestage)
    /\ \E p \in Certs :
        /\ IsLeaf(p)
        /\ p \in prototyped => Readable(secret[p])
        /\ signature' = [key |-> Key(p, IF p \in prototyped THEN secret[p] ELSE 1),
                         of |-> prestage]
    /\ UNCHANGED <<prototyped, keyFiles, unsigned, prestage, output, flash, pc, locals, losses>>

\* What the tool does.
Tool ==
    \/ GenerateOtp \/ Generate \/ PrivateKey \/ Certify
    \/ \E c \in Commands : Sign(c)
    \/ \E e \in DOMAIN Elf : Flatten(e)
    \/ MakeBlock \/ PrepareToSign \/ SignImage \/ MergeWithSignature
    \/ Download \/ Error \/ Killed

Next == Tool \/ Remove \/ HsmSigns

Spec == Init /\ [][Next]_vars

-----------------------------------------------------------------------------
(***************************************************************************)
(* Properties.                                                             *)
(***************************************************************************)
\* What the ROM asks of an image: a root key of the table, a chain of
\* certificates each issued with the key of the one before, and a signature
\* of exactly this image with the key of the last one.
Authentic(file) ==
    LET cs == file.image.block.certs IN
    /\ \E c \in DOMAIN Chains : file.image.block.roots[c] = cs[1].key
    /\ \A i \in 2 .. Len(cs) : cs[i].issuer = cs[i - 1].key
    /\ file.sig = [key |-> cs[Len(cs)].key, of |-> file.image]

\* Nothing is written to the flash that is not authentic, although keys,
\* certificates, signatures and the ELF file may be of different ages.
FlashAuthenticates ==
    \A p \in Places : Readable(flash[p]) => Authentic(flash[p])

\* Behind it: the block of a running command and the
\* file in the file system are verified.
SignInv ==
    /\ pc \in {"prestage", "sign", "merge", "flash"} => Verify(block)
    /\ pc = "flash" => Readable(output) /\ cmd.place # NoFile
    /\ pc \in {"block", "prestage", "sign", "merge"} => unsigned \in DOMAIN Elf
    /\ pc = "sign" => Readable(prestage)
    /\ Readable(output) => Authentic(output)
    /\ FlashAuthenticates

\* The certificate generate makes first for p, or the one that was supplied.
FirstCertificate(p) ==
    IF p \in prototyped
    THEN [key |-> Key(p, 1), ca |-> ~IsLeaf(p), issuer |-> Key(Issuer(p), 1)]
    ELSE Supplied(p)

\* Behind GeneratedChainVerifies: without a loss every secret is the first of
\* its name, and generate works on a certificate that has a prototype.
GeneratedInv ==
    /\ pc = "cert" => at \in prototyped
    /\ losses = 0 =>
          /\ \A p \in Secrets :
                /\ secret[p] # Torn
                /\ secret[p] = NoFile => made[p] = 0
                /\ secret[p] # NoFile => made[p] = 1
          /\ \A p \in Certs : cert[p] # NoFile => cert[p] = FirstCertificate(p)

\* Behind LoaderFindsBlock and SegmentsIntact: what is made into an image has
\* passed the checks, although the ELF file itself may have changed since.
LayoutInv ==
    /\ pc \in {"block", "prestage", "sign", "merge"} => Flattens(unsigned)
    /\ pc \in {"sign", "merge"} => LongEnough(Elf[unsigned])
    /\ Readable(output) => /\ Flattens(output.image.elf)
                           /\ LongEnough(Elf[output.image.elf])

\* The inductive invariant of the tool.
ToolInv == SignInv /\ GeneratedInv /\ LayoutInv

\* "This tool does not overwrite any pre-existing key material": a file with
\* a key or a certificate changes only when the user removes it.
KeyMaterialKept ==
    [][\/ /\ \A p \in Secrets : secret[p] # NoFile => secret'[p] = secret[p]
          /\ \A p \in Certs : cert[p] # NoFile => cert'[p] = cert[p]
       \/ Remove]_vars

\* As long as no file was removed or torn, the certificates of a chain of
\* more than one certificate fit together, however often generate ran and
\* failed on the way: sign does not reject what generate made.
GeneratedChainVerifies ==
    \A c \in DOMAIN Chains :
        LET cs == [i \in 1 .. Chains[c] |-> cert[<<c, i>>]] IN
        /\ losses = 0 /\ Chains[c] > 1
        /\ \A i \in DOMAIN cs : Readable(cs[i])
        => Verify([certs |-> cs, roots |-> [d \in {c} |-> cs[1].key]])

\* Where the parts of a file end, by their number.
PartEnd(parts) ==
    LET Sum[i \in 0 .. Len(parts)] == IF i = 0 THEN 0 ELSE Sum[i - 1] + parts[i].len
    IN Sum

\* What part of the file starts at the offset o.
PartAt(parts, o) ==
    LET starts == {i \in DOMAIN parts : PartEnd(parts)[i - 1] = o /\ parts[i].len > 0}
    IN IF starts = {} THEN "none" ELSE parts[CHOOSE i \in starts : TRUE].part

\* A mark behind the last byte of a file.
FileEnd == [part |-> "end", len |-> 1]

\* The bootloader copies a downloaded file to ptr.  It finds the type it accepts, the
\* certificate block and the root key hashes where check_image looks for
\* them, nothing between the header and the data, and the length of the file.
LoaderFindsBlock ==
    pc = "flash" =>
        LET e == Elf[output.image.elf]
            b == output.image.block
            h == Header(e, b)
            parts == Parts(e, b)
        IN /\ h.type = XipPlainSigned
           /\ PartAt(Append(parts, FileEnd), h.len) = "end"
           /\ PartAt(parts, h.off) = "certHeader"
           /\ PartAt(parts, h.off + CertHeaderLen + CertTableLen(b)) = "rkhs"
           /\ PartAt(parts, IvtLen) \in {"data", "certHeader"}
           /\ h.ptr = RunStart
           /\ h.off % DataAlign = 0

\* Every byte of every segment lies in the flat image where it was linked to.
SegmentsIntact ==
    pc = "block" =>
        LET e == Elf[unsigned] IN
        \A i \in Segments(e) : \A k \in 0 .. e.segs[i].filesz - 1 :
            Objcopy(e)[Start(e, i) + k - BaseAddr(e)] = <<i, k>>
=============================================================================
