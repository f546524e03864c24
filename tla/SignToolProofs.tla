--------------------------- MODULE SignToolProofs ---------------------------
(***************************************************************************)
(* Whatever the ELF files, the chains, the layout and the number of keys:  *)
(* bootloader-tool downloads authentic images only, keeps what it has      *)
(* generated and accepts it, copies every segment to its place, and writes *)
(* a header that leads to the certificate block.                           *)
(***************************************************************************)
EXTENDS SignTool, SequenceTheorems, WellFoundedInduction, TLAPS

-----------------------------------------------------------------------------
(***************************************************************************)
(* Facts about the sets of the model.                                      *)
(***************************************************************************)
LEMMA ChainFacts ==
    /\ Len(Chains) \in Nat \ {0} /\ DOMAIN Chains = 1 .. Len(Chains)
    /\ \A c \in DOMAIN Chains : Chains[c] \in Nat \ {0}
    /\ 1 \in DOMAIN Chains
BY ToolAssumption

LEMMA CertsFacts ==
    /\ \A c \in DOMAIN Chains : \A i \in 1 .. Chains[c] : <<c, i>> \in Certs
    /\ \A p \in Certs : /\ p[1] \in DOMAIN Chains /\ p[2] \in 1 .. Chains[p[1]]
                        /\ p = <<p[1], p[2]>>
BY DEF Certs

LEMMA RootFacts == \A c \in DOMAIN Chains : <<c, 1>> \in Certs
BY ChainFacts, CertsFacts

LEMMA ReadableContent ==
    /\ \A x \in Nat : Readable(x)
    /\ \A x \in Certificates : Readable(x)
    /\ \A x \in DOMAIN Elf : Readable(x)
    /\ \A x \in Images : Readable(x)
    /\ \A x \in Signatures : Readable(x)
    /\ \A x \in Signed : Readable(x)
BY ToolAssumption DEF Readable

LEMMA KeyType ==
    ASSUME NEW p \in Certs, NEW v \in 1 .. MaxVersion
    PROVE  Key(p, v) \in Keys
BY DEF Key, Keys

LEMMA ReadSecret ==
    ASSUME KeyFilesOK, NEW p \in Secrets, Readable(secret[p])
    PROVE  secret[p] \in 1 .. MaxVersion
BY DEF KeyFilesOK, Readable

\* What a command starts from.
LEMMA IdleType ==
    /\ <<1, 1>> \in Certs
    /\ NoCommand \in Commands
    /\ NoBlock \in Blocks
<1>1. <<1, 1>> \in Certs
    BY ChainFacts, RootFacts
<1>2. NoCommand \in Commands
    BY ChainFacts DEF NoCommand, Commands
<1>3. \A c \in DOMAIN Chains : Key(<<c, 1>>, 1) \in Keys
  <2>1. 1 \in 1 .. MaxVersion
      BY ToolAssumption
  <2> QED  BY <2>1, RootFacts, KeyType
<1>4. <<>> \in Seq(Certificates)
    OBVIOUS
<1>5. NoBlock \in Blocks
    BY <1>3, <1>4 DEF NoBlock, Blocks
<1> QED  BY <1>1, <1>2, <1>5

LEMMA DoneType ==
    ASSUME Done
    PROVE  pc' = "idle" /\ at' \in Certs /\ cmd' \in Commands /\ block' \in Blocks
BY IdleType DEF Done

-----------------------------------------------------------------------------
(***************************************************************************)
(* Steps of generate, and what happens to its files.                       *)
(***************************************************************************)
LEMMA NewSecretType ==
    ASSUME KeyFilesOK, NEW p \in Secrets, NewSecret(p),
           UNCHANGED <<prototyped, cert>>
    PROVE  KeyFilesOK'
<1>1. made[p] + 1 \in 1 .. MaxVersion /\ made[p] + 1 \in Nat
    BY ToolAssumption DEF KeyFilesOK, NewSecret
<1>2. /\ secret' \in [Secrets -> (1 .. MaxVersion) \cup {NoFile, Torn}]
      /\ made' \in [Secrets -> 0 .. MaxVersion]
    BY <1>1, ToolAssumption DEF KeyFilesOK, NewSecret
<1>3. \A q \in Secrets : secret'[q] \in Nat => secret'[q] = made'[q]
    BY <1>1 DEF KeyFilesOK, NewSecret
<1> QED  BY <1>2, <1>3 DEF KeyFilesOK, NewSecret

\* A secret is torn or removed.
LEMMA LostSecretType ==
    ASSUME KeyFilesOK, NEW p \in Secrets, NEW x \in {NoFile, Torn},
           secret' = [secret EXCEPT ![p] = x],
           UNCHANGED <<prototyped, made, cert>>
    PROVE  KeyFilesOK'
<1>1. x \notin Nat
    BY ToolAssumption
<1>2. secret' \in [Secrets -> (1 .. MaxVersion) \cup {NoFile, Torn}]
    BY DEF KeyFilesOK
<1>3. \A q \in Secrets : secret'[q] \in Nat => secret'[q] = made'[q]
    BY <1>1 DEF KeyFilesOK
<1> QED  BY <1>2, <1>3 DEF KeyFilesOK

LEMMA CertFileType ==
    ASSUME KeyFilesOK, NEW p \in Certs, NEW x \in Certificates \cup {NoFile, Torn},
           cert' = [cert EXCEPT ![p] = x],
           UNCHANGED <<prototyped, made, secret>>
    PROVE  KeyFilesOK'
BY DEF KeyFilesOK

LEMMA SameKeyFiles ==
    ASSUME KeyFilesOK, UNCHANGED <<prototyped, secret, made, cert>>
    PROVE  KeyFilesOK'
BY DEF KeyFilesOK

LEMMA SameImageFiles ==
    ASSUME ImageFilesOK, UNCHANGED imageFiles
    PROVE  ImageFilesOK'
BY DEF ImageFilesOK, imageFiles

LEMMA ParentType ==
    ASSUME NEW p \in Certs
    PROVE  Issuer(p) \in Certs
<1>1. CASE p[2] = 1
    BY <1>1 DEF Issuer, Parent
<1>2. CASE p[2] # 1
  <2>1. p[2] - 1 \in 1 .. Chains[p[1]]
      BY <1>2, CertsFacts, ChainFacts
  <2> QED  BY <1>2, <2>1, CertsFacts DEF Issuer, Parent
<1> QED  BY <1>1, <1>2

LEMMA AdvanceType ==
    ASSUME LocalsOK, Advance
    PROVE  pc' \in {"idle", "key"} /\ at' \in Certs /\ cmd' \in Commands /\ block' \in Blocks
<1>1. CASE IsLeaf(at) /\ at[1] = Len(Chains)
    BY <1>1, DoneType DEF Advance
<1>2. CASE ~(IsLeaf(at) /\ at[1] = Len(Chains))
  <2>1. at[1] \in 1 .. Len(Chains) /\ at[2] \in 1 .. Chains[at[1]] /\ Chains[at[1]] \in Nat
      BY CertsFacts, ChainFacts DEF LocalsOK
  <2>2. CASE IsLeaf(at)
    <3>1. at[1] + 1 \in DOMAIN Chains
        BY <1>2, <2>1, <2>2, ChainFacts
    <3> QED  BY <1>2, <2>2, <3>1, RootFacts DEF Advance, LocalsOK
  <2>3. CASE ~IsLeaf(at)
    <3>1. at[2] + 1 \in 1 .. Chains[at[1]]
        BY <2>1, <2>3 DEF IsLeaf
    <3>2. <<at[1], at[2] + 1>> \in Certs
        BY <2>1, <3>1, CertsFacts, ChainFacts
    <3> QED  BY <1>2, <2>3, <3>2 DEF Advance, LocalsOK
  <2> QED  BY <2>2, <2>3
<1> QED  BY <1>1, <1>2
-----------------------------------------------------------------------------
(***************************************************************************)
(* Steps of sign and download.                                             *)
(***************************************************************************)
LEMMA MadeBlock ==
    ASSUME TypeOK, MakeBlock
    PROVE  block' \in Blocks /\ Verify(block')
<1>1. \A p \in Certs : cert[p] \in Certificates
    BY DEF TypeOK, KeyFilesOK, MakeBlock, Readable
<1>2. cmd.chain \in DOMAIN Chains
    BY DEF TypeOK, LocalsOK, Commands
<1>3. \A i \in 1 .. Chains[cmd.chain] : cert[<<cmd.chain, i>>] \in Certificates
    BY <1>1, <1>2, CertsFacts
<1>4. NewBlock.certs \in Seq(Certificates)
  <2>1. NewBlock.certs \in [1 .. Chains[cmd.chain] -> Certificates]
      BY <1>3 DEF NewBlock
  <2>2. Chains[cmd.chain] \in Nat
      BY <1>2, ChainFacts
  <2> QED  BY <2>1, <2>2
<1>5. \A c \in DOMAIN Chains : cert[<<c, 1>>].key \in Keys
    BY <1>1, RootFacts DEF Certificates
<1>6. NewBlock.roots \in [DOMAIN Chains -> Keys]
    BY <1>5 DEF NewBlock
<1>7. NewBlock = [certs |-> NewBlock.certs, roots |-> NewBlock.roots]
    BY DEF NewBlock
<1>8. NewBlock \in Blocks
    BY <1>4, <1>6, <1>7 DEF Blocks
<1> QED  BY <1>8 DEF MakeBlock

\* The leaf of a chain has a key that is a key of the model.
LEMMA LeafKey ==
    ASSUME TypeOK, NEW c \in DOMAIN Chains, HasKey(Leaf(c))
    PROVE  Key(Leaf(c), secret[Leaf(c)]) \in Keys
<1>1. Leaf(c) \in Certs
    BY ChainFacts, CertsFacts DEF Leaf
<1>2. secret[Leaf(c)] \in 1 .. MaxVersion
    BY <1>1, ReadSecret DEF HasKey, Secrets, TypeOK
<1> QED  BY <1>1, <1>2, KeyType

\* What merge writes is authentic: the block was verified when it was made,
\* and the signature is checked against the image that is written.
LEMMA MergedIsAuthentic ==
    ASSUME TypeOK, SignInv, pc = "merge", SignatureFits
    PROVE  [image |-> NewImage, sig |-> signature] \in Signed
           /\ Authentic([image |-> NewImage, sig |-> signature])
<1>1. signature \in Signatures
    BY DEF TypeOK, ImageFilesOK, SignatureFits, Readable
<1>2. NewImage \in Images
    BY DEF TypeOK, LocalsOK, SignInv, NewImage, Images
<1>3. [image |-> NewImage, sig |-> signature] \in Signed
    BY <1>1, <1>2 DEF Signed
<1>4. Verify(block) /\ block \in Blocks
    BY DEF SignInv, TypeOK, LocalsOK
<1>5. DOMAIN block.roots = DOMAIN Chains
    BY <1>4 DEF Blocks
<1>6. NewImage.block = block
    BY DEF NewImage
<1>7. signature = [key |-> block.certs[Len(block.certs)].key, of |-> NewImage]
    BY <1>6 DEF SignatureFits, Check, VerifyingKey
<1>8. /\ \E c \in DOMAIN Chains : block.roots[c] = block.certs[1].key
      /\ \A i \in 2 .. Len(block.certs) : block.certs[i].issuer = block.certs[i - 1].key
    BY <1>4, <1>5 DEF Verify
<1>9. Authentic([image |-> NewImage, sig |-> signature])
    BY <1>6, <1>7, <1>8 DEF Authentic
<1> QED  BY <1>3, <1>9

\* Where neither the output nor the flash changes, only what the next step
\* relies on is left to show.
LEMMA SameFiles ==
    ASSUME SignInv, UNCHANGED <<output, flash>>,
           pc' \in {"prestage", "sign", "merge"} => Verify(block)',
           pc' \in {"block", "prestage", "sign", "merge"} => unsigned' \in DOMAIN Elf,
           pc' = "sign" => Readable(prestage'),
           pc' # "flash"
    PROVE  SignInv'
<1>1. Readable(output') => Authentic(output')
    BY DEF SignInv
<1>2. FlashAuthenticates'
    BY DEF SignInv, FlashAuthenticates
<1> QED  BY <1>1, <1>2 DEF SignInv

\* A command ends, or a file is torn.
LEMMA EndInv ==
    ASSUME SignInv, flash \in [Places -> Signed \cup {NoFile, Torn}],
           pc' \in {"idle", "key", "cert", "flatten"},
           output' \in {output, Torn},
           flash' = flash \/ flash' = [flash EXCEPT ![cmd.place] = Torn]
    PROVE  SignInv'
<1>1. Readable(output') => Authentic(output')
    BY DEF SignInv, Readable
<1>2. FlashAuthenticates'
    BY DEF SignInv, FlashAuthenticates, Readable
<1> QED  BY <1>1, <1>2 DEF SignInv

-----------------------------------------------------------------------------
(***************************************************************************)
(* Every step.                                                             *)
(***************************************************************************)
LEMMA InitInv == Init => TypeOK /\ SignInv
<1> SUFFICES ASSUME Init PROVE TypeOK /\ SignInv
    OBVIOUS
<1>1. KeyFilesOK
  <2>1. \A p \in Certs : Supplied(p) \in Certificates
    <3> SUFFICES ASSUME NEW p \in Certs PROVE Supplied(p) \in Certificates
        OBVIOUS
    <3>1. 1 \in 1 .. MaxVersion
        BY ToolAssumption
    <3>2. Key(p, 1) \in Keys
        BY <3>1, KeyType
    <3>3. p[2] # 1 => Key(<<p[1], p[2] - 1>>, 1) \in Keys
      <4> SUFFICES ASSUME p[2] # 1 PROVE Key(<<p[1], p[2] - 1>>, 1) \in Keys
          OBVIOUS
      <4>1. <<p[1], p[2] - 1>> \in Certs
          BY ParentType DEF Issuer, Parent
      <4> QED  BY <3>1, <4>1, KeyType
    <3> QED  BY <3>2, <3>3 DEF Supplied, Certificates
  <2>2. cert \in [Certs -> Certificates \cup {NoFile, Torn}]
      BY <2>1 DEF Init
  <2>3. \A p \in Secrets : secret[p] \notin Nat
      BY ToolAssumption DEF Init
  <2>4. made \in [Secrets -> 0 .. MaxVersion]
      BY ToolAssumption DEF Init
  <2> QED  BY <2>2, <2>3, <2>4 DEF Init, KeyFilesOK
<1>2. ImageFilesOK
    BY DEF Init, ImageFilesOK
<1>3. LocalsOK
    BY IdleType, ToolAssumption DEF Init, LocalsOK
<1>4. SignInv
    BY DEF Init, SignInv, Readable, FlashAuthenticates
<1> QED  BY <1>1, <1>2, <1>3, <1>4 DEF TypeOK

\* The steps of generate.
LEMMA GenerateStep ==
    ASSUME TypeOK, SignInv, GenerateOtp \/ Generate \/ PrivateKey \/ Certify
    PROVE  TypeOK' /\ SignInv'
<1>f. ImageFilesOK'
    BY SameImageFiles DEF TypeOK, GenerateOtp, Generate, PrivateKey, Certify
<1>1. CASE GenerateOtp
  <2>1. KeyFilesOK'
      BY <1>1, NewSecretType DEF GenerateOtp, TypeOK, Secrets
  <2>2. LocalsOK'
      BY <1>1 DEF GenerateOtp, TypeOK, LocalsOK, locals
  <2>3. SignInv'
      BY <1>1, EndInv DEF GenerateOtp, imageFiles, TypeOK, ImageFilesOK
  <2> QED  BY <1>f, <2>1, <2>2, <2>3 DEF TypeOK
<1>2. CASE Generate
  <2>1. KeyFilesOK'
      BY <1>2, SameKeyFiles DEF Generate, keyFiles, TypeOK
  <2>2. LocalsOK'
      BY <1>2 DEF Generate, TypeOK, LocalsOK, locals
  <2>3. SignInv'
      BY <1>2, EndInv DEF Generate, imageFiles, TypeOK, ImageFilesOK
  <2> QED  BY <1>f, <2>1, <2>2, <2>3 DEF TypeOK
<1>3. CASE PrivateKey
  <2>1. at \in Secrets
      BY DEF TypeOK, LocalsOK, Secrets
  <2>2. KeyFilesOK'
    <3>1. CASE secret[at] = NoFile
        BY <1>3, <2>1, <3>1, NewSecretType DEF PrivateKey, TypeOK
    <3>2. CASE secret[at] # NoFile
        BY <1>3, <3>2, SameKeyFiles DEF PrivateKey, TypeOK
    <3> QED  BY <3>1, <3>2
  <2>3. LocalsOK'
      BY <1>3 DEF PrivateKey, TypeOK, LocalsOK, locals
  <2>4. SignInv'
      BY <1>3, EndInv DEF PrivateKey, imageFiles, TypeOK, ImageFilesOK
  <2> QED  BY <1>f, <2>2, <2>3, <2>4 DEF TypeOK
<1>4. CASE Certify
  <2>1. at \in Certs /\ Issuer(at) \in Certs /\ at \in Secrets /\ Issuer(at) \in Secrets
      BY ParentType DEF TypeOK, LocalsOK, Secrets
  <2>2. KeyFilesOK'
    <3>1. CASE cert[at] # NoFile
        BY <1>4, <3>1, SameKeyFiles DEF Certify, TypeOK
    <3>2. CASE cert[at] = NoFile
      <4>1. secret[at] \in 1 .. MaxVersion /\ secret[Issuer(at)] \in 1 .. MaxVersion
          BY <1>4, <2>1, <3>2, ReadSecret DEF Certify, TypeOK
      <4>2. [key |-> Key(at, secret[at]), ca |-> ~IsLeaf(at),
             issuer |-> Key(Issuer(at), secret[Issuer(at)])] \in Certificates
          BY <2>1, <4>1, KeyType DEF Certificates, IsLeaf
      <4> QED  BY <1>4, <2>1, <3>2, <4>2, CertFileType DEF Certify, TypeOK
    <3> QED  BY <3>1, <3>2
  <2>3. LocalsOK'
      BY <1>4, AdvanceType DEF Certify, TypeOK, LocalsOK
  <2>4. SignInv'
      BY <1>4, EndInv, AdvanceType DEF Certify, imageFiles, TypeOK, ImageFilesOK
  <2> QED  BY <1>f, <2>2, <2>3, <2>4 DEF TypeOK
<1> QED  BY <1>1, <1>2, <1>3, <1>4

\* The steps of sign and download that leave the output alone.
LEMMA SignStep ==
    ASSUME TypeOK, SignInv,
           \/ \E c \in Commands : Sign(c)
           \/ \E e \in DOMAIN Elf : Flatten(e)
           \/ MakeBlock \/ PrepareToSign \/ SignImage \/ Error
    PROVE  TypeOK' /\ SignInv'
<1>k. KeyFilesOK'
    BY SameKeyFiles
    DEF TypeOK, keyFiles, Sign, Flatten, MakeBlock, PrepareToSign, SignImage, Error
<1>1. ASSUME NEW c \in Commands, Sign(c) PROVE TypeOK' /\ SignInv'
  <2>1. ImageFilesOK'
      BY <1>1, SameImageFiles DEF Sign, TypeOK
  <2>2. LocalsOK'
      BY <1>1 DEF Sign, TypeOK, LocalsOK
  <2>3. SignInv'
      BY <1>1, EndInv DEF Sign, imageFiles, TypeOK, ImageFilesOK
  <2> QED  BY <1>k, <2>1, <2>2, <2>3 DEF TypeOK
<1>2. ASSUME NEW e \in DOMAIN Elf, Flatten(e) PROVE TypeOK' /\ SignInv'
  <2>1. ImageFilesOK'
      BY <1>2 DEF Flatten, TypeOK, ImageFilesOK
  <2>2. LocalsOK'
      BY <1>2 DEF Flatten, TypeOK, LocalsOK, locals
  <2>3. SignInv'
      BY <1>2, SameFiles DEF Flatten
  <2> QED  BY <1>k, <2>1, <2>2, <2>3 DEF TypeOK
<1>3. CASE MakeBlock
  <2>1. ImageFilesOK'
      BY <1>3, SameImageFiles DEF MakeBlock, TypeOK
  <2>2. block' \in Blocks /\ Verify(block')
      BY <1>3, MadeBlock
  <2>3. LocalsOK'
      BY <1>3, <2>2 DEF MakeBlock, TypeOK, LocalsOK
  <2>4. unsigned' \in DOMAIN Elf
      BY <1>3 DEF MakeBlock, imageFiles, SignInv
  <2>5. SignInv'
      BY <1>3, <2>2, <2>4, SameFiles DEF MakeBlock, imageFiles
  <2> QED  BY <1>k, <2>1, <2>3, <2>5 DEF TypeOK
<1>4. CASE PrepareToSign
  <2>1. NewImage \in Images
      BY <1>4 DEF PrepareToSign, TypeOK, LocalsOK, SignInv, NewImage, Images
  <2>2. ImageFilesOK'
      BY <1>4, <2>1 DEF PrepareToSign, TypeOK, ImageFilesOK
  <2>3. CASE cmd.mode = "dontSign"
    <3>1. LocalsOK'
        BY <1>4, <2>3, DoneType DEF PrepareToSign, TypeOK, LocalsOK
    <3>2. SignInv'
        BY <1>4, <2>3, EndInv DEF PrepareToSign, Done, TypeOK, ImageFilesOK
    <3> QED  BY <1>k, <2>2, <3>1, <3>2 DEF TypeOK
  <2>4. CASE cmd.mode # "dontSign"
    <3>1. pc' \in {"sign", "merge"} /\ UNCHANGED <<at, cmd, block, losses, unsigned>>
        BY <1>4, <2>4 DEF PrepareToSign, locals
    <3>2. LocalsOK'
        BY <3>1 DEF TypeOK, LocalsOK
    <3>3. Readable(prestage')
        BY <1>4, <2>1, ReadableContent DEF PrepareToSign
    <3>4. Verify(block)' /\ unsigned' \in DOMAIN Elf
      <4>1. Verify(block) /\ unsigned \in DOMAIN Elf
          BY <1>4 DEF PrepareToSign, SignInv
      <4> QED  BY <3>1, <4>1
    <3>5. UNCHANGED <<output, flash>>
        BY <1>4 DEF PrepareToSign
    <3>6. SignInv'
        BY <3>1, <3>3, <3>4, <3>5, SameFiles
    <3> QED  BY <1>k, <2>2, <3>2, <3>6 DEF TypeOK
  <2> QED  BY <2>3, <2>4
<1>5. CASE SignImage
  <2>1. cmd.chain \in DOMAIN Chains
      BY DEF TypeOK, LocalsOK, Commands
  <2>2. prestage \in Images
      BY <1>5 DEF SignImage, SignInv, Readable, TypeOK, ImageFilesOK
  <2>3. signature' \in Signatures
      BY <1>5, <2>1, <2>2, LeafKey DEF SignImage, Signatures
  <2>4. ImageFilesOK'
      BY <1>5, <2>3 DEF SignImage, TypeOK, ImageFilesOK
  <2>5. LocalsOK'
      BY <1>5 DEF SignImage, TypeOK, LocalsOK, locals
  <2>6. Verify(block)' /\ unsigned' \in DOMAIN Elf
    <3>1. Verify(block) /\ unsigned \in DOMAIN Elf
        BY <1>5 DEF SignImage, SignInv
    <3> QED  BY <1>5, <3>1 DEF SignImage, locals
  <2>7. SignInv'
      BY <1>5, <2>6, SameFiles DEF SignImage
  <2> QED  BY <1>k, <2>4, <2>5, <2>7 DEF TypeOK
<1>6. CASE Error
  <2>1. ImageFilesOK'
      BY <1>6, SameImageFiles DEF Error, TypeOK
  <2>2. LocalsOK'
      BY <1>6, DoneType DEF Error, TypeOK, LocalsOK
  <2>3. SignInv'
      BY <1>6, EndInv DEF Error, Done, imageFiles, TypeOK, ImageFilesOK
  <2> QED  BY <1>k, <2>1, <2>2, <2>3 DEF TypeOK
<1> QED  BY <1>1, <1>2, <1>3, <1>4, <1>5, <1>6

\* The steps that write what is downloaded.
LEMMA WriteStep ==
    ASSUME TypeOK, SignInv, MergeWithSignature \/ Download
    PROVE  TypeOK' /\ SignInv'
<1>k. KeyFilesOK'
    BY SameKeyFiles DEF TypeOK, keyFiles, MergeWithSignature, Download
<1>1. CASE MergeWithSignature
  <2>1. output' \in Signed /\ Authentic(output')
      BY <1>1, MergedIsAuthentic DEF MergeWithSignature
  <2>2. ImageFilesOK'
      BY <1>1, <2>1 DEF MergeWithSignature, TypeOK, ImageFilesOK
  <2>3. FlashAuthenticates'
      BY <1>1 DEF MergeWithSignature, SignInv, FlashAuthenticates
  <2>4. CASE cmd.place = NoFile
    <3>1. LocalsOK'
        BY <1>1, <2>4, DoneType DEF MergeWithSignature, TypeOK, LocalsOK
    <3>2. pc' = "idle"
        BY <1>1, <2>4 DEF MergeWithSignature, Done
    <3>3. SignInv'
        BY <2>1, <2>3, <3>2 DEF SignInv
    <3> QED  BY <1>k, <2>2, <3>1, <3>3 DEF TypeOK
  <2>5. CASE cmd.place # NoFile
    <3>1. pc' = "flash" /\ UNCHANGED <<at, cmd, block, losses>>
        BY <1>1, <2>5 DEF MergeWithSignature, locals
    <3>2. LocalsOK'
        BY <3>1 DEF TypeOK, LocalsOK
    <3>3. Readable(output')
        BY <2>1, ReadableContent
    <3>4. Verify(block)'
      <4>1. Verify(block)
          BY <1>1 DEF MergeWithSignature, SignInv
      <4> QED  BY <3>1, <4>1
    <3>5. SignInv'
        BY <2>1, <2>3, <2>5, <3>1, <3>3, <3>4 DEF SignInv
    <3> QED  BY <1>k, <2>2, <3>2, <3>5 DEF TypeOK
  <2> QED  BY <2>4, <2>5
<1>2. CASE Download
  <2>1. ImageFilesOK'
      BY <1>2 DEF Download, TypeOK, ImageFilesOK
  <2>2. LocalsOK'
      BY <1>2, DoneType DEF Download, TypeOK, LocalsOK
  <2>3. Authentic(output)
      BY <1>2 DEF Download, SignInv
  <2>4. FlashAuthenticates'
      BY <1>2, <2>3 DEF Download, SignInv, FlashAuthenticates, TypeOK, ImageFilesOK
  <2>5. pc' = "idle" /\ output' = output
      BY <1>2 DEF Download, Done
  <2>6. SignInv'
      BY <2>3, <2>4, <2>5 DEF SignInv
  <2> QED  BY <1>k, <2>1, <2>2, <2>6 DEF TypeOK
<1> QED  BY <1>1, <1>2

\* What the tool does not do itself.
LEMMA WorldStep ==
    ASSUME TypeOK, SignInv, Killed \/ Remove \/ HsmSigns
    PROVE  TypeOK' /\ SignInv'
<1>1. CASE Killed
  <2>1. KeyFilesOK'
    <3>1. CASE UNCHANGED <<secret, cert>>
        BY <1>1, <3>1, SameKeyFiles DEF Killed, TypeOK
    <3>2. ASSUME NEW p \in Secrets, secret' = [secret EXCEPT ![p] = Torn], UNCHANGED cert
          PROVE  KeyFilesOK'
        BY <1>1, <3>2, LostSecretType DEF Killed, TypeOK
    <3>3. CASE cert' = [cert EXCEPT ![at] = Torn] /\ UNCHANGED secret
        BY <1>1, <3>3, CertFileType DEF Killed, TypeOK, LocalsOK
    <3> QED  BY <1>1, <3>1, <3>2, <3>3 DEF Killed
  <2>2. ImageFilesOK'
      BY <1>1 DEF Killed, imageFiles, TypeOK, ImageFilesOK
  <2>3. losses' \in 0 .. MaxLosses
      BY <1>1, ToolAssumption DEF Killed, TypeOK, LocalsOK
  <2>4. LocalsOK'
      BY <1>1, <2>3, DoneType DEF Killed, LocalsOK
  <2>5. /\ pc' = "idle" /\ output' \in {output, Torn}
        /\ flash' = flash \/ flash' = [flash EXCEPT ![cmd.place] = Torn]
      BY <1>1 DEF Killed, Done, imageFiles
  <2>6. SignInv'
      BY <2>5, EndInv DEF TypeOK, ImageFilesOK
  <2> QED  BY <2>1, <2>2, <2>4, <2>6 DEF TypeOK
<1>2. CASE Remove
  <2>1. KeyFilesOK'
    <3>1. ASSUME NEW p \in Secrets, secret' = [secret EXCEPT ![p] = NoFile], UNCHANGED cert
          PROVE  KeyFilesOK'
        BY <1>2, <3>1, LostSecretType DEF Remove, TypeOK
    <3>2. ASSUME NEW p \in prototyped, cert' = [cert EXCEPT ![p] = NoFile], UNCHANGED secret
          PROVE  KeyFilesOK'
      <4>1. p \in Certs
          BY ToolAssumption DEF TypeOK, KeyFilesOK
      <4> QED  BY <1>2, <3>2, <4>1, CertFileType DEF Remove, TypeOK
    <3> QED  BY <1>2, <3>1, <3>2 DEF Remove
  <2>2. ImageFilesOK'
      BY <1>2, SameImageFiles DEF Remove, TypeOK
  <2>3. losses' \in 0 .. MaxLosses
      BY <1>2, ToolAssumption DEF Remove, TypeOK, LocalsOK
  <2>4. LocalsOK'
      BY <1>2, <2>3 DEF Remove, TypeOK, LocalsOK, locals
  <2>5. SignInv'
      BY <1>2, EndInv DEF Remove, imageFiles, TypeOK, ImageFilesOK
  <2> QED  BY <2>1, <2>2, <2>4, <2>5 DEF TypeOK
<1>3. CASE HsmSigns
  <2>1. KeyFilesOK'
      BY <1>3, SameKeyFiles DEF HsmSigns, keyFiles, TypeOK
  <2>2. signature' \in Signatures
    <3>1. prestage \in Images
        BY <1>3 DEF HsmSigns, Readable, TypeOK, ImageFilesOK
    <3>2. PICK p \in Certs :
            /\ p \in prototyped => Readable(secret[p])
            /\ signature' = [key |-> Key(p, IF p \in prototyped THEN secret[p] ELSE 1),
                             of |-> prestage]
        BY <1>3 DEF HsmSigns
    <3>3. (IF p \in prototyped THEN secret[p] ELSE 1) \in 1 .. MaxVersion
      <4>1. p \in Secrets
          BY DEF Secrets
      <4>2. p \in prototyped => secret[p] \in 1 .. MaxVersion
          BY <3>2, <4>1, ReadSecret DEF TypeOK
      <4> QED  BY <4>2, ToolAssumption
    <3> QED  BY <3>1, <3>2, <3>3, KeyType DEF Signatures
  <2>3. ImageFilesOK'
      BY <1>3, <2>2 DEF HsmSigns, TypeOK, ImageFilesOK
  <2>4. LocalsOK'
      BY <1>3 DEF HsmSigns, TypeOK, LocalsOK, locals
  <2>5. SignInv'
      BY <1>3, EndInv DEF HsmSigns, TypeOK, ImageFilesOK
  <2> QED  BY <2>1, <2>3, <2>4, <2>5 DEF TypeOK
<1> QED  BY <1>1, <1>2, <1>3

-----------------------------------------------------------------------------
(***************************************************************************)
(* What generate makes.                                                    *)
(***************************************************************************)
\* Where no key file changes, and none was lost, nothing is left to show.
LEMMA SameGenerated ==
    ASSUME GeneratedInv, UNCHANGED <<prototyped, secret, made, cert, losses>>,
           pc' # "cert"
    PROVE  GeneratedInv'
<1>1. \A p \in Certs : FirstCertificate(p)' = FirstCertificate(p)
    BY DEF FirstCertificate
<1> QED  BY <1>1 DEF GeneratedInv

\* The first secret of its name.
LEMMA FirstSecret ==
    ASSUME KeyFilesOK, GeneratedInv, NEW p \in Secrets, NewSecret(p),
           secret[p] = NoFile, UNCHANGED <<prototyped, cert, losses>>,
           pc' = "cert" => at' \in prototyped'
    PROVE  GeneratedInv'
<1>1. \A q \in Certs : FirstCertificate(q)' = FirstCertificate(q)
    BY DEF FirstCertificate
<1>2. 1 # NoFile /\ 1 # Torn
    BY ToolAssumption
<1>3. ASSUME losses = 0
      PROVE  \A q \in Secrets : /\ secret'[q] # Torn
                                /\ secret'[q] = NoFile => made'[q] = 0
                                /\ secret'[q] # NoFile => made'[q] = 1
  <2>1. made[p] = 0
      BY <1>3 DEF GeneratedInv
  <2>2. secret' = [secret EXCEPT ![p] = 1] /\ made' = [made EXCEPT ![p] = 1]
      BY <2>1 DEF NewSecret
  <2> QED  BY <1>2, <1>3, <2>2 DEF GeneratedInv, KeyFilesOK
<1>4. losses' = 0 => \A q \in Certs : cert'[q] # NoFile => cert'[q] = FirstCertificate(q)'
    BY <1>1 DEF GeneratedInv
<1> QED  BY <1>3, <1>4 DEF GeneratedInv

\* A certificate that generate makes is the first one, as its keys are.
LEMMA FirstCertified ==
    ASSUME TypeOK, GeneratedInv, Certify
    PROVE  GeneratedInv'
<1>1. at \in Certs /\ Issuer(at) \in Certs /\ at \in Secrets /\ Issuer(at) \in Secrets
    BY ParentType DEF TypeOK, LocalsOK, Secrets
<1>2. pc' # "cert" /\ UNCHANGED <<prototyped, secret, made, losses>>
    BY AdvanceType DEF Certify, TypeOK
<1>3. CASE cert[at] # NoFile
    BY <1>2, <1>3, SameGenerated DEF Certify
<1>4. CASE cert[at] = NoFile
  <2>1. \A q \in Certs : FirstCertificate(q)' = FirstCertificate(q)
      BY <1>2 DEF FirstCertificate
  <2>2. ASSUME losses = 0
        PROVE  \A q \in Certs : cert'[q] # NoFile => cert'[q] = FirstCertificate(q)
    <3>1. secret[at] \in 1 .. MaxVersion /\ secret[Issuer(at)] \in 1 .. MaxVersion
        BY <1>1, <1>4, ReadSecret DEF Certify, TypeOK
    <3>2. secret[at] = made[at] /\ secret[Issuer(at)] = made[Issuer(at)]
        BY <1>1, <3>1 DEF TypeOK, KeyFilesOK
    <3>3. secret[at] # NoFile /\ secret[Issuer(at)] # NoFile
        BY <1>4 DEF Certify, Readable
    <3>4. secret[at] = 1 /\ secret[Issuer(at)] = 1
        BY <1>1, <2>2, <3>2, <3>3 DEF GeneratedInv
    <3>5. at \in prototyped
        BY DEF Certify, GeneratedInv
    <3>6. cert' = [cert EXCEPT ![at] = FirstCertificate(at)]
        BY <1>4, <3>4, <3>5 DEF Certify, FirstCertificate
    <3> QED  BY <2>2, <3>6, <1>1 DEF GeneratedInv, TypeOK, KeyFilesOK
  <2> QED  BY <1>2, <2>1, <2>2 DEF GeneratedInv
<1> QED  BY <1>3, <1>4

LEMMA GeneratedStep ==
    ASSUME TypeOK, GeneratedInv, [Next]_vars
    PROVE  GeneratedInv'
<1>1. CASE UNCHANGED vars
  <2>1. UNCHANGED <<prototyped, secret, made, cert, losses, pc, at>>
      BY <1>1 DEF vars, keyFiles, locals
  <2>2. \A p \in Certs : FirstCertificate(p)' = FirstCertificate(p)
      BY <2>1 DEF FirstCertificate
  <2> QED  BY <2>1, <2>2 DEF GeneratedInv
<1>2. CASE GenerateOtp
    BY <1>2, FirstSecret DEF GenerateOtp, TypeOK, Secrets, locals
<1>3. CASE PrivateKey
  <2>1. at \in Secrets
      BY DEF TypeOK, LocalsOK, Secrets
  <2>2. pc' = "cert" /\ at' = at /\ at \in prototyped
        /\ UNCHANGED <<prototyped, cert, losses>>
      BY <1>3 DEF PrivateKey, locals
  <2>3. CASE secret[at] = NoFile
      BY <1>3, <2>1, <2>2, <2>3, FirstSecret DEF PrivateKey, TypeOK
  <2>4. CASE secret[at] # NoFile
    <3>1. UNCHANGED <<secret, made>>
        BY <1>3, <2>4 DEF PrivateKey
    <3>2. \A p \in Certs : FirstCertificate(p)' = FirstCertificate(p)
        BY <2>2 DEF FirstCertificate
    <3> QED  BY <2>2, <3>1, <3>2 DEF GeneratedInv
  <2> QED  BY <2>3, <2>4
<1>4. CASE Certify
    BY <1>4, FirstCertified
<1>5. CASE Killed \/ Remove
  <2>1. losses' # 0
      BY <1>5 DEF Killed, Remove, TypeOK, LocalsOK
  <2>2. pc' = "idle"
      BY <1>5 DEF Killed, Remove, Done
  <2> QED  BY <2>1, <2>2 DEF GeneratedInv
<1>6. CASE \/ Generate \/ \E c \in Commands : Sign(c)
           \/ \E e \in DOMAIN Elf : Flatten(e)
           \/ MakeBlock \/ PrepareToSign \/ SignImage \/ MergeWithSignature
           \/ Download \/ Error \/ HsmSigns
  <2>1. UNCHANGED <<prototyped, secret, made, cert, losses>> /\ pc' # "cert"
      BY <1>6 DEF Generate, Sign, Flatten, MakeBlock, PrepareToSign, SignImage,
                  MergeWithSignature, Download, Error, HsmSigns, Done, keyFiles
  <2> QED  BY <2>1, SameGenerated
<1> QED  BY <1>1, <1>2, <1>3, <1>4, <1>5, <1>6 DEF Next, Tool

-----------------------------------------------------------------------------
(***************************************************************************)
(* What an image is made of has passed the checks.                         *)
(***************************************************************************)
LEMMA LayoutStep ==
    ASSUME TypeOK, LayoutInv, [Next]_vars
    PROVE  LayoutInv'
<1>1. CASE UNCHANGED vars
    BY <1>1 DEF vars, imageFiles, locals, LayoutInv
<1>2. CASE \/ GenerateOtp \/ Generate \/ PrivateKey \/ Remove \/ HsmSigns
           \/ \E c \in Commands : Sign(c)
    BY <1>2 DEF GenerateOtp, Generate, PrivateKey, Remove, HsmSigns, Sign,
                imageFiles, LayoutInv
<1>3. CASE Certify
    BY <1>3, AdvanceType DEF Certify, imageFiles, LayoutInv, TypeOK
<1>4. ASSUME NEW e \in DOMAIN Elf, Flatten(e) PROVE LayoutInv'
    BY <1>4 DEF Flatten, LayoutInv
<1>5. CASE MakeBlock
    BY <1>5 DEF MakeBlock, imageFiles, LayoutInv
<1>6. CASE PrepareToSign
    BY <1>6 DEF PrepareToSign, Done, LayoutInv
<1>7. CASE SignImage
    BY <1>7 DEF SignImage, LayoutInv
<1>8. CASE MergeWithSignature
  <2>1. Flattens(unsigned) /\ LongEnough(Elf[unsigned])
      BY <1>8 DEF MergeWithSignature, LayoutInv
  <2>2. output'.image.elf = unsigned /\ pc' \in {"idle", "flash"}
      BY <1>8 DEF MergeWithSignature, NewImage, Done
  <2> QED  BY <2>1, <2>2 DEF LayoutInv
<1>9. CASE Download \/ Error
    BY <1>9 DEF Download, Error, Done, imageFiles, LayoutInv
<1>10. CASE Killed
  <2>1. pc' = "idle" /\ output' \in {output, Torn}
      BY <1>10 DEF Killed, Done, imageFiles
  <2> QED  BY <2>1 DEF LayoutInv, Readable
<1> QED  BY <1>1, <1>2, <1>3, <1>4, <1>5, <1>6, <1>7, <1>8, <1>9, <1>10 DEF Next, Tool

\* Without a loss, a complete chain of more than one certificate verifies.
LEMMA FirstChain ==
    ASSUME TypeOK, GeneratedInv
    PROVE  GeneratedChainVerifies
<1> SUFFICES ASSUME NEW c \in DOMAIN Chains, losses = 0, Chains[c] > 1,
                    \A i \in 1 .. Chains[c] : Readable(cert[<<c, i>>])
             PROVE  LET cs == [i \in 1 .. Chains[c] |-> cert[<<c, i>>]] IN
                    Verify([certs |-> cs, roots |-> [d \in {c} |-> cs[1].key]])
    BY DEF GeneratedChainVerifies
<1> DEFINE cs == [i \in 1 .. Chains[c] |-> cert[<<c, i>>]]
<1>1. Chains[c] \in Nat
    BY ChainFacts
<1>2. \A i \in 1 .. Chains[c] : cs[i] = FirstCertificate(<<c, i>>)
    BY CertsFacts DEF GeneratedInv, Readable
<1>3. \A i \in 1 .. Chains[c] :
        /\ cs[i].key = Key(<<c, i>>, 1)
        /\ i > 1 => cs[i].issuer = Key(<<c, i - 1>>, 1)
        /\ i < Chains[c] => cs[i].ca = TRUE
        /\ i = Chains[c] => cs[i].ca = FALSE
  <2> SUFFICES ASSUME NEW i \in 1 .. Chains[c]
               PROVE  /\ cs[i].key = Key(<<c, i>>, 1)
                      /\ i > 1 => cs[i].issuer = Key(<<c, i - 1>>, 1)
                      /\ i < Chains[c] => cs[i].ca = TRUE
                      /\ i = Chains[c] => cs[i].ca = FALSE
      OBVIOUS
  <2>1. cs[i] = FirstCertificate(<<c, i>>)
      BY <1>2
  <2> HIDE DEF cs
  <2>2. cs[i].key = Key(<<c, i>>, 1)
      BY <2>1 DEF FirstCertificate, Supplied
  <2>3. i > 1 => cs[i].issuer = Key(<<c, i - 1>>, 1)
      BY <1>1, <2>1 DEF FirstCertificate, Supplied, Issuer, Parent
  <2>4. (i < Chains[c] \/ i = 1) <=> ~(i = Chains[c])
      BY <1>1
  <2>5. CASE <<c, i>> \in prototyped
    <3>1. cs[i].ca = ~IsLeaf(<<c, i>>)
        BY <2>1, <2>5 DEF FirstCertificate
    <3>2. CASE i = Chains[c]
      <4>1. (~IsLeaf(<<c, i>>)) = FALSE
          BY <3>2 DEF IsLeaf
      <4>2. cs[i].ca = FALSE
          BY <3>1, <4>1, Zenon
      <4> QED  BY <1>1, <2>2, <2>3, <3>2, <4>2
    <3>3. CASE i # Chains[c]
      <4>1. (~IsLeaf(<<c, i>>)) = TRUE
          BY <3>3 DEF IsLeaf
      <4>2. cs[i].ca = TRUE
          BY <3>1, <4>1, Zenon
      <4> QED  BY <1>1, <2>2, <2>3, <3>3, <4>2
    <3> QED  BY <3>2, <3>3
  <2>6. CASE <<c, i>> \notin prototyped
    <3>1. cs[i].ca = (i < Chains[c] \/ i = 1)
        BY <2>1, <2>6 DEF FirstCertificate, Supplied
    <3> QED  BY <1>1, <2>2, <2>3, <2>4, <3>1
  <2> QED  BY <2>5, <2>6
<1>4. Len(cs) = Chains[c] /\ cs # <<>>
    BY <1>1
<1> DEFINE b == [certs |-> cs, roots |-> [d \in {c} |-> cs[1].key]]
<1>5. b.certs = cs /\ b.roots = [d \in {c} |-> cs[1].key]
    OBVIOUS
<1> HIDE DEF cs, b
<1>6. Verify(b)
  <2>1. \E d \in DOMAIN b.roots : b.roots[d] = cs[1].key
      BY <1>5
  <2>2. cs[1].ca = TRUE /\ cs[Len(cs)].ca = FALSE
    <3>1. /\ 1 \in 1 .. Chains[c] /\ 1 < Chains[c]
          /\ Len(cs) \in 1 .. Chains[c] /\ Len(cs) = Chains[c]
        BY <1>1, <1>4
    <3> QED  BY <1>3, <3>1
  <2>3. \A i \in 2 .. Len(cs) : cs[i - 1].ca = TRUE /\ cs[i].issuer = cs[i - 1].key
    <3> SUFFICES ASSUME NEW i \in 2 .. Len(cs)
                 PROVE  cs[i - 1].ca = TRUE /\ cs[i].issuer = cs[i - 1].key
        OBVIOUS
    <3>1. /\ i \in 1 .. Chains[c] /\ i > 1
          /\ i - 1 \in 1 .. Chains[c] /\ i - 1 < Chains[c]
        BY <1>1, <1>4
    <3> QED  BY <1>3, <3>1
  <2> QED  BY <1>4, <1>5, <2>1, <2>2, <2>3 DEF Verify
<1> QED  BY <1>6 DEF b, cs

-----------------------------------------------------------------------------
(***************************************************************************)
(* objcopy.                                                                *)
(***************************************************************************)
\* Every non-empty set of natural numbers has a least element.
LEMMA LeastNat ==
    ASSUME NEW T \in SUBSET Nat, T # {}
    PROVE  Least(T) \in T /\ \A y \in T : Least(T) <= y
<1> DEFINE R == {ss \in Nat \X Nat : ss[1] < ss[2]}
<1>1. IsWellFoundedOn(R, Nat)
    BY NatLessThanWellFounded, Zenon DEF OpToRel
<1>2. \A m, n \in Nat : m < n => <<m, n>> \in R
    OBVIOUS
<1> HIDE DEF R
<1>3. PICK x \in T : \A y \in T : ~ (<<y, x>> \in R)
    BY <1>1, WFMin
<1>4. \A y \in T : ~(y < x)
    BY <1>2, <1>3
<1>5. \A y \in T : x <= y
    BY <1>4
<1> QED  BY <1>5, Zenon DEF Least

LEMMA ElementType ==
    ASSUME NEW S, NEW s \in Seq(S)
    PROVE  \A i \in 1 .. Len(s) : s[i] \in S
OBVIOUS

LEMMA ElfFile ==
    ASSUME NEW e \in DOMAIN Elf
    PROVE  /\ Segments(Elf[e]) \in SUBSET (1 .. Len(Elf[e].segs))
           /\ Len(Elf[e].segs) \in Nat
           /\ \A i \in Segments(Elf[e]) :
                /\ Start(Elf[e], i) \in Nat
                /\ Elf[e].segs[i].filesz \in Nat \ {0} /\ Elf[e].segs[i].memsz \in Nat
                /\ End(Elf[e], i) = Start(Elf[e], i) + Elf[e].segs[i].filesz
<1> DEFINE segs == Elf[e].segs
<1>1. segs \in Seq([paddr : Nat, filesz : Nat, memsz : Nat])
    BY ElfAssumption
<1>2. Len(segs) \in Nat /\ DOMAIN segs = 1 .. Len(segs)
    BY <1>1
<1>3. \A i \in 1 .. Len(segs) : segs[i] \in [paddr : Nat, filesz : Nat, memsz : Nat]
    BY <1>1, ElementType
<1>4. \A i \in Segments(Elf[e]) : i \in 1 .. Len(segs) /\ segs[i].filesz # 0
    BY <1>2 DEF Segments, IsKept
<1> QED  BY <1>2, <1>3, <1>4 DEF Start, End

LEMMA Bounds ==
    ASSUME NEW e \in DOMAIN Elf, NEW i \in Segments(Elf[e])
    PROVE  /\ Start(Elf[e], i) \in Nat /\ End(Elf[e], i) \in Nat
           /\ Start(Elf[e], i) < End(Elf[e], i)
<1>1. /\ Start(Elf[e], i) \in Nat /\ Elf[e].segs[i].filesz \in Nat \ {0}
      /\ End(Elf[e], i) = Start(Elf[e], i) + Elf[e].segs[i].filesz
    BY ElfFile
<1> QED  BY <1>1

\* The code compares a segment with the one before it only: that makes every
\* two of them disjoint and in order.
LEMMA AllOrdered ==
    ASSUME NEW e \in DOMAIN Elf, Accepted(Elf[e]),
           NEW i \in Segments(Elf[e]), NEW j \in Segments(Elf[e]), i < j
    PROVE  End(Elf[e], i) <= Start(Elf[e], j)
<1> DEFINE f == Elf[e]
           S == Segments(f)
           Bad(m, n) == m < n /\ ~(End(f, m) <= Start(f, n))
           T == {d \in Nat : \E m, n \in S : Bad(m, n) /\ n = m + d}
<1>1. SUFFICES ASSUME T # {} PROVE FALSE
  <2>1. ASSUME Bad(i, j) PROVE j - i \in T
      BY <2>1, ElfFile
  <2>2. i \in Nat /\ j \in Nat
      BY ElfFile
  <2> QED  BY <1>1, <2>1, ElfFile
<1>2. T \in SUBSET Nat
    OBVIOUS
<1>3. Least(T) \in T /\ \A y \in T : Least(T) <= y
    BY <1>1, <1>2, LeastNat
<1>4. PICK m \in S, n \in S : Bad(m, n) /\ n = m + Least(T)
    BY <1>3
<1>5. S \in SUBSET Nat
    BY ElfFile
<1>6. f.segs[m].memsz = f.segs[m].filesz
    BY ElfFile DEF Accepted, Segments
<1>7. CASE Follows(f, m, n)
  <2>1. Start(f, n) >= Start(f, m) + f.segs[m].memsz
      BY <1>7 DEF Accepted, IsOrdered
  <2> QED  BY <1>4, <1>6, <2>1, ElfFile
<1>8. CASE ~Follows(f, m, n)
  <2>1. PICK k \in S : m < k /\ k < n
      BY <1>4, <1>8 DEF Follows
  <2>2. ~Bad(m, k) /\ ~Bad(k, n)
    <3>1. k - m \in Nat /\ n - k \in Nat /\ k = m + (k - m) /\ n = k + (n - k)
        BY <1>5, <2>1
    <3>2. ~(Least(T) <= k - m) /\ ~(Least(T) <= n - k)
        BY <1>2, <1>3, <1>4, <1>5, <2>1
    <3>3. k - m \notin T /\ n - k \notin T
        BY <1>3, <3>2
    <3> QED  BY <3>1, <3>3
  <2>3. End(f, m) <= Start(f, k) /\ End(f, k) <= Start(f, n)
      BY <2>1, <2>2
  <2> QED  BY <1>4, <2>3, Bounds
<1> QED  BY <1>7, <1>8

\* The last of the segments that are kept.
LEMMA LastSegment ==
    ASSUME NEW e \in DOMAIN Elf, Segments(Elf[e]) # {}
    PROVE  \E l \in Segments(Elf[e]) : \A i \in Segments(Elf[e]) : i <= l
<1> DEFINE S == Segments(Elf[e])
           n == Len(Elf[e].segs)
           T == {d \in Nat : \E i \in S : d = n - i}
<1>1. n \in Nat /\ \A i \in S : i \in 1 .. n
    BY ElfFile
<1>2. \A i \in S : n - i \in T
    BY <1>1
<1>3. T \in SUBSET Nat /\ T # {}
    BY <1>2
<1>4. Least(T) \in T /\ \A d \in T : Least(T) <= d
    BY <1>3, LeastNat
<1>5. PICK l \in S : Least(T) = n - l
    BY <1>4
<1> HIDE DEF T, n
<1>6. \A i \in S : i <= l
    BY <1>1, <1>2, <1>4, <1>5
<1> QED  BY <1>6

\* The flat image spans all segments.
LEMMA Span ==
    ASSUME NEW e \in DOMAIN Elf, Accepted(Elf[e])
    PROVE  /\ BaseAddr(Elf[e]) \in Nat /\ TopAddr(Elf[e]) \in Nat
           /\ PlainLen(Elf[e]) \in Nat \ {0}
           /\ \A i \in Segments(Elf[e]) : /\ BaseAddr(Elf[e]) <= Start(Elf[e], i)
                                          /\ End(Elf[e], i) <= TopAddr(Elf[e])
<1> DEFINE f == Elf[e]
           S == Segments(f)
           Starts == {Start(f, i) : i \in S}
           Ends == {End(f, i) : i \in S}
<1>1. S # {}
    BY DEF Accepted
<1>2. Starts \in SUBSET Nat /\ Starts # {}
    BY <1>1, Bounds
<1>3. BaseAddr(f) \in Starts /\ \A y \in Starts : BaseAddr(f) <= y
    BY <1>2, LeastNat DEF BaseAddr
<1>4. PICK l \in S : \A i \in S : i <= l
    BY <1>1, LastSegment
<1>5. \A i \in S : End(f, i) <= End(f, l)
  <2> SUFFICES ASSUME NEW i \in S PROVE End(f, i) <= End(f, l)
      OBVIOUS
  <2>1. i = l \/ i < l
      BY <1>4, ElfFile
  <2>2. CASE i = l
      BY <2>2, Bounds
  <2>3. CASE i < l
    <3>1. End(f, i) <= Start(f, l)
        BY <2>3, AllOrdered
    <3>2. /\ End(f, i) \in Nat /\ Start(f, l) \in Nat /\ End(f, l) \in Nat
          /\ Start(f, l) < End(f, l)
        BY Bounds
    <3> QED  BY <3>1, <3>2
  <2> QED  BY <2>1, <2>2, <2>3
<1>6. End(f, l) \in Ends /\ \A y \in Ends : y <= End(f, l)
    BY <1>5
<1>7. TopAddr(f) \in Ends /\ \A y \in Ends : y <= TopAddr(f)
    BY <1>6, Zenon DEF TopAddr, Greatest
<1>8. \A i \in S : BaseAddr(f) <= Start(f, i) /\ End(f, i) <= TopAddr(f)
    BY <1>3, <1>7
<1>9. BaseAddr(f) \in Nat /\ TopAddr(f) \in Nat
    BY <1>2, <1>3, <1>7, Bounds
<1>10. TopAddr(f) - BaseAddr(f) \in Nat \ {0}
  <2>1. /\ BaseAddr(f) <= Start(f, l) /\ End(f, l) <= TopAddr(f)
        /\ Start(f, l) \in Nat /\ End(f, l) \in Nat /\ Start(f, l) < End(f, l)
      BY <1>8, Bounds
  <2> QED  BY <1>9, <2>1
<1> QED  BY <1>8, <1>9, <1>10 DEF PlainLen

\* Every byte of a segment that is kept has its place in the flat image.
LEMMA FlatImage ==
    ASSUME NEW e \in DOMAIN Elf, Accepted(Elf[e]), NEW i \in Segments(Elf[e]),
           NEW k \in 0 .. Elf[e].segs[i].filesz - 1
    PROVE  Objcopy(Elf[e])[Start(Elf[e], i) + k - BaseAddr(Elf[e])] = <<i, k>>
<1> DEFINE f == Elf[e]
           a == Start(f, i) + k
           o == a - BaseAddr(f)
<1>1. /\ Start(f, i) \in Nat /\ f.segs[i].filesz \in Nat
      /\ End(f, i) = Start(f, i) + f.segs[i].filesz
    BY ElfFile
<1>2. /\ BaseAddr(f) \in Nat /\ TopAddr(f) \in Nat
      /\ BaseAddr(f) <= Start(f, i) /\ End(f, i) <= TopAddr(f)
    BY Span
<1>3. a \in Nat /\ Start(f, i) <= a /\ a < End(f, i)
    BY <1>1
<1>4. o \in 0 .. TopAddr(f) - BaseAddr(f) - 1 /\ BaseAddr(f) + o = a
    BY <1>1, <1>2, <1>3
<1>5. \A j \in At(f, a) : j = i
  <2> SUFFICES ASSUME NEW j \in At(f, a), j # i PROVE FALSE
      OBVIOUS
  <2>1. j \in Segments(f) /\ Start(f, j) <= a /\ a < End(f, j)
      BY DEF At
  <2>2. i < j \/ j < i
      BY <2>1, ElfFile
  <2>3. CASE i < j
    <3>1. End(f, i) <= Start(f, j)
        BY <2>1, <2>3, AllOrdered
    <3> QED  BY <1>3, <2>1, <3>1, Bounds
  <2>4. CASE j < i
    <3>1. End(f, j) <= Start(f, i)
        BY <2>1, <2>4, AllOrdered
    <3> QED  BY <1>3, <2>1, <3>1, Bounds
  <2> QED  BY <2>2, <2>3, <2>4
<1>6. At(f, a) = {i}
    BY <1>3, <1>5 DEF At
<1>7. Greatest(At(f, a)) = i
  <2>1. i \in Nat
      BY ElfFile
  <2> QED  BY <1>6, <2>1 DEF Greatest
<1>8. Objcopy(f)[o] = <<i, a - Start(f, i)>>
    BY <1>4, <1>6, <1>7 DEF Objcopy
<1>9. a - Start(f, i) = k
    BY <1>1
<1>10. Start(f, i) + k - BaseAddr(f) = o
    BY <1>1, <1>2
<1> QED  BY <1>8, <1>9, <1>10

-----------------------------------------------------------------------------
(***************************************************************************)
(* The parts of the file.                                                  *)
(***************************************************************************)
\* The recursive function PartEnd is defined, for as many parts as there are.
LEMMA PartEndDefined ==
    ASSUME NEW parts, Len(parts) \in {6, 7},
           \A i \in 1 .. Len(parts) : parts[i].len \in Nat
    PROVE  PartEnd(parts) =
             [i \in 0 .. Len(parts) |->
                IF i = 0 THEN 0 ELSE PartEnd(parts)[i - 1] + parts[i].len]
<1> DEFINE n == Len(parts)
           l(i) == parts[i].len
           W == [i \in 0 .. n |->
                   IF i = 0 THEN 0
                   ELSE IF i = 1 THEN l(1)
                   ELSE IF i = 2 THEN l(1) + l(2)
                   ELSE IF i = 3 THEN l(1) + l(2) + l(3)
                   ELSE IF i = 4 THEN l(1) + l(2) + l(3) + l(4)
                   ELSE IF i = 5 THEN l(1) + l(2) + l(3) + l(4) + l(5)
                   ELSE IF i = 6 THEN l(1) + l(2) + l(3) + l(4) + l(5) + l(6)
                   ELSE l(1) + l(2) + l(3) + l(4) + l(5) + l(6) + l(7)]
           Eq(f) == f = [i \in 0 .. n |-> IF i = 0 THEN 0 ELSE f[i - 1] + l(i)]
<1>1. \A i \in 0 .. n : W[i] = IF i = 0 THEN 0 ELSE W[i - 1] + l(i)
  <2>1. W[0] = 0 /\ W[1] = W[0] + l(1) /\ W[2] = W[1] + l(2) /\ W[3] = W[2] + l(3)
      OBVIOUS
  <2>2. W[4] = W[3] + l(4) /\ W[5] = W[4] + l(5) /\ W[6] = W[5] + l(6)
      OBVIOUS
  <2>3. n = 7 => W[7] = W[6] + l(7)
      OBVIOUS
  <2> HIDE DEF W, l
  <2>4. \A i \in 0 .. n : i \in {0, 1, 2, 3, 4, 5, 6} \/ (i = 7 /\ n = 7)
    <3>1. /\ \A i \in 0 .. 6 : i \in {0, 1, 2, 3, 4, 5, 6}
          /\ \A i \in 0 .. 7 : i \in {0, 1, 2, 3, 4, 5, 6, 7}
        OBVIOUS
    <3>2. n = 6 \/ n = 7
        OBVIOUS
    <3> HIDE DEF n
    <3> QED  BY <3>1, <3>2
  <2>5. /\ 1 - 1 = 0 /\ 2 - 1 = 1 /\ 3 - 1 = 2 /\ 4 - 1 = 3
        /\ 5 - 1 = 4 /\ 6 - 1 = 5 /\ 7 - 1 = 6
      OBVIOUS
  <2> QED  BY <2>1, <2>2, <2>3, <2>4, <2>5, ZenonT(60)
<1>2. Eq(W)
  <2>1. W = [i \in 0 .. n |-> W[i]]
      OBVIOUS
  <2> HIDE DEF W, l
  <2> QED  BY <1>1, <2>1
<1> HIDE DEF W
<1>3. Eq(CHOOSE f : Eq(f))
    BY <1>2, Zenon
<1> QED  BY <1>3, Zenon DEF PartEnd

\* Its values.
LEMMA PartEndStep ==
    ASSUME NEW parts, Len(parts) \in {6, 7},
           \A i \in 1 .. Len(parts) : parts[i].len \in Nat
    PROVE  \A i \in 0 .. 6 :
             PartEnd(parts)[i] = IF i = 0 THEN 0 ELSE PartEnd(parts)[i - 1] + parts[i].len
<1> DEFINE n == Len(parts)
           E == PartEnd(parts)
           l(i) == parts[i].len
<1>1. E = [i \in 0 .. n |-> IF i = 0 THEN 0 ELSE E[i - 1] + l(i)]
    BY PartEndDefined
<1>2. \A i \in 0 .. n : E[i] = IF i = 0 THEN 0 ELSE E[i - 1] + l(i)
    BY <1>1, Zenon
<1>3. \A i \in 0 .. 6 : i \in 0 .. n
  <2>1. \A i \in 0 .. 6 : i \in 0 .. 7
      OBVIOUS
  <2>2. n = 6 \/ n = 7
      OBVIOUS
  <2> HIDE DEF n
  <2> QED  BY <2>1, <2>2
<1> QED  BY <1>2, <1>3, Zenon

\* A part that is not empty is found where it begins.
LEMMA Found ==
    ASSUME NEW parts, NEW o, NEW j \in DOMAIN parts,
           PartEnd(parts)[j - 1] = o, parts[j].len > 0,
           \A i \in DOMAIN parts :
              PartEnd(parts)[i - 1] = o /\ parts[i].len > 0 => i = j
    PROVE  PartAt(parts, o) = parts[j].part
<1> DEFINE starts == {i \in DOMAIN parts : PartEnd(parts)[i - 1] = o /\ parts[i].len > 0}
<1>1. starts = {j}
    OBVIOUS
<1> HIDE DEF starts
<1>2. (CHOOSE i \in starts : TRUE) = j
    BY <1>1
<1>3. PartAt(parts, o) = IF starts = {} THEN "none" ELSE parts[CHOOSE i \in starts : TRUE].part
    BY DEF PartAt, starts
<1> QED  BY <1>1, <1>2, <1>3

LEMMA DivMod ==
    ASSUME NEW a \in Int, NEW d \in Nat \ {0}
    PROVE  a % d \in 0 .. d - 1 /\ a \div d \in Int /\ a = d * (a \div d) + (a % d)
<1>1. a % d \in 0 .. d - 1
    OBVIOUS
<1>2. a \div d \in Int
    OBVIOUS
<1>3. a = d * (a \div d) + (a % d)
    OBVIOUS
<1> QED  BY <1>1, <1>2, <1>3

\* Padding aligns the certificate block.
LEMMA Aligned ==
    ASSUME NEW e \in DOMAIN Elf, Accepted(Elf[e])
    PROVE  /\ Padding(Elf[e]) \in Nat
           /\ ImageLen(Elf[e]) \in Nat
           /\ ImageLen(Elf[e]) = PlainLen(Elf[e]) + Padding(Elf[e])
           /\ ImageLen(Elf[e]) % DataAlign = 0
<1> DEFINE P == PlainLen(Elf[e])
           r == (IvtLen - P) % DataAlign
           q == (IvtLen - P) \div DataAlign
           s == IvtLen \div DataAlign
<1>1. P \in Nat
    BY Span
<1>2. IvtLen \in Nat /\ DataAlign \in Nat \ {0} /\ IvtLen % DataAlign = 0
    BY LayoutAssumption
<1> HIDE DEF P
<1>3. IvtLen - P \in Int
    BY <1>1, <1>2
<1>4. r \in 0 .. DataAlign - 1 /\ q \in Int /\ IvtLen - P = DataAlign * q + r
    BY <1>2, <1>3, DivMod
<1>5. s \in Int /\ IvtLen = DataAlign * s
    BY <1>2
<1> HIDE DEF r, q, s
<1>6. P + r = DataAlign * (s - q)
    BY <1>1, <1>2, <1>4, <1>5
<1>7. (DataAlign * (s - q)) % DataAlign = 0
    BY <1>2, <1>4, <1>5
<1>8. r \in Nat /\ P + r \in Nat
    BY <1>1, <1>2, <1>4
<1> QED  BY <1>6, <1>7, <1>8 DEF ImageLen, Padding, P, r

LEMMA SixParts ==
    ASSUME NEW a, NEW b, NEW c, NEW d, NEW x, NEW y
    PROVE  <<a>> \o <<>> \o <<b, c, d, x, y>> = <<a, b, c, d, x, y>>
<1> DEFINE S == {a, b, c, d, x, y}
           u == <<a>>
           v == <<b, c, d, x, y>>
           w == <<a, b, c, d, x, y>>
<1>1. /\ u \in Seq(S) /\ Len(u) = 1 /\ u[1] = a
      /\ v \in Seq(S) /\ Len(v) = 5
      /\ v[1] = b /\ v[2] = c /\ v[3] = d /\ v[4] = x /\ v[5] = y
    OBVIOUS
<1>2. /\ w \in Seq(S) /\ Len(w) = 6 /\ w[1] = a
      /\ w[2] = b /\ w[3] = c /\ w[4] = d /\ w[5] = x /\ w[6] = y
    OBVIOUS
<1> HIDE DEF S, u, v, w
<1>3. u \o <<>> = u
    BY <1>1, ConcatEmptySeq
<1>4. /\ u \o v \in Seq(S) /\ Len(u \o v) = 6
      /\ \A i \in 1 .. 6 : (u \o v)[i] = IF i <= 1 THEN u[i] ELSE v[i - 1]
  <2>1. Len(u) + Len(v) = 6
      BY <1>1
  <2>2. /\ u \o v \in Seq(S) /\ Len(u \o v) = Len(u) + Len(v)
        /\ \A i \in 1 .. Len(u) + Len(v) :
             (u \o v)[i] = IF i <= Len(u) THEN u[i] ELSE v[i - Len(u)]
      BY <1>1, ConcatProperties, Zenon
  <2>3. Len(u) = 1
      BY <1>1
  <2> QED  BY <2>1, <2>2, <2>3, Zenon
<1>5. \A i \in 1 .. 6 : i \in {1, 2, 3, 4, 5, 6}
    OBVIOUS
<1>6. \A i \in 1 .. 6 : (u \o v)[i] = w[i]
    BY <1>1, <1>2, <1>4, <1>5
<1>7. u \o v = w
    BY <1>2, <1>4, <1>6, SeqEqual
<1> QED  BY <1>3, <1>7 DEF u, v, w

LEMMA SevenParts ==
    ASSUME NEW a, NEW b, NEW c, NEW d, NEW x, NEW y, NEW z
    PROVE  Append(<<a, b, c, d, x, y>>, z) = <<a, b, c, d, x, y, z>>
<1> DEFINE S == {a, b, c, d, x, y, z}
           v == <<a, b, c, d, x, y>>
           w == <<a, b, c, d, x, y, z>>
<1>1. /\ v \in Seq(S) /\ Len(v) = 6 /\ z \in S
      /\ v[1] = a /\ v[2] = b /\ v[3] = c /\ v[4] = d /\ v[5] = x /\ v[6] = y
    OBVIOUS
<1>2. /\ w \in Seq(S) /\ Len(w) = 7 /\ w[7] = z
      /\ w[1] = a /\ w[2] = b /\ w[3] = c /\ w[4] = d /\ w[5] = x /\ w[6] = y
    OBVIOUS
<1> HIDE DEF S, v, w
<1>3. /\ Append(v, z) \in Seq(S) /\ Len(Append(v, z)) = 7 /\ Append(v, z)[7] = z
      /\ \A i \in 1 .. 6 : Append(v, z)[i] = v[i]
  <2>1. Len(v) + 1 = 7
      BY <1>1
  <2>2. /\ Append(v, z) \in Seq(S) /\ Len(Append(v, z)) = Len(v) + 1
        /\ Append(v, z)[Len(v) + 1] = z
        /\ \A i \in 1 .. Len(v) : Append(v, z)[i] = v[i]
    <3>1. v \in Seq(S) /\ z \in S
        BY <1>1
    <3> QED  BY <3>1, AppendProperties
  <2>3. Len(v) = 6
      BY <1>1
  <2> QED  BY <2>1, <2>2, <2>3, Zenon
<1>4. \A i \in 1 .. 7 : i \in {1, 2, 3, 4, 5, 6, 7}
    OBVIOUS
<1>5. \A i \in 1 .. 7 : Append(v, z)[i] = w[i]
    BY <1>1, <1>2, <1>3, <1>4
<1>6. Append(v, z) = w
    BY <1>2, <1>3, <1>5, SeqEqual
<1> QED  BY <1>6 DEF v, w

\* What the bootloader is told by the header is where it says it is.
LEMMA HeaderFits ==
    ASSUME NEW e \in DOMAIN Elf, Accepted(Elf[e]), LongEnough(Elf[e]),
           NEW b, Len(b.certs) \in Nat
    PROVE  LET h == Header(Elf[e], b)
               parts == Parts(Elf[e], b)
           IN /\ h.type = XipPlainSigned /\ h.ptr = BaseAddr(Elf[e])
              /\ h.off % DataAlign = 0
              /\ PartAt(Append(parts, FileEnd), h.len) = "end"
              /\ PartAt(parts, h.off) = "certHeader"
              /\ PartAt(parts, h.off + CertHeaderLen + CertTableLen(b)) = "rkhs"
              /\ PartAt(parts, IvtLen) \in {"data", "certHeader"}
<1> DEFINE f == Elf[e]
           h == Header(f, b)
           d == (PlainLen(f) - IvtLen) + Padding(f)
           t == CertTableLen(b)
           parts == Parts(f, b)
           more == Append(parts, FileEnd)
<1>1. ~HasHmac(Kind)
    BY DEF HasHmac, Kind, PlainSigned, EncryptedSigned, XipPlainSigned
<1>2. /\ IvtLen \in Nat /\ CertHeaderLen \in Nat \ {0} /\ RkhsLen \in Nat \ {0}
      /\ SignatureLen \in Nat /\ CertLen \in Nat
    BY LayoutAssumption
<1>3. t \in Nat
    BY <1>2 DEF CertTableLen
<1>4. /\ PlainLen(f) \in Nat /\ Padding(f) \in Nat /\ ImageLen(f) \in Nat
      /\ ImageLen(f) = PlainLen(f) + Padding(f) /\ ImageLen(f) % DataAlign = 0
    BY Span, Aligned
<1>5. d \in Nat /\ ImageLen(f) = IvtLen + d
    BY <1>2, <1>4 DEF LongEnough
<1>6. /\ h.type = XipPlainSigned /\ h.ptr = BaseAddr(f) /\ h.off = IvtLen + d
      /\ h.len = IvtLen + d + CertHeaderLen + t + RkhsLen + SignatureLen
  <2>1. h.len = ImageLen(f) + BlockLen(b) + 0 + SignatureLen
      BY <1>1 DEF Header, FileLen
  <2>2. BlockLen(b) = CertHeaderLen + t + RkhsLen
      BY DEF BlockLen
  <2>3. h.len = IvtLen + d + CertHeaderLen + t + RkhsLen + SignatureLen
      BY <1>2, <1>3, <1>5, <2>1, <2>2
  <2> QED  BY <1>5, <2>3 DEF Header, ImageType, Kind
<1>7. parts = <<[part |-> "ivt", len |-> IvtLen], [part |-> "data", len |-> d],
                [part |-> "certHeader", len |-> CertHeaderLen],
                [part |-> "certTable", len |-> t], [part |-> "rkhs", len |-> RkhsLen],
                [part |-> "signature", len |-> SignatureLen]>>
    BY <1>1, SixParts, ZenonT(60) DEF Parts
<1>8. more = <<[part |-> "ivt", len |-> IvtLen], [part |-> "data", len |-> d],
               [part |-> "certHeader", len |-> CertHeaderLen],
               [part |-> "certTable", len |-> t], [part |-> "rkhs", len |-> RkhsLen],
               [part |-> "signature", len |-> SignatureLen],
               [part |-> "end", len |-> 1]>>
  <2> DEFINE q1 == [part |-> "ivt", len |-> IvtLen]
             q2 == [part |-> "data", len |-> d]
             q3 == [part |-> "certHeader", len |-> CertHeaderLen]
             q4 == [part |-> "certTable", len |-> t]
             q5 == [part |-> "rkhs", len |-> RkhsLen]
             q6 == [part |-> "signature", len |-> SignatureLen]
             p6 == <<q1, q2, q3, q4, q5, q6>>
  <2>1. parts = p6
      BY <1>7, Zenon
  <2> HIDE DEF q1, q2, q3, q4, q5, q6, parts
  <2>2. Append(p6, FileEnd) = <<q1, q2, q3, q4, q5, q6, FileEnd>>
      BY SevenParts, ZenonT(60)
  <2> HIDE DEF p6
  <2>3. more = <<q1, q2, q3, q4, q5, q6, FileEnd>>
      BY <2>1, <2>2, Zenon
  <2> QED  BY <2>3, Zenon DEF q1, q2, q3, q4, q5, q6, FileEnd
<1> HIDE DEF parts, more, d, t, h
<1> DEFINE Lens(s) == /\ s[1].len = IvtLen /\ s[2].len = d /\ s[3].len = CertHeaderLen
                      /\ s[4].len = t /\ s[5].len = RkhsLen /\ s[6].len = SignatureLen
<1>9. Len(parts) = 6 /\ DOMAIN parts = 1 .. 6 /\ Lens(parts)
    BY <1>7
<1>10. Len(more) = 7 /\ DOMAIN more = 1 .. 7 /\ Lens(more) /\ more[7].len = 1
    BY <1>8
<1>11. /\ \A i \in 1 .. 6 : i \in {1, 2, 3, 4, 5, 6}
       /\ \A i \in 1 .. 7 : i \in {1, 2, 3, 4, 5, 6, 7}
    OBVIOUS
<1> DEFINE B(s, i) == PartEnd(s)[i - 1]
           Begins(s) ==
             /\ B(s, 1) = 0 /\ B(s, 2) = IvtLen /\ B(s, 3) = IvtLen + d
             /\ B(s, 4) = IvtLen + d + CertHeaderLen
             /\ B(s, 5) = IvtLen + d + CertHeaderLen + t
             /\ B(s, 6) = IvtLen + d + CertHeaderLen + t + RkhsLen
             /\ B(s, 7) = IvtLen + d + CertHeaderLen + t + RkhsLen + SignatureLen
<1>12. ASSUME NEW s, Lens(s),
             \A i \in 0 .. 6 :
               PartEnd(s)[i] = IF i = 0 THEN 0 ELSE PartEnd(s)[i - 1] + s[i].len
       PROVE  Begins(s)
  <2> DEFINE E == PartEnd(s)
  <2>1. /\ 0 \in 0 .. 6 /\ 1 \in 0 .. 6 /\ 2 \in 0 .. 6 /\ 3 \in 0 .. 6
        /\ 4 \in 0 .. 6 /\ 5 \in 0 .. 6 /\ 6 \in 0 .. 6
      OBVIOUS
  <2>2. /\ 1 - 1 = 0 /\ 2 - 1 = 1 /\ 3 - 1 = 2 /\ 4 - 1 = 3
        /\ 5 - 1 = 4 /\ 6 - 1 = 5 /\ 7 - 1 = 6
      OBVIOUS
  <2>3. 1 # 0 /\ 2 # 0 /\ 3 # 0 /\ 4 # 0 /\ 5 # 0 /\ 6 # 0
      OBVIOUS
  <2>4. /\ E[0] = 0 /\ E[1] = E[0] + s[1].len /\ E[2] = E[1] + s[2].len
        /\ E[3] = E[2] + s[3].len /\ E[4] = E[3] + s[4].len
        /\ E[5] = E[4] + s[5].len /\ E[6] = E[5] + s[6].len
      BY <1>12, <2>1, <2>2, <2>3, Zenon
  <2> HIDE DEF E
  <2>5. /\ E[0] = 0 /\ E[1] = IvtLen /\ E[2] = IvtLen + d
        /\ E[3] = IvtLen + d + CertHeaderLen
        /\ E[4] = IvtLen + d + CertHeaderLen + t
        /\ E[5] = IvtLen + d + CertHeaderLen + t + RkhsLen
        /\ E[6] = IvtLen + d + CertHeaderLen + t + RkhsLen + SignatureLen
      BY <1>2, <1>3, <1>5, <1>12, <2>4
  <2> QED  BY <2>2, <2>5, Zenon DEF E
<1>13. Begins(parts) /\ Begins(more)
  <2>0. /\ IvtLen \in Nat /\ d \in Nat /\ CertHeaderLen \in Nat /\ t \in Nat
        /\ RkhsLen \in Nat /\ SignatureLen \in Nat /\ 1 \in Nat
      BY <1>2, <1>3, <1>5
  <2>1. \A i \in 1 .. Len(parts) : parts[i].len \in Nat
    <3>1. \A i \in {1, 2, 3, 4, 5, 6} : parts[i].len \in Nat
        BY <1>9, <2>0, Zenon
    <3> QED  BY <1>9, <1>11, <3>1, Zenon
  <2>2. \A i \in 1 .. Len(more) : more[i].len \in Nat
    <3>1. \A i \in {1, 2, 3, 4, 5, 6, 7} : more[i].len \in Nat
        BY <1>10, <2>0, Zenon
    <3> QED  BY <1>10, <1>11, <3>1, Zenon
  <2>3. Len(parts) \in {6, 7} /\ Len(more) \in {6, 7}
      BY <1>9, <1>10
  <2>4. \A i \in 0 .. 6 : PartEnd(parts)[i] =
            IF i = 0 THEN 0 ELSE PartEnd(parts)[i - 1] + parts[i].len
      BY <2>1, <2>3, PartEndStep
  <2>5. \A i \in 0 .. 6 : PartEnd(more)[i] =
            IF i = 0 THEN 0 ELSE PartEnd(more)[i - 1] + more[i].len
      BY <2>2, <2>3, PartEndStep
  <2>6. Lens(parts) /\ Lens(more)
      BY <1>9, <1>10
  <2> HIDE DEF Lens, Begins
  <2> QED  BY <1>12, <2>4, <2>5, <2>6, Zenon
<1> HIDE DEF B
<1> DEFINE Opens(s, i, o) == B(s, i) = o /\ s[i].len > 0
<1>14. PartAt(more, h.len) = "end"
  <2>1. /\ ~Opens(more, 1, h.len) /\ ~Opens(more, 2, h.len) /\ ~Opens(more, 3, h.len)
        /\ ~Opens(more, 4, h.len) /\ ~Opens(more, 5, h.len) /\ ~Opens(more, 6, h.len)
      BY <1>2, <1>3, <1>5, <1>6, <1>10, <1>13, SMTT(30)
  <2>2. Opens(more, 7, h.len) /\ more[7].part = "end" /\ 7 \in 1 .. 7
      BY <1>6, <1>8, <1>10, <1>13
  <2>3. \A i \in 1 .. 7 : Opens(more, i, h.len) => i = 7
      BY <1>11, <2>1
  <2> QED  BY <1>10, <2>2, <2>3, Found, ZenonT(60) DEF B
<1>15. PartAt(parts, h.off) = "certHeader"
  <2>1. /\ ~Opens(parts, 1, h.off) /\ ~Opens(parts, 2, h.off) /\ ~Opens(parts, 4, h.off)
        /\ ~Opens(parts, 5, h.off) /\ ~Opens(parts, 6, h.off)
    <3>1. h.off = IvtLen + d
        BY <1>6
    <3> QED  BY <1>2, <1>3, <1>5, <1>9, <1>13, <3>1, SMTT(30)
  <2>2. Opens(parts, 3, h.off) /\ parts[3].part = "certHeader" /\ 3 \in 1 .. 6
      BY <1>2, <1>6, <1>7, <1>9, <1>13
  <2>3. \A i \in 1 .. 6 : Opens(parts, i, h.off) => i = 3
      BY <1>11, <2>1
  <2> QED  BY <1>9, <2>2, <2>3, Found, ZenonT(60) DEF B
<1>16. PartAt(parts, h.off + CertHeaderLen + t) = "rkhs"
  <2> DEFINE o == h.off + CertHeaderLen + t
  <2>1. o = IvtLen + d + CertHeaderLen + t
      BY <1>6
  <2> HIDE DEF o
  <2>2. /\ ~Opens(parts, 1, o) /\ ~Opens(parts, 2, o) /\ ~Opens(parts, 3, o)
        /\ ~Opens(parts, 4, o) /\ ~Opens(parts, 6, o)
      BY <1>2, <1>3, <1>5, <1>9, <1>13, <2>1, SMTT(30)
  <2>3. Opens(parts, 5, o) /\ parts[5].part = "rkhs" /\ 5 \in 1 .. 6
      BY <1>2, <1>7, <1>9, <1>13, <2>1
  <2>4. \A i \in 1 .. 6 : Opens(parts, i, o) => i = 5
      BY <1>11, <2>2
  <2>5. PartAt(parts, o) = "rkhs"
      BY <1>9, <2>3, <2>4, Found, ZenonT(60) DEF B
  <2> QED  BY <2>5 DEF o
<1>17. PartAt(parts, IvtLen) \in {"data", "certHeader"}
  <2>1. CASE d > 0
    <3>1. /\ ~Opens(parts, 1, IvtLen) /\ ~Opens(parts, 3, IvtLen) /\ ~Opens(parts, 4, IvtLen)
          /\ ~Opens(parts, 5, IvtLen) /\ ~Opens(parts, 6, IvtLen)
        BY <1>2, <1>3, <1>5, <1>9, <1>13, <2>1, SMTT(30)
    <3>2. Opens(parts, 2, IvtLen) /\ parts[2].part = "data" /\ 2 \in 1 .. 6
        BY <1>7, <1>9, <1>13, <2>1
    <3>3. \A i \in 1 .. 6 : Opens(parts, i, IvtLen) => i = 2
        BY <1>11, <3>1
    <3> QED  BY <1>9, <3>2, <3>3, Found, ZenonT(60) DEF B
  <2>2. CASE d = 0
      BY <1>2, <1>6, <1>15, <2>2
  <2> QED  BY <1>5, <2>1, <2>2
<1> QED  BY <1>4, <1>5, <1>6, <1>14, <1>15, <1>16, <1>17 DEF parts, more, h, t

-----------------------------------------------------------------------------
(***************************************************************************)
(* The theorems.                                                           *)
(***************************************************************************)
LEMMA EveryStep == TypeOK /\ SignInv /\ [Next]_vars => TypeOK' /\ SignInv'
<1> SUFFICES ASSUME TypeOK, SignInv, [Next]_vars PROVE TypeOK' /\ SignInv'
    OBVIOUS
<1>1. CASE UNCHANGED vars
  <2>1. KeyFilesOK' /\ ImageFilesOK'
      BY <1>1, SameKeyFiles, SameImageFiles DEF vars, keyFiles, TypeOK
  <2>2. LocalsOK'
      BY <1>1 DEF vars, locals, TypeOK, LocalsOK
  <2>3. SignInv'
      BY <1>1 DEF vars, imageFiles, locals, SignInv, FlashAuthenticates
  <2> QED  BY <2>1, <2>2, <2>3 DEF TypeOK
<1>2. CASE Next
    BY <1>2, GenerateStep, SignStep, WriteStep, WorldStep DEF Next, Tool
<1> QED  BY <1>1, <1>2

LEMMA InitToolInv == Init => GeneratedInv /\ LayoutInv
<1> SUFFICES ASSUME Init PROVE GeneratedInv /\ LayoutInv
    OBVIOUS
<1>1. \A p \in Secrets : secret[p] = NoFile /\ made[p] = 0
    BY DEF Init
<1>2. \A p \in Certs : cert[p] # NoFile => cert[p] = FirstCertificate(p)
    BY DEF Init, FirstCertificate
<1>3. pc = "idle" /\ output = NoFile
    BY DEF Init
<1> QED  BY <1>1, <1>2, <1>3, ToolAssumption DEF GeneratedInv, LayoutInv, Readable

\* A step of sign finds what the steps before it have left: nothing is read
\* that a command may not have written, and generate stays within the chains.
THEOREM TypeCorrect == Spec => []TypeOK
BY InitInv, EveryStep, PTL DEF Spec

\* The block of a running sign is verified, the merged file is authentic, a
\* generated key is the first of its name as long as no file was lost, and an
\* image is made only of what passed the checks of objcopy.
THEOREM ToolInvariant == Spec => []ToolInv
<1>1. Init => TypeOK /\ ToolInv
    BY InitInv, InitToolInv DEF ToolInv
<1>2. TypeOK /\ ToolInv /\ [Next]_vars => TypeOK' /\ ToolInv'
    BY EveryStep, GeneratedStep, LayoutStep DEF ToolInv
<1> QED  BY <1>1, <1>2, PTL DEF Spec

\* download writes authentic images only, for any ELF files, chains and
\* keys, after any sequence of commands, kills, removed files and signatures.
THEOREM DownloadsAuthentic == Spec => []FlashAuthenticates
<1>1. ToolInv => FlashAuthenticates
    BY DEF ToolInv, SignInv
<1> QED  BY <1>1, ToolInvariant, PTL

\* sign does not reject what generate made: for chains of any length and any
\* certificates that were supplied, however often generate ran and failed.
THEOREM GeneratedVerifies == Spec => []GeneratedChainVerifies
<1>1. TypeOK /\ ToolInv => GeneratedChainVerifies
    BY FirstChain DEF ToolInv
<1> QED  BY <1>1, TypeCorrect, ToolInvariant, PTL

\* The flat image of an ELF file that objcopy accepts has every byte where it
\* was linked to, for every number, size and order of segments.
THEOREM NoSegmentOverwritten == Spec => []SegmentsIntact
<1>1. ToolInv => SegmentsIntact
  <2> SUFFICES ASSUME ToolInv, pc = "block",
                      NEW i \in Segments(Elf[unsigned]),
                      NEW k \in 0 .. Elf[unsigned].segs[i].filesz - 1
               PROVE  Objcopy(Elf[unsigned])[Start(Elf[unsigned], i) + k - BaseAddr(Elf[unsigned])]
                        = <<i, k>>
      BY DEF SegmentsIntact
  <2>1. unsigned \in DOMAIN Elf /\ Accepted(Elf[unsigned])
      BY DEF ToolInv, SignInv, LayoutInv, Flattens
  <2> QED  BY <2>1, FlatImage
<1> QED  BY <1>1, ToolInvariant, PTL

\* The header of a downloaded file leads the bootloader to the certificate
\* block and the root key hashes, for every size of the image and every chain.
THEOREM HeaderLeadsToBlock == Spec => []LoaderFindsBlock
<1>1. TypeOK /\ ToolInv => LoaderFindsBlock
  <2> SUFFICES ASSUME TypeOK, ToolInv, pc = "flash" PROVE LoaderFindsBlock
      BY DEF LoaderFindsBlock
  <2> DEFINE e == output.image.elf
             b == output.image.block
  <2>1. Readable(output) /\ Flattens(e) /\ LongEnough(Elf[e])
      BY DEF ToolInv, SignInv, LayoutInv
  <2>2. output \in Signed
      BY <2>1 DEF TypeOK, ImageFilesOK, Readable
  <2>3. e \in DOMAIN Elf /\ b \in Blocks
      BY <2>2 DEF Signed, Images
  <2>4. Len(b.certs) \in Nat
      BY <2>3 DEF Blocks
  <2>5. Accepted(Elf[e]) /\ BaseAddr(Elf[e]) = RunStart
      BY <2>1 DEF Flattens
  <2> QED  BY <2>1, <2>3, <2>4, <2>5, HeaderFits, Zenon DEF LoaderFindsBlock
<1> QED  BY <1>1, TypeCorrect, ToolInvariant, PTL

\* "This tool does not overwrite any pre-existing key material."
THEOREM KeysKept == Spec => KeyMaterialKept
<1> DEFINE Kept == /\ \A p \in Secrets : secret[p] # NoFile => secret'[p] = secret[p]
                   /\ \A p \in Certs : cert[p] # NoFile => cert'[p] = cert[p]
<1>1. TypeOK /\ [Next]_vars => [Kept \/ Remove]_vars
  <2> SUFFICES ASSUME TypeOK, Next, ~Remove PROVE Kept
      OBVIOUS
  <2>1. ASSUME NEW q \in Secrets, NEW x, secret[q] = NoFile,
               secret' = [secret EXCEPT ![q] = x], UNCHANGED cert
        PROVE  Kept
      BY <2>1 DEF TypeOK, KeyFilesOK
  <2>2. ASSUME NEW q \in Certs, NEW x, cert[q] = NoFile,
               cert' = [cert EXCEPT ![q] = x], UNCHANGED secret
        PROVE  Kept
      BY <2>2 DEF TypeOK, KeyFilesOK
  <2>3. CASE UNCHANGED <<secret, cert>>
      BY <2>3
  <2>4. at \in Certs /\ at \in Secrets /\ Otp \in Secrets
      BY DEF TypeOK, LocalsOK, Secrets
  <2>5. CASE GenerateOtp
      BY <2>1, <2>4, <2>5 DEF GenerateOtp, NewSecret
  <2>6. CASE PrivateKey
      BY <2>1, <2>3, <2>4, <2>6 DEF PrivateKey, NewSecret
  <2>7. CASE Certify
      BY <2>2, <2>3, <2>4, <2>7 DEF Certify
  <2>8. CASE Killed
      BY <2>1, <2>2, <2>3, <2>4, <2>8 DEF Killed
  <2>9. ASSUME NEW c \in Commands, Sign(c) PROVE Kept
      BY <2>3, <2>9 DEF Sign, keyFiles
  <2>10. ASSUME NEW e \in DOMAIN Elf, Flatten(e) PROVE Kept
      BY <2>3, <2>10 DEF Flatten, keyFiles
  <2>11. CASE \/ Generate \/ MakeBlock \/ PrepareToSign \/ SignImage
              \/ MergeWithSignature \/ Download \/ Error \/ HsmSigns
      BY <2>3, <2>11
      DEF Generate, MakeBlock, PrepareToSign, SignImage, MergeWithSignature,
          Download, Error, HsmSigns, keyFiles
  <2> QED  BY <2>5, <2>6, <2>7, <2>8, <2>9, <2>10, <2>11 DEF Next, Tool
<1> QED  BY <1>1, TypeCorrect, PTL DEF Spec, KeyMaterialKept
=============================================================================
