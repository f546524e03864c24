--------------------------- MODULE MasterBootImage ---------------------------
(***************************************************************************)
(* The images bootloader-tool makes (processors/objcopy.rs and             *)
(* processors/mbi): how an ELF file becomes a flat image, what its header, *)
(* certificate block and signature are, and where they lie in the file.    *)
(*                                                                         *)
(* Of an ELF file the model keeps the program headers and the entry point. *)
(* The byte k of the i-th segment is <<i, k>>.  Keys are names; hashes and *)
(* signatures are what they are computed from.                             *)
(***************************************************************************)
EXTENDS Integers, Sequences

CONSTANTS
    Prelude,        \* PRELUDE_ADDRESS_RANGE
    EntryOffset,    \* of the entry point: 0x131
    IvtLen,         \* bytes of the header: 0x40
    DataAlign,      \* DATA_ALIGN
    CertHeaderLen, RkhsLen, HmacLen,
    CertLen,        \* bytes of a certificate in the table, with its length
    SignatureLen

ASSUME LayoutAssumption ==
    /\ EntryOffset \in Nat /\ IvtLen \in Nat
    /\ DataAlign \in Nat \ {0} /\ IvtLen % DataAlign = 0
    /\ CertHeaderLen \in Nat \ {0} /\ CertLen \in Nat /\ SignatureLen \in Nat
    /\ HmacLen \in Nat \ {0} /\ RkhsLen \in Nat \ {0}

Least(S) == CHOOSE x \in S : \A y \in S : x <= y
Greatest(S) == CHOOSE x \in S : \A y \in S : y <= x

-----------------------------------------------------------------------------
(***************************************************************************)
(* objcopy.                                                                *)
(***************************************************************************)
\* bss and the prelude are left out.
IsKept(s) == s.filesz # 0 /\ s.paddr \notin Prelude
Segments(elf) == {i \in DOMAIN elf.segs : IsKept(elf.segs[i])}

Start(elf, i) == elf.segs[i].paddr
End(elf, i) == elf.segs[i].paddr + elf.segs[i].filesz

BaseAddr(elf) == Least({Start(elf, i) : i \in Segments(elf)})
TopAddr(elf) == Greatest({End(elf, i) : i \in Segments(elf)})

\* j is the next segment after i that is kept.
Follows(elf, i, j) == i < j /\ ~\E k \in Segments(elf) : i < k /\ k < j

\* Mutant: a segment may start inside the one before it.
IsOrderedByStart(elf) ==
    \A i, j \in Segments(elf) : Follows(elf, i, j) => Start(elf, j) >= Start(elf, i)

\* Segments do not overlap and are in the order of their addresses: each is
\* compared with last_paddr, where the one kept before it ends.
IsOrdered(elf) ==
    \A i, j \in Segments(elf) :
        Follows(elf, i, j) => Start(elf, j) >= Start(elf, i) + elf.segs[i].memsz

\* objcopy returns Ok.  Without any segment it panics.
Accepted(elf) ==
    /\ \A i \in DOMAIN elf.segs :
          elf.segs[i].filesz # 0 => elf.segs[i].filesz = elf.segs[i].memsz
    /\ IsOrdered(elf)
    /\ Segments(elf) # {}
    /\ elf.entry = BaseAddr(elf) + EntryOffset

\* The segments that provide the byte at the address a.
At(elf, a) == {i \in Segments(elf) : Start(elf, i) <= a /\ a < End(elf, i)}

\* The flat image, by offset.  Segments are copied one after the other over
\* zeros.
Objcopy(elf) ==
    [o \in 0 .. TopAddr(elf) - BaseAddr(elf) - 1 |->
        LET a == BaseAddr(elf) + o IN
        IF At(elf, a) = {} THEN <<0, 0>>
        ELSE LET i == Greatest(At(elf, a)) IN <<i, a - Start(elf, i)>>]

-----------------------------------------------------------------------------
(***************************************************************************)
(* The certificate block: the certificates of a chain, root first, and the *)
(* root keys of all chains, whose hash is the RKTH.                        *)
(***************************************************************************)
\* Mutant: the signatures of the certificates are not looked at.
VerifyNoChain(block) ==
    LET cs == block.certs IN
    /\ cs # <<>>
    /\ \E c \in DOMAIN block.roots : block.roots[c] = cs[1].key
    /\ cs[1].ca
    /\ Len(cs) > 1 => ~cs[Len(cs)].ca

\* CertBlock::verify returns Ok.
Verify(block) ==
    LET cs == block.certs IN
    /\ cs # <<>>
    /\ \E c \in DOMAIN block.roots : block.roots[c] = cs[1].key
    /\ cs[1].ca
    /\ \A i \in 2 .. Len(cs) : cs[i - 1].ca /\ cs[i].issuer = cs[i - 1].key
    /\ Len(cs) > 1 => ~cs[Len(cs)].ca

VerifyingKey(block) == block.certs[Len(block.certs)].key

CertTableLen(block) == CertLen * Len(block.certs)
BlockLen(block) == CertHeaderLen + CertTableLen(block) + RkhsLen

-----------------------------------------------------------------------------
(***************************************************************************)
(* The image.                                                              *)
(***************************************************************************)
PlainSigned == 1
EncryptedSigned == 3
XipPlainSigned == 4

HasHmac(kind) == kind \in {PlainSigned, EncryptedSigned}

\* Mutant: the kind that is not marked for XIP.
KindNotXip == PlainSigned

\* Bootloaders and applications alike.
Kind == XipPlainSigned

\* TrustZone::Enabled is 0 and nothing else is set: the type is the kind.
ImageType == Kind

PlainLen(elf) == TopAddr(elf) - BaseAddr(elf)

\* The data behind the header is padded, to align the certificate block.
Padding(elf) == (IvtLen - PlainLen(elf)) % DataAlign

\* Mutant: the padding is not counted.
ImageLenUnpadded(elf) == PlainLen(elf)

ImageLen(elf) == PlainLen(elf) + Padding(elf)

\* Image::new splits the header off: shorter images make it panic.
LongEnough(elf) == PlainLen(elf) >= IvtLen

FileLen(elf, block) ==
    ImageLen(elf) + BlockLen(block)
        + (IF HasHmac(Kind) THEN HmacLen ELSE 0) + SignatureLen

Header(elf, block) ==
    [type |-> ImageType,
     off |-> ImageLen(elf),
     ptr |-> BaseAddr(elf),
     len |-> FileLen(elf, block)]

\* The parts of a merged file.
Parts(elf, block) ==
    <<[part |-> "ivt", len |-> IvtLen]>>
    \o (IF HasHmac(Kind) THEN <<[part |-> "hmac", len |-> HmacLen]>> ELSE <<>>)
    \o <<[part |-> "data", len |-> (PlainLen(elf) - IvtLen) + Padding(elf)],
         [part |-> "certHeader", len |-> CertHeaderLen],
         [part |-> "certTable", len |-> CertTableLen(block)],
         [part |-> "rkhs", len |-> RkhsLen],
         [part |-> "signature", len |-> SignatureLen]>>

\* Image::check returns Ok: sig is a signature of the image by the key of the
\* last certificate.
Check(image, sig) == sig = [key |-> VerifyingKey(image.block), of |-> image]
=============================================================================
