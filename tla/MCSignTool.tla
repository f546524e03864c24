----------------------------- MODULE MCSignTool -----------------------------
(***************************************************************************)
(* The tool with ELF files of a few bytes, a chain of three certificates   *)
(* and one of a single certificate, which may come from an HSM.            *)
(***************************************************************************)
EXTENDS SignTool

MCPrelude == 0 .. 1
MCChains == <<3, 1>>
MCPrototypes == {Certs, {<<1, i>> : i \in 1 .. 3}}

Seg(paddr, filesz, memsz) == [paddr |-> paddr, filesz |-> filesz, memsz |-> memsz]

\* The first two become images: one with the prelude, a gap and bss, one
\* whose length is not aligned.  The tool rejects the others.
MCElf ==
    [gap |-> [entry |-> 11,
              segs |-> <<Seg(0, 2, 2), Seg(10, 3, 3), Seg(14, 2, 2), Seg(16, 0, 4)>>],
     odd |-> [entry |-> 11, segs |-> <<Seg(10, 3, 3), Seg(13, 2, 2)>>],
     overlap |-> [entry |-> 11, segs |-> <<Seg(10, 3, 3), Seg(12, 2, 2)>>],
     partbss |-> [entry |-> 11, segs |-> <<Seg(10, 3, 5)>>],
     unordered |-> [entry |-> 11, segs |-> <<Seg(13, 2, 2), Seg(10, 3, 3)>>],
     entry |-> [entry |-> 12, segs |-> <<Seg(10, 4, 4)>>],
     base |-> [entry |-> 21, segs |-> <<Seg(20, 4, 4)>>]]
=============================================================================
