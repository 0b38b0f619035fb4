-------------------------- MODULE MCDmaProgramRun --------------------------
(***************************************************************************)
(* The DMA programs of lab 2 for TLC, on words of 12 bits.                 *)
(***************************************************************************)
EXTENDS DmaProgramRun, Bitwise

MCBitAnd(a, b) == a & b
MCBitOr(a, b) == a | b
MCBitXor(a, b) == a ^^ b
MCShiftLeft(a, b) == (a * 2^(b % 12)) % (Half * Half)
MCShiftRight(a, b) == a \div 2^(b % 12)

MCDmaTest == DmaTest(Src, Dst, Count)
MCDmaOverlapTest == DmaOverlapTest(Src, Dst, Count)

MCPattern == [k \in 1 .. Count |-> 256 + k]
=============================================================================
