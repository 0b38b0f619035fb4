--------------------------- MODULE DmaProgramRun ---------------------------
(***************************************************************************)
(* The DMA programs of lab 2 on lab 2's multi-cycle machine, and what they *)
(* say of it.                                                              *)
(***************************************************************************)
EXTENDS Programs

CONSTANTS
  Listing,            \* the program
  Src, Dst, Count,    \* the copy it asks for
  Pattern,            \* the words it puts at Src
  Poison, ResetClocks,
  BitAnd(_, _), BitOr(_, _), BitXor(_, _), ShiftLeft(_, _), ShiftRight(_, _)

VARIABLES
  resets, status, st, pc, inst, i, alu0, alu1, aluout, r, dma, sram, dataout, dump

Decode(w) == DecodeIn(Listing, w)
Files == {FileOf(Listing, Src, Pattern)}

Machine == INSTANCE SpMultiCycle WITH Images <- Files

Spec == Machine!Spec

-----------------------------------------------------------------------------
(***************************************************************************)
(* Statements of the programs that they do not keep.                       *)
(***************************************************************************)
Copied == \A k \in 0 .. Count - 1 : dump[Dst + k] = dump[Src + k]

\* dma_test.c:4-5: the program copies its words with the DMA engine, "polls
\* the DMA status and halts once the copy completes".
CopyCompleteAtHalt == Machine!Stopped => Copied

\* dma_overlap_test.c:4: "verifies copy, sets r2=1 on pass, r2=0 on fail".
PassMeansCopied == Machine!Stopped /\ r[2] = 1 => Copied
=============================================================================
