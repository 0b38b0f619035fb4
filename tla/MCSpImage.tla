----------------------------- MODULE MCSpImage -----------------------------
(***************************************************************************)
(* SpImage for TLC: commands with numbers inside and outside their fields, *)
(* taken from or close to the assembler programs.                          *)
(***************************************************************************)
EXTENDS SpImage

A(opcode, dst, src0, src1, imm) ==
  [opcode |-> opcode, dst |-> dst, src0 |-> src0, src1 |-> src1, imm |-> imm]

MCCmds == {
  A(7, 5, 1, 0, 32768),     \* add_asm.c: LHI, the immediate's top bit
  A(19, 0, 9, 0, 18),       \* dma_overlap_test.c: JNE on "r9"
  A(40, 8, 6, 7, -1)        \* opcode and dst too wide, negative immediate
}

MCTestData == {288, -2147483327}    \* 0x120 and 0x80000141
=============================================================================
