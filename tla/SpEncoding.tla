----------------------------- MODULE SpEncoding -----------------------------
(***************************************************************************)
(* The instruction word: what asm_cmd (add_asm.c, sqrtq_asm.c, dma_test.c, *)
(* dma_overlap_test.c) packs and what DEC0 and the simulators unpack.      *)
(*                                                                         *)
(*   bits 29..25 opcode, 24..22 dst, 21..19 src0, 18..16 src1, 15..0 imm   *)
(*                                                                         *)
(* Words are C ints.  A mask of n bits is % 2^n, and the arithmetic shift  *)
(* >> n is \div 2^n, which rounds down as the shift does.                  *)
(***************************************************************************)
EXTENDS Integers

\* The immediate's values, and the bit of it that is its sign.
Low == 65536
Sign == 32768

\* The place value of each field.
Src1Unit == Low
Src0Unit == 8 * Low
DstUnit == 64 * Low
OpUnit == 512 * Low

\* An assembler command: the arguments of asm_cmd, all of them ints.
Cmd == [opcode: Int, dst: Int, src0: Int, src1: Int, imm: Int]

\* An instruction word starts with two zero bits.
InstWord == 0 .. 32 * OpUnit - 1

Fields == [opcode: 0 .. 31, dst: 0 .. 7, src0: 0 .. 7, src1: 0 .. 7,
           imm: -Sign .. Sign - 1]

\* A slip: the opcode goes in without its mask.
AsmCmdUnmasked(c) ==
  c.opcode * OpUnit + (c.dst % 8) * DstUnit + (c.src0 % 8) * Src0Unit
    + (c.src1 % 8) * Src1Unit + (c.imm % Low)

\* A slip: negative immediates borrow from src1.
AsmCmdBorrowing(c) ==
  (c.opcode % 32) * OpUnit + (c.dst % 8) * DstUnit + (c.src0 % 8) * Src0Unit
    + (c.src1 % 8) * Src1Unit + c.imm

\* The fields do not overlap, so C's | is a sum.
AsmCmd(c) ==
  (c.opcode % 32) * OpUnit + (c.dst % 8) * DstUnit + (c.src0 % 8) * Src0Unit
    + (c.src1 % 8) * Src1Unit + (c.imm % Low)

SignExtended(half) == IF half >= Sign THEN half - Low ELSE half

Dec0(inst) ==
  [opcode |-> (inst \div OpUnit) % 32,
   dst    |-> (inst \div DstUnit) % 8,
   src0   |-> (inst \div Src0Unit) % 8,
   src1   |-> (inst \div Src1Unit) % 8,
   imm    |-> SignExtended(inst % Low)]

(***************************************************************************)
(* What a command comes to mean: its numbers cut to their fields.          *)
(***************************************************************************)
Meaning(c) ==
  [opcode |-> c.opcode % 32, dst |-> c.dst % 8, src0 |-> c.src0 % 8,
   src1 |-> c.src1 % 8, imm |-> SignExtended(c.imm % Low)]

(***************************************************************************)
(* opcode_name[] of lab2, with its two DMA opcodes.                        *)
(***************************************************************************)
OpcodeName ==
  [n \in 0 .. 31 |->
     CASE n = 0 -> "ADD" [] n = 1 -> "SUB" [] n = 2 -> "LSF" [] n = 3 -> "RSF"
       [] n = 4 -> "AND" [] n = 5 -> "OR" [] n = 6 -> "XOR" [] n = 7 -> "LHI"
       [] n = 8 -> "LD" [] n = 9 -> "ST"
       [] n = 10 -> "DMA_START" [] n = 11 -> "DMA_STATUS"
       [] n = 16 -> "JLT" [] n = 17 -> "JLE" [] n = 18 -> "JEQ" [] n = 19 -> "JNE"
       [] n = 20 -> "JIN" [] n = 24 -> "HLT"
       [] OTHER -> "U"]
=============================================================================
