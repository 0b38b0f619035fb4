------------------------------- MODULE SpIsa -------------------------------
(***************************************************************************)
(* The vocabulary of the SP instruction set, shared by every machine of    *)
(* the repository: words, addresses, instruction fields, operand           *)
(* selection, the arithmetic and logic operations, and the branches.       *)
(*                                                                         *)
(* Words are unsigned.  The C `int' a word stands for is Signed(w), and an *)
(* arithmetic result is taken modulo WordMod.  Widths are parameters:      *)
(* Half is 2^16 in the source (the immediate, the memory height and the    *)
(* mask 0xFFFF are all 16 bits wide) and a word is two halves.             *)
(***************************************************************************)
EXTENDS Integers

CONSTANTS
  Half,             \* 2^16: SP_SRAM_HEIGHT, and the mask 0xFFFF plus one
  Decode(_),        \* the fields of an instruction word
  BitAnd(_, _),     \* C's & on two words
  BitOr(_, _),      \* C's |
  BitXor(_, _),     \* C's ^
  ShiftLeft(_, _),  \* (uint32_t)a << (b & 31)
  ShiftRight(_, _)  \* (uint32_t)a >> (b & 31)

ASSUME HalfAssumption == Half \in Nat /\ Half >= 8

WordMod == Half * Half
Word == 0 .. WordMod - 1
Addr == 0 .. Half - 1
Reg == 0 .. 7

\* As the C code sees it, a word with its top bit set is a negative int.
Negative(w) == 2 * w >= WordMod
Signed(w) == IF Negative(w) THEN w - WordMod ELSE w

(***************************************************************************)
(* Opcodes go by the names of opcode_name[].  "U" is every value without a *)
(* name; lab2 gives two more of them a meaning, its DMA opcodes.           *)
(***************************************************************************)
AluOps == {"ADD", "SUB", "LSF", "RSF", "AND", "OR", "XOR", "LHI"}
CondBranches == {"JLT", "JLE", "JEQ", "JNE"}
Unassigned == {"U", "DMA_START", "DMA_STATUS"}
Opcode == AluOps \cup CondBranches \cup Unassigned \cup {"LD", "ST", "JIN", "HLT"}

\* The opcodes whose dst field names a register they write.
Writers == AluOps \cup {"LD"}

\* imm is the 16-bit immediate, already sign-extended to a word.
Instr == [op: Opcode, dst: Reg, src0: Reg, src1: Reg, imm: Word]

ASSUME DecodeAssumption == \A w \in Word : Decode(w) \in Instr

ASSUME BitsAssumption ==
  \A a, b \in Word :
     /\ BitAnd(a, b) \in Word
     /\ BitOr(a, b) \in Word
     /\ BitXor(a, b) \in Word
     /\ ShiftLeft(a, b) \in Word
     /\ ShiftRight(a, b) \in Word

(***************************************************************************)
(* Reading and writing registers: r[0] reads as 0, r[1] as the immediate,  *)
(* and a write to either is dropped.                                       *)
(***************************************************************************)
Reads(i) == {i.src0, i.src1}

Operand(src, i, regs) ==
  CASE src = 0 -> 0
    [] src = 1 -> i.imm
    [] OTHER   -> regs[src]

SetReg(regs, dst, v) ==
  IF dst >= 2 THEN [regs EXCEPT ![dst] = v] ELSE regs

(***************************************************************************)
(* What an instruction computes from its two operands a and b.             *)
(***************************************************************************)

\* A slip the type invariant must notice: a sum that is not cut to a word.
AluUnwrapped(i, a, b) ==
  CASE i.op = "ADD" -> a + b
    [] i.op = "SUB" -> (a - b) % WordMod
    [] OTHER -> 0

\* The ALU of the pipeline, lab3_A: unsigned shifts, LHI on src0's low half.
Alu(i, a, b) ==
  CASE i.op = "ADD" -> (a + b) % WordMod
    [] i.op = "SUB" -> (a - b) % WordMod
    [] i.op = "LSF" -> ShiftLeft(a, b)
    [] i.op = "RSF" -> ShiftRight(a, b)
    [] i.op = "AND" -> BitAnd(a, b)
    [] i.op = "OR"  -> BitOr(a, b)
    [] i.op = "XOR" -> BitXor(a, b)
    [] i.op = "LHI" -> (i.imm % Half) * Half + (a % Half)
    [] OTHER        -> 0

\* The ALU of lab2, C int arithmetic: >> keeps the sign, LHI shifts src1.
ShiftRightSigned(a, b) ==
  IF Negative(a) THEN WordMod - 1 - ShiftRight(WordMod - 1 - a, b) ELSE ShiftRight(a, b)

IntAlu(i, a, b) ==
  CASE i.op = "RSF" -> ShiftRightSigned(a, b)
    [] i.op = "LHI" -> (b % Half) * Half + (a % Half)
    [] OTHER        -> Alu(i, a, b)

Taken(i, a, b) ==
  \/ i.op = "JLT" /\ Signed(a) < Signed(b)
  \/ i.op = "JLE" /\ Signed(a) <= Signed(b)
  \/ i.op = "JEQ" /\ a = b
  \/ i.op = "JNE" /\ a # b
  \/ i.op = "JIN"

Target(i, a) == IF i.op = "JIN" THEN a ELSE i.imm % Half
=============================================================================
