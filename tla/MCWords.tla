------------------------------ MODULE MCWords ------------------------------
(***************************************************************************)
(* Small words for TLC: C's bit operations on the words of SpIsa (8 bits   *)
(* when Half is 16) and program images written as sequences of words.      *)
(***************************************************************************)
EXTENDS SpIsa, Sequences, Bitwise

I(op, dst, src0, src1, imm) ==
  [op |-> op, dst |-> dst, src0 |-> src0, src1 |-> src1, imm |-> imm]

MCBitAnd(a, b) == a & b
MCBitOr(a, b) == a | b
MCBitXor(a, b) == a ^^ b
MCShiftLeft(a, b) == (a * 2^(b % 8)) % WordMod
MCShiftRight(a, b) == a \div 2^(b % 8)

\* Instruction words are the indices of a table; word 0 is a no-op, as in the
\* source (ADD r0 r0 r0), and every other word has an unassigned opcode.
DecodeBy(table, w) ==
  IF w = 0 THEN I("ADD", 0, 0, 0, 0)
  ELSE IF w <= Len(table) THEN table[w]
  ELSE I("U", 0, 0, 0, 0)

\* The image of a program file: its words, then the zeros of llsim_malloc.
ImageOf(prog) == [a \in Addr |-> IF a < Len(prog) THEN prog[a + 1] ELSE 0]
=============================================================================
