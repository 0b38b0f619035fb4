------------------------------ MODULE Programs ------------------------------
(***************************************************************************)
(* The assembler programs of the repository, as the listings their         *)
(* asm_cmd calls produce: add_asm.c and sqrtq_asm.c of lab 1, dma_test.c   *)
(* and dma_overlap_test.c of lab 2.  A line has the arguments of one call; *)
(* how a machine then sees it is what SpEncoding says of asm_cmd and DEC0: *)
(* register numbers cut to three bits, the immediate to a signed half.     *)
(*                                                                         *)
(* The addresses of the data are parameters, so that the programs fit a    *)
(* small memory.                                                           *)
(***************************************************************************)
EXTENDS Integers, Sequences

CONSTANT Half      \* as in SpIsa

\* asm_cmd(op, dst, src0, src1, imm)
Cmd(op, dst, src0, src1, imm) ==
  [op |-> op, dst |-> dst, src0 |-> src0, src1 |-> src1, imm |-> imm, rel |-> FALSE]

\* asm_cmd(op, 0, src0, src1, pc + offset)
Jump(op, src0, src1, offset) ==
  [op |-> op, dst |-> 0, src0 |-> src0, src1 |-> src1, imm |-> offset, rel |-> TRUE]

\* The immediate as a word: its sign copied upwards.
Immediate(v) ==
  LET half == v % Half IN IF 2 * half >= Half THEN half + Half * Half - Half ELSE half

\* A slip: pc is incremented before the immediate is computed.
AtAfterIncrement(listing, k) ==
  LET c == listing[k + 1]
  IN  [op |-> c.op, dst |-> c.dst % 8, src0 |-> c.src0 % 8, src1 |-> c.src1 % 8,
       imm |-> Immediate(IF c.rel THEN k + 1 + c.imm ELSE c.imm)]

\* The instruction at address k.
At(listing, k) ==
  LET c == listing[k + 1]
  IN  [op |-> c.op, dst |-> c.dst % 8, src0 |-> c.src0 % 8, src1 |-> c.src1 % 8,
       imm |-> Immediate(IF c.rel THEN k + c.imm ELSE c.imm)]

(***************************************************************************)
(* In a program file for TLC, the word k + 1 stands for the command at k.  *)
(***************************************************************************)
NoOp == [op |-> "ADD", dst |-> 0, src0 |-> 0, src1 |-> 0, imm |-> 0]

DecodeIn(listing, w) ==
  CASE w = 0 -> NoOp
    [] w \in 1 .. Len(listing) -> At(listing, w - 1)
    [] OTHER -> [NoOp EXCEPT !.op = "U"]

FileOf(listing, dataAt, input) ==
  [a \in 0 .. Half - 1 |->
     CASE a < Len(listing) -> a + 1
       [] a \in dataAt .. dataAt + Len(input) - 1 -> input[a - dataAt + 1]
       [] OTHER -> 0]

-----------------------------------------------------------------------------
(***************************************************************************)
(* lab #1/add_asm.c: the sum of two numbers in sign and magnitude, stored  *)
(* at data and data + 1 (1000 and 1001), goes to data + 2.                 *)
(***************************************************************************)
AddAsm(data) == <<
  Cmd("LHI", 5, 1, 0, Half \div 2),     \* 0x00  r5 = the sign bit
  Cmd("ADD", 5, 5, 1, 0),
  Cmd("LHI", 6, 1, 0, 0),               \* r2 = A
  Cmd("ADD", 6, 6, 1, data),
  Cmd("LD", 2, 0, 6, 0),
  Cmd("LHI", 6, 1, 0, 0),               \* r3 = B
  Cmd("ADD", 6, 0, 1, data + 1),
  Cmd("LD", 3, 0, 6, 0),
  Cmd("AND", 6, 2, 5, 0),               \* 0x08  r6, r7 = their signs
  Cmd("AND", 7, 3, 5, 0),
  Cmd("SUB", 4, 6, 7, 0),
  Jump("JEQ", 4, 0, 19),                \* 0x0B  same signs: 0x1E
  Jump("JEQ", 6, 0, 3),                 \* r6 = magnitude of A
  Cmd("SUB", 6, 2, 5, 0),
  Jump("JEQ", 0, 0, 2),
  Cmd("ADD", 6, 2, 1, 0),
  Jump("JEQ", 7, 0, 3),                 \* 0x10  r7 = magnitude of B
  Cmd("SUB", 7, 3, 5, 0),
  Jump("JEQ", 0, 0, 2),
  Cmd("ADD", 7, 3, 1, 0),
  Cmd("SUB", 4, 4, 0, 0),               \* 0x14  which one is larger?
  Jump("JLT", 6, 7, 5),
  Cmd("SUB", 4, 6, 7, 0),               \* A - B, with A's sign
  Cmd("AND", 5, 2, 5, 0),
  Cmd("ADD", 4, 4, 5, 0),               \* 0x18
  Jump("JEQ", 0, 0, 17),
  Cmd("SUB", 4, 7, 6, 0),               \* 0x1A  B - A, with B's sign
  Cmd("AND", 5, 3, 5, 0),
  Cmd("ADD", 4, 4, 5, 0),
  Jump("JEQ", 0, 0, 13),
  Jump("JEQ", 6, 0, 3),                 \* 0x1E  r6 = magnitude of A
  Cmd("SUB", 6, 2, 5, 0),
  Jump("JEQ", 0, 0, 2),
  Cmd("ADD", 6, 2, 1, 0),
  Jump("JEQ", 7, 0, 3),                 \* 0x22  r7 = magnitude of B
  Cmd("SUB", 7, 3, 5, 0),
  Jump("JEQ", 0, 0, 2),
  Cmd("ADD", 7, 3, 1, 0),
  Cmd("ADD", 4, 6, 7, 0),               \* 0x26  the sum, with A's sign
  Jump("JEQ", 6, 0, 2),
  Cmd("AND", 7, 2, 5, 0),
  Cmd("ADD", 4, 4, 7, 0),
  Cmd("LHI", 6, 0, 0, 0),               \* 0x2A  store it
  Cmd("ADD", 6, 0, 1, data + 2),
  Cmd("ST", 0, 4, 6, 0),
  Cmd("HLT", 0, 0, 0, 0)
>>

(***************************************************************************)
(* lab #1/sqrtq_asm.c: the integer square root of the number at data       *)
(* (1000) goes to data + 1.                                                *)
(***************************************************************************)
SqrtqAsm(data) == <<
  Cmd("LD", 2, 0, 1, data),             \*  0  r2 = N
  Jump("JEQ", 2, 0, 20),
  Cmd("ADD", 4, 0, 0, 0),               \* r4 = result, r3 = bit, r7 = counter
  Cmd("ADD", 3, 1, 0, 1),
  Cmd("ADD", 7, 1, 0, 16),
  Cmd("LSF", 5, 3, 1, 2),               \*  5  bit loop
  Jump("JLT", 5, 2, 4),
  Jump("JEQ", 0, 0, 5),
  Cmd("LSF", 3, 3, 1, 1),
  Cmd("SUB", 7, 7, 1, 1),
  Cmd("JNE", 0, 7, 0, 5),
  Jump("JEQ", 3, 0, 12),                \* 11  main loop
  Cmd("ADD", 6, 4, 3, 0),
  Cmd("SUB", 6, 2, 6, 0),
  Jump("JLT", 6, 0, 6),
  Cmd("SUB", 2, 2, 4, 0),
  Cmd("SUB", 2, 2, 3, 0),
  Cmd("RSF", 4, 4, 1, 1),
  Cmd("ADD", 4, 4, 3, 0),
  Jump("JEQ", 0, 0, 2),
  Cmd("RSF", 4, 4, 1, 1),               \* 20
  Cmd("RSF", 3, 3, 1, 2),
  Cmd("JEQ", 0, 0, 0, 11),
  Cmd("ST", 0, 4, 1, data + 1),         \* 23  done
  Cmd("HLT", 0, 0, 0, 0)
>>

(***************************************************************************)
(* lab2/dma_test.c: copies count words from src to dst (4 from 100 to      *)
(* 200) and polls the engine until it is done.                             *)
(***************************************************************************)
DmaTest(src, dst, count) == <<
  Cmd("ADD", 2, 1, 0, src),
  Cmd("ADD", 3, 1, 0, dst),
  Cmd("DMA_START", 0, 2, 3, count),
  Cmd("DMA_STATUS", 4, 0, 0, 0),        \*  3
  Cmd("JNE", 0, 0, 4, 3),
  Cmd("HLT", 0, 0, 0, 0)
>>

(***************************************************************************)
(* lab2/dma_overlap_test.c: copies count words from src to dst (50 from 50 *)
(* to 60), then compares them one by one and sets r2 to its verdict.       *)
(***************************************************************************)
DmaOverlapTest(src, dst, count) == <<
  Cmd("LHI", 2, 1, 0, 0),
  Cmd("ADD", 2, 2, 1, src),
  Cmd("LHI", 3, 1, 0, 0),
  Cmd("ADD", 3, 3, 1, dst),
  Cmd("LHI", 4, 1, 0, 0),
  Cmd("ADD", 4, 4, 1, count),
  Cmd("DMA_START", 0, 2, 3, count),
  Cmd("DMA_STATUS", 5, 0, 0, 0),
  Cmd("JNE", 0, 0, 5, 5),
  Cmd("LHI", 6, 1, 0, 0),
  Cmd("ADD", 7, 6, 1, src),             \* 10  compare word r6
  Cmd("LD", 7, 0, 7, 0),
  Cmd("ADD", 8, 6, 1, dst),
  Cmd("LD", 8, 0, 8, 0),
  Cmd("SUB", 9, 7, 8, 0),
  Cmd("JNE", 0, 9, 0, 18),
  Cmd("ADD", 6, 6, 1, 1),
  Cmd("JLT", 0, 6, 4, 8),
  Cmd("ADD", 2, 1, 0, 1),               \* 18  pass
  Cmd("HLT", 0, 0, 0, 0),
  Cmd("ADD", 2, 1, 0, 0),               \* 20  fail
  Cmd("HLT", 0, 0, 0, 0)
>>
=============================================================================
