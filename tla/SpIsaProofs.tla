----------------------------- MODULE SpIsaProofs -----------------------------
(***************************************************************************)
(* Facts about words, registers and the operations of SpIsa that the       *)
(* machines' proofs cite.                                                  *)
(***************************************************************************)
EXTENDS SpIsa, TLAPS

\* A word has at least eight times as many values as a half, and an address,
\* and the address after the last one, are words.
LEMMA WordRange ==
  /\ WordMod \in Nat
  /\ 8 * Half <= WordMod
  /\ 0 \in Word
  /\ \A a \in Addr : a \in Word /\ a + 1 \in Word
<1>1. WordMod \in Nat /\ 8 * Half <= WordMod
  BY HalfAssumption, SMT DEF WordMod
<1> QED
  BY <1>1, HalfAssumption DEF Word, Addr

\* An address in range is not negative and raises no fault: what remains when
\* the range checks pass is exactly Addr.
LEMMA InRangeIsAddr ==
  ASSUME NEW w \in Word
  PROVE  w \in Addr <=> ~Negative(w) /\ ~(w >= Half)
<1> USE HalfAssumption, WordRange
<1>1. ASSUME w \in Addr PROVE ~Negative(w)
  BY <1>1 DEF Addr, Negative
<1> QED
  BY <1>1 DEF Addr, Word

\* Two halves side by side make a word.
LEMMA TwoHalves ==
  ASSUME NEW a \in Int, NEW b \in Int
  PROVE  (a % Half) * Half + (b % Half) \in Word
<1> USE HalfAssumption, WordRange
<1>1. a % Half \in 0 .. Half - 1 /\ b % Half \in 0 .. Half - 1
  OBVIOUS
<1>2. \A x, y \in 0 .. Half - 1 : x * Half + y \in 0 .. Half * Half - 1
  <2> SUFFICES ASSUME NEW x \in 0 .. Half - 1, NEW y \in 0 .. Half - 1
               PROVE  x * Half + y \in 0 .. Half * Half - 1
    OBVIOUS
  <2>1. x * Half \in Nat /\ x * Half <= (Half - 1) * Half
    BY SMT
  <2>2. (Half - 1) * Half = Half * Half - Half
    BY SMT
  <2> QED
    BY <2>1, <2>2
<1> QED
  BY <1>1, <1>2 DEF Word, WordMod

\* Every ALU result of the pipeline is a word.
LEMMA AluType ==
  ASSUME NEW i \in Instr, NEW a \in Word, NEW b \in Word
  PROVE  Alu(i, a, b) \in Word
<1> USE HalfAssumption, WordRange
<1>1. \A x \in Int : x % WordMod \in Word
  BY DEF Word
<1>2. (a + b) % WordMod \in Word /\ (a - b) % WordMod \in Word
  BY <1>1 DEF Word
<1>3. i.imm \in Int /\ a \in Int
  BY DEF Instr, Word
<1>4. (i.imm % Half) * Half + (a % Half) \in Word
  BY <1>3, TwoHalves
<1> QED
  BY <1>2, <1>4, BitsAssumption DEF Alu

\* Every ALU result of lab 2 is a word: shifting a negative int keeps its sign.
LEMMA IntAluType ==
  ASSUME NEW in \in Instr, NEW a \in Word, NEW b \in Word
  PROVE  IntAlu(in, a, b) \in Word
<1> USE HalfAssumption, WordRange
<1>1. ShiftRightSigned(a, b) \in Word
  <2>1. WordMod - 1 - a \in Word
    BY DEF Word
  <2>2. /\ ShiftRight(WordMod - 1 - a, b) \in Word
        /\ ShiftRight(a, b) \in Word
    BY <2>1, BitsAssumption
  <2>3. WordMod - 1 - ShiftRight(WordMod - 1 - a, b) \in Word
    BY <2>2 DEF Word
  <2> QED
    BY <2>2, <2>3 DEF ShiftRightSigned
<1>2. a \in Int /\ b \in Int
  BY DEF Word
<1>3. (b % Half) * Half + (a % Half) \in Word
  BY <1>2, TwoHalves
<1> QED
  BY <1>1, <1>3, AluType DEF IntAlu

\* A register update keeps the register file's type.
LEMMA SetRegType ==
  ASSUME NEW regs \in [Reg -> Word], NEW d \in Reg, NEW v \in Word
  PROVE  SetReg(regs, d, v) \in [Reg -> Word]
  BY DEF SetReg

\* An operand is a word.
LEMMA OperandType ==
  ASSUME NEW regs \in [Reg -> Word], NEW i \in Instr, NEW s \in Reg
  PROVE  Operand(s, i, regs) \in Word
  BY WordRange DEF Operand, Instr

\* A branch target is a word.
LEMMA TargetType ==
  ASSUME NEW i \in Instr, NEW a \in Word
  PROVE  Target(i, a) \in Word
<1>1. i.imm \in Int
  BY DEF Instr, Word
<1>2. i.imm % Half \in Addr
  BY <1>1, HalfAssumption DEF Addr
<1> QED
  BY <1>2, WordRange DEF Target

\* A register update shows at its register and nowhere else; r[0] and r[1]
\* never change.
LEMMA SetRegAt ==
  ASSUME NEW regs \in [Reg -> Word], NEW d \in Reg, NEW v \in Word, NEW s \in Reg
  PROVE  SetReg(regs, d, v)[s] = IF d >= 2 /\ s = d THEN v ELSE regs[s]
  BY DEF SetReg, Reg

\* The writers, the branches, stores, HLT and the unassigned opcodes do not
\* overlap.
LEMMA OpcodeClasses ==
  ASSUME NEW i \in Instr, NEW a, NEW b
  PROVE  /\ i.op \in Writers => ~Taken(i, a, b)
         /\ i.op \in {"ST", "HLT"} \cup Unassigned => ~Taken(i, a, b) /\ i.op \notin Writers
         /\ i.op \in AluOps => i.op # "LD"
         /\ i.op \in CondBranches \cup {"JIN"} => i.op \notin Writers
         /\ Taken(i, a, b) => i.op \in CondBranches \cup {"JIN"}
  BY DEF Taken, Writers, AluOps, CondBranches, Unassigned

-----------------------------------------------------------------------------
(***************************************************************************)
(* The decoder of the source is one of those the machines are proved for.  *)
(***************************************************************************)
Encoding == INSTANCE SpEncoding

SourceDecode(w) ==
  LET f == Encoding!Dec0(Signed(w))
  IN  [op |-> Encoding!OpcodeName[f.opcode], dst |-> f.dst, src0 |-> f.src0,
       src1 |-> f.src1, imm |-> f.imm % WordMod]

\* DecodeAssumption holds of DEC0: every word, read as a C int, decodes to an
\* instruction, with the immediate sign-extended to a word.
THEOREM SourceDecoder ==
  ASSUME NEW w \in Word PROVE SourceDecode(w) \in Instr
<1> DEFINE s == Signed(w)
<1> USE DEF Encoding!Low, Encoding!Sign
<1>1. s \in Int
  BY WordRange DEF Signed, Word
<1>2. WordMod \in Nat /\ WordMod > 0
  BY WordRange, HalfAssumption
<1> HIDE DEF s
<1>3. \A v \in Int : v % 32 \in 0 .. 31 /\ v % 8 \in 0 .. 7 /\ v % WordMod \in Word
  BY <1>2, SMT DEF Word
<1>4. \A n \in 0 .. 31 : Encoding!OpcodeName[n] \in Opcode
  BY SMT DEF Encoding!OpcodeName, Opcode, AluOps, CondBranches, Unassigned
<1>5. /\ Encoding!OpUnit \in Nat \ {0} /\ Encoding!DstUnit \in Nat \ {0}
      /\ Encoding!Src0Unit \in Nat \ {0} /\ Encoding!Src1Unit \in Nat \ {0}
      /\ Encoding!Low \in Nat \ {0} /\ Encoding!Sign \in Nat
  BY SMT DEF Encoding!OpUnit, Encoding!DstUnit, Encoding!Src0Unit, Encoding!Src1Unit
<1> HIDE DEF Encoding!Low, Encoding!Sign
<1>6. \A n \in Nat \ {0} : s \div n \in Int /\ s % n \in Int
  BY <1>1, SMT
<1>7. Encoding!SignExtended(s % Encoding!Low) \in Int
  BY <1>5, <1>6, SMT DEF Encoding!SignExtended
<1> QED
  BY <1>3, <1>4, <1>5, <1>6, <1>7 DEF SourceDecode, Encoding!Dec0, Instr, Reg, s
=============================================================================
