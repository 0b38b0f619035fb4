-------------------------- MODULE IssLockstepProofs --------------------------
(***************************************************************************)
(* Proofs about the two instruction-set simulators in lockstep, for every  *)
(* width, program and decoder.                                             *)
(***************************************************************************)
EXTENDS IssLockstep, SpIsaProofs

\* What SimulatorsAgree compares.
Agree ==
  /\ pc = pc1 /\ halted = halted1 /\ mem = mem1
  /\ \A x \in Reg : reg[x] = reg1[x] \/ (x = 7 /\ linked)

\* The instruction set is the same on both sides.
LEMMA SameIsa ==
  /\ Lab1!AluOps = AluOps /\ Lab1!CondBranches = CondBranches
  /\ Lab1!Unassigned = Unassigned
  /\ \A s, in, regs : Lab1!Operand(s, in, regs) = Operand(s, in, regs)
  /\ \A in, a, b : Lab1!IntAlu(in, a, b) = IntAlu(in, a, b)
  /\ \A in, a, b : Lab1!Taken(in, a, b) <=> Taken(in, a, b)
<1>1. Lab1!AluOps = AluOps /\ Lab1!CondBranches = CondBranches
      /\ Lab1!Unassigned = Unassigned
  BY DEF Lab1!AluOps, AluOps, Lab1!CondBranches, CondBranches,
         Lab1!Unassigned, Unassigned
<1>2. \A s, in, regs : Lab1!Operand(s, in, regs) = Operand(s, in, regs)
  BY DEF Lab1!Operand, Operand
<1>3. Lab1!WordMod = WordMod
  BY DEF Lab1!WordMod, WordMod
<1>4. \A in, a, b : Lab1!Alu(in, a, b) = Alu(in, a, b)
  BY <1>3 DEF Lab1!Alu, Alu
<1>5. \A w : Lab1!Negative(w) <=> Negative(w)
  BY <1>3 DEF Lab1!Negative, Negative
<1>6. \A a, b : Lab1!ShiftRightSigned(a, b) = ShiftRightSigned(a, b)
  BY <1>3, <1>5 DEF Lab1!ShiftRightSigned, ShiftRightSigned
<1>7. \A in, a, b : Lab1!IntAlu(in, a, b) = IntAlu(in, a, b)
  BY <1>4, <1>6 DEF Lab1!IntAlu, IntAlu
<1>8. \A w : Lab1!Signed(w) = Signed(w)
  BY <1>3, <1>5 DEF Lab1!Signed, Signed
<1>9. \A in, a, b : Lab1!Taken(in, a, b) <=> Taken(in, a, b)
  BY <1>8 DEF Lab1!Taken, Taken
<1> QED
  BY <1>1, <1>2, <1>7, <1>9

-----------------------------------------------------------------------------
(***************************************************************************)
(* Types.                                                                  *)
(***************************************************************************)

\* The values an instruction works with, in either simulator.
LEMMA WorkTypes ==
  ASSUME IssTypeOK, Looping
  PROVE  /\ pc \in Addr /\ pc + 1 \in 0 .. Half /\ mem[pc] \in Word
         /\ In \in Instr /\ Val0 \in Word /\ Val1 \in Word /\ Result \in Word
         /\ Val1 % Half \in Addr /\ In.imm % Half \in Addr
         /\ Linked \in [Reg -> Word] /\ JinTarget \in Addr
<1>1. pc \in Addr /\ pc + 1 \in 0 .. Half
  BY HalfAssumption DEF IssTypeOK, Looping, Addr
<1>2. mem[pc] \in Word /\ reg \in [Reg -> Word]
  BY <1>1 DEF IssTypeOK
<1>3. In \in Instr
  BY <1>2, DecodeAssumption DEF In
<1>4. In.src0 \in Reg /\ In.src1 \in Reg /\ In.dst \in Reg /\ In.imm \in Word
  BY <1>3 DEF Instr
<1>5. Val0 \in Word /\ Val1 \in Word
  BY <1>2, <1>3, <1>4, OperandType DEF Val0, Val1
<1>6. \A w \in Word : w % Half \in Addr
  BY HalfAssumption DEF Word, Addr
<1>7. In.imm \in Int /\ reg[In.dst] \in Int
  BY <1>2, <1>4 DEF Word
<1>8. (In.imm % Half) * Half + (reg[In.dst] % Half) \in Word
  BY <1>7, TwoHalves
<1>9. Result \in Word
  BY <1>3, <1>5, <1>8, IntAluType DEF Result
<1>10. pc + LinkOffset \in Word
  BY <1>1, WordRange, LabAssumption DEF Addr
<1>11. Linked \in [Reg -> Word]
  BY <1>2, <1>10 DEF Linked
<1>12. JinTarget \in Addr
  BY <1>4, <1>6, <1>11 DEF JinTarget
<1> QED
  BY <1>1, <1>2, <1>3, <1>4, <1>5, <1>6, <1>9, <1>11, <1>12

\* One instruction keeps the types of the simulator that executes it.
LEMMA TypeStep ==
  ASSUME IssTypeOK, Next
  PROVE  /\ pc' \in 0 .. Half /\ reg' \in [Reg -> Word]
         /\ mem' \in [Addr -> Word] /\ halted' \in BOOLEAN
<1>1. /\ Looping /\ reg \in [Reg -> Word] /\ mem \in [Addr -> Word] /\ halted \in BOOLEAN
  BY DEF Next, Compute, Load, Store, Branch, JumpIndirect, Skip, Halt, IssTypeOK
<1>2. Addr \subseteq 0 .. Half
  BY HalfAssumption DEF Addr
<1>3. In.dst \in Reg /\ In.src0 \in Reg
  BY <1>1, WorkTypes DEF Instr
<1> QED
  BY <1>1, <1>2, <1>3, WorkTypes
     DEF Next, Compute, Load, Store, Branch, JumpIndirect, Skip, Halt

\* The same of lab 1's simulator, whose LHI reads the register it writes.
LEMMA WorkTypes1 ==
  ASSUME IssTypeOK, Lab1!Looping
  PROVE  /\ pc1 \in Addr /\ pc1 + 1 \in 0 .. Half /\ mem1[pc1] \in Word
         /\ Lab1!In \in Instr /\ Lab1!Val0 \in Word /\ Lab1!Val1 \in Word
         /\ Lab1!Result \in Word
         /\ Lab1!Val1 % Half \in Addr /\ Lab1!In.imm % Half \in Addr
         /\ Lab1!Linked = reg1 /\ Lab1!JinTarget \in Addr
<1>1. pc1 \in Addr /\ pc1 + 1 \in 0 .. Half
  BY HalfAssumption DEF IssTypeOK, Lab1!Looping, Addr
<1>2. mem1[pc1] \in Word /\ reg1 \in [Reg -> Word]
  BY <1>1 DEF IssTypeOK
<1>3. Lab1!In \in Instr
  BY <1>2, DecodeAssumption DEF Lab1!In
<1>4. /\ Lab1!In.src0 \in Reg /\ Lab1!In.src1 \in Reg /\ Lab1!In.dst \in Reg
      /\ Lab1!In.imm \in Word
  BY <1>3 DEF Instr
<1>5. Lab1!Val0 \in Word /\ Lab1!Val1 \in Word
  BY <1>2, <1>3, <1>4, OperandType, SameIsa DEF Lab1!Val0, Lab1!Val1
<1>6. \A w \in Word : w % Half \in Addr
  BY HalfAssumption DEF Word, Addr
<1>7. Lab1!In.imm \in Int /\ reg1[Lab1!In.dst] \in Int
  BY <1>2, <1>4 DEF Word
<1>8. (Lab1!In.imm % Half) * Half + (reg1[Lab1!In.dst] % Half) \in Word
  BY <1>7, TwoHalves
<1>9. Lab1!Result \in Word
  BY <1>3, <1>5, <1>8, IntAluType, SameIsa DEF Lab1!Result
<1>10. Lab1!Linked = reg1
  BY DEF Lab1!Linked
<1>11. Lab1!JinTarget \in Addr
  BY <1>2, <1>4, <1>6, <1>10 DEF Lab1!JinTarget
<1> QED
  BY <1>1, <1>2, <1>3, <1>4, <1>5, <1>6, <1>9, <1>10, <1>11

LEMMA TypeStep1 ==
  ASSUME IssTypeOK, Lab1!Next
  PROVE  /\ pc1' \in 0 .. Half /\ reg1' \in [Reg -> Word]
         /\ mem1' \in [Addr -> Word] /\ halted1' \in BOOLEAN
<1>1. /\ Lab1!Looping /\ reg1 \in [Reg -> Word] /\ mem1 \in [Addr -> Word]
      /\ halted1 \in BOOLEAN
  BY DEF Lab1!Next, Lab1!Compute, Lab1!Load, Lab1!Store, Lab1!Branch,
         Lab1!JumpIndirect, Lab1!Skip, Lab1!Halt, IssTypeOK
<1>2. Addr \subseteq 0 .. Half
  BY HalfAssumption DEF Addr
<1>3. Lab1!In.dst \in Reg /\ Lab1!In.src0 \in Reg
  BY <1>1, WorkTypes1 DEF Instr
<1> QED
  BY <1>1, <1>2, <1>3, WorkTypes1
     DEF Lab1!Next, Lab1!Compute, Lab1!Load, Lab1!Store, Lab1!Branch,
         Lab1!JumpIndirect, Lab1!Skip, Lab1!Halt

LEMMA TypeInit == LockInit => IssTypeOK
<1> SUFFICES ASSUME LockInit PROVE IssTypeOK
  OBVIOUS
<1>1. pc \in 0 .. Half /\ pc1 = pc /\ halted = FALSE /\ halted1 = halted
  BY HalfAssumption DEF LockInit, Init
<1>2. reg \in [Reg -> Word] /\ reg1 = reg
  BY WordRange DEF LockInit, Init
<1>3. mem \in [Addr -> Word] /\ mem1 = mem
  BY IssImagesAssumption DEF LockInit, Init
<1>4. alike \in BOOLEAN /\ linked \in BOOLEAN
  BY DEF LockInit
<1> QED
  BY <1>1, <1>2, <1>3, <1>4 DEF IssTypeOK

LEMMA TypeNext == IssTypeOK /\ [LockNext]_lockVars => IssTypeOK'
<1> SUFFICES ASSUME IssTypeOK, [LockNext]_lockVars PROVE IssTypeOK'
  OBVIOUS
<1>1. CASE LockNext
  <2>1. alike' \in BOOLEAN /\ linked' \in BOOLEAN
    BY <1>1 DEF LockNext
  <2> QED
    BY <1>1, <2>1, TypeStep, TypeStep1 DEF LockNext, IssTypeOK
<1>2. CASE UNCHANGED lockVars
  BY <1>2 DEF lockVars, issVars, IssTypeOK
<1> QED
  BY <1>1, <1>2

-----------------------------------------------------------------------------
(***************************************************************************)
(* Agreement: one instruction at a time, by its kind.                      *)
(***************************************************************************)

\* Before an instruction with one meaning the two work with the same values:
\* it reads r7 only where the return address has been overwritten.
LEMMA SameWork ==
  ASSUME IssTypeOK, Agree, Looping, Lab1!Looping, OneMeaning, Lab = 2
  PROVE  /\ Lab1!In = In /\ In \in Instr
         /\ Val0 = Lab1!Val0 /\ Val1 = Lab1!Val1
         /\ In.op \in AluOps => Result = Lab1!Result
         /\ \A x \in Reg \ {7} : Linked[x] = reg1[x]
         /\ In.op = "JIN" => JinTarget = Lab1!JinTarget
         /\ reg[In.src0] = reg1[In.src0]
<1>1. Lab1!In = In
  BY DEF In, Lab1!In, Agree
<1>2. In \in Instr
  BY WorkTypes DEF In
<1>3. In.src0 \in Reg /\ In.src1 \in Reg /\ In.dst \in Reg
  BY <1>2 DEF Instr
<1>4. /\ reg[In.src0] = reg1[In.src0] /\ reg[In.src1] = reg1[In.src1]
      /\ \A x \in Reg \ {7} : reg[x] = reg1[x]
  BY <1>3 DEF Agree, OneMeaning, Reads
<1>5. Val0 = Lab1!Val0 /\ Val1 = Lab1!Val1
  BY <1>1, <1>4, SameIsa DEF Val0, Val1, Lab1!Val0, Lab1!Val1, Operand
<1>6. Result = Lab1!Result
  <2>1. CASE In.op # "LHI"
    BY <1>1, <1>5, <2>1, SameIsa DEF Result, Lab1!Result
  <2>2. CASE In.op = "LHI"
    <3>1. In.src0 = In.dst /\ In.src1 = 1 /\ In.dst >= 2
      BY <2>2 DEF OneMeaning
    <3>2. Val0 = reg[In.dst] /\ Val1 = In.imm
      BY <1>3, <3>1 DEF Val0, Val1, Operand, Reg
    <3>3. reg[In.dst] = reg1[In.dst]
      BY <1>4, <3>1
    <3>4. Result = (In.imm % Half) * Half + (reg[In.dst] % Half)
      BY <2>2, <3>2 DEF Result, IntAlu
    <3> QED
      BY <1>1, <2>2, <3>3, <3>4 DEF Lab1!Result
  <2> QED
    BY <2>1, <2>2
<1>7. \A x \in Reg \ {7} : Linked[x] = reg1[x]
  BY <1>4 DEF Linked, IssTypeOK
<1>8. Lab1!Linked = reg1
  BY DEF Lab1!Linked
<1>9. In.op = "JIN" => JinTarget = Lab1!JinTarget
  BY <1>1, <1>3, <1>7, <1>8 DEF OneMeaning, JinTarget, Lab1!JinTarget
<1> QED
  BY <1>1, <1>2, <1>4, <1>5, <1>6, <1>7, <1>9

LEMMA AgreeNext ==
  ASSUME IssTypeOK, Agree, LockNext, OneMeaning, Lab = 2
  PROVE  Agree'
<1>1. Next /\ Lab1!Next
  BY DEF LockNext
<1>2. Looping /\ Lab1!Looping
  BY <1>1 DEF Next, Compute, Load, Store, Branch, JumpIndirect, Skip, Halt,
              Lab1!Next, Lab1!Compute, Lab1!Load, Lab1!Store, Lab1!Branch,
              Lab1!JumpIndirect, Lab1!Skip, Lab1!Halt
<1>3. /\ Lab1!In = In /\ In \in Instr
      /\ Val0 = Lab1!Val0 /\ Val1 = Lab1!Val1
      /\ In.op \in AluOps => Result = Lab1!Result
      /\ \A x \in Reg \ {7} : Linked[x] = reg1[x]
      /\ In.op = "JIN" => JinTarget = Lab1!JinTarget
      /\ reg[In.src0] = reg1[In.src0]
  BY <1>2, SameWork
<1>4. /\ pc = pc1 /\ halted = halted1 /\ mem = mem1
      /\ \A x \in Reg \ {7} : reg[x] = reg1[x]
      /\ reg \in [Reg -> Word] /\ reg1 \in [Reg -> Word]
  BY DEF Agree, IssTypeOK
<1>5. Lab1!Linked = reg1 /\ In.dst \in Reg
  BY <1>3 DEF Lab1!Linked, Instr
\* r7 is lab 2's own after the step, or was equal before it, or is written.
<1>6. linked' \/ (~Links /\ (reg[7] = reg1[7] \/ Rewrites7))
  <2>1. linked \/ reg[7] = reg1[7]
    BY DEF Agree, Reg
  <2>2. linked' = (Links \/ (linked /\ ~Rewrites7))
    BY DEF LockNext
  <2> QED
    BY <2>1, <2>2, Zenon
<1> DEFINE Together ==
      /\ pc' = pc1' /\ halted' = halted1' /\ mem' = mem1'
      /\ \A x \in Reg \ {7} : reg'[x] = reg1'[x]
      /\ ~Links /\ (reg[7] = reg1[7] \/ Rewrites7) => reg'[7] = reg1'[7]
<1>7. Taken(In, Val0, Val1) <=> Lab1!Taken(Lab1!In, Lab1!Val0, Lab1!Val1)
  BY <1>3, SameIsa
<1> USE DEF AluOps, CondBranches, Unassigned, Writers
<1>8. ASSUME Compute PROVE Together
  <2>1. In.op \in AluOps /\ Lab1!Compute
    BY <1>1, <1>3, <1>8, SameIsa
       DEF Compute, Lab1!Next, Lab1!Compute, Lab1!Load, Lab1!Store, Lab1!Branch,
           Lab1!JumpIndirect, Lab1!Skip, Lab1!Halt
  <2> QED
    BY <1>3, <1>4, <1>5, <1>8, <2>1 DEF Compute, Lab1!Compute, Links, Rewrites7, Reg
<1>9. ASSUME Load PROVE Together
  <2>1. Lab1!Load
    BY <1>1, <1>3, <1>9, SameIsa
       DEF Load, Lab1!Next, Lab1!Compute, Lab1!Load, Lab1!Store, Lab1!Branch,
           Lab1!JumpIndirect, Lab1!Skip, Lab1!Halt
  <2> QED
    BY <1>3, <1>4, <1>5, <1>9, <2>1 DEF Load, Lab1!Load, Links, Rewrites7, Reg
<1>10. ASSUME Store PROVE Together
  <2>1. Lab1!Store
    BY <1>1, <1>3, <1>10, SameIsa
       DEF Store, Lab1!Next, Lab1!Compute, Lab1!Load, Lab1!Store, Lab1!Branch,
           Lab1!JumpIndirect, Lab1!Skip, Lab1!Halt
  <2> QED
    BY <1>3, <1>4, <1>5, <1>10, <2>1 DEF Store, Lab1!Store, Links, Rewrites7, Reg
<1>11. ASSUME Branch PROVE Together
  <2>1. Lab1!Branch
    BY <1>1, <1>3, <1>7, <1>11, SameIsa
       DEF Branch, Lab1!Next, Lab1!Compute, Lab1!Load, Lab1!Store, Lab1!Branch,
           Lab1!JumpIndirect, Lab1!Skip, Lab1!Halt
  <2> QED
    BY <1>3, <1>4, <1>5, <1>11, <2>1 DEF Branch, Lab1!Branch, Links, Rewrites7, Reg
<1>12. ASSUME JumpIndirect PROVE Together
  <2>1. Lab1!JumpIndirect
    BY <1>1, <1>3, <1>12, SameIsa
       DEF JumpIndirect, Lab1!Next, Lab1!Compute, Lab1!Load, Lab1!Store, Lab1!Branch,
           Lab1!JumpIndirect, Lab1!Skip, Lab1!Halt
  <2> QED
    BY <1>3, <1>4, <1>5, <1>12, <2>1
       DEF JumpIndirect, Lab1!JumpIndirect, Links, Rewrites7, Reg
<1>13. ASSUME Skip PROVE Together
  <2>1. Lab1!Skip
    BY <1>1, <1>3, <1>7, <1>13, SameIsa
       DEF Skip, Lab1!Next, Lab1!Compute, Lab1!Load, Lab1!Store, Lab1!Branch,
           Lab1!JumpIndirect, Lab1!Skip, Lab1!Halt
  <2> QED
    BY <1>3, <1>4, <1>5, <1>13, <2>1 DEF Skip, Lab1!Skip, Links, Rewrites7, Reg
<1>14. ASSUME Halt PROVE Together
  <2>1. Lab1!Halt
    BY <1>1, <1>3, <1>14, SameIsa
       DEF Halt, Lab1!Next, Lab1!Compute, Lab1!Load, Lab1!Store, Lab1!Branch,
           Lab1!JumpIndirect, Lab1!Skip, Lab1!Halt
  <2> QED
    BY <1>3, <1>4, <1>5, <1>14, <2>1 DEF Halt, Lab1!Halt, Links, Rewrites7, Reg
<1>15. Together
  BY <1>1, <1>8, <1>9, <1>10, <1>11, <1>12, <1>13, <1>14 DEF Next
<1> QED
  BY <1>6, <1>15 DEF Agree

-----------------------------------------------------------------------------
(***************************************************************************)
(* The theorems.                                                           *)
(***************************************************************************)

\* In both simulators registers and memory keep their width, and pc never
\* goes more than one word past the memory.
THEOREM LockstepTypeOK == LockSpec => []IssTypeOK
  BY TypeInit, TypeNext, PTL DEF LockSpec

\* Lab 2's simulator takes the path of lab 1's, and leaves the same memory and
\* registers, as long as no instruction with two meanings is executed; only r7
\* may differ, from a jump to the next instruction that writes it.
THEOREM LockstepSimulatorsAgree ==
  ASSUME Lab = 2 PROVE LockSpec => []SimulatorsAgree
<1> DEFINE Inv == IssTypeOK /\ SimulatorsAgree
<1>1. LockInit => Inv
  BY TypeInit DEF LockInit, Init, SimulatorsAgree
<1>2. Inv /\ [LockNext]_lockVars => Inv'
  <2> SUFFICES ASSUME Inv, [LockNext]_lockVars, alike'
               PROVE  Agree'
    BY TypeNext DEF SimulatorsAgree, Agree
  <2>1. CASE LockNext
    <3>1. alike /\ OneMeaning
      BY <2>1 DEF LockNext
    <3>2. Agree
      BY <3>1 DEF SimulatorsAgree, Agree
    <3> QED
      BY <2>1, <3>1, <3>2, AgreeNext
  <2>2. CASE UNCHANGED lockVars
    BY <2>2 DEF lockVars, issVars, SimulatorsAgree, Agree
  <2> QED
    BY <2>1, <2>2
<1>3. Inv => SimulatorsAgree
  OBVIOUS
<1> QED
  BY <1>1, <1>2, <1>3, PTL DEF LockSpec
=============================================================================
