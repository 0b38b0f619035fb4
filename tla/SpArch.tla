------------------------------- MODULE SpArch -------------------------------
(***************************************************************************)
(* The machine a programmer of the SP sees: one instruction at a time, in  *)
(* program order, each one reading the registers its predecessors left.    *)
(* This is what the six-stage pipeline of lab3_A promises to compute.      *)
(*                                                                         *)
(* The meaning of each opcode is that of the pipeline's own EXEC0 and EXEC1 *)
(* stages (the link register receives the branch's own address, JIN jumps  *)
(* to its src0 operand, LHI keeps the low half of src0), without stages.   *)
(***************************************************************************)
EXTENDS SpIsa

CONSTANT Images    \* the program images a run may load

VARIABLES
  pc,       \* address of the next instruction
  regs,     \* register file
  imem,     \* instruction memory, never written
  dmem,     \* data memory
  halted    \* a HLT has executed

vars == <<pc, regs, imem, dmem, halted>>

Init ==
  /\ pc = 0
  /\ regs = [x \in Reg |-> 0]
  /\ imem \in Images
  /\ dmem = imem
  /\ halted = FALSE

-----------------------------------------------------------------------------

Fetched == Decode(imem[pc])
OperandA == Operand(Fetched.src0, Fetched, regs)
OperandB == Operand(Fetched.src1, Fetched, regs)

\* Outside the memory the simulator stops: there is no step to take.
CanStep == ~halted /\ pc \in Addr

ExecAlu ==
  /\ CanStep /\ Fetched.op \in AluOps
  /\ regs' = SetReg(regs, Fetched.dst, Alu(Fetched, OperandA, OperandB))
  /\ pc' = pc + 1
  /\ UNCHANGED <<imem, dmem, halted>>

ExecLoad ==
  /\ CanStep /\ Fetched.op = "LD" /\ OperandB \in Addr
  /\ regs' = SetReg(regs, Fetched.dst, dmem[OperandB])
  /\ pc' = pc + 1
  /\ UNCHANGED <<imem, dmem, halted>>

ExecStore ==
  /\ CanStep /\ Fetched.op = "ST" /\ OperandB \in Addr
  /\ dmem' = [dmem EXCEPT ![OperandB] = OperandA]
  /\ pc' = pc + 1
  /\ UNCHANGED <<regs, imem, halted>>

ExecTaken ==
  /\ CanStep /\ Taken(Fetched, OperandA, OperandB)
  /\ regs' = [regs EXCEPT ![7] = pc]
  /\ pc' = Target(Fetched, OperandA)
  /\ UNCHANGED <<imem, dmem, halted>>

\* A conditional branch that falls through, or an opcode without a meaning.
ExecNothing ==
  /\ CanStep /\ Fetched.op \in CondBranches \cup Unassigned
  /\ ~Taken(Fetched, OperandA, OperandB)
  /\ pc' = pc + 1
  /\ UNCHANGED <<regs, imem, dmem, halted>>

ExecHalt ==
  /\ CanStep /\ Fetched.op = "HLT"
  /\ halted' = TRUE
  /\ pc' = pc + 1
  /\ UNCHANGED <<regs, imem, dmem>>

Next == ExecAlu \/ ExecLoad \/ ExecStore \/ ExecTaken \/ ExecNothing \/ ExecHalt

Spec == Init /\ [][Next]_vars
=============================================================================
