-------------------------------- MODULE Iss --------------------------------
(***************************************************************************)
(* The instruction-set simulators: src/lab #1/iss.c and src/lab2/iss.c.    *)
(* One step is one turn of the loop in main(), one instruction.            *)
(*                                                                         *)
(* The two programs differ in two places.  Lab 2 saves a return address in *)
(* r7 when it jumps, lab 1 does not; and LHI takes its low half from src0  *)
(* in lab 2, from dst in lab 1.  Unlike the hardware models, both write    *)
(* reg[0] and reg[1], and ST and JIN read reg[src0] as it is, without the  *)
(* special meaning of registers 0 and 1.                                   *)
(***************************************************************************)
EXTENDS SpIsa

CONSTANTS
  Lab,          \* 1 or 2: whose simulator
  LinkOffset,   \* 1 in lab 2's code: r7 receives the address after the jump
  Images        \* what a program file may hold

ASSUME LabAssumption == Lab \in {1, 2} /\ LinkOffset \in {0, 1}
ASSUME IssImagesAssumption == Images \subseteq [Addr -> Word]

VARIABLES pc, reg, mem, halted

issVars == <<pc, reg, mem, halted>>

Init ==
  /\ pc = 0
  /\ reg = [x \in Reg |-> 0]
  /\ mem \in Images
  /\ halted = FALSE

-----------------------------------------------------------------------------
\* while (!halted && pc < MEM_SIZE)
Looping == ~halted /\ pc < Half

In == Decode(mem[pc])
Val0 == Operand(In.src0, In, reg)
Val1 == Operand(In.src1, In, reg)

Result ==
  IF Lab = 1 /\ In.op = "LHI"
  THEN (In.imm % Half) * Half + (reg[In.dst] % Half)
  ELSE IntAlu(In, Val0, Val1)

\* reg[7] = pc, with pc already incremented.
Linked == IF Lab = 2 THEN [reg EXCEPT ![7] = pc + LinkOffset] ELSE reg

\* Lab 2 saves the return address first: a JIN through r7 jumps to it.
JinTarget == Linked[In.src0] % Half

Compute ==
  /\ Looping /\ In.op \in AluOps
  /\ reg' = [reg EXCEPT ![In.dst] = Result]
  /\ pc' = pc + 1
  /\ UNCHANGED <<mem, halted>>

Load ==
  /\ Looping /\ In.op = "LD"
  /\ reg' = [reg EXCEPT ![In.dst] = mem[Val1 % Half]]
  /\ pc' = pc + 1
  /\ UNCHANGED <<mem, halted>>

Store ==
  /\ Looping /\ In.op = "ST"
  /\ mem' = [mem EXCEPT ![Val1 % Half] = reg[In.src0]]
  /\ pc' = pc + 1
  /\ UNCHANGED <<reg, halted>>

Branch ==
  /\ Looping /\ In.op \in CondBranches /\ Taken(In, Val0, Val1)
  /\ reg' = Linked
  /\ pc' = In.imm % Half
  /\ UNCHANGED <<mem, halted>>

JumpIndirect ==
  /\ Looping /\ In.op = "JIN"
  /\ reg' = Linked
  /\ pc' = JinTarget
  /\ UNCHANGED <<mem, halted>>

\* A slip: the return address is saved before the condition is looked at.
SkipLinking ==
  /\ Looping /\ In.op \in CondBranches \cup Unassigned
  /\ ~Taken(In, Val0, Val1)
  /\ reg' = IF In.op \in CondBranches THEN Linked ELSE reg
  /\ pc' = pc + 1
  /\ UNCHANGED <<mem, halted>>

\* A branch not taken, an opcode without a case.
Skip ==
  /\ Looping /\ In.op \in CondBranches \cup Unassigned
  /\ ~Taken(In, Val0, Val1)
  /\ pc' = pc + 1
  /\ UNCHANGED <<reg, mem, halted>>

\* A slip: the case of HLT breaks out of the switch and not of the loop.
HaltRunningOn ==
  /\ Looping /\ In.op = "HLT"
  /\ pc' = pc + 1
  /\ UNCHANGED <<reg, mem, halted>>

Halt ==
  /\ Looping /\ In.op = "HLT"
  /\ halted' = TRUE
  /\ pc' = pc + 1
  /\ UNCHANGED <<reg, mem>>

Next == Compute \/ Load \/ Store \/ Branch \/ JumpIndirect \/ Skip \/ Halt

Spec == Init /\ [][Next]_issVars
=============================================================================
