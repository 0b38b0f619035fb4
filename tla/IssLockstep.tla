---------------------------- MODULE IssLockstep ----------------------------
(***************************************************************************)
(* The two instruction-set simulators side by side: lab 2's (the variables *)
(* of Iss, with Lab = 2) and lab 1's (the variables ending in 1) load the  *)
(* same program and execute one instruction each per step.  Lab 1's traces *)
(* are the reference the later machines are compared with, so it matters   *)
(* on which programs lab 2's simulator still computes the same.            *)
(***************************************************************************)
EXTENDS Iss

VARIABLES
  pc1, reg1, mem1, halted1,
  alike,     \* history: every instruction so far had one meaning in both labs
  linked     \* history: a jump was the last to write lab 2's r7

Lab1 == INSTANCE Iss WITH Lab <- 1, pc <- pc1, reg <- reg1, mem <- mem1,
                          halted <- halted1

lockVars == <<issVars, pc1, reg1, mem1, halted1, alike, linked>>

LockInit ==
  /\ Init
  /\ pc1 = pc /\ reg1 = reg /\ mem1 = mem /\ halted1 = halted
  /\ alike = TRUE /\ linked = FALSE

-----------------------------------------------------------------------------
\* What lab 2's next instruction does to r7.
Links == In.op = "JIN" \/ (In.op \in CondBranches /\ Taken(In, Val0, Val1))
Rewrites7 == In.op \in Writers /\ In.dst = 7

(***************************************************************************)
(* The next instruction has one meaning in both simulators: it does not    *)
(* look at a return address, which only lab 2 leaves in r7; it is no JIN   *)
(* through r7, which in lab 2 jumps to the address it has just saved; and  *)
(* its LHI keeps the low half of the register it writes.                   *)
(***************************************************************************)
OneMeaning ==
  /\ 7 \in Reads(In) => ~linked
  /\ In.op = "JIN" => In.src0 # 7
  /\ In.op = "LHI" => In.src0 = In.dst /\ In.src1 = 1 /\ In.dst >= 2

LockNext ==
  /\ Next /\ Lab1!Next
  /\ alike' = (alike /\ OneMeaning)
  /\ linked' = (Links \/ (linked /\ ~Rewrites7))

LockSpec == LockInit /\ [][LockNext]_lockVars

-----------------------------------------------------------------------------
(***************************************************************************)
(* Types of both simulators: registers and memory hold words, and pc goes  *)
(* at most one past the memory (the loops' pc < MEM_SIZE).                 *)
(***************************************************************************)
IssTypeOK ==
  /\ {pc, pc1} \subseteq 0 .. Half
  /\ {reg, reg1} \subseteq [Reg -> Word]
  /\ {mem, mem1} \subseteq [Addr -> Word]
  /\ {halted, halted1, alike, linked} \subseteq BOOLEAN

(***************************************************************************)
(* As long as no instruction with two meanings was executed, the two       *)
(* simulators are at the same pc with the same memory and registers,       *)
(* through every jump, store into the program and read of reg[0] and       *)
(* reg[1] by ST and JIN, and one ends exactly when the other does.  Only   *)
(* r7 may differ, and only from a jump to the next instruction that writes *)
(* it: the return address lab 2 saves (src/lab2/iss.c:130-157) reaches     *)
(* nothing else, so a program may use r7 as any register between jumps.    *)
(***************************************************************************)
SimulatorsAgree ==
  alike =>
     /\ pc = pc1 /\ halted = halted1 /\ mem = mem1
     /\ \A x \in Reg : reg[x] = reg1[x] \/ (x = 7 /\ linked)
=============================================================================
