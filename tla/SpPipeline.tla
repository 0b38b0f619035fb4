----------------------------- MODULE SpPipeline -----------------------------
(***************************************************************************)
(* The six-stage pipelined SP of src/lab3_A/sp.c, clock by clock:          *)
(*                                                                         *)
(*   FETCH0 -> FETCH1 -> DEC0 -> DEC1 -> EXEC0 -> EXEC1                    *)
(*                                                                         *)
(* One step is one call of llsim_run_clock: sp_ctl computes every new      *)
(* register from the old ones (spro and sprn), the memory ports are        *)
(* served, and the new registers become the old ones.  The stages are the  *)
(* concurrent actors; what they share is the register file, the data       *)
(* memory with its dataout latch, and the stall and flush signals.         *)
(*                                                                         *)
(* Abstracted: traces and printing; the latched copies of an instruction   *)
(* word that only feed a trace; dec1_alu0 and dec1_alu1, which nothing     *)
(* reads; exec0_aluout, which nothing writes; srami's dataout, which       *)
(* nothing reads; the DMA block, whose dma_busy nothing sets.              *)
(***************************************************************************)
EXTENDS LlsimMemory

CONSTANTS
  Images,        \* the memory images a program file may hold
  ResetClocks    \* clocks main() runs with reset raised: 5

ASSUME ImagesAssumption == Images \subseteq [Addr -> Word]
ASSUME ResetAssumption == ResetClocks \in Nat \ {0}

VARIABLES
  resets,    \* reset clocks already run
  status,    \* of the simulator process
  r,         \* register file, r[0] and r[1] never written
  fetch0, fetch1, dec0, dec1, exec0, exec1,   \* pipeline latches
  srami,     \* instruction memory
  sramd,     \* data memory
  dataout,   \* sramd's output latch
  dump       \* contents of sramd_out.txt, NoDump before it is written

vars == <<resets, status, r, fetch0, fetch1, dec0, dec1, exec0, exec1,
          srami, sramd, dataout, dump>>

Status == {"running", "stopped", "aborted", "undefined"}
NoDump == <<>>

FetchLatch == [active: BOOLEAN, pc: Word]
InstLatch == [active: BOOLEAN, pc: Word, inst: Word]
DecLatch == [active: BOOLEAN, pc: Word, in: Instr]
Exec0Latch == [active: BOOLEAN, pc: Word, in: Instr, alu0: Word, alu1: Word]
Exec1Latch == [active: BOOLEAN, pc: Word, in: Instr, alu0: Word, alu1: Word,
               aluout: Word]

\* memset(sprn, 0): every latch inactive, every field zero (opcode 0 is ADD).
ZeroInstr == [op |-> "ADD", dst |-> 0, src0 |-> 0, src1 |-> 0, imm |-> 0]
ZeroRegs == [x \in Reg |-> 0]
ZeroFetch == [active |-> FALSE, pc |-> 0]
ZeroInst == [active |-> FALSE, pc |-> 0, inst |-> 0]
ZeroDec == [active |-> FALSE, pc |-> 0, in |-> ZeroInstr]
ZeroExec0 == [active |-> FALSE, pc |-> 0, in |-> ZeroInstr, alu0 |-> 0, alu1 |-> 0]
ZeroExec1 == [active |-> FALSE, pc |-> 0, in |-> ZeroInstr, alu0 |-> 0, alu1 |-> 0,
              aluout |-> 0]

Resetting == status = "running" /\ resets < ResetClocks
Running == status = "running" /\ resets = ResetClocks

-----------------------------------------------------------------------------
(***************************************************************************)
(* Hazard detection: detect_hazards, on the old registers.                 *)
(***************************************************************************)

\* Slips the properties must notice: a stall that does not look whether EXEC0
\* is active or only at one source; EXEC0's result never forwarded.
StallIgnoringBubble ==
  /\ dec1.active
  /\ exec0.in.op = "LD" /\ exec0.in.dst >= 2
  /\ exec0.in.dst \in Reads(dec1.in)

StallOnSrc0Only ==
  /\ dec1.active /\ exec0.active
  /\ exec0.in.op = "LD" /\ exec0.in.dst >= 2
  /\ exec0.in.dst = dec1.in.src0

\* A load in EXEC0 has no data yet: the reader in DEC1 has to wait.
Stall ==
  /\ dec1.active /\ exec0.active
  /\ exec0.in.op = "LD" /\ exec0.in.dst >= 2
  /\ exec0.in.dst \in Reads(dec1.in)

BranchTaken == exec0.active /\ Taken(exec0.in, exec0.alu0, exec0.alu1)
BranchTarget == Target(exec0.in, exec0.alu0)

\* EXEC1 offers its result whatever its opcode is.
Exec1Forwards(src) ==
  /\ dec1.active /\ exec1.active
  /\ exec1.in.dst >= 2 /\ exec1.in.dst = src

Exec1Value == IF exec1.in.op = "LD" THEN dataout ELSE exec1.aluout

Exec0ForwardsNothing(src) == FALSE

Exec0Forwards(src) ==
  /\ dec1.active /\ exec0.active
  /\ exec0.in.op \in AluOps
  /\ exec0.in.dst >= 2 /\ exec0.in.dst = src

Exec0Value == Alu(exec0.in, exec0.alu0, exec0.alu1)

\* The operand DEC1 latches into EXEC0: EXEC1 first, then EXEC0, then r[].
FreshOperand(src) ==
  CASE Exec1Forwards(src) -> Exec1Value
    [] Exec0Forwards(src) /\ ~Exec1Forwards(src) -> Exec0Value
    [] OTHER -> Operand(src, dec1.in, r)

-----------------------------------------------------------------------------
(***************************************************************************)
(* The pieces every clock of sp_ctl is made of.                            *)
(***************************************************************************)

WriteBackLinkNext(regs, l, out) ==
  CASE l.active /\ l.in.op \in AluOps -> SetReg(regs, l.in.dst, l.aluout)
    [] l.active /\ l.in.op = "LD" -> SetReg(regs, l.in.dst, out)
    [] l.active /\ Taken(l.in, l.alu0, l.alu1) -> [regs EXCEPT ![7] = l.pc + 1]
    [] OTHER -> regs

\* EXEC1 commits; a taken branch saves its own address in r[7].
WriteBack(regs, l, out) ==
  CASE l.active /\ l.in.op \in AluOps -> SetReg(regs, l.in.dst, l.aluout)
    [] l.active /\ l.in.op = "LD" -> SetReg(regs, l.in.dst, out)
    [] l.active /\ Taken(l.in, l.alu0, l.alu1) -> [regs EXCEPT ![7] = l.pc]
    [] OTHER -> regs

HaltingWithDst == exec1.active /\ exec1.in.op = "HLT" /\ exec1.in.dst >= 2

Halting == exec1.active /\ exec1.in.op = "HLT"

\* A slip: the ALU gets its operands in the wrong order.
PromoteSwapped(l) ==
  [active |-> l.active, pc |-> l.pc, in |-> l.in, alu0 |-> l.alu0, alu1 |-> l.alu1,
   aluout |-> IF l.active THEN Alu(l.in, l.alu1, l.alu0) ELSE 0]

\* EXEC0 always moves on to EXEC1, bubbles included.
Promote(l) ==
  [active |-> l.active, pc |-> l.pc, in |-> l.in, alu0 |-> l.alu0, alu1 |-> l.alu1,
   aluout |-> IF l.active THEN Alu(l.in, l.alu0, l.alu1) ELSE 0]

SramdPortFromSrc0 ==
  CASE exec0.active /\ exec0.in.op = "LD" -> ReadPort(exec0.alu0)
    [] exec0.active /\ exec0.in.op = "ST" -> WritePort(exec0.alu1, exec0.alu0)
    [] OTHER -> IdlePort

SramdPort ==
  CASE exec0.active /\ exec0.in.op = "LD" -> ReadPort(exec0.alu1)
    [] exec0.active /\ exec0.in.op = "ST" -> WritePort(exec0.alu1, exec0.alu0)
    [] OTHER -> IdlePort

\* The fetch port is driven on a flush too, with the address then dropped.
SramiPort == IF fetch0.active /\ ~Stall THEN ReadPort(fetch0.pc) ELSE IdlePort

Faults == PortFaults(SramdPort) \/ PortFaults(SramiPort)
Undefined == PortUndefined(SramdPort) \/ PortUndefined(SramiPort)

\* HLT in EXEC1 writes the dumps, before the clock's memory phase.
Dump == dump' = IF Halting THEN sramd ELSE dump

\* EXEC1, EXEC0, and the end of the clock.
Execute ==
  /\ ~Faults
  /\ r' = WriteBack(r, exec1, dataout)
  /\ exec1' = Promote(exec0)
  /\ sramd' = MemAfter(sramd, SramdPort)
  /\ dataout' = DataoutAfter(sramd, dataout, SramdPort)
  /\ status' = IF Halting THEN "stopped" ELSE "running"
  /\ Dump
  /\ UNCHANGED <<resets, srami>>

NextPcSkipping ==
  IF fetch0.active
  THEN IF BranchTaken THEN BranchTarget ELSE fetch0.pc + 2
  ELSE 0

NextPc ==
  IF fetch0.active
  THEN IF BranchTaken THEN BranchTarget ELSE fetch0.pc + 1
  ELSE 0

-----------------------------------------------------------------------------
(***************************************************************************)
(* The clocks.                                                             *)
(***************************************************************************)

Init ==
  /\ resets = 0
  /\ status = "running"
  /\ r = ZeroRegs
  /\ fetch0 = ZeroFetch
  /\ fetch1 = ZeroInst
  /\ dec0 = ZeroInst
  /\ dec1 = ZeroDec
  /\ exec0 = ZeroExec0
  /\ exec1 = ZeroExec1
  /\ srami \in Images
  /\ sramd = srami
  /\ dataout = 0
  /\ dump = NoDump

\* sp_run with reset raised: sp_reset clears the registers; the ports idle.
ResetClock ==
  /\ Resetting
  /\ resets' = resets + 1
  /\ r' = ZeroRegs
  /\ fetch0' = ZeroFetch
  /\ fetch1' = ZeroInst
  /\ dec0' = ZeroInst
  /\ dec1' = ZeroDec
  /\ exec0' = ZeroExec0
  /\ exec1' = ZeroExec1
  /\ dataout' = DataoutAfter(sramd, dataout, IdlePort)
  /\ UNCHANGED <<status, srami, sramd, dump>>

StallClockFetching ==
  /\ Running /\ Stall
  /\ Execute
  /\ exec0' = [exec0 EXCEPT !.active = FALSE]
  /\ fetch0' = [fetch0 EXCEPT !.pc = @ + 1]
  /\ UNCHANGED <<fetch1, dec0, dec1>>

\* Load-use stall: a bubble enters EXEC0, everything younger waits.
StallClock ==
  /\ Running /\ Stall
  /\ Execute
  /\ exec0' = [exec0 EXCEPT !.active = FALSE]
  /\ UNCHANGED <<fetch0, fetch1, dec0, dec1>>

FlushClockKeepingDec0 ==
  /\ Running /\ ~Stall /\ BranchTaken
  /\ Execute
  /\ exec0' = [exec0 EXCEPT !.active = FALSE]
  /\ dec1' = [dec1 EXCEPT !.active = FALSE]
  /\ fetch1' = [fetch1 EXCEPT !.active = FALSE]
  /\ fetch0' = [active |-> TRUE, pc |-> NextPc]
  /\ UNCHANGED dec0

\* A branch taken in EXEC0 squashes the four younger instructions.
FlushClock ==
  /\ Running /\ ~Stall /\ BranchTaken
  /\ Execute
  /\ exec0' = [exec0 EXCEPT !.active = FALSE]
  /\ dec1' = [dec1 EXCEPT !.active = FALSE]
  /\ dec0' = [dec0 EXCEPT !.active = FALSE]
  /\ fetch1' = [fetch1 EXCEPT !.active = FALSE]
  /\ fetch0' = [active |-> TRUE, pc |-> NextPc]

AdvanceClock ==
  /\ Running /\ ~Stall /\ ~BranchTaken
  /\ Execute
  /\ exec0' = [active |-> dec1.active, pc |-> dec1.pc, in |-> dec1.in,
               alu0 |-> FreshOperand(dec1.in.src0),
               alu1 |-> FreshOperand(dec1.in.src1)]
  /\ dec1' = [active |-> dec0.active, pc |-> dec0.pc,
              in |-> IF dec0.active THEN Decode(dec0.inst) ELSE dec1.in]
  /\ dec0' = fetch1
  /\ fetch1' = [active |-> fetch0.active, pc |-> fetch0.pc,
                inst |-> IF fetch0.active THEN srami[fetch0.pc] ELSE fetch1.inst]
  /\ fetch0' = [active |-> TRUE, pc |-> NextPc]

\* sp_ctl takes the fetched word from srami before llsim has checked fetch0_pc.
FetchReadsOutside ==
  fetch0.active /\ ~Stall /\ ~BranchTaken /\ fetch0.pc \notin Addr

(***************************************************************************)
(* An address out of range ends the process inside the clock: above the    *)
(* memory llsim's assertion exits; below it the array is indexed with a    *)
(* negative number, after which nothing is known.  A fetch outside the     *)
(* memory has been read without a check by then, and llsim's assertion is  *)
(* only one of the ways it may end.                                        *)
(***************************************************************************)
TrapClock ==
  /\ Running /\ Faults
  /\ \/ ~Undefined /\ status' = "aborted"
     \/ (Undefined \/ FetchReadsOutside) /\ status' = "undefined"
  /\ Dump
  /\ UNCHANGED <<resets, r, fetch0, fetch1, dec0, dec1, exec0, exec1,
                 srami, sramd, dataout>>

Next == ResetClock \/ StallClock \/ FlushClock \/ AdvanceClock \/ TrapClock

Spec == Init /\ [][Next]_vars

\* main() runs one clock after the other until stop_sim or an exit.
FairSpec == Spec /\ WF_vars(Next)

-----------------------------------------------------------------------------
(***************************************************************************)
(* The sequential machine the pipeline implements.  An instruction counts  *)
(* as executed when it leaves EXEC0: its register result, still in EXEC1,  *)
(* is seen through WriteBack.  The memory a stopped simulator shows is the *)
(* dump.                                                                   *)
(***************************************************************************)
Stopped == status = "stopped"

AbsRegs == IF Stopped THEN r ELSE WriteBack(r, exec1, dataout)
AbsMem == IF Stopped THEN dump ELSE sramd
AbsHalted == Stopped \/ Halting

\* The oldest instruction that has not executed.
AbsPc ==
  CASE Stopped /\ exec1.active -> exec1.pc
    [] ~(Stopped /\ exec1.active) /\ exec0.active -> exec0.pc
    [] OTHER -> IF dec1.active THEN dec1.pc
                ELSE IF dec0.active THEN dec0.pc
                ELSE IF fetch1.active THEN fetch1.pc
                ELSE IF fetch0.active THEN fetch0.pc ELSE 0

Arch == INSTANCE SpArch
          WITH pc <- AbsPc, regs <- AbsRegs, imem <- srami, dmem <- AbsMem,
               halted <- AbsHalted

(***************************************************************************)
(* lab2/iss.c as seen in the same state.  LinkOffset is 0: the pipeline    *)
(* saves a jump's own address in r[7], iss.c the address after it.         *)
(***************************************************************************)
Simulator == INSTANCE Iss
               WITH Lab <- 2, LinkOffset <- 0, pc <- AbsPc, reg <- AbsRegs,
                    mem <- AbsMem, halted <- AbsHalted

\* The next instruction means the same in sp.c and in iss.c, which has one
\* memory, writes reg[0] and reg[1] and reads them in ST and JIN, jumps into
\* its memory, and shifts a signed int.
SameMeaning ==
  AbsPc \in Addr /\
  LET in == Decode(srami[AbsPc])
  IN  /\ AbsMem[AbsPc] = srami[AbsPc]
      /\ in.op \in Writers => in.dst >= 2
      /\ in.op \in {"ST", "JIN"} => in.src0 >= 2
      /\ in.op = "JIN" => in.src0 # 7 /\ AbsRegs[in.src0] \in Addr
      /\ in.op = "LHI" => in.src1 = 1
      /\ in.op = "RSF" => ~Negative(Operand(in.src0, in, AbsRegs))

(***************************************************************************)
(* The two programs shapes the forwarding logic gets wrong, for an         *)
(* instruction k two places after i: its operand is not the value of the   *)
(* last writer.                                                            *)
(***************************************************************************)

\* i writes no register by its dst field, yet EXEC1 forwards for it.
BogusForward(i, k) ==
  /\ i.op \in CondBranches \cup Unassigned \cup {"ST"}
  /\ i.dst >= 2 /\ i.dst \in Reads(k)

\* j, between i and k, rewrites i's register; EXEC1 (holding i) wins.
StaleForward(i, j, k) ==
  /\ i.op \in Writers /\ i.dst >= 2 /\ i.dst \in Reads(k)
  /\ j.op \in AluOps /\ j.dst = i.dst
  /\ ~(i.op = "LD" /\ i.dst \in Reads(j))

ForwardSafe(mem) ==
  \A a \in 0 .. Half - 3 :
     LET i == Decode(mem[a])
         j == Decode(mem[a + 1])
         k == Decode(mem[a + 2])
     IN  ~BogusForward(i, k) /\ ~StaleForward(i, j, k)

SafeInit == Init /\ ForwardSafe(srami)

SafeSpec == SafeInit /\ [][Next]_vars
=============================================================================
