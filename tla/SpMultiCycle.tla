---------------------------- MODULE SpMultiCycle ----------------------------
(***************************************************************************)
(* The multi-cycle SP of src/lab2/sp.c, clock by clock.  One instruction   *)
(* at a time walks through the control states                              *)
(*                                                                         *)
(*   IDLE -> FETCH0 -> FETCH1 -> DEC0 -> DEC1 -> EXEC0 -> EXEC1 -> FETCH0  *)
(*                                                                         *)
(* while a DMA engine, stepped once a clock after sp_ctl, shares with it   *)
(* the single port of the one memory that holds both code and data.        *)
(*                                                                         *)
(* Abstracted: the traces and cycle_counter, which only feeds them.        *)
(***************************************************************************)
EXTENDS LlsimMemory

CONSTANTS
  Images,        \* the memory images a program file may hold
  ResetClocks    \* clocks main() runs with reset raised: 5

ASSUME ImagesAssumption == Images \subseteq [Addr -> Word]
ASSUME ResetAssumption == ResetClocks \in Nat \ {0}

VARIABLES
  resets,       \* reset clocks already run
  status,       \* of the simulator process
  st,           \* ctl_state
  pc, inst,
  i,            \* opcode, dst, src0, src1, immediate
  alu0, alu1, aluout,
  r,            \* register file
  dma,          \* dma_state, dma_src, dma_dst, dma_len, dma_count
  sram,         \* the memory
  dataout,      \* its output latch
  dump          \* contents of sram_out.txt, NoDump before it is written

datapath == <<pc, inst, i, alu0, alu1, aluout, r>>
vars == <<resets, status, st, datapath, dma, sram, dataout, dump>>

Status == {"running", "stopped", "aborted", "undefined"}
CtlState == {"IDLE", "FETCH0", "FETCH1", "DEC0", "DEC1", "EXEC0", "EXEC1"}
NoDump == <<>>

Dma == [state: 0 .. 2, src: Word, dst: Word, len: Word, count: Word]

ZeroInstr == [op |-> "ADD", dst |-> 0, src0 |-> 0, src1 |-> 0, imm |-> 0]
ZeroRegs == [x \in Reg |-> 0]
ZeroDma == [state |-> 0, src |-> 0, dst |-> 0, len |-> 0, count |-> 0]

Resetting == status = "running" /\ resets < ResetClocks
Running == status = "running" /\ resets = ResetClocks

-----------------------------------------------------------------------------
(***************************************************************************)
(* The memory port and the DMA engine.                                     *)
(***************************************************************************)

\* A slip: a load that reads in DEC1, so that EXEC1 comes a clock too late.
CpuPortEarlyLoad ==
  CASE st = "FETCH0" -> ReadPort(pc)
    [] st = "DEC1" /\ i.op = "LD" -> ReadPort(Operand(i.src1, i, r))
    [] st = "EXEC1" /\ i.op = "ST" -> WritePort(aluout, alu0)
    [] OTHER -> IdlePort

CpuPort ==
  CASE st = "FETCH0" -> ReadPort(pc)
    [] st = "EXEC0" /\ i.op = "LD" -> ReadPort(alu1)
    [] st = "EXEC1" /\ i.op = "ST" -> WritePort(aluout, alu0)
    [] OTHER -> IdlePort

DmaPort ==
  CASE dma.state = 1 -> ReadPort((dma.src + dma.count) % WordMod)
    [] dma.state = 2 -> WritePort((dma.dst + dma.count) % WordMod, dataout)
    [] OTHER -> IdlePort

SharedPort ==
  [read   |-> CpuPort.read \/ DmaPort.read,
   raddr  |-> IF CpuPort.read THEN CpuPort.raddr ELSE DmaPort.raddr,
   write  |-> CpuPort.write \/ DmaPort.write,
   waddr  |-> IF CpuPort.write THEN CpuPort.waddr ELSE DmaPort.waddr,
   datain |-> IF CpuPort.write THEN CpuPort.datain ELSE DmaPort.datain]

\* llsim_mem_read and llsim_mem_write refuse a second call in a clock.
Clash == (CpuPort.read /\ DmaPort.read) \/ (CpuPort.write /\ DmaPort.write)

\* JIN indexes r[] with its operand, whatever its value.
JinOutside == st = "EXEC1" /\ i.op = "JIN" /\ alu0 \notin Reg

Faults == Clash \/ PortFaults(SharedPort)
Undefined == ~Clash /\ PortUndefined(SharedPort)

\* What DMA_START leaves in the new registers at the end of sp_ctl.
Captured ==
  IF st = "EXEC1" /\ i.op = "DMA_START"
  THEN [state |-> 1, src |-> r[i.src0], dst |-> r[i.src1], len |-> i.imm, count |-> 0]
  ELSE dma

\* A slip: sp_run without its five assignments keeps what sp_ctl captured.
CarriedOverCaptured(new) == new

\* sp_run assigns the old DMA registers to the new ones after sp_ctl ran.
CarriedOver(new) == dma

DmaAfter ==
  LET new  == CarriedOver(Captured)
      next == (dma.count + 1) % WordMod
  IN  CASE dma.state = 1 -> [new EXCEPT !.state = 2]
        [] dma.state = 2 ->
             [new EXCEPT !.count = next,
                         !.state = IF Signed(next) < Signed(dma.len) THEN 1 ELSE 0]
        [] OTHER -> new

\* Everything a clock does besides sp_ctl's own assignments.
Clock ==
  /\ Running /\ ~Faults
  /\ sram' = MemAfter(sram, SharedPort)
  /\ dataout' = DataoutAfter(sram, dataout, SharedPort)
  /\ dma' = DmaAfter
  /\ UNCHANGED resets

-----------------------------------------------------------------------------
(***************************************************************************)
(* sp_ctl, one action per control state, EXEC1 split by opcode.            *)
(***************************************************************************)

Init ==
  /\ resets = 0
  /\ status = "running"
  /\ st = "IDLE"
  /\ pc = 0 /\ inst = 0 /\ i = ZeroInstr
  /\ alu0 = 0 /\ alu1 = 0 /\ aluout = 0
  /\ r = ZeroRegs
  /\ dma = ZeroDma
  /\ sram \in Images
  /\ dataout = 0
  /\ dump = NoDump

\* sp_run with reset raised: sp_reset clears the registers.
ResetClock ==
  /\ Resetting
  /\ resets' = resets + 1
  /\ st' = "IDLE"
  /\ pc' = 0 /\ inst' = 0 /\ i' = ZeroInstr
  /\ alu0' = 0 /\ alu1' = 0 /\ aluout' = 0
  /\ r' = ZeroRegs
  /\ dma' = ZeroDma
  /\ dataout' = DataoutAfter(sram, dataout, IdlePort)
  /\ UNCHANGED <<status, sram, dump>>

\* A slip: the machine is never told to start.
IdleNotStarting ==
  /\ st = "IDLE" /\ Clock
  /\ pc' = 0
  /\ UNCHANGED <<status, st, inst, i, alu0, alu1, aluout, r, dump>>

\* sp_init sets sp->start.
Idle ==
  /\ st = "IDLE" /\ Clock
  /\ st' = "FETCH0"
  /\ pc' = 0
  /\ UNCHANGED <<status, inst, i, alu0, alu1, aluout, r, dump>>

Fetch0 ==
  /\ st = "FETCH0" /\ Clock
  /\ st' = "FETCH1"
  /\ UNCHANGED <<status, datapath, dump>>

Fetch1 ==
  /\ st = "FETCH1" /\ Clock
  /\ st' = "DEC0"
  /\ inst' = dataout
  /\ UNCHANGED <<status, pc, i, alu0, alu1, aluout, r, dump>>

Dec0 ==
  /\ st = "DEC0" /\ Clock
  /\ st' = "DEC1"
  /\ i' = Decode(inst)
  /\ UNCHANGED <<status, pc, inst, alu0, alu1, aluout, r, dump>>

Operand0 == IF i.op = "LHI" THEN 0 ELSE Operand(i.src0, i, r)
Operand1 == IF i.op = "LHI" THEN i.imm ELSE Operand(i.src1, i, r)

Dec1 ==
  /\ st = "DEC1" /\ Clock
  /\ st' = "EXEC0"
  /\ alu0' = Operand0
  /\ alu1' = Operand1
  /\ UNCHANGED <<status, pc, inst, i, aluout, r, dump>>

\* A slip: a sum that is not cut to a word.
AluResultUnwrapped ==
  IF i.op = "ADD" THEN alu0 + alu1 ELSE 0

AluResult ==
  CASE i.op \in AluOps -> IntAlu(i, alu0, alu1)
    [] i.op \in CondBranches -> IF Taken(i, alu0, alu1) THEN 1 ELSE 0
    [] i.op = "ST" -> alu1
    [] OTHER -> 0

Exec0 ==
  /\ st = "EXEC0" /\ Clock
  /\ st' = "EXEC1"
  /\ aluout' = AluResult
  /\ UNCHANGED <<status, pc, inst, i, alu0, alu1, r, dump>>

\* EXEC1 of every instruction but HLT: on to the next fetch.
Exec1(ops) ==
  /\ st = "EXEC1" /\ i.op \in ops /\ Clock
  /\ st' = "FETCH0"
  /\ UNCHANGED <<status, inst, i, alu0, alu1, aluout, dump>>

NextPc == (pc + 1) % Half

\* r[0] is never written by these, r[1] is.
SetUnless0(v) == IF i.dst = 0 THEN r ELSE [r EXCEPT ![i.dst] = v]

Compute ==
  /\ Exec1(AluOps)
  /\ r' = SetUnless0(aluout)
  /\ pc' = NextPc

\* A slip: LD spares r[0], as the ALU instructions do.
LoadSparingR0 ==
  /\ Exec1({"LD"})
  /\ r' = SetUnless0(dataout)
  /\ pc' = NextPc

\* LD writes r[dst] whatever dst is.
Load ==
  /\ Exec1({"LD"})
  /\ r' = [r EXCEPT ![i.dst] = dataout]
  /\ pc' = NextPc

Branch ==
  /\ Exec1(CondBranches) /\ aluout = 1
  /\ r' = [r EXCEPT ![7] = pc]
  /\ pc' = i.imm % Half

\* The operand selects the register that holds the target.
JumpIndirect ==
  /\ Exec1({"JIN"})
  /\ r' = [r EXCEPT ![7] = pc]
  /\ pc' \in IF JinOutside THEN Addr ELSE {r[alu0] % Half}

DmaStatus ==
  /\ Exec1({"DMA_STATUS"})
  /\ r' = SetUnless0(IF dma.state # 0 THEN 1 ELSE 0)
  /\ pc' = NextPc

\* ST, whose write is on the port; DMA_START, whose capture is above; a
\* branch not taken; an opcode without a case.
Pass ==
  /\ Exec1({"ST", "DMA_START", "U"} \cup CondBranches)
  /\ i.op \in CondBranches => aluout # 1
  /\ pc' = NextPc
  /\ UNCHANGED r

\* A slip: HLT without llsim_stop(), which starts the program again.
HaltRestarting ==
  /\ st = "EXEC1" /\ i.op = "HLT" /\ Clock
  /\ st' = "IDLE"
  /\ dump' = sram
  /\ UNCHANGED <<status, datapath>>

\* HLT dumps the memory and stops the simulator after this clock.
Halt ==
  /\ st = "EXEC1" /\ i.op = "HLT" /\ Clock
  /\ st' = "IDLE"
  /\ dump' = sram
  /\ status' = "stopped"
  /\ UNCHANGED datapath

\* The process ends inside the clock: see LlsimMemory, Clash and JinOutside.
Trap ==
  /\ Running
  /\ \/ Faults /\ status' = IF Undefined THEN "undefined" ELSE "aborted"
     \/ ~Faults /\ JinOutside /\ status' = "undefined"
  /\ dump' = IF st = "EXEC1" /\ i.op = "HLT" THEN sram ELSE dump
  /\ UNCHANGED <<resets, st, datapath, dma, sram, dataout>>

Next ==
  \/ ResetClock \/ Idle \/ Fetch0 \/ Fetch1 \/ Dec0 \/ Dec1 \/ Exec0
  \/ Compute \/ Load \/ Branch \/ JumpIndirect \/ DmaStatus \/ Pass \/ Halt
  \/ Trap

Spec == Init /\ [][Next]_vars

\* main() runs one clock after the other until stop_sim or an exit.
FairSpec == Spec /\ WF_vars(Next)

-----------------------------------------------------------------------------
(***************************************************************************)
(* lab2/iss.c as seen in the machine's state: an instruction executes when *)
(* its EXEC1 clock ends, and HLT moves pc on in iss.c only.  LinkOffset is *)
(* 0: the machine saves the jump's own address in r[7], iss.c the address  *)
(* after it, and nothing else of the jump differs.                         *)
(***************************************************************************)
Stopped == status = "stopped"

AbsPc == IF Stopped THEN pc + 1 ELSE pc

Simulator == INSTANCE Iss
               WITH Lab <- 2, LinkOffset <- 0, pc <- AbsPc, reg <- r, mem <- sram,
                    halted <- Stopped

\* The instructions with one meaning in sp.c and in iss.c.
SameMeaning(in) ==
  /\ in.op \notin {"JIN", "DMA_STATUS"}
  /\ in.op \in AluOps => in.dst # 0
  /\ in.op = "LHI" => in.src0 = 0 /\ in.src1 = 1
  /\ in.op = "ST" => in.src0 >= 2

\* Past the last word sp.c goes on at 0 and iss.c ends.
Wraps == pc = Half - 1 /\ pc' = 0
=============================================================================
