-------------------------- MODULE SpPipelineProofs --------------------------
(***************************************************************************)
(* Proofs about SpPipeline for every width Half, every image set, every    *)
(* decoder and every interpretation of C's bit operators that respects the *)
(* assumptions of SpIsa.                                                   *)
(***************************************************************************)
EXTENDS SpPipelineProperties, SpIsaProofs

-----------------------------------------------------------------------------
(***************************************************************************)
(* Ports, faults and the common part of every clock.                       *)
(***************************************************************************)

\* The ports carry words, and a clock without a fault accesses the memories
\* inside their bounds: the load or store of EXEC0, and the fetch.
LEMMA PortsInRange ==
  ASSUME TypeOK
  PROVE  /\ SramdPort \in Port
         /\ SramdPort.read <=> exec0.active /\ exec0.in.op = "LD"
         /\ SramdPort.write <=> exec0.active /\ exec0.in.op = "ST"
         /\ SramdPort.read => SramdPort.raddr = exec0.alu1
         /\ SramdPort.write => SramdPort.waddr = exec0.alu1 /\ SramdPort.datain = exec0.alu0
         /\ ~Faults /\ exec0.active /\ exec0.in.op \in {"LD", "ST"} => exec0.alu1 \in Addr
         /\ ~Faults /\ ~Stall /\ fetch0.active => fetch0.pc \in Addr
<1> DEFINE ld == exec0.active /\ exec0.in.op = "LD"
           st == exec0.active /\ exec0.in.op = "ST"
<1>1. exec0.alu0 \in Word /\ exec0.alu1 \in Word /\ fetch0.pc \in Word /\ 0 \in Word
  BY WordRange DEF TypeOK, Exec0Latch, FetchLatch
<1>2. /\ ld => SramdPort = ReadPort(exec0.alu1)
      /\ st => SramdPort = WritePort(exec0.alu1, exec0.alu0)
      /\ ~ld /\ ~st => SramdPort = IdlePort
  BY DEF SramdPort
<1>3. \A a \in Word : /\ ReadPort(a) \in Port
                      /\ ReadPort(a).read /\ ~ReadPort(a).write
                      /\ ReadPort(a).raddr = a
  BY WordRange DEF ReadPort, IdlePort, Port
<1>4. \A a, d \in Word : /\ WritePort(a, d) \in Port
                         /\ ~WritePort(a, d).read /\ WritePort(a, d).write
                         /\ WritePort(a, d).waddr = a
                         /\ WritePort(a, d).datain = d
  BY WordRange DEF WritePort, IdlePort, Port
<1>5. IdlePort \in Port /\ ~IdlePort.read /\ ~IdlePort.write
  BY WordRange DEF IdlePort, Port
<1>6. \A a \in Word : ~AddrAsserts(a) /\ ~AddrUndefined(a) => a \in Addr
  BY InRangeIsAddr DEF AddrAsserts, AddrUndefined
<1>7. ~(ld /\ st)
  OBVIOUS
<1>8. /\ SramdPort \in Port
      /\ SramdPort.read <=> ld
      /\ SramdPort.write <=> st
      /\ SramdPort.read => SramdPort.raddr = exec0.alu1
      /\ SramdPort.write => SramdPort.waddr = exec0.alu1 /\ SramdPort.datain = exec0.alu0
  <2>1. CASE ld
    BY <2>1, <1>1, <1>2, <1>3, <1>7
  <2>2. CASE st
    BY <2>2, <1>1, <1>2, <1>4, <1>7
  <2>3. CASE ~ld /\ ~st
    BY <2>3, <1>2, <1>5
  <2> QED
    BY <2>1, <2>2, <2>3
<1>9. ASSUME ~Faults, ld \/ st
      PROVE  exec0.alu1 \in Addr
  <2>1. ~PortFaults(SramdPort)
    BY <1>9 DEF Faults
  <2> QED
    BY <2>1, <1>1, <1>6, <1>8, <1>9 DEF PortFaults, PortAsserts, PortUndefined
<1>10. ASSUME ~Faults, ~Stall, fetch0.active
       PROVE  fetch0.pc \in Addr
  <2>1. SramiPort = ReadPort(fetch0.pc) /\ ~PortFaults(SramiPort)
    BY <1>10 DEF Faults, SramiPort
  <2> QED
    BY <2>1, <1>1, <1>3, <1>6 DEF PortFaults, PortAsserts, PortUndefined
<1> QED
  BY <1>8, <1>9, <1>10

\* The memory and its latch after a clock without a fault.
LEMMA MemoryAfter ==
  ASSUME TypeOK, ~Faults
  PROVE  /\ MemAfter(sramd, SramdPort) \in [Addr -> Word]
         /\ DataoutAfter(sramd, dataout, SramdPort) \in Word
         /\ exec0.active /\ exec0.in.op = "LD" =>
               /\ MemAfter(sramd, SramdPort) = sramd
               /\ DataoutAfter(sramd, dataout, SramdPort) = sramd[exec0.alu1]
         /\ exec0.active /\ exec0.in.op = "ST" =>
               MemAfter(sramd, SramdPort) = [sramd EXCEPT ![exec0.alu1] = exec0.alu0]
         /\ ~(exec0.active /\ exec0.in.op = "ST") => MemAfter(sramd, SramdPort) = sramd
<1>1. sramd \in [Addr -> Word] /\ dataout \in Word /\ exec0.alu0 \in Word
  BY DEF TypeOK, Exec0Latch
<1>2. CASE exec0.active /\ exec0.in.op = "LD"
  BY <1>1, <1>2, PortsInRange DEF MemAfter, DataoutAfter
<1>3. CASE exec0.active /\ exec0.in.op = "ST"
  BY <1>1, <1>3, PortsInRange DEF MemAfter, DataoutAfter
<1>4. CASE ~(exec0.active /\ exec0.in.op = "LD") /\ ~(exec0.active /\ exec0.in.op = "ST")
  BY <1>1, <1>4, PortsInRange, PoisonAssumption DEF MemAfter, DataoutAfter
<1> QED
  BY <1>2, <1>3, <1>4

\* Write-back keeps the register file's type.
LEMMA WriteBackType ==
  ASSUME NEW regs \in [Reg -> Word], NEW l \in Exec1Latch, NEW out \in Word
  PROVE  WriteBack(regs, l, out) \in [Reg -> Word]
<1>1. l.in.dst \in Reg /\ l.aluout \in Word /\ l.pc \in Word
  BY DEF Exec1Latch, Instr
<1>2. [regs EXCEPT ![7] = l.pc] \in [Reg -> Word]
  BY <1>1 DEF Reg
<1> QED
  BY <1>1, <1>2, SetRegType DEF WriteBack

\* Write-back, one opcode class at a time.
LEMMA WriteBackCases ==
  ASSUME NEW regs, NEW l \in Exec1Latch, NEW out
  PROVE  /\ l.active /\ l.in.op \in AluOps =>
               WriteBack(regs, l, out) = SetReg(regs, l.in.dst, l.aluout)
         /\ l.active /\ l.in.op = "LD" =>
               WriteBack(regs, l, out) = SetReg(regs, l.in.dst, out)
         /\ l.active /\ Taken(l.in, l.alu0, l.alu1) =>
               WriteBack(regs, l, out) = [regs EXCEPT ![7] = l.pc]
         /\ ~l.active \/ (l.in.op \notin Writers /\ ~Taken(l.in, l.alu0, l.alu1)) =>
               WriteBack(regs, l, out) = regs
<1>1. l.in \in Instr
  BY DEF Exec1Latch
<1>2. /\ l.in.op \in Writers => ~Taken(l.in, l.alu0, l.alu1)
      /\ l.in.op \in AluOps => l.in.op # "LD"
      /\ l.in.op \in Writers <=> l.in.op \in AluOps \/ l.in.op = "LD"
  BY <1>1, OpcodeClasses DEF Writers
<1> QED
  BY <1>2 DEF WriteBack

\* Promotion to EXEC1 keeps its type.
LEMMA PromoteType ==
  ASSUME NEW l \in Exec0Latch
  PROVE  Promote(l) \in Exec1Latch
<1>1. Alu(l.in, l.alu0, l.alu1) \in Word /\ 0 \in Word
  BY AluType, WordRange DEF Exec0Latch
<1> QED
  BY <1>1 DEF Promote, Exec0Latch, Exec1Latch

\* The operand DEC1 builds is a word.
LEMMA FreshOperandType ==
  ASSUME TypeOK, NEW s \in Reg
  PROVE  FreshOperand(s) \in Word
<1>1. Exec1Value \in Word
  BY DEF Exec1Value, TypeOK, Exec1Latch
<1>2. Exec0Value \in Word
  BY AluType DEF Exec0Value, TypeOK, Exec0Latch
<1>3. Operand(s, dec1.in, r) \in Word
  BY OperandType DEF TypeOK, DecLatch
<1> QED
  BY <1>1, <1>2, <1>3 DEF FreshOperand

\* What every run clock does keeps the types of what it assigns.
LEMMA ExecuteType ==
  ASSUME TypeOK, Execute
  PROVE  /\ resets' \in 0 .. ResetClocks
         /\ status' \in Status
         /\ r' \in [Reg -> Word]
         /\ exec1' \in Exec1Latch
         /\ srami' \in [Addr -> Word]
         /\ sramd' \in [Addr -> Word]
         /\ dataout' \in Word
         /\ dump' \in [Addr -> Word] \cup {NoDump}
<1> USE DEF Execute, TypeOK
<1>1. r' \in [Reg -> Word]
  BY WriteBackType
<1>2. exec1' \in Exec1Latch
  BY PromoteType
<1>3. sramd' \in [Addr -> Word] /\ dataout' \in Word
  BY MemoryAfter
<1>4. dump' \in [Addr -> Word] \cup {NoDump}
  BY DEF Dump
<1> QED
  BY <1>1, <1>2, <1>3, <1>4 DEF Status

\* The next fetch address is a word.
LEMMA NextPcType ==
  ASSUME TypeOK, ~Faults, ~Stall
  PROVE  NextPc \in Word
<1>1. fetch0.active => fetch0.pc + 1 \in Word
  BY PortsInRange, WordRange
<1>2. BranchTarget \in Word
  BY TargetType DEF BranchTarget, TypeOK, Exec0Latch
<1> QED
  BY <1>1, <1>2, WordRange DEF NextPc

-----------------------------------------------------------------------------
(***************************************************************************)
(* Type correctness.                                                       *)
(***************************************************************************)

LEMMA ZeroTypes ==
  /\ ZeroRegs \in [Reg -> Word]
  /\ ZeroFetch \in FetchLatch
  /\ ZeroInst \in InstLatch
  /\ ZeroDec \in DecLatch
  /\ ZeroExec0 \in Exec0Latch
  /\ ZeroExec1 \in Exec1Latch
<1>1. ZeroInstr \in Instr
  BY WordRange DEF ZeroInstr, Instr, Opcode, AluOps, Reg
<1> QED
  BY <1>1, WordRange DEF ZeroRegs, ZeroFetch, ZeroInst, ZeroDec, ZeroExec0, ZeroExec1,
                         FetchLatch, InstLatch, DecLatch, Exec0Latch, Exec1Latch

\* The five clocks of a reset leave every variable of its type.
LEMMA TypeInit == Init => TypeOK
<1> SUFFICES ASSUME Init PROVE TypeOK
  OBVIOUS
<1>1. srami \in [Addr -> Word]
  BY ImagesAssumption DEF Init
<1> QED
  BY <1>1, ZeroTypes, WordRange, ResetAssumption DEF Init, TypeOK, Status

LEMMA TypeNext == TypeOK /\ [Next]_vars => TypeOK'
<1> SUFFICES ASSUME TypeOK, [Next]_vars PROVE TypeOK'
  OBVIOUS
<1>1. CASE ResetClock
  <2>1. dataout' \in Word
    BY <1>1, PoisonAssumption DEF ResetClock, DataoutAfter, IdlePort, TypeOK
  <2>2. resets' \in 0 .. ResetClocks
    BY <1>1, ResetAssumption DEF ResetClock, Resetting, TypeOK
  <2> QED
    BY <1>1, <2>1, <2>2, ZeroTypes DEF ResetClock, TypeOK
<1>2. CASE StallClock
  <2>1. exec0' \in Exec0Latch
    BY <1>2 DEF StallClock, TypeOK, Exec0Latch
  <2> QED
    BY <1>2, <2>1, ExecuteType DEF StallClock, TypeOK
<1>3. CASE FlushClock
  <2>1. exec0' \in Exec0Latch /\ dec1' \in DecLatch
    BY <1>3 DEF FlushClock, TypeOK, Exec0Latch, DecLatch
  <2>2. dec0' \in InstLatch /\ fetch1' \in InstLatch
    BY <1>3 DEF FlushClock, TypeOK, InstLatch
  <2>3. fetch0' \in FetchLatch
    BY <1>3, NextPcType DEF FlushClock, Execute, FetchLatch
  <2> QED
    BY <1>3, <2>1, <2>2, <2>3, ExecuteType DEF FlushClock, TypeOK
<1>4. CASE AdvanceClock
  <2>1. dec1.in.src0 \in Reg /\ dec1.in.src1 \in Reg
    BY DEF TypeOK, DecLatch, Instr
  <2>2. exec0' \in Exec0Latch
    BY <1>4, <2>1, FreshOperandType DEF AdvanceClock, TypeOK, DecLatch, Exec0Latch
  <2>3. dec1' \in DecLatch
    BY <1>4, DecodeAssumption DEF AdvanceClock, TypeOK, InstLatch, DecLatch
  <2>4. fetch1' \in InstLatch
    BY <1>4, PortsInRange DEF AdvanceClock, Execute, TypeOK, FetchLatch, InstLatch
  <2>5. fetch0' \in FetchLatch
    BY <1>4, NextPcType DEF AdvanceClock, Execute, FetchLatch
  <2> QED
    BY <1>4, <2>2, <2>3, <2>4, <2>5, ExecuteType DEF AdvanceClock, TypeOK
<1>5. CASE TrapClock
  BY <1>5 DEF TrapClock, Dump, TypeOK, Status
<1>6. CASE UNCHANGED vars
  BY <1>6 DEF vars, TypeOK
<1> QED
  BY <1>1, <1>2, <1>3, <1>4, <1>5, <1>6 DEF Next

\* The pipeline's variables keep their types whatever program is loaded: in
\* particular no fetch address, operand, result or link address ever leaves
\* the words.
THEOREM PipelineTypeOK == Spec => []TypeOK
  BY TypeInit, TypeNext, PTL DEF Spec

-----------------------------------------------------------------------------
(***************************************************************************)
(* The inductive invariant.  Freshness of the operands is not inductive by *)
(* itself: it needs that a register's last writers are where the hazard    *)
(* logic looks for them (order), that what EXEC1 offers is what it commits *)
(* (the data port), and that nothing behind a taken branch survives.       *)
(***************************************************************************)
Inv ==
  /\ TypeOK
  /\ FrontInOrder
  /\ BackInOrder
  /\ WrongPathSquashed
  /\ LoadDataValid
  /\ LoadUseSeparated
  /\ SafeOperandsFresh
  /\ CutShortForAReason

\* Running and having stopped exclude each other.
LEMMA RunningNotStopped == Running => ~Stopped
  BY DEF Running, Stopped

\* What Execute leaves in EXEC1 and in the status.
LEMMA ExecuteEffect ==
  ASSUME TypeOK, Execute
  PROVE  /\ exec1'.active = exec0.active /\ exec1'.pc = exec0.pc /\ exec1'.in = exec0.in
         /\ exec1'.alu0 = exec0.alu0 /\ exec1'.alu1 = exec0.alu1
         /\ Exec1Taken' <=> BranchTaken
         /\ Stopped' <=> Halting
         /\ srami' = srami
         /\ status' \in {"running", "stopped"}
  BY DEF Execute, Promote, Exec1Taken, BranchTaken, Stopped, TypeOK, Exec0Latch

LEMMA FrontInOrderNext == Inv /\ [Next]_vars => FrontInOrder'
<1> SUFFICES ASSUME Inv, [Next]_vars PROVE FrontInOrder'
  OBVIOUS
<1> USE DEF Inv
<1>1. CASE ResetClock
  BY <1>1 DEF ResetClock, ZeroFetch, ZeroInst, ZeroDec, ZeroExec0, FrontInOrder
<1>2. CASE StallClock
  BY <1>2 DEF StallClock, Execute, FrontInOrder
<1>3. CASE FlushClock
  BY <1>3 DEF FlushClock, Execute, FrontInOrder
<1>4. CASE AdvanceClock
  <2>1. fetch0.active => fetch0.pc \in Addr
    BY <1>4, PortsInRange DEF AdvanceClock, Execute
  <2>2. fetch0.active => fetch0'.pc = fetch0.pc + 1
    BY <1>4 DEF AdvanceClock, NextPc
  <2>3. srami' = srami /\ fetch0'.active
    BY <1>4 DEF AdvanceClock, Execute
  <2>4. /\ fetch1'.active = fetch0.active /\ fetch1'.pc = fetch0.pc
        /\ fetch0.active => fetch1'.inst = srami[fetch0.pc]
    BY <1>4 DEF AdvanceClock
  <2>5. /\ dec0' = fetch1
        /\ dec1'.active = dec0.active /\ dec1'.pc = dec0.pc
        /\ dec0.active => dec1'.in = Decode(dec0.inst)
    BY <1>4 DEF AdvanceClock
  <2>6. exec0'.active = dec1.active /\ exec0'.pc = dec1.pc /\ exec0'.in = dec1.in
    BY <1>4 DEF AdvanceClock
  <2> QED
    BY <2>1, <2>2, <2>3, <2>4, <2>5, <2>6 DEF FrontInOrder
<1>5. CASE TrapClock
  BY <1>5 DEF TrapClock, FrontInOrder
<1>6. CASE UNCHANGED vars
  BY <1>6 DEF vars, FrontInOrder
<1> QED
  BY <1>1, <1>2, <1>3, <1>4, <1>5, <1>6 DEF Next

LEMMA BackInOrderNext == Inv /\ [Next]_vars => BackInOrder'
<1> SUFFICES ASSUME Inv, [Next]_vars PROVE BackInOrder'
  OBVIOUS
<1> USE DEF Inv
<1>1. CASE ResetClock
  BY <1>1 DEF ResetClock, ZeroExec1, BackInOrder
<1>2. CASE StallClock
  BY <1>2, ExecuteEffect DEF StallClock, Stall, FrontInOrder, BackInOrder
<1>3. CASE FlushClock
  <2>1. Exec1Taken' /\ ~exec0'.active /\ ~dec1'.active
    BY <1>3, ExecuteEffect DEF FlushClock, TypeOK, Exec0Latch, DecLatch
  <2> QED
    BY <1>3, <2>1, ExecuteEffect DEF FlushClock, FrontInOrder, BackInOrder
<1>4. CASE AdvanceClock
  <2>1. exec0.active => dec1.active /\ dec0.active
    BY DEF FrontInOrder
  <2>2. exec0'.active = dec1.active /\ exec0'.pc = dec1.pc /\ dec1'.active = dec0.active
    BY <1>4 DEF AdvanceClock
  <2> QED
    BY <1>4, <2>1, <2>2, ExecuteEffect DEF AdvanceClock, FrontInOrder, BackInOrder
<1>5. CASE TrapClock
  BY <1>5, RunningNotStopped DEF TrapClock, BackInOrder, Exec1Taken, Stopped
<1>6. CASE UNCHANGED vars
  BY <1>6 DEF vars, BackInOrder, Exec1Taken, Stopped
<1> QED
  BY <1>1, <1>2, <1>3, <1>4, <1>5, <1>6 DEF Next

LEMMA WrongPathSquashedNext == Inv /\ [Next]_vars => WrongPathSquashed'
<1> SUFFICES ASSUME Inv, [Next]_vars PROVE WrongPathSquashed'
  OBVIOUS
<1> USE DEF Inv
<1>1. CASE ResetClock
  BY <1>1 DEF ResetClock, ZeroExec1, WrongPathSquashed, Exec1Taken
<1>2. CASE StallClock
  <2>1. ~BranchTaken
    BY <1>2 DEF StallClock, Stall, BranchTaken, Taken
  <2> QED
    BY <1>2, <2>1, ExecuteEffect DEF StallClock, WrongPathSquashed
<1>3. CASE FlushClock
  <2>1. fetch0.active
    BY <1>3 DEF FlushClock, BranchTaken, FrontInOrder
  <2>2. /\ ~exec0'.active /\ ~dec1'.active /\ ~dec0'.active /\ ~fetch1'.active
        /\ fetch0'.active /\ fetch0'.pc = Target(exec0.in, exec0.alu0)
    BY <1>3, <2>1 DEF FlushClock, NextPc, BranchTarget, TypeOK,
                      Exec0Latch, DecLatch, InstLatch
  <2> QED
    BY <1>3, <2>2, ExecuteEffect DEF FlushClock, WrongPathSquashed
<1>4. CASE AdvanceClock
  BY <1>4, ExecuteEffect DEF AdvanceClock, WrongPathSquashed
<1>5. CASE TrapClock
  BY <1>5, RunningNotStopped DEF TrapClock, WrongPathSquashed, Exec1Taken, Stopped
<1>6. CASE UNCHANGED vars
  BY <1>6 DEF vars, WrongPathSquashed, Exec1Taken, Stopped
<1> QED
  BY <1>1, <1>2, <1>3, <1>4, <1>5, <1>6 DEF Next

LEMMA LoadDataValidNext == Inv /\ [Next]_vars => LoadDataValid'
<1> SUFFICES ASSUME Inv, [Next]_vars PROVE LoadDataValid'
  OBVIOUS
<1> USE DEF Inv
<1>1. CASE ResetClock
  BY <1>1 DEF ResetClock, ZeroExec1, LoadDataValid
<1>2. ASSUME Execute PROVE LoadDataValid'
  <2> SUFFICES ASSUME exec0.active, exec0.in.op = "LD"
               PROVE  exec0.alu1 \in Addr /\ dataout' = sramd'[exec0.alu1]
    BY <1>2, ExecuteEffect DEF LoadDataValid
  <2>1. exec0.alu1 \in Addr
    BY <1>2, PortsInRange DEF Execute
  <2> QED
    BY <1>2, <2>1, MemoryAfter DEF Execute
<1>3. CASE TrapClock
  BY <1>3, RunningNotStopped DEF TrapClock, LoadDataValid, Stopped
<1>4. CASE UNCHANGED vars
  BY <1>4 DEF vars, LoadDataValid, Stopped
<1> QED
  BY <1>1, <1>2, <1>3, <1>4 DEF Next, StallClock, FlushClock, AdvanceClock

LEMMA LoadUseSeparatedNext == Inv /\ [Next]_vars => LoadUseSeparated'
<1> SUFFICES ASSUME Inv, [Next]_vars PROVE LoadUseSeparated'
  OBVIOUS
<1> USE DEF Inv
<1>1. CASE ResetClock
  BY <1>1 DEF ResetClock, ZeroExec1, LoadUseSeparated
<1>2. CASE StallClock
  BY <1>2 DEF StallClock, LoadUseSeparated, TypeOK, Exec0Latch
<1>3. CASE FlushClock
  BY <1>3 DEF FlushClock, LoadUseSeparated, TypeOK, Exec0Latch
<1>4. CASE AdvanceClock
  BY <1>4, ExecuteEffect DEF AdvanceClock, LoadUseSeparated, Stall
<1>5. CASE TrapClock
  BY <1>5, RunningNotStopped DEF TrapClock, LoadUseSeparated, Stopped
<1>6. CASE UNCHANGED vars
  BY <1>6 DEF vars, LoadUseSeparated, Stopped
<1> QED
  BY <1>1, <1>2, <1>3, <1>4, <1>5, <1>6 DEF Next

LEMMA CutShortForAReasonNext == Inv /\ [Next]_vars => CutShortForAReason'
<1> SUFFICES ASSUME Inv, [Next]_vars PROVE CutShortForAReason'
  OBVIOUS
<1> USE DEF Inv
<1>1. CASE ResetClock
  BY <1>1 DEF ResetClock, Resetting, CutShortForAReason
<1>2. CASE StallClock \/ FlushClock \/ AdvanceClock
  BY <1>2, ExecuteEffect DEF StallClock, FlushClock, AdvanceClock, CutShortForAReason
<1>3. CASE TrapClock
  <2>1. UNCHANGED <<exec0, exec1, dec1, dec0, fetch1, fetch0>> /\ ~Stopped /\ ~Stopped'
    BY <1>3, RunningNotStopped DEF TrapClock, Stopped
  <2>2. AbsPc' = AbsPc
    BY <2>1 DEF AbsPc
  <2>3. exec0.alu1 \in Word /\ fetch0.pc \in Word
    BY DEF TypeOK, Exec0Latch, FetchLatch
  <2>4. PortUndefined(SramdPort) => DataAccess /\ Negative(exec0.alu1)
    BY PortsInRange DEF PortUndefined, AddrUndefined, DataAccess
  <2>5. PortAsserts(SramdPort) =>
           DataAccess /\ exec0.alu1 >= Half /\ ~Negative(exec0.alu1)
    BY PortsInRange DEF PortAsserts, AddrAsserts, DataAccess
  <2>6. /\ PortAsserts(SramiPort) =>
              fetch0.active /\ fetch0.pc >= Half /\ ~Negative(fetch0.pc)
        /\ PortUndefined(SramiPort) => fetch0.active /\ Negative(fetch0.pc)
    BY DEF SramiPort, ReadPort, IdlePort, PortAsserts, PortUndefined, AddrAsserts,
           AddrUndefined
  <2>7. Negative(fetch0.pc) \/ fetch0.pc \notin Addr => fetch0.pc >= Half
    BY <2>3, InRangeIsAddr, HalfAssumption, WordRange DEF Word, Addr
  \* The prefetch is at most four words ahead of the sequential machine.
  <2>8. ASSUME fetch0.active, fetch0.pc >= Half
        PROVE  AbsPc + 4 >= Half /\ (~Negative(fetch0.pc) => ~Negative(AbsPc))
    <3>1. /\ fetch1.active => fetch1.pc \in Int /\ fetch0.pc = fetch1.pc + 1
          /\ dec0.active => fetch1.active /\ dec0.pc \in Int /\ fetch1.pc = dec0.pc + 1
          /\ dec1.active => dec0.active /\ dec1.pc \in Int /\ dec0.pc = dec1.pc + 1
          /\ exec0.active => dec1.active /\ exec0.pc \in Int /\ dec1.pc = exec0.pc + 1
          /\ fetch0.pc \in Int
      BY <2>3, <2>8 DEF FrontInOrder, Addr, Word
    <3>2. AbsPc \in Int /\ AbsPc <= fetch0.pc /\ fetch0.pc <= AbsPc + 4
      BY <2>1, <2>8, <3>1 DEF AbsPc
    <3>3. AbsPc + 4 >= Half
      BY <2>8, <3>1, <3>2, HalfAssumption
    <3>4. ~Negative(fetch0.pc) => ~Negative(AbsPc)
      BY <3>1, <3>2, WordRange DEF Negative
    <3> QED
      BY <3>3, <3>4
  <2>9. CASE ~Undefined /\ status' = "aborted"
    <3>1. PortAsserts(SramdPort) \/ PortAsserts(SramiPort)
      BY <1>3, <2>9 DEF TrapClock, Faults, Undefined, PortFaults
    <3>2. CASE PortAsserts(SramdPort)
      BY <2>1, <2>5, <2>9, <3>2 DEF CutShortForAReason, DataAccess
    <3>3. CASE PortAsserts(SramiPort)
      BY <2>2, <2>6, <2>8, <2>9, <3>3 DEF CutShortForAReason
    <3> QED
      BY <3>1, <3>2, <3>3
  <2>10. CASE (Undefined \/ FetchReadsOutside) /\ status' = "undefined"
    <3>1. CASE PortUndefined(SramdPort)
      BY <2>1, <2>4, <2>10, <3>1 DEF CutShortForAReason, DataAccess
    <3>2. CASE PortUndefined(SramiPort) \/ FetchReadsOutside
      <4>1. fetch0.active /\ fetch0.pc >= Half
        BY <2>6, <2>7, <3>2 DEF FetchReadsOutside
      <4> QED
        BY <2>2, <2>8, <2>10, <4>1 DEF CutShortForAReason
    <3> QED
      BY <2>10, <3>1, <3>2 DEF Undefined
  <2> QED
    BY <1>3, <2>9, <2>10 DEF TrapClock
<1>4. CASE UNCHANGED vars
  BY <1>4 DEF vars, CutShortForAReason, DataAccess, AbsPc, Stopped
<1> QED
  BY <1>1, <1>2, <1>3, <1>4 DEF Next

\* Where EXEC1 may stand, seen from an instruction in DEC1 that does not
\* wait: two places ahead, or one place ahead as the load it waited for.
LEMMA Exec1Position ==
  ASSUME Inv, Running, dec1.active, exec1.active
  PROVE  /\ ~Exec1Taken
         /\ exec0.active => dec1.pc = exec1.pc + 2 /\ exec0.pc = exec1.pc + 1
         /\ ~exec0.active => exec1.in.op = "LD"
  BY RunningNotStopped DEF Inv, BackInOrder, FrontInOrder, WrongPathSquashed, Addr, Exec1Taken

\* In a safe program that is not about to stop, EXEC1 forwards only what it
\* commits, and never a register EXEC0 is about to rewrite.
LEMMA ForwardingIsSound ==
  ASSUME Inv, Running, ~Stall, ~Halting, ForwardSafe(srami),
         NEW s \in Reads(dec1.in), Exec1Forwards(s)
  PROVE  /\ exec1.in.op \in Writers
         /\ ~(exec0.active /\ exec0.in.op \in AluOps /\ exec0.in.dst = s)
<1>1. dec1.active /\ exec1.active /\ exec1.in.dst >= 2 /\ exec1.in.dst = s
  BY DEF Exec1Forwards
<1>2. CASE ~exec0.active
  BY <1>1, <1>2, Exec1Position DEF Writers
<1>3. CASE exec0.active
  <2>1. /\ dec1.pc = exec1.pc + 2 /\ exec0.pc = exec1.pc + 1 /\ ~Exec1Taken
        /\ exec1.pc \in Addr /\ dec1.pc \in Addr
        /\ exec1.in = Decode(srami[exec1.pc])
        /\ exec0.in = Decode(srami[exec1.pc + 1])
        /\ dec1.in = Decode(srami[exec1.pc + 2])
    BY <1>1, <1>3, Exec1Position, RunningNotStopped DEF Inv, FrontInOrder, BackInOrder
  <2>2. exec1.pc \in 0 .. Half - 3
    BY <2>1, HalfAssumption DEF Addr
  <2>3. ~BogusForward(exec1.in, dec1.in) /\ ~StaleForward(exec1.in, exec0.in, dec1.in)
    BY <2>1, <2>2 DEF ForwardSafe
  <2>4. exec1.in.op \in Opcode /\ exec1.in.op # "HLT" /\ exec1.in.op # "JIN"
    BY <1>1, <2>1 DEF Inv, TypeOK, Exec1Latch, Instr, Halting, Exec1Taken, Taken
  <2>5. exec1.in.op \in Writers
    BY <1>1, <2>3, <2>4 DEF BogusForward, Opcode, Writers
  <2>6. ~(exec1.in.op = "LD" /\ exec1.in.dst \in Reads(exec0.in))
    BY <1>1, <1>3, RunningNotStopped DEF Inv, LoadUseSeparated
  <2> QED
    BY <1>1, <2>3, <2>5, <2>6 DEF StaleForward
<1> QED
  BY <1>2, <1>3

\* The register file the sequential machine will have after this clock, seen
\* at a register that DEC1 is about to read.
LEMMA FreshIsArchitectural ==
  ASSUME Inv, Running, Execute, ~Stall, ~BranchTaken, ~Halting, dec1.active,
         ForwardSafe(srami), NEW s \in Reads(dec1.in)
  PROVE  FreshOperand(s) = Operand(s, dec1.in, AbsRegs')
<1> DEFINE R1 == WriteBack(r, exec1, dataout)
           L == Promote(exec0)
<1>0. TypeOK /\ exec1 \in Exec1Latch /\ L \in Exec1Latch
  BY PromoteType DEF Inv, TypeOK
<1>1. /\ s \in Reg /\ r \in [Reg -> Word] /\ R1 \in [Reg -> Word]
      /\ exec0.in \in Instr /\ exec1.in \in Instr
      /\ exec1.in.dst \in Reg /\ exec0.in.dst \in Reg
      /\ exec1.aluout \in Word /\ dataout \in Word
  BY <1>0, WriteBackType DEF TypeOK, DecLatch, Exec1Latch, Exec0Latch, Instr, Reads
<1>2. AbsRegs' = WriteBack(R1, L, dataout')
  BY <1>0, ExecuteEffect DEF AbsRegs, Execute
<1>3. /\ L.active = exec0.active /\ L.in = exec0.in
      /\ L.alu0 = exec0.alu0 /\ L.alu1 = exec0.alu1
      /\ exec0.active => L.aluout = Exec0Value
  BY DEF Promote, Exec0Value
<1>4. Exec0Value \in Word /\ dataout' \in Word
  BY <1>0, AluType, ExecuteType DEF Exec0Value, TypeOK, Exec0Latch
<1> HIDE DEF R1, L
<1>5. CASE s < 2
  <2>1. s = 0 \/ s = 1
    BY <1>1, <1>5 DEF Reg
  <2>2. ~Exec1Forwards(s) /\ ~Exec0Forwards(s)
    BY <1>1, <2>1 DEF Exec1Forwards, Exec0Forwards, Reg
  <2> QED
    BY <2>1, <2>2 DEF FreshOperand, Operand
<1>6. CASE s >= 2
  <2>1. Operand(s, dec1.in, AbsRegs') = AbsRegs'[s] /\ Operand(s, dec1.in, r) = r[s]
    BY <1>1, <1>6 DEF Operand, Reg
  <2>2. AbsRegs'[s] = IF exec0.active /\ exec0.in.op \in AluOps /\ exec0.in.dst = s
                      THEN Exec0Value ELSE R1[s]
    <3>1. CASE ~exec0.active
      BY <1>0, <1>2, <1>3, <3>1, WriteBackCases
    <3>2. CASE exec0.active /\ exec0.in.op \in AluOps
      <4>1. AbsRegs' = SetReg(R1, exec0.in.dst, Exec0Value)
        <5>1. L.active /\ L.in.op \in AluOps
          BY <1>3, <3>2
        <5>2. WriteBack(R1, L, dataout') = SetReg(R1, L.in.dst, L.aluout)
          BY <1>0, <5>1, WriteBackCases
        <5> QED
          BY <1>2, <1>3, <3>2, <5>2
      <4> QED
        BY <1>1, <1>4, <1>6, <3>2, <4>1, SetRegAt
    <3>3. CASE exec0.active /\ exec0.in.op = "LD"
      <4>1. AbsRegs' = SetReg(R1, exec0.in.dst, dataout')
        <5>1. L.active /\ L.in.op = "LD"
          BY <1>3, <3>3
        <5>2. WriteBack(R1, L, dataout') = SetReg(R1, L.in.dst, dataout')
          BY <1>0, <5>1, WriteBackCases
        <5> QED
          BY <1>2, <1>3, <5>2
      <4>2. ~(exec0.in.dst >= 2 /\ exec0.in.dst = s)
        BY <3>3 DEF Stall
      <4>3. exec0.in.op \notin AluOps
        BY <3>3 DEF AluOps
      <4> QED
        BY <1>1, <1>4, <4>1, <4>2, <4>3, SetRegAt
    <3>4. CASE exec0.active /\ exec0.in.op \notin Writers
      BY <1>0, <1>2, <1>3, <3>4, WriteBackCases DEF BranchTaken, Writers
    <3> QED
      BY <3>1, <3>2, <3>3, <3>4 DEF Writers
  <2>3. CASE Exec1Forwards(s)
    <3>1. FreshOperand(s) = Exec1Value
      BY <2>3 DEF FreshOperand
    <3>2. AbsRegs'[s] = R1[s] /\ exec1.in.op \in Writers
      BY <2>2, <2>3, ForwardingIsSound
    <3>3. exec1.active /\ exec1.in.dst = s
      BY <2>3 DEF Exec1Forwards
    <3>4. R1 = SetReg(r, exec1.in.dst, Exec1Value)
      BY <1>0, <1>1, <3>2, <3>3, WriteBackCases, OpcodeClasses DEF R1, Exec1Value, Writers
    <3>5. Exec1Value \in Word
      BY <1>1 DEF Exec1Value
    <3>6. R1[s] = Exec1Value
      BY <1>1, <1>6, <3>3, <3>4, <3>5, SetRegAt
    <3> QED
      BY <2>1, <3>1, <3>2, <3>6
  <2>4. CASE ~Exec1Forwards(s)
    <3>1. ~Exec1Taken
      BY Exec1Position DEF Exec1Taken
    <3>2. ~(exec1.active /\ exec1.in.dst >= 2 /\ exec1.in.dst = s)
      BY <2>4 DEF Exec1Forwards
    <3>3. R1[s] = r[s]
      <4>1. CASE exec1.active /\ exec1.in.op \in AluOps
        BY <1>0, <1>1, <3>2, <4>1, WriteBackCases, SetRegAt DEF R1
      <4>2. CASE exec1.active /\ exec1.in.op = "LD"
        BY <1>0, <1>1, <3>2, <4>2, WriteBackCases, SetRegAt DEF R1
      <4>3. CASE ~exec1.active \/ exec1.in.op \notin Writers
        BY <1>0, <3>1, <4>3, WriteBackCases DEF R1, Exec1Taken
      <4> QED
        BY <4>1, <4>2, <4>3 DEF Writers
    <3>4. Exec0Forwards(s) <=> exec0.active /\ exec0.in.op \in AluOps /\ exec0.in.dst = s
      BY <1>1, <1>6 DEF Exec0Forwards
    <3> QED
      BY <2>1, <2>2, <2>4, <3>3, <3>4 DEF FreshOperand
  <2> QED
    BY <2>3, <2>4
<1> QED
  BY <1>1, <1>5, <1>6 DEF Reg

LEMMA SafeOperandsFreshNext == Inv /\ [Next]_vars => SafeOperandsFresh'
<1> SUFFICES ASSUME Inv, [Next]_vars PROVE SafeOperandsFresh'
  OBVIOUS
<1> USE DEF Inv
<1>1. CASE ResetClock
  BY <1>1 DEF ResetClock, ZeroExec0, SafeOperandsFresh, OperandsFresh
<1>2. CASE StallClock
  BY <1>2 DEF StallClock, SafeOperandsFresh, OperandsFresh, TypeOK, Exec0Latch
<1>3. CASE FlushClock
  BY <1>3 DEF FlushClock, SafeOperandsFresh, OperandsFresh, TypeOK, Exec0Latch
<1>4. CASE AdvanceClock
  <2>1. srami' = srami /\ (Stopped' <=> Halting)
    BY <1>4, ExecuteEffect DEF AdvanceClock
  <2> SUFFICES ASSUME ForwardSafe(srami), exec0'.active, ~Halting
               PROVE  OperandsFresh'
    BY <2>1 DEF SafeOperandsFresh, OperandsFresh, ForwardSafe
  <2>2. /\ dec1.active /\ exec0'.in = dec1.in
        /\ exec0'.alu0 = FreshOperand(dec1.in.src0)
        /\ exec0'.alu1 = FreshOperand(dec1.in.src1)
    BY <1>4 DEF AdvanceClock
  <2>3. \A s \in Reads(dec1.in) : FreshOperand(s) = Operand(s, dec1.in, AbsRegs')
    BY <1>4, <2>2, FreshIsArchitectural DEF AdvanceClock
  <2>4. dec1.in.src0 \in Reads(dec1.in) /\ dec1.in.src1 \in Reads(dec1.in)
    BY DEF Reads
  <2> QED
    BY <2>2, <2>3, <2>4 DEF OperandsFresh
<1>5. CASE TrapClock
  <2>1. ~Stopped /\ ~Stopped' /\ UNCHANGED <<exec0, exec1, r, dataout, srami>>
    BY <1>5, RunningNotStopped DEF TrapClock, Stopped
  <2>2. AbsRegs' = AbsRegs
    BY <2>1 DEF AbsRegs
  <2> QED
    BY <2>1, <2>2 DEF SafeOperandsFresh, OperandsFresh, ForwardSafe
<1>6. CASE UNCHANGED vars
  <2>1. AbsRegs' = AbsRegs
    BY <1>6 DEF vars, AbsRegs, Stopped
  <2> QED
    BY <1>6, <2>1 DEF vars, SafeOperandsFresh, OperandsFresh, ForwardSafe, Stopped
<1> QED
  BY <1>1, <1>2, <1>3, <1>4, <1>5, <1>6 DEF Next

\* Init and every step keep the inductive invariant.
LEMMA InvInit == Init => Inv
<1> SUFFICES ASSUME Init PROVE Inv
  OBVIOUS
<1>1. ~fetch1.active /\ ~dec0.active /\ ~dec1.active /\ ~exec0.active /\ ~exec1.active
      /\ status = "running"
  BY DEF Init, ZeroInst, ZeroDec, ZeroExec0, ZeroExec1
<1> QED
  BY <1>1, TypeInit DEF Inv, FrontInOrder, BackInOrder, WrongPathSquashed, Exec1Taken,
       LoadDataValid, LoadUseSeparated, SafeOperandsFresh, OperandsFresh, CutShortForAReason

LEMMA InvNext == Inv /\ [Next]_vars => Inv'
  BY TypeNext, FrontInOrderNext, BackInOrderNext, WrongPathSquashedNext, LoadDataValidNext,
     LoadUseSeparatedNext, SafeOperandsFreshNext, CutShortForAReasonNext DEF Inv

LEMMA InvAlways == Spec => []Inv
  BY InvInit, InvNext, PTL DEF Spec

-----------------------------------------------------------------------------
(***************************************************************************)
(* The safety properties, each from the invariant.                         *)
(***************************************************************************)

\* Stalls, flushes and bubbles never lose, repeat or reorder an instruction.
THEOREM PipelineInOrder == Spec => []InOrder
<1>1. Inv => InOrder
  BY DEF Inv, InOrder
<1> QED
  BY <1>1, InvAlways, PTL

\* Nothing of the fall-through path survives a taken branch.
THEOREM PipelineWrongPathSquashed == Spec => []WrongPathSquashed
<1>1. Inv => WrongPathSquashed
  BY DEF Inv
<1> QED
  BY <1>1, InvAlways, PTL

\* A load's word is on the data port when the load is in EXEC1.
THEOREM PipelineLoadDataValid == Spec => []LoadDataValid
<1>1. Inv => LoadDataValid
  BY DEF Inv
<1> QED
  BY <1>1, InvAlways, PTL

\* A load and its reader never stand in EXEC1 and EXEC0 together.
THEOREM PipelineLoadUseSeparated == Spec => []LoadUseSeparated
<1>1. Inv => LoadUseSeparated
  BY DEF Inv
<1> QED
  BY <1>1, InvAlways, PTL

\* In every program with none of the two shapes of ForwardSafe, forwarding
\* and stalling give each instruction the operands of the sequential machine.
THEOREM PipelineSafeOperandsFresh == Spec => []SafeOperandsFresh
<1>1. Inv => SafeOperandsFresh
  BY DEF Inv
<1> QED
  BY <1>1, InvAlways, PTL

\* llsim's assertion stops the process only for a data address above the memory
\* or for the fetch, at most four words ahead of the machine, running into the
\* end of the memory; it is undefined only after a negative data address or
\* such a fetch.
THEOREM PipelineCutShortForAReason == Spec => []CutShortForAReason
<1>1. Inv => CutShortForAReason
  BY DEF Inv
<1> QED
  BY <1>1, InvAlways, PTL

\* A load-use stall never lasts two clocks.
THEOREM PipelineStallsOneClock == Spec => StallsOneClock
<1>1. TypeOK /\ [Next]_vars => [Running /\ Stall /\ Running' => ~Stall']_vars
  <2> SUFFICES ASSUME TypeOK, Next, Running, Stall, Running' PROVE ~Stall'
    OBVIOUS
  <2>1. CASE StallClock
    BY <2>1 DEF StallClock, Stall, TypeOK, Exec0Latch
  <2>2. ~ResetClock
    BY ResetAssumption DEF ResetClock, Resetting, Running
  <2>3. ~TrapClock
    BY DEF TrapClock, Running
  <2> QED
    BY <2>1, <2>2, <2>3 DEF Next, FlushClock, AdvanceClock
<1> QED
  BY <1>1, PipelineTypeOK, PTL DEF Spec, StallsOneClock
=============================================================================
