------------------------- MODULE SpMultiCycleProofs -------------------------
(***************************************************************************)
(* Proofs about SpMultiCycle for every width Half, every image set, every  *)
(* decoder and every interpretation of C's bit operators that respects the *)
(* assumptions of SpIsa.                                                   *)
(***************************************************************************)
EXTENDS SpMultiCycleProperties, SpIsaProofs

(***************************************************************************)
(* The inductive invariant.  Everything rests on the DMA engine being      *)
(* idle: an engine at work would write under the latches and take the      *)
(* port away.                                                              *)
(***************************************************************************)
DmaIdle == dma.state = 0

Inv == TypeOK /\ DmaIdle /\ LatchesHold /\ CutShortForAReason

-----------------------------------------------------------------------------
\* With the engine idle, the port is the processor's alone.
LEMMA PortIsTheProcessors ==
  ASSUME TypeOK, DmaIdle
  PROVE  SharedPort = CpuPort /\ ~Clash
<1>1. DmaPort = IdlePort
  BY DEF DmaIdle, DmaPort
<1>2. /\ DmaPort.read = FALSE /\ DmaPort.write = FALSE
      /\ DmaPort.raddr = 0 /\ DmaPort.waddr = 0 /\ DmaPort.datain = 0
  BY <1>1 DEF IdlePort
<1>3. \/ CpuPort = IdlePort
      \/ CpuPort = ReadPort(pc)
      \/ CpuPort = ReadPort(alu1)
      \/ CpuPort = WritePort(aluout, alu0)
  BY DEF CpuPort
<1> DEFINE SameAsCpu ==
      /\ (CpuPort.read \/ DmaPort.read) = CpuPort.read
      /\ (CpuPort.write \/ DmaPort.write) = CpuPort.write
      /\ (IF CpuPort.read THEN CpuPort.raddr ELSE DmaPort.raddr) = CpuPort.raddr
      /\ (IF CpuPort.write THEN CpuPort.waddr ELSE DmaPort.waddr) = CpuPort.waddr
      /\ (IF CpuPort.write THEN CpuPort.datain ELSE DmaPort.datain) = CpuPort.datain
<1>4. SameAsCpu
  <2>1. CASE CpuPort = IdlePort
    BY <1>2, <2>1 DEF IdlePort
  <2>2. ASSUME NEW a, CpuPort = ReadPort(a)
        PROVE  SameAsCpu
    BY <1>2, <2>2 DEF ReadPort
  <2>3. CASE CpuPort = WritePort(aluout, alu0)
    BY <1>2, <2>3 DEF WritePort
  <2> QED
    BY <1>3, <2>1, <2>2, <2>3
<1>5. CpuPort = [read |-> CpuPort.read, raddr |-> CpuPort.raddr,
                 write |-> CpuPort.write, waddr |-> CpuPort.waddr,
                 datain |-> CpuPort.datain]
  BY <1>3 DEF IdlePort, ReadPort, WritePort
<1> QED
  BY <1>2, <1>4, <1>5 DEF SharedPort, Clash

\* An address of a port that raised no fault lies in the memory.
LEMMA NoFaultInRange ==
  ASSUME NEW a \in Word, NEW d \in Word
  PROVE  /\ ~PortFaults(ReadPort(a)) => a \in Addr
         /\ ~PortFaults(WritePort(a, d)) => a \in Addr
         /\ ~PortFaults(IdlePort)
         /\ a \in Addr => ~PortFaults(ReadPort(a)) /\ ~PortFaults(WritePort(a, d))
  BY InRangeIsAddr DEF PortFaults, PortAsserts, PortUndefined, AddrAsserts,
                       AddrUndefined, ReadPort, WritePort, IdlePort

\* What one clock does to the memory, its latch and the engine.
LEMMA ClockEffect ==
  ASSUME TypeOK, DmaIdle, Clock
  PROVE  /\ dma' = dma
         /\ sram' \in [Addr -> Word] /\ dataout' \in Word
         /\ ~(st = "EXEC1" /\ i.op = "ST") => sram' = sram
         /\ st = "FETCH0" => dataout' = sram[pc]
         /\ st = "EXEC0" /\ i.op = "LD" => dataout' = sram[alu1]
<1>1. /\ SharedPort = CpuPort /\ ~PortFaults(CpuPort)
      /\ sram' = MemAfter(sram, CpuPort)
      /\ dataout' = DataoutAfter(sram, dataout, CpuPort)
  BY PortIsTheProcessors DEF Clock, Faults
<1>2. dma' = dma
  BY DEF Clock, DmaAfter, CarriedOver, DmaIdle
<1>3. /\ sram \in [Addr -> Word] /\ dataout \in Word /\ pc \in Word
      /\ alu0 \in Word /\ alu1 \in Word /\ aluout \in Word
  BY WordRange DEF TypeOK
<1>4. CASE st = "FETCH0"
  <2>1. CpuPort = ReadPort(pc) /\ pc \in Addr
    BY <1>4 DEF CpuPort, TypeOK
  <2> QED
    BY <1>1, <1>2, <1>3, <1>4, <2>1
       DEF MemAfter, DataoutAfter, ReadPort, IdlePort
<1>5. CASE st = "EXEC0" /\ i.op = "LD"
  <2>1. CpuPort = ReadPort(alu1)
    BY <1>5 DEF CpuPort
  <2>2. alu1 \in Addr
    BY <1>1, <1>3, <2>1, NoFaultInRange
  <2> QED
    BY <1>1, <1>2, <1>3, <1>5, <2>1, <2>2
       DEF MemAfter, DataoutAfter, ReadPort, IdlePort
<1>6. CASE st = "EXEC1" /\ i.op = "ST"
  <2>1. CpuPort = WritePort(aluout, alu0)
    BY <1>6 DEF CpuPort
  <2>2. aluout \in Addr
    BY <1>1, <1>3, <2>1, NoFaultInRange
  <2> QED
    BY <1>1, <1>2, <1>3, <1>6, <2>1, <2>2
       DEF MemAfter, DataoutAfter, WritePort, IdlePort
<1>7. CASE /\ st # "FETCH0" /\ ~(st = "EXEC0" /\ i.op = "LD")
           /\ ~(st = "EXEC1" /\ i.op = "ST")
  <2>1. CpuPort = IdlePort
    BY <1>7 DEF CpuPort
  <2> QED
    BY <1>1, <1>2, <1>3, <1>7, <2>1, PoisonAssumption
       DEF MemAfter, DataoutAfter, IdlePort
<1> QED
  BY <1>4, <1>5, <1>6, <1>7

\* Operands, results and addresses of the control states are of their types.
LEMMA DatapathTypes ==
  ASSUME TypeOK
  PROVE  /\ Operand0 \in Word /\ Operand1 \in Word /\ AluResult \in Word
         /\ NextPc \in Addr /\ i.imm % Half \in Addr
         /\ \A v \in Word : SetUnless0(v) \in [Reg -> Word]
         /\ \A x \in Reg : r[x] % Half \in Addr
<1>1. i \in Instr /\ r \in [Reg -> Word] /\ alu0 \in Word /\ alu1 \in Word /\ pc \in Addr
  BY DEF TypeOK
<1>2. i.imm \in Word /\ i.src0 \in Reg /\ i.src1 \in Reg /\ i.dst \in Reg
  BY <1>1 DEF Instr
<1>3. Operand0 \in Word /\ Operand1 \in Word
  BY <1>1, <1>2, OperandType, WordRange DEF Operand0, Operand1
<1>4. IntAlu(i, alu0, alu1) \in Word /\ 0 \in Word /\ 1 \in Word
  <2>1. IntAlu(i, alu0, alu1) \in Word
    BY <1>1, IntAluType
  <2> QED
    BY <2>1, WordRange, HalfAssumption DEF Word
<1>5. AluResult \in Word
  BY <1>1, <1>4 DEF AluResult
<1>6. \A w \in Word : w % Half \in Addr
  BY HalfAssumption DEF Word, Addr
<1>7. NextPc \in Addr
  BY <1>1, HalfAssumption DEF NextPc, Addr
<1>8. \A v \in Word : SetUnless0(v) \in [Reg -> Word]
  BY <1>1, <1>2 DEF SetUnless0
<1> QED
  BY <1>1, <1>2, <1>3, <1>5, <1>6, <1>7, <1>8

-----------------------------------------------------------------------------
(***************************************************************************)
(* Every clock keeps the types, and leaves the engine idle.                *)
(***************************************************************************)

LEMMA TypeInit == Init => TypeOK /\ DmaIdle
<1> SUFFICES ASSUME Init PROVE TypeOK /\ DmaIdle
  OBVIOUS
<1>1. 0 \in Addr /\ 0 \in Word
  BY HalfAssumption, WordRange DEF Addr
<1>2. ZeroInstr \in Instr /\ ZeroRegs \in [Reg -> Word] /\ ZeroDma \in Dma
  BY <1>1 DEF ZeroInstr, ZeroRegs, ZeroDma, Instr, Opcode, AluOps, Reg, Dma
<1>3. ZeroDma.state = 0
  BY DEF ZeroDma
<1> QED
  BY <1>1, <1>2, <1>3, ImagesAssumption, ResetAssumption
     DEF Init, TypeOK, DmaIdle, Status, CtlState

LEMMA TypeNext == TypeOK /\ DmaIdle /\ [Next]_vars => TypeOK' /\ DmaIdle'
<1> SUFFICES ASSUME TypeOK, DmaIdle, [Next]_vars PROVE TypeOK' /\ DmaIdle'
  OBVIOUS
<1> USE DEF Status, CtlState
<1>1. CASE ResetClock
  <2>1. 0 \in Addr /\ 0 \in Word
    BY HalfAssumption, WordRange DEF Addr
  <2>2. ZeroInstr \in Instr /\ ZeroRegs \in [Reg -> Word] /\ ZeroDma \in Dma
    BY <2>1 DEF ZeroInstr, ZeroRegs, ZeroDma, Instr, Opcode, AluOps, Reg, Dma
  <2>3. ZeroDma.state = 0
    BY DEF ZeroDma
  <2>4. dataout' = Poison
    BY <1>1 DEF ResetClock, DataoutAfter, IdlePort
  <2>5. resets' \in 0 .. ResetClocks
    BY <1>1, ResetAssumption DEF ResetClock, Resetting, TypeOK
  <2> QED
    BY <1>1, <2>1, <2>2, <2>3, <2>4, <2>5, PoisonAssumption
       DEF ResetClock, TypeOK, DmaIdle
<1>2. ASSUME Clock
      PROVE  /\ dma' = dma /\ resets' = resets
             /\ sram' \in [Addr -> Word] /\ dataout' \in Word
  BY <1>2, ClockEffect DEF Clock
<1>3. CASE Idle
  BY <1>2, <1>3, HalfAssumption DEF Idle, TypeOK, DmaIdle, Addr
<1>4. CASE Fetch0
  BY <1>2, <1>4 DEF Fetch0, datapath, TypeOK, DmaIdle
<1>5. CASE Fetch1
  BY <1>2, <1>5 DEF Fetch1, TypeOK, DmaIdle
<1>6. CASE Dec0
  <2>1. i' \in Instr
    BY <1>6, DecodeAssumption DEF Dec0, TypeOK
  <2> QED
    BY <1>2, <1>6, <2>1 DEF Dec0, TypeOK, DmaIdle
<1>7. CASE Dec1
  BY <1>2, <1>7, DatapathTypes DEF Dec1, TypeOK, DmaIdle
<1>8. CASE Exec0
  BY <1>2, <1>8, DatapathTypes DEF Exec0, TypeOK, DmaIdle
<1>9. ASSUME NEW ops, Exec1(ops), r' \in [Reg -> Word], pc' \in Addr
      PROVE  TypeOK' /\ DmaIdle'
  BY <1>2, <1>9 DEF Exec1, TypeOK, DmaIdle
<1>10. CASE Compute
  <2>1. r' \in [Reg -> Word] /\ pc' \in Addr
    BY <1>10, DatapathTypes DEF Compute, TypeOK
  <2> QED
    BY <1>9, <1>10, <2>1 DEF Compute
<1>11. CASE Load
  <2>1. r' \in [Reg -> Word] /\ pc' \in Addr
    BY <1>11, DatapathTypes DEF Load, TypeOK
  <2> QED
    BY <1>9, <1>11, <2>1 DEF Load
<1>12. CASE Branch
  <2>1. r' \in [Reg -> Word] /\ pc' \in Addr
    BY <1>12, DatapathTypes, WordRange DEF Branch, TypeOK
  <2> QED
    BY <1>9, <1>12, <2>1 DEF Branch
<1>13. CASE JumpIndirect
  <2>1. r' \in [Reg -> Word]
    BY <1>13, WordRange DEF JumpIndirect, TypeOK
  <2>2. st = "EXEC1" /\ i.op = "JIN"
    BY <1>13 DEF JumpIndirect, Exec1
  <2>3. pc' \in Addr
    BY <1>13, <2>2, DatapathTypes DEF JumpIndirect, JinOutside
  <2> QED
    BY <1>9, <1>13, <2>1, <2>3 DEF JumpIndirect
<1>14. CASE DmaStatus
  <2>1. (IF dma.state # 0 THEN 1 ELSE 0) \in Word
    BY WordRange DEF DmaIdle
  <2>2. r' \in [Reg -> Word] /\ pc' \in Addr
    BY <1>14, <2>1, DatapathTypes DEF DmaStatus, TypeOK
  <2> QED
    BY <1>9, <1>14, <2>2 DEF DmaStatus
<1>15. CASE Pass
  <2>1. r' \in [Reg -> Word] /\ pc' \in Addr
    BY <1>15, DatapathTypes DEF Pass, TypeOK
  <2> QED
    BY <1>9, <1>15, <2>1 DEF Pass
<1>16. CASE Halt
  BY <1>2, <1>16 DEF Halt, datapath, TypeOK, DmaIdle
<1>17. CASE Trap
  BY <1>17 DEF Trap, datapath, TypeOK, DmaIdle
<1>18. CASE UNCHANGED vars
  BY <1>18 DEF vars, datapath, TypeOK, DmaIdle
<1> QED
  BY <1>1, <1>3, <1>4, <1>5, <1>6, <1>7, <1>8, <1>10, <1>11, <1>12, <1>13,
     <1>14, <1>15, <1>16, <1>17, <1>18 DEF Next

-----------------------------------------------------------------------------
(***************************************************************************)
(* The latches stay true from one control state to the next.               *)
(***************************************************************************)

LEMMA LatchesHoldNext == Inv /\ [Next]_vars => LatchesHold'
<1> SUFFICES ASSUME Inv, [Next]_vars PROVE LatchesHold'
  OBVIOUS
<1> USE DEF LatchesHold
<1>1. ASSUME st' \in {"IDLE", "FETCH0"} PROVE LatchesHold'
  BY <1>1
<1>2. ASSUME ~Running' PROVE LatchesHold'
  BY <1>2
<1>3. TypeOK /\ DmaIdle
  BY DEF Inv
<1>4. CASE Fetch0
  <2>1. sram' = sram /\ dataout' = sram[pc] /\ pc' = pc /\ st' = "FETCH1"
    BY <1>3, <1>4, ClockEffect DEF Fetch0, datapath
  <2> QED
    BY <2>1
<1>5. CASE Fetch1
  <2>1. Running /\ sram' = sram /\ pc' = pc /\ inst' = dataout /\ st = "FETCH1" /\ st' = "DEC0"
    BY <1>3, <1>5, ClockEffect DEF Fetch1, Clock
  <2>2. dataout = sram[pc]
    BY <2>1 DEF Inv
  <2> QED
    BY <2>1, <2>2
<1>6. CASE Dec0
  <2>1. Running /\ sram' = sram /\ pc' = pc /\ i' = Decode(inst) /\ st = "DEC0" /\ st' = "DEC1"
    BY <1>3, <1>6, ClockEffect DEF Dec0, Clock
  <2>2. inst = sram[pc]
    BY <2>1 DEF Inv
  <2> QED
    BY <2>1, <2>2
<1>7. CASE Dec1
  <2>1. /\ Running /\ sram' = sram /\ pc' = pc /\ i' = i /\ r' = r
        /\ alu0' = Operand0 /\ alu1' = Operand1 /\ st = "DEC1" /\ st' = "EXEC0"
    BY <1>3, <1>7, ClockEffect DEF Dec1, Clock
  <2>2. i = Decode(sram[pc])
    BY <2>1 DEF Inv
  <2>3. Operand0' = Operand0 /\ Operand1' = Operand1
    BY <2>1 DEF Operand0, Operand1, Operand
  <2> QED
    BY <2>1, <2>2, <2>3
<1>8. CASE Exec0
  <2>1. /\ Running /\ sram' = sram /\ pc' = pc /\ i' = i /\ r' = r
        /\ alu0' = alu0 /\ alu1' = alu1 /\ aluout' = AluResult
        /\ i.op = "LD" => dataout' = sram[alu1]
        /\ st = "EXEC0" /\ st' = "EXEC1"
    BY <1>3, <1>8, ClockEffect DEF Exec0, Clock
  <2>2. i = Decode(sram[pc]) /\ alu0 = Operand0 /\ alu1 = Operand1
    BY <2>1 DEF Inv
  <2>3. Operand0' = Operand0 /\ Operand1' = Operand1
    BY <2>1 DEF Operand0, Operand1, Operand
  <2>4. AluResult' = AluResult
    BY <2>1 DEF AluResult, IntAlu, Alu, ShiftRightSigned, Taken
  <2> QED
    BY <2>1, <2>2, <2>3, <2>4
<1>9. CASE Trap
  BY <1>2, <1>9 DEF Trap, Running
<1>10. CASE UNCHANGED vars
  BY <1>10 DEF Inv, vars, datapath, Running, Operand0, Operand1, Operand,
               AluResult, IntAlu, Alu, ShiftRightSigned, Taken
<1> QED
  BY <1>1, <1>4, <1>5, <1>6, <1>7, <1>8, <1>9, <1>10
     DEF Next, ResetClock, Idle, Compute, Load, Branch, JumpIndirect, DmaStatus,
         Pass, Halt, Exec1

(***************************************************************************)
(* Only a data address or a JIN ends the process early.                    *)
(***************************************************************************)

LEMMA CutShortForAReasonNext == Inv /\ [Next]_vars => CutShortForAReason'
<1> SUFFICES ASSUME Inv, [Next]_vars PROVE CutShortForAReason'
  OBVIOUS
<1>1. CASE Trap
  <2>1. UNCHANGED <<st, i, alu0, alu1>> /\ Running
    BY <1>1 DEF Trap, datapath
  <2>2. (JinOutside' <=> JinOutside) /\ (DataAccess' <=> DataAccess)
    BY <2>1 DEF JinOutside, DataAccess
  <2>3. (Faults <=> PortFaults(CpuPort)) /\ (Undefined <=> PortUndefined(CpuPort))
    BY PortIsTheProcessors DEF Faults, Undefined, Inv
  <2>4. pc \in Addr /\ pc \in Word /\ alu0 \in Word /\ alu1 \in Word /\ aluout \in Word
    BY WordRange DEF Inv, TypeOK
  <2>5. st = "EXEC1" /\ i.op = "ST" => aluout = alu1
    BY <2>1 DEF Inv, LatchesHold, AluResult, AluOps, CondBranches
  <2>6. /\ PortUndefined(CpuPort) => DataAccess /\ Negative(alu1)
        /\ PortAsserts(CpuPort) => DataAccess /\ alu1 >= Half /\ ~Negative(alu1)
    <3>1. CASE st = "EXEC0" /\ i.op = "LD"
      <4>1. CpuPort = ReadPort(alu1)
        BY <3>1 DEF CpuPort
      <4> QED
        BY <3>1, <4>1 DEF DataAccess, PortUndefined, PortAsserts, AddrUndefined,
                          AddrAsserts, ReadPort, IdlePort
    <3>2. CASE st = "EXEC1" /\ i.op = "ST"
      <4>1. CpuPort = WritePort(alu1, alu0)
        BY <2>5, <3>2 DEF CpuPort
      <4> QED
        BY <3>2, <4>1 DEF DataAccess, PortUndefined, PortAsserts, AddrUndefined,
                          AddrAsserts, WritePort, IdlePort
    <3>3. CASE ~DataAccess
      <4>1. CpuPort = ReadPort(pc) \/ CpuPort = IdlePort
        BY <3>3 DEF CpuPort, DataAccess
      <4>2. ~PortFaults(CpuPort)
        BY <2>4, <4>1, NoFaultInRange
      <4> QED
        BY <4>2 DEF PortFaults
    <3> QED
      BY <3>1, <3>2, <3>3 DEF DataAccess
  <2>7. CASE Faults /\ status' = IF Undefined THEN "undefined" ELSE "aborted"
    BY <2>1, <2>2, <2>3, <2>6, <2>7 DEF CutShortForAReason, PortFaults
  <2>8. CASE ~Faults /\ JinOutside /\ status' = "undefined"
    BY <2>2, <2>8 DEF CutShortForAReason
  <2> QED
    BY <1>1, <2>7, <2>8 DEF Trap
<1>2. CASE UNCHANGED vars
  BY <1>2 DEF Inv, vars, datapath, CutShortForAReason, JinOutside, DataAccess
<1>3. CASE Next /\ ~Trap
  <2>1. status' \in {"running", "stopped"}
    BY <1>3 DEF Next, ResetClock, Resetting, Idle, Fetch0, Fetch1, Dec0, Dec1,
                Exec0, Compute, Load, Branch, JumpIndirect, DmaStatus, Pass, Halt,
                Exec1, Clock, Running
  <2> QED
    BY <2>1 DEF CutShortForAReason
<1> QED
  BY <1>1, <1>2, <1>3

-----------------------------------------------------------------------------
(***************************************************************************)
(* The theorems.                                                           *)
(***************************************************************************)

LEMMA InvAlways == Spec => []Inv
<1>1. Init => Inv
  BY TypeInit DEF Init, Inv, LatchesHold, CutShortForAReason
<1>2. Inv /\ [Next]_vars => Inv'
  BY TypeNext, LatchesHoldNext, CutShortForAReasonNext DEF Inv
<1> QED
  BY <1>1, <1>2, PTL DEF Spec

\* Registers, latches and memory keep their widths, and pc is an address.
THEOREM MultiCycleTypeOK == Spec => []TypeOK
<1>1. Inv => TypeOK
  BY DEF Inv
<1> QED
  BY <1>1, InvAlways, PTL

\* What one control state latched still holds when a later one uses it, in
\* programs that rewrite their own code too.
THEOREM MultiCycleLatchesHold == Spec => []LatchesHold
<1>1. Inv => LatchesHold
  BY DEF Inv
<1> QED
  BY <1>1, InvAlways, PTL

\* llsim's assertion stops the process only for a data address above the
\* memory, never for a second access at the port, since DMA_START does not
\* start the engine; it is undefined only after a negative data address or a
\* JIN whose operand is no register number.
THEOREM MultiCycleCutShortForAReason == Spec => []CutShortForAReason
<1>1. Inv => CutShortForAReason
  BY DEF Inv
<1> QED
  BY <1>1, InvAlways, PTL

\* On no program does the DMA engine start: whatever DMA_START captures, the
\* registers of the engine keep the zeros of the reset, so DMA_STATUS always
\* answers that nothing is being copied.
THEOREM MultiCycleEngineNeverStarts == Spec => [](dma = ZeroDma)
<1>1. Init => dma = ZeroDma
  BY DEF Init
<1>2. Inv /\ dma = ZeroDma /\ [Next]_vars => (dma = ZeroDma)'
  <2> SUFFICES ASSUME Inv, dma = ZeroDma, [Next]_vars PROVE dma' = ZeroDma
    OBVIOUS
  <2>1. Clock => dma' = dma
    BY ClockEffect DEF Inv
  <2> QED
    BY <2>1 DEF Next, ResetClock, Idle, Fetch0, Fetch1, Dec0, Dec1, Exec0, Exec1, Compute,
                Load, Branch, JumpIndirect, DmaStatus, Pass, Halt, Trap, vars
<1> QED
  BY <1>1, <1>2, InvAlways, PTL DEF Spec

\* The memory changes by the program's stores only, each at the address and
\* with the operand of its instruction: nothing is ever copied by itself.
THEOREM MultiCycleOnlyStoresWrite ==
  Spec => [][ \/ sram' = sram
              \/ /\ st = "EXEC1" /\ i = Decode(sram[pc]) /\ i.op = "ST"
                 /\ Operand1 \in Addr
                 /\ sram' = [sram EXCEPT ![Operand1] = Operand0] ]_vars
<1> DEFINE Stores == /\ st = "EXEC1" /\ i = Decode(sram[pc]) /\ i.op = "ST"
                     /\ Operand1 \in Addr
                     /\ sram' = [sram EXCEPT ![Operand1] = Operand0]
<1>1. Inv /\ [Next]_vars => [sram' = sram \/ Stores]_vars
  <2> SUFFICES ASSUME Inv, Next PROVE sram' = sram \/ Stores
    OBVIOUS
  <2>1. ASSUME Clock, st = "EXEC1", i.op = "ST" PROVE Stores
    <3>1. SharedPort = WritePort(aluout, alu0)
      BY <2>1, PortIsTheProcessors DEF Inv, CpuPort
    <3>2. /\ i = Decode(sram[pc]) /\ alu0 = Operand0 /\ aluout = Operand1
      BY <2>1 DEF Clock, Inv, LatchesHold, AluResult, AluOps, CondBranches
    <3>3. ~PortFaults(WritePort(aluout, alu0))
          /\ sram' = MemAfter(sram, WritePort(aluout, alu0))
      BY <2>1, <3>1 DEF Clock, Faults
    <3>4. aluout \in Addr
      BY <3>3, NoFaultInRange DEF Inv, TypeOK
    <3> QED
      BY <2>1, <3>2, <3>3, <3>4 DEF MemAfter, WritePort, IdlePort
  <2>2. Clock => sram' = sram \/ Stores
    BY <2>1, ClockEffect DEF Inv
  <2> HIDE DEF Stores
  <2> QED
    BY <2>2 DEF Next, ResetClock, Idle, Fetch0, Fetch1, Dec0, Dec1, Exec0, Exec1, Compute,
                Load, Branch, JumpIndirect, DmaStatus, Pass, Halt, Trap
<1> QED
  BY <1>1, InvAlways, PTL DEF Spec

-----------------------------------------------------------------------------
(***************************************************************************)
(* The proof that the multi-cycle machine of lab 2 executes what lab2's    *)
(* iss.c executes, instruction by instruction (ImplementsIss).             *)
(***************************************************************************)

(***************************************************************************)
(* What the simulation needs beyond Inv: before the first fetch nothing    *)
(* has been computed, and a load in EXEC1 has an address of the memory.    *)
(***************************************************************************)
NotStarted ==
  /\ Resetting => st = "IDLE"
  /\ status = "running" /\ st = "IDLE" => pc = 0 /\ r = ZeroRegs

LoadInRange == Running /\ st = "EXEC1" /\ i.op = "LD" => alu1 \in Addr

RefInv == Inv /\ NotStarted /\ LoadInRange

LEMMA NotStartedNext == NotStarted /\ [Next]_vars => NotStarted'
<1> SUFFICES ASSUME NotStarted, [Next]_vars PROVE NotStarted'
  OBVIOUS
<1> USE DEF NotStarted, Resetting
<1>1. CASE ResetClock
  BY <1>1 DEF ResetClock
<1>2. CASE UNCHANGED vars
  BY <1>2 DEF vars, datapath
<1>3. ASSUME Clock PROVE resets' = resets /\ resets = ResetClocks
  BY <1>3 DEF Clock, Running
<1>4. CASE Idle \/ Fetch0 \/ Fetch1 \/ Dec0 \/ Dec1 \/ Exec0
  <2>1. st' # "IDLE" /\ Clock
    BY <1>4 DEF Idle, Fetch0, Fetch1, Dec0, Dec1, Exec0
  <2> QED
    BY <1>3, <2>1, ResetAssumption
<1>5. CASE Compute \/ Load \/ Branch \/ JumpIndirect \/ DmaStatus \/ Pass
  <2>1. st' # "IDLE" /\ Clock
    BY <1>5 DEF Compute, Load, Branch, JumpIndirect, DmaStatus, Pass, Exec1
  <2> QED
    BY <1>3, <2>1, ResetAssumption
<1>6. CASE Halt \/ Trap
  <2>1. status' # "running"
    BY <1>6 DEF Halt, Trap
  <2> QED
    BY <2>1
<1> QED
  BY <1>1, <1>2, <1>4, <1>5, <1>6 DEF Next

LEMMA LoadInRangeNext == Inv /\ LoadInRange /\ [Next]_vars => LoadInRange'
<1> SUFFICES ASSUME Inv, LoadInRange, [Next]_vars,
                    Running', st' = "EXEC1", i'.op = "LD"
             PROVE  alu1' \in Addr
  BY DEF LoadInRange
<1>1. CASE Exec0
  <2>1. st = "EXEC0" /\ Clock /\ i' = i /\ alu1' = alu1
    BY <1>1 DEF Exec0
  <2>2. SharedPort = CpuPort /\ CpuPort = ReadPort(alu1)
    BY <2>1, PortIsTheProcessors DEF CpuPort, Inv
  <2>3. ~PortFaults(ReadPort(alu1)) /\ alu1 \in Word /\ alu0 \in Word
    BY <2>1, <2>2 DEF Clock, Faults, Inv, TypeOK
  <2> QED
    BY <2>1, <2>3, NoFaultInRange
<1>2. CASE Trap
  BY <1>2 DEF Trap, Running
<1>3. CASE UNCHANGED vars
  BY <1>3 DEF vars, datapath, Running, LoadInRange
<1> QED
  BY <1>1, <1>2, <1>3
     DEF Next, ResetClock, Idle, Fetch0, Fetch1, Dec0, Dec1, Compute, Load,
         Branch, JumpIndirect, DmaStatus, Pass, Halt, Exec1

LEMMA RefInvAlways == Spec => []RefInv
<1>1. Init => NotStarted /\ LoadInRange
  BY DEF Init, NotStarted, LoadInRange, Resetting
<1>2. RefInv /\ [Next]_vars => NotStarted' /\ LoadInRange'
  BY NotStartedNext, LoadInRangeNext DEF RefInv
<1> QED
  BY <1>1, <1>2, InvAlways, PTL DEF Spec, RefInv

\* The instruction set of the simulator is the machine's.
LEMMA SameIsa ==
  /\ Simulator!AluOps = AluOps /\ Simulator!CondBranches = CondBranches
  /\ Simulator!Unassigned = Unassigned /\ Simulator!Reg = Reg
  /\ \A s, in, regs : Simulator!Operand(s, in, regs) = Operand(s, in, regs)
  /\ \A in, a, b : Simulator!IntAlu(in, a, b) = IntAlu(in, a, b)
  /\ \A in, a, b : Simulator!Taken(in, a, b) <=> Taken(in, a, b)
<1>1. Simulator!AluOps = AluOps /\ Simulator!CondBranches = CondBranches
      /\ Simulator!Unassigned = Unassigned /\ Simulator!Reg = Reg
  BY DEF Simulator!AluOps, AluOps, Simulator!CondBranches, CondBranches,
         Simulator!Unassigned, Unassigned, Simulator!Reg, Reg
<1>2. \A s, in, regs : Simulator!Operand(s, in, regs) = Operand(s, in, regs)
  BY DEF Simulator!Operand, Operand
<1>3. Simulator!WordMod = WordMod
  BY DEF Simulator!WordMod, WordMod
<1>4. \A in, a, b : Simulator!Alu(in, a, b) = Alu(in, a, b)
  BY <1>3 DEF Simulator!Alu, Alu
<1>5. \A w : Simulator!Negative(w) <=> Negative(w)
  BY <1>3 DEF Simulator!Negative, Negative
<1>6. \A a, b : Simulator!ShiftRightSigned(a, b) = ShiftRightSigned(a, b)
  BY <1>3, <1>5 DEF Simulator!ShiftRightSigned, ShiftRightSigned
<1>7. \A in, a, b : Simulator!IntAlu(in, a, b) = IntAlu(in, a, b)
  BY <1>4, <1>6 DEF Simulator!IntAlu, IntAlu
<1>8. \A w : Simulator!Signed(w) = Signed(w)
  BY <1>3, <1>5 DEF Simulator!Signed, Signed
<1>9. \A in, a, b : Simulator!Taken(in, a, b) <=> Taken(in, a, b)
  BY <1>8 DEF Simulator!Taken, Taken
<1> QED
  BY <1>1, <1>2, <1>7, <1>9

-----------------------------------------------------------------------------
\* What the simulator sees of the machine at the end of an instruction.
LEMMA AtExec1 ==
  ASSUME RefInv, Running, st = "EXEC1", SameMeaning(i)
  PROVE  /\ AbsPc = pc /\ pc \in Addr /\ ~Stopped /\ Simulator!Looping
         /\ Simulator!In = i /\ i \in Instr
         /\ r \in [Reg -> Word] /\ sram \in [Addr -> Word]
         /\ alu0 = Simulator!Val0 /\ alu1 = Simulator!Val1
         /\ alu0 \in Word /\ alu1 \in Word
         /\ aluout = AluResult
<1>1. /\ pc \in Addr /\ i \in Instr /\ r \in [Reg -> Word] /\ sram \in [Addr -> Word]
      /\ alu0 \in Word /\ alu1 \in Word
  BY DEF RefInv, Inv, TypeOK
<1>2. /\ i = Decode(sram[pc]) /\ aluout = AluResult
      /\ alu0 = Operand0 /\ alu1 = Operand1
  BY DEF RefInv, Inv, LatchesHold
<1>3. ~Stopped /\ AbsPc = pc
  BY DEF Running, Stopped, AbsPc
<1>4. Simulator!Looping
  BY <1>1, <1>3, HalfAssumption DEF Simulator!Looping, Addr
<1>5. Simulator!In = i
  BY <1>2, <1>3 DEF Simulator!In
<1>6. Simulator!Val0 = Operand(i.src0, i, r) /\ Simulator!Val1 = Operand(i.src1, i, r)
  BY <1>5, SameIsa DEF Simulator!Val0, Simulator!Val1
<1>7. i.op = "LHI" => i.src0 = 0 /\ i.src1 = 1
  BY DEF SameMeaning
<1>8. alu0 = Simulator!Val0 /\ alu1 = Simulator!Val1
  BY <1>2, <1>6, <1>7 DEF Operand0, Operand1, Operand
<1> QED
  BY <1>1, <1>2, <1>3, <1>4, <1>5, <1>8

\* An EXEC1 clock takes the simulator's step.
LEMMA ExecuteStep ==
  ASSUME RefInv, TypeOK', Next, Executes, SameMeaning(i), ~Wraps
  PROVE  Simulator!Next
<1>1. CASE \E ops : Exec1(ops)
  <2>1. /\ st = "EXEC1" /\ Running /\ Clock /\ status' = status
        /\ Stopped' = Stopped /\ AbsPc = pc /\ AbsPc' = pc'
    BY <1>1 DEF Exec1, Clock, Running, Stopped, AbsPc
  <2>2. /\ pc \in Addr /\ Simulator!Looping /\ Simulator!In = i /\ i \in Instr
        /\ r \in [Reg -> Word] /\ sram \in [Addr -> Word]
        /\ alu0 = Simulator!Val0 /\ alu1 = Simulator!Val1
        /\ alu0 \in Word /\ alu1 \in Word
        /\ aluout = AluResult
    BY <2>1, AtExec1
  <2>3. i.op # "ST" => sram' = sram
    BY <2>1, ClockEffect DEF RefInv, Inv
  <2>4. pc' = NextPc => AbsPc' = AbsPc + 1
    BY <2>1, <2>2, HalfAssumption DEF NextPc, Wraps, Addr
  <2>5. i.dst \in Reg /\ i.src0 \in Reg /\ i.imm \in Word
    BY <2>2 DEF Instr
  <2>6. CASE Compute
    <3>1. i.op \in AluOps /\ i.dst # 0
      BY <2>6 DEF Compute, Exec1, SameMeaning
    <3>2. aluout = IntAlu(i, alu0, alu1)
      BY <2>2, <3>1 DEF AluResult, AluOps, CondBranches
    <3>3. r' = [r EXCEPT ![i.dst] = IntAlu(i, alu0, alu1)] /\ pc' = NextPc
      BY <2>6, <3>1, <3>2 DEF Compute, SetUnless0
    <3>4. Simulator!Result = IntAlu(i, alu0, alu1)
      BY <2>2, SameIsa DEF Simulator!Result
    <3>5. sram' = sram
      BY <2>3, <3>1 DEF AluOps
    <3> QED
      BY <2>1, <2>2, <2>4, <3>1, <3>3, <3>4, <3>5, SameIsa
         DEF Simulator!Next, Simulator!Compute
  <2>7. CASE Load
    <3>1. i.op = "LD" /\ alu1 \in Addr /\ dataout = sram[alu1]
      BY <2>1, <2>7 DEF Load, Exec1, RefInv, LoadInRange, Inv, LatchesHold
    <3>2. alu1 % Half = alu1
      BY <3>1, HalfAssumption DEF Addr
    <3>3. r' = [r EXCEPT ![i.dst] = sram[alu1 % Half]] /\ pc' = NextPc
      BY <2>7, <3>1, <3>2 DEF Load
    <3>4. sram' = sram
      BY <2>3, <3>1
    <3> QED
      BY <2>1, <2>2, <2>4, <3>1, <3>3, <3>4
         DEF Simulator!Next, Simulator!Load
  <2>8. CASE Branch
    <3>1. i.op \in CondBranches /\ aluout = 1
      BY <2>8 DEF Branch, Exec1
    <3>2. Taken(i, alu0, alu1) /\ i.op # "ST"
      BY <2>2, <3>1 DEF AluResult, AluOps, CondBranches
    <3>3. r' = [r EXCEPT ![7] = pc] /\ pc' = i.imm % Half
      BY <2>8 DEF Branch
    <3>4. Simulator!Linked = [r EXCEPT ![7] = pc]
      BY <2>1, <2>2, HalfAssumption DEF Simulator!Linked, Addr
    <3> QED
      BY <2>1, <2>2, <2>3, <3>1, <3>2, <3>3, <3>4, SameIsa
         DEF Simulator!Next, Simulator!Branch
  <2>9. CASE Pass
    <3>1. /\ i.op \in {"ST", "DMA_START", "U"} \cup CondBranches
          /\ i.op \in CondBranches => aluout # 1
          /\ pc' = NextPc /\ r' = r
      BY <2>9 DEF Pass, Exec1
    <3>2. CASE i.op = "ST"
      <4>1. SharedPort = CpuPort /\ CpuPort = WritePort(aluout, alu0)
        BY <2>1, <3>2, PortIsTheProcessors DEF CpuPort, RefInv, Inv
      <4>2. aluout = alu1
        BY <2>2, <3>2 DEF AluResult, AluOps, CondBranches
      <4>3. ~PortFaults(WritePort(alu1, alu0)) /\ sram' = MemAfter(sram, WritePort(alu1, alu0))
        BY <2>1, <4>1, <4>2 DEF Clock, Faults
      <4>4. alu1 \in Addr
        BY <2>2, <4>3, NoFaultInRange
      <4>5. alu1 % Half = alu1
        BY <4>4, HalfAssumption DEF Addr
      <4>6. sram' = [sram EXCEPT ![alu1 % Half] = alu0]
        BY <4>3, <4>5 DEF MemAfter, WritePort, IdlePort
      <4>7. alu0 = r[i.src0]
        <5>1. i.src0 >= 2
          BY <3>2 DEF SameMeaning
        <5>2. alu0 = Operand(i.src0, i, r)
          BY <2>2, SameIsa DEF Simulator!Val0
        <5> QED
          BY <2>5, <5>1, <5>2 DEF Operand, Reg
      <4> QED
        BY <2>1, <2>2, <2>4, <3>1, <3>2, <4>6, <4>7
           DEF Simulator!Next, Simulator!Store
    <3>3. CASE i.op # "ST"
      <4>1. i.op \in CondBranches \cup Unassigned
        BY <3>1, <3>3 DEF Unassigned
      <4>2. ~Taken(i, alu0, alu1)
        <5>1. CASE i.op \in CondBranches
          BY <2>2, <3>1, <5>1 DEF AluResult, AluOps, CondBranches
        <5>2. CASE i.op \in Unassigned
          BY <2>2, <5>2, OpcodeClasses
        <5> QED
          BY <4>1, <5>1, <5>2
      <4> QED
        BY <2>1, <2>2, <2>3, <2>4, <3>1, <3>3, <4>1, <4>2, SameIsa
           DEF Simulator!Next, Simulator!Skip
    <3> QED
      BY <3>2, <3>3
  <2>10. ~JumpIndirect /\ ~DmaStatus
    BY DEF SameMeaning, JumpIndirect, DmaStatus, Exec1
  <2>11. Compute \/ Load \/ Branch \/ Pass
    BY <2>1, <2>10, <1>1
       DEF Next, ResetClock, Resetting, Running, Idle, Fetch0, Fetch1, Dec0, Dec1,
           Exec0, Halt, Trap, Exec1
  <2> QED
    BY <2>6, <2>7, <2>8, <2>9, <2>11
<1>2. CASE Halt
  <2>1. st = "EXEC1" /\ i.op = "HLT" /\ Running /\ Clock /\ status' = "stopped"
        /\ pc' = pc /\ r' = r
    BY <1>2 DEF Halt, Clock, datapath
  <2>2. sram' = sram
    BY <2>1, ClockEffect DEF RefInv, Inv
  <2>3. Stopped' = TRUE /\ ~Stopped /\ AbsPc' = pc + 1 /\ AbsPc = pc
    BY <2>1 DEF Stopped, AbsPc, Running
  <2>4. Simulator!Looping /\ Simulator!In = i
    BY <2>1, AtExec1
  <2> QED
    BY <2>1, <2>2, <2>3, <2>4 DEF Simulator!Next, Simulator!Halt
<1>3. (\E ops : Exec1(ops)) \/ Halt
  <2>1. st = "EXEC1" /\ st' # "EXEC1"
    BY DEF Executes
  <2>2. ~ResetClock
    BY <2>1 DEF ResetClock, RefInv, NotStarted
  <2>3. ~Idle /\ ~Fetch0 /\ ~Fetch1 /\ ~Dec0 /\ ~Dec1 /\ ~Exec0 /\ ~Trap
    BY <2>1 DEF Idle, Fetch0, Fetch1, Dec0, Dec1, Exec0, Trap
  <2> QED
    BY <2>2, <2>3 DEF Next, Compute, Load, Branch, JumpIndirect, DmaStatus, Pass
<1> QED
  BY <1>1, <1>2, <1>3

\* Every other clock leaves alone what the simulator has.
LEMMA OtherStep ==
  ASSUME RefInv, [Next]_vars, ~Executes
  PROVE  UNCHANGED Simulator!issVars
<1> SUFFICES /\ AbsPc' = AbsPc /\ r' = r /\ sram' = sram
             /\ Stopped' = Stopped
  BY DEF Simulator!issVars
<1> USE DEF AbsPc, Stopped
<1>1. CASE ResetClock
  <2>1. st = "IDLE" /\ status = "running"
    BY <1>1 DEF ResetClock, RefInv, NotStarted, Resetting
  <2>2. pc = 0 /\ r = ZeroRegs
    BY <2>1 DEF RefInv, NotStarted
  <2> QED
    BY <1>1, <2>1, <2>2 DEF ResetClock
<1>2. ASSUME Clock, st # "EXEC1" PROVE sram' = sram /\ status = "running"
  BY <1>2, ClockEffect DEF RefInv, Inv, Clock, Running
<1>3. CASE Idle
  <2>1. pc = 0
    BY <1>2, <1>3 DEF Idle, RefInv, NotStarted
  <2> QED
    BY <1>2, <1>3, <2>1 DEF Idle
<1>4. CASE Fetch0 \/ Fetch1 \/ Dec0 \/ Dec1 \/ Exec0
  BY <1>2, <1>4 DEF Fetch0, Fetch1, Dec0, Dec1, Exec0, datapath
<1>5. CASE Trap
  <2>1. status = "running" /\ status' \in {"aborted", "undefined"}
    BY <1>5 DEF Trap, Running
  <2> QED
    BY <1>5, <2>1 DEF Trap, datapath
<1>6. CASE UNCHANGED vars
  BY <1>6 DEF vars, datapath
<1>7. ~(Compute \/ Load \/ Branch \/ JumpIndirect \/ DmaStatus \/ Pass \/ Halt)
  BY DEF Executes, Compute, Load, Branch, JumpIndirect, DmaStatus, Pass, Halt, Exec1
<1> QED
  BY <1>1, <1>3, <1>4, <1>5, <1>6, <1>7 DEF Next

-----------------------------------------------------------------------------
(***************************************************************************)
(* The theorems.                                                           *)
(***************************************************************************)

\* Every EXEC1 clock of an instruction with one meaning is the simulator's
\* step, up to the return address it saves (LinkOffset is 0: sp.c saves the
\* jump's own address in r[7], iss.c the next one), and every other clock is
\* invisible to it, for every width, program and decoder.
THEOREM MultiCycleImplementsIss == Spec => ImplementsIss
<1>1. Init => Simulator!Init
  <2> SUFFICES ASSUME Init PROVE Simulator!Init
    OBVIOUS
  <2>1. AbsPc = 0 /\ Stopped = FALSE
    BY DEF Init, AbsPc, Stopped
  <2>2. r = [x \in Reg |-> 0] /\ sram \in Images
    BY DEF Init, ZeroRegs
  <2> QED
    BY <2>1, <2>2, SameIsa DEF Simulator!Init
<1>2. RefInv /\ RefInv' /\ [Next]_vars =>
        [IF Executes THEN SameMeaning(i) /\ ~Wraps => Simulator!Next
                     ELSE UNCHANGED Simulator!issVars]_vars
  <2> SUFFICES ASSUME RefInv, RefInv', Next
               PROVE  IF Executes THEN SameMeaning(i) /\ ~Wraps => Simulator!Next
                                  ELSE UNCHANGED Simulator!issVars
    OBVIOUS
  <2>1. CASE Executes
    BY <2>1, ExecuteStep DEF RefInv, Inv
  <2>2. CASE ~Executes
    BY <2>2, OtherStep
  <2> QED
    BY <2>1, <2>2
<1> QED
  BY <1>1, <1>2, RefInvAlways, PTL DEF Spec, ImplementsIss

\* A run that executes nothing but such instructions, and stays in the memory,
\* is a run of lab2/iss.c in which a jump saves its own address in r7, as sp.c
\* does (LinkOffset is 0), and not the next one.
THEOREM MultiCycleRefinesIss ==
  Spec /\ [][Executes => SameMeaning(i) /\ ~Wraps]_vars => Simulator!Spec
<1>1. /\ [IF Executes THEN SameMeaning(i) /\ ~Wraps => Simulator!Next
                      ELSE UNCHANGED Simulator!issVars]_vars
      /\ [Executes => SameMeaning(i) /\ ~Wraps]_vars
      => [Simulator!Next]_(Simulator!issVars)
  BY DEF vars, datapath, Simulator!issVars, AbsPc, Stopped
<1> QED
  BY <1>1, MultiCycleImplementsIss, PTL DEF ImplementsIss, Simulator!Spec
=============================================================================
