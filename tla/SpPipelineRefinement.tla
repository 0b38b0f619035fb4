------------------------ MODULE SpPipelineRefinement ------------------------
(***************************************************************************)
(* The proof that, on every program with none of the two shapes of         *)
(* ForwardSafe, the six-stage pipeline implements the sequential machine   *)
(* SpArch under the mapping AbsPc, AbsRegs, AbsMem, AbsHalted, and from    *)
(* there lab 2's simulator Iss, where an instruction means the same to     *)
(* both.                                                                   *)
(***************************************************************************)
EXTENDS SpPipelineProofs

\* While reset is raised the pipeline is empty and the registers are zero.
QuietInReset ==
  resets < ResetClocks =>
     /\ r = ZeroRegs
     /\ ~fetch0.active /\ ~fetch1.active /\ ~dec0.active /\ ~dec1.active
     /\ ~exec0.active /\ ~exec1.active
     /\ status = "running"

LEMMA QuietInit == Init => QuietInReset
  BY DEF Init, QuietInReset, ZeroFetch, ZeroInst, ZeroDec, ZeroExec0, ZeroExec1

LEMMA QuietNext == TypeOK /\ QuietInReset /\ [Next]_vars => QuietInReset'
<1> SUFFICES ASSUME TypeOK, QuietInReset, [Next]_vars PROVE QuietInReset'
  OBVIOUS
<1>1. CASE ResetClock
  BY <1>1 DEF ResetClock, Resetting, QuietInReset, ZeroFetch, ZeroInst, ZeroDec, ZeroExec0, ZeroExec1
<1>2. ASSUME Running, resets' = resets PROVE QuietInReset'
  BY <1>2, ResetAssumption DEF Running, QuietInReset
<1>3. CASE UNCHANGED vars
  BY <1>3 DEF vars, QuietInReset
<1> QED
  BY <1>1, <1>2, <1>3 DEF Next, StallClock, FlushClock, AdvanceClock, TrapClock, Execute

LEMMA QuietAlways == Spec => []QuietInReset
  BY TypeInit, TypeNext, QuietInit, QuietNext, PTL DEF Spec

\* The instruction set of the sequential machine is the pipeline's.
LEMMA SameIsa ==
  /\ Arch!Addr = Addr /\ Arch!Reg = Reg
  /\ Arch!AluOps = AluOps /\ Arch!CondBranches = CondBranches
  /\ Arch!Unassigned = Unassigned
  /\ \A s, i, regs : Arch!Operand(s, i, regs) = Operand(s, i, regs)
  /\ \A d, v, regs : Arch!SetReg(regs, d, v) = SetReg(regs, d, v)
  /\ \A i, a, b : Arch!Alu(i, a, b) = Alu(i, a, b)
  /\ \A i, a, b : Arch!Taken(i, a, b) <=> Taken(i, a, b)
  /\ \A i, a : Arch!Target(i, a) = Target(i, a)
<1>1. Arch!Addr = Addr /\ Arch!Reg = Reg /\ Arch!AluOps = AluOps
      /\ Arch!CondBranches = CondBranches /\ Arch!Unassigned = Unassigned
  BY DEF Arch!Addr, Addr, Arch!Reg, Reg, Arch!AluOps, AluOps, Arch!CondBranches, CondBranches,
         Arch!Unassigned, Unassigned
<1>2. \A s, i, regs : Arch!Operand(s, i, regs) = Operand(s, i, regs)
  BY DEF Arch!Operand, Operand
<1>3. \A d, v, regs : Arch!SetReg(regs, d, v) = SetReg(regs, d, v)
  BY DEF Arch!SetReg, SetReg
<1>4. \A i, a, b : Arch!Alu(i, a, b) = Alu(i, a, b)
  BY DEF Arch!Alu, Alu, Arch!WordMod, WordMod
<1>5. \A i, a, b : Arch!Taken(i, a, b) <=> Taken(i, a, b)
  BY DEF Arch!Taken, Taken, Arch!Signed, Signed, Arch!Negative, Negative, Arch!WordMod, WordMod
<1>6. \A i, a : Arch!Target(i, a) = Target(i, a)
  BY DEF Arch!Target, Target
<1> QED
  BY <1>1, <1>2, <1>3, <1>4, <1>5, <1>6

\* The memories of the initial state are the sequential machine's.
LEMMA InitRefines == Init => Arch!Init
<1> SUFFICES ASSUME Init PROVE Arch!Init
  OBVIOUS
<1>1. /\ ~fetch0.active /\ ~fetch1.active /\ ~dec0.active /\ ~dec1.active
      /\ ~exec0.active /\ ~exec1.active /\ ~Stopped
      /\ exec1 \in Exec1Latch
  BY ZeroTypes DEF Init, Stopped, ZeroFetch, ZeroInst, ZeroDec, ZeroExec0, ZeroExec1
<1>2. AbsPc = 0
  BY <1>1 DEF AbsPc
<1>3. AbsRegs = ZeroRegs
  BY <1>1, WriteBackCases DEF AbsRegs, Init
<1>4. AbsMem = srami /\ AbsHalted = FALSE /\ srami \in Images
  BY <1>1 DEF AbsMem, AbsHalted, Halting, Init
<1> QED
  BY <1>2, <1>3, <1>4, SameIsa DEF Arch!Init, ZeroRegs

-----------------------------------------------------------------------------
(***************************************************************************)
(* How the mapping moves in a run clock.                                   *)
(***************************************************************************)

\* What the sequential machine sees of the clock that retires a HLT: nothing.
LEMMA HaltClockStutters ==
  ASSUME Inv, Running, Execute, Halting
  PROVE  UNCHANGED Arch!vars
<1> USE RunningNotStopped DEF Inv
<1>1. exec1.active /\ exec1.in.op = "HLT" /\ ~Exec1Taken
  BY DEF Halting, Exec1Taken, Taken
<1>2. exec0.active
  BY <1>1 DEF BackInOrder
<1>3. Stopped' /\ exec1'.active /\ exec1'.pc = exec0.pc
  BY <1>2, ExecuteEffect
<1>4. AbsPc' = AbsPc
  BY <1>2, <1>3 DEF AbsPc
<1>5. AbsRegs' = AbsRegs
  BY <1>3 DEF AbsRegs, Execute
<1>6. AbsMem' = AbsMem
  BY <1>3 DEF AbsMem, Execute, Dump
<1>7. AbsHalted' = AbsHalted
  BY <1>3 DEF AbsHalted
<1> QED
  BY <1>4, <1>5, <1>6, <1>7 DEF Arch!vars, Execute

\* The register file and the memory of the sequential machine after a clock
\* that does not stop the simulator.
LEMMA ExecuteMaps ==
  ASSUME Inv, Running, Execute, ~Halting
  PROVE  /\ AbsRegs' = WriteBack(AbsRegs, Promote(exec0), dataout')
         /\ AbsMem' = MemAfter(sramd, SramdPort)
         /\ AbsMem = sramd
         /\ AbsHalted = FALSE
         /\ AbsHalted' = (exec0.active /\ exec0.in.op = "HLT")
         /\ srami' = srami
         /\ ~Stopped /\ ~Stopped'
<1> USE RunningNotStopped, ExecuteEffect DEF Inv
<1>1. ~Stopped /\ ~Stopped' /\ srami' = srami
  OBVIOUS
<1>2. AbsRegs' = WriteBack(AbsRegs, Promote(exec0), dataout')
  BY <1>1 DEF AbsRegs, Execute
<1>3. AbsMem' = MemAfter(sramd, SramdPort) /\ AbsMem = sramd
  BY <1>1 DEF AbsMem, Execute
<1>4. AbsHalted = FALSE /\ AbsHalted' = (exec0.active /\ exec0.in.op = "HLT")
  BY <1>1 DEF AbsHalted, Halting
<1> QED
  BY <1>1, <1>2, <1>3, <1>4

\* A clock with a bubble in EXEC0 moves instructions forward and executes
\* none.
LEMMA BubbleStutters ==
  ASSUME Inv, Running, AdvanceClock, ~Halting, ~exec0.active
  PROVE  UNCHANGED Arch!vars
<1> USE DEF Inv
<1>1. Execute /\ Promote(exec0) \in Exec1Latch /\ ~Promote(exec0).active
  BY PromoteType DEF AdvanceClock, TypeOK, Promote
<1>2. AbsRegs' = AbsRegs
  BY <1>1, ExecuteMaps, WriteBackCases
<1>3. AbsMem' = AbsMem
  BY <1>1, ExecuteMaps, MemoryAfter DEF Execute
<1>4. AbsHalted' = AbsHalted
  BY <1>1, ExecuteMaps
<1>5. AbsPc' = AbsPc
  <2>1. ~Stopped /\ ~Stopped'
    BY <1>1, ExecuteMaps
  <2>2. /\ exec0'.active = dec1.active /\ exec0'.pc = dec1.pc
        /\ dec1'.active = dec0.active /\ dec1'.pc = dec0.pc
        /\ dec0'.active = fetch1.active /\ dec0'.pc = fetch1.pc
        /\ fetch1'.active = fetch0.active /\ fetch1'.pc = fetch0.pc
        /\ fetch0'.active /\ (~fetch0.active => fetch0'.pc = 0)
    BY DEF AdvanceClock, NextPc
  <2> QED
    BY <2>1, <2>2 DEF AbsPc
<1> QED
  BY <1>1, <1>2, <1>3, <1>4, <1>5, ExecuteMaps DEF Arch!vars

\* The program counter of the sequential machine after a clock that executes
\* the instruction in EXEC0.
LEMMA NextAbsPc ==
  ASSUME Inv, Running, StallClock \/ FlushClock \/ AdvanceClock, ~Halting, exec0.active
  PROVE  /\ AbsPc = exec0.pc /\ exec0.pc \in Addr
         /\ AbsPc' = IF BranchTaken THEN BranchTarget ELSE exec0.pc + 1
<1> USE DEF Inv
<1>1. Execute
  BY DEF StallClock, FlushClock, AdvanceClock
<1>2. ~Stopped /\ ~Stopped'
  BY <1>1, ExecuteMaps
<1>3. AbsPc = exec0.pc /\ exec0.pc \in Addr
  BY <1>2 DEF AbsPc, FrontInOrder
<1>4. dec1.active /\ dec1.pc = exec0.pc + 1 /\ fetch0.active
  BY DEF FrontInOrder
<1>5. CASE StallClock
  <2>1. ~BranchTaken
    BY <1>5 DEF StallClock, Stall, BranchTaken, Taken
  <2>2. ~exec0'.active /\ dec1' = dec1
    BY <1>5 DEF StallClock, TypeOK, Exec0Latch
  <2> QED
    BY <1>2, <1>3, <1>4, <2>1, <2>2 DEF AbsPc
<1>6. CASE FlushClock
  <2>1. /\ ~exec0'.active /\ ~dec1'.active /\ ~dec0'.active /\ ~fetch1'.active
        /\ fetch0'.active /\ fetch0'.pc = BranchTarget /\ BranchTaken
    BY <1>4, <1>6 DEF FlushClock, NextPc, TypeOK, Exec0Latch, DecLatch, InstLatch
  <2> QED
    BY <1>2, <1>3, <2>1 DEF AbsPc
<1>7. CASE AdvanceClock
  <2>1. exec0'.active /\ exec0'.pc = dec1.pc /\ ~BranchTaken
    BY <1>4, <1>7 DEF AdvanceClock
  <2> QED
    BY <1>2, <1>3, <1>4, <2>1 DEF AbsPc
<1> QED
  BY <1>5, <1>6, <1>7

\* A clock that moves an instruction out of EXEC0 is the step of the
\* sequential machine that executes it.
LEMMA ClockExecutes ==
  ASSUME Inv, Running, StallClock \/ FlushClock \/ AdvanceClock, ~Halting,
         exec0.active, ForwardSafe(srami)
  PROVE  Arch!Next
<1> USE DEF Inv
<1> DEFINE i == exec0.in
           a == exec0.alu0
           b == exec0.alu1
           L == Promote(exec0)
<1>1. Execute
  BY DEF StallClock, FlushClock, AdvanceClock
<1>2. /\ i \in Instr /\ a \in Word /\ b \in Word /\ L \in Exec1Latch
      /\ L.active /\ L.in = i /\ L.alu0 = a /\ L.alu1 = b /\ L.pc = exec0.pc
      /\ L.aluout = Alu(i, a, b)
  BY PromoteType DEF TypeOK, Exec0Latch, Promote
<1>3. /\ AbsPc = exec0.pc /\ AbsPc \in Addr
      /\ AbsPc' = IF Taken(i, a, b) THEN Target(i, a) ELSE AbsPc + 1
  BY NextAbsPc DEF BranchTaken, BranchTarget
<1>4. /\ AbsRegs' = WriteBack(AbsRegs, L, dataout') /\ srami' = srami
      /\ AbsMem' = MemAfter(sramd, SramdPort) /\ AbsMem = sramd
      /\ AbsHalted = FALSE /\ AbsHalted' = (i.op = "HLT") /\ ~Stopped
  BY <1>1, ExecuteMaps
<1>5. Arch!Fetched = i
  BY <1>3, <1>4 DEF Arch!Fetched, FrontInOrder
<1>6. Arch!OperandA = a /\ Arch!OperandB = b
  BY <1>4, <1>5, SameIsa DEF Arch!OperandA, Arch!OperandB, SafeOperandsFresh, OperandsFresh
<1>7. Arch!CanStep
  BY <1>3, <1>4, SameIsa DEF Arch!CanStep
<1> HIDE DEF i, a, b, L
<1>8. CASE i.op \in AluOps
  <2>1. ~Taken(i, a, b) /\ i.op \notin {"HLT", "ST", "LD"}
    BY <1>8 DEF Taken, AluOps
  <2>2. AbsRegs' = SetReg(AbsRegs, i.dst, Alu(i, a, b))
    <3>1. WriteBack(AbsRegs, L, dataout') = SetReg(AbsRegs, L.in.dst, L.aluout)
      BY <1>2, <1>8, WriteBackCases
    <3> QED
      BY <1>2, <1>4, <3>1
  <2>3. AbsMem' = AbsMem
    BY <1>1, <1>4, <2>1, MemoryAfter DEF i, Execute
  <2>4. Arch!ExecAlu
    BY <1>3, <1>4, <1>5, <1>6, <1>7, <1>8, <2>1, <2>2, <2>3, SameIsa DEF Arch!ExecAlu
  <2> QED
    BY <2>4 DEF Arch!Next
<1>9. CASE i.op = "LD"
  <2>1. ~Taken(i, a, b) /\ i.op # "HLT"
    BY <1>9 DEF Taken
  <2>2. b \in Addr
    BY <1>1, <1>9, PortsInRange DEF i, b, Execute
  <2>3. AbsMem' = AbsMem /\ dataout' = AbsMem[b]
    BY <1>1, <1>4, <1>9, MemoryAfter DEF i, b, Execute
  <2>4. AbsRegs' = SetReg(AbsRegs, i.dst, AbsMem[b])
    <3>1. WriteBack(AbsRegs, L, dataout') = SetReg(AbsRegs, L.in.dst, dataout')
      <4>1. L.active /\ L.in.op = "LD" /\ L \in Exec1Latch
        BY <1>2, <1>9
      <4> QED
        BY <4>1, WriteBackCases
    <3> QED
      BY <1>2, <1>4, <2>3, <3>1
  <2>5. Arch!ExecLoad
    BY <1>3, <1>4, <1>5, <1>6, <1>7, <1>9, <2>1, <2>2, <2>3, <2>4, SameIsa DEF Arch!ExecLoad
  <2> QED
    BY <2>5 DEF Arch!Next
<1>10. CASE i.op = "ST"
  <2>1. ~Taken(i, a, b) /\ i.op # "HLT" /\ i.op \notin Writers
    BY <1>10 DEF Taken, Writers, AluOps
  <2>2. b \in Addr
    BY <1>1, <1>10, PortsInRange DEF i, b, Execute
  <2>3. AbsMem' = [AbsMem EXCEPT ![b] = a]
    BY <1>1, <1>4, <1>10, MemoryAfter DEF i, a, b, Execute
  <2>4. AbsRegs' = AbsRegs
    BY <1>2, <1>4, <2>1, WriteBackCases
  <2>5. Arch!ExecStore
    BY <1>3, <1>4, <1>5, <1>6, <1>7, <1>10, <2>1, <2>2, <2>3, <2>4, SameIsa DEF Arch!ExecStore
  <2> QED
    BY <2>5 DEF Arch!Next
<1>11. CASE Taken(i, a, b)
  <2>1. i.op \notin {"HLT", "ST", "LD"}
    BY <1>11 DEF Taken
  <2>2. AbsMem' = AbsMem
    BY <1>1, <1>4, <2>1, MemoryAfter DEF i, Execute
  <2>3. AbsRegs' = [AbsRegs EXCEPT ![7] = AbsPc]
    <3>1. WriteBack(AbsRegs, L, dataout') = [AbsRegs EXCEPT ![7] = L.pc]
      BY <1>2, <1>11, WriteBackCases
    <3> QED
      BY <1>2, <1>3, <1>4, <3>1
  <2>4. Arch!ExecTaken
    BY <1>3, <1>4, <1>5, <1>6, <1>7, <1>11, <2>1, <2>2, <2>3, SameIsa DEF Arch!ExecTaken
  <2> QED
    BY <2>4 DEF Arch!Next
<1>12. CASE i.op \in CondBranches \cup Unassigned \cup {"HLT"} /\ ~Taken(i, a, b)
  <2>1. i.op \notin {"ST", "LD"} /\ i.op \notin Writers
    BY <1>12 DEF Writers, AluOps, CondBranches, Unassigned
  <2>2. AbsMem' = AbsMem
    BY <1>1, <1>4, <2>1, MemoryAfter DEF i, Execute
  <2>3. AbsRegs' = AbsRegs
    BY <1>2, <1>4, <1>12, <2>1, WriteBackCases
  <2>4. CASE i.op = "HLT"
    <3>1. Arch!ExecHalt
      BY <1>3, <1>4, <1>5, <1>7, <1>12, <2>2, <2>3, <2>4, SameIsa DEF Arch!ExecHalt
    <3> QED
      BY <3>1 DEF Arch!Next
  <2>5. CASE i.op # "HLT"
    <3>1. Arch!ExecNothing
      BY <1>3, <1>4, <1>5, <1>6, <1>7, <1>12, <2>2, <2>3, <2>5, SameIsa DEF Arch!ExecNothing
    <3> QED
      BY <3>1 DEF Arch!Next
  <2> QED
    BY <2>4, <2>5
<1>13. /\ i.op \in Opcode
       /\ i.op = "JIN" => Taken(i, a, b)
  BY <1>2 DEF Instr, Taken
<1> QED
  BY <1>8, <1>9, <1>10, <1>11, <1>12, <1>13 DEF Opcode

\* Every step of the pipeline is a step of the sequential machine or leaves
\* it alone.
LEMMA NextRefines ==
  Inv /\ QuietInReset /\ ForwardSafe(srami) /\ [Next]_vars => [Arch!Next]_(Arch!vars)
<1> SUFFICES ASSUME Inv, QuietInReset, ForwardSafe(srami), [Next]_vars
             PROVE  [Arch!Next]_(Arch!vars)
  OBVIOUS
<1>1. CASE ResetClock
  <2>1. /\ ~fetch0.active /\ ~fetch1.active /\ ~dec0.active /\ ~dec1.active
        /\ ~exec0.active /\ ~exec1.active /\ r = ZeroRegs /\ ~Stopped
    BY <1>1, RunningNotStopped DEF ResetClock, Resetting, QuietInReset, Stopped
  <2>2. /\ ~fetch0'.active /\ ~fetch1'.active /\ ~dec0'.active /\ ~dec1'.active
        /\ ~exec0'.active /\ ~exec1'.active /\ r' = ZeroRegs /\ ~Stopped'
        /\ srami' = srami /\ sramd' = sramd /\ exec1' \in Exec1Latch
    BY <1>1, <2>1, ZeroTypes DEF ResetClock, Stopped, ZeroFetch, ZeroInst, ZeroDec,
                                 ZeroExec0, ZeroExec1
  <2>3. AbsPc' = AbsPc /\ AbsMem' = AbsMem /\ AbsHalted' = AbsHalted
    BY <2>1, <2>2 DEF AbsPc, AbsMem, AbsHalted, Halting
  <2>4. exec1 \in Exec1Latch
    BY DEF Inv, TypeOK
  <2>5. AbsRegs = ZeroRegs /\ AbsRegs' = ZeroRegs
    BY <2>1, <2>2, <2>4, WriteBackCases DEF AbsRegs
  <2> QED
    BY <2>2, <2>3, <2>5 DEF Arch!vars
<1>2. CASE StallClock \/ FlushClock \/ AdvanceClock
  <2>1. Running /\ Execute
    BY <1>2 DEF StallClock, FlushClock, AdvanceClock
  <2>2. CASE Halting
    BY <2>1, <2>2, HaltClockStutters
  <2>3. CASE ~Halting /\ exec0.active
    BY <1>2, <2>1, <2>3, ClockExecutes
  <2>4. CASE ~Halting /\ ~exec0.active
    <3>1. AdvanceClock
      BY <1>2, <2>4 DEF StallClock, FlushClock, Stall, BranchTaken
    <3> QED
      BY <2>1, <2>4, <3>1, BubbleStutters
  <2> QED
    BY <2>2, <2>3, <2>4
<1>3. CASE TrapClock
  <2>1. ~Stopped /\ ~Stopped'
    BY <1>3, RunningNotStopped DEF TrapClock, Stopped
  <2> QED
    BY <1>3, <2>1 DEF TrapClock, Arch!vars, AbsPc, AbsRegs, AbsMem, AbsHalted, Halting
<1>4. CASE UNCHANGED vars
  BY <1>4 DEF vars, Arch!vars, AbsPc, AbsRegs, AbsMem, AbsHalted, Halting, Stopped
<1> QED
  BY <1>1, <1>2, <1>3, <1>4 DEF Next

\* The instruction memory is never written, so a safe program stays safe.
LEMMA SafeAlways == Spec /\ ForwardSafe(srami) => []ForwardSafe(srami)
<1>1. ForwardSafe(srami) /\ [Next]_vars => ForwardSafe(srami)'
  <2> SUFFICES ASSUME ForwardSafe(srami), [Next]_vars PROVE ForwardSafe(srami)'
    OBVIOUS
  <2>1. srami' = srami
    BY DEF Next, ResetClock, StallClock, FlushClock, AdvanceClock, TrapClock, Execute, vars
  <2> QED
    BY <2>1 DEF ForwardSafe
<1> QED
  BY <1>1, PTL DEF Spec

\* Clock by clock, the pipeline computes register for register, word for word
\* and address for address what the sequential machine computes, as long as
\* the program is safe.
THEOREM PipelineImplementsArch == Spec => ImplementsArch
<1>1. Inv /\ QuietInReset /\ [Next]_vars
        => [ForwardSafe(srami) => [Arch!Next]_(Arch!vars)]_vars
  BY NextRefines
<1> QED
  BY <1>1, InitRefines, InvAlways, QuietAlways, PTL DEF Spec, ImplementsArch

\* A safe program stays one, since the instruction memory is never written:
\* on it the pipeline is a refinement of the sequential machine.
THEOREM PipelineRefinesArch == SafeSpec => Arch!Spec
<1>1. Spec /\ ForwardSafe(srami) => Arch!Init /\ [][Arch!Next]_(Arch!vars)
  BY InitRefines, NextRefines, InvAlways, QuietAlways, SafeAlways, PTL DEF Spec
<1> QED
  BY <1>1, PTL DEF SafeSpec, SafeInit, Spec, Arch!Spec

-----------------------------------------------------------------------------
(***************************************************************************)
(* From the sequential machine to lab 2's simulator.                       *)
(***************************************************************************)

\* The instruction set of lab 2's simulator is the pipeline's.
LEMMA SameSimulatorIsa ==
  /\ Simulator!AluOps = AluOps /\ Simulator!CondBranches = CondBranches
  /\ Simulator!Unassigned = Unassigned /\ Simulator!Reg = Reg
  /\ \A s, i, regs : Simulator!Operand(s, i, regs) = Operand(s, i, regs)
  /\ \A i, a, b : Simulator!IntAlu(i, a, b) = IntAlu(i, a, b)
  /\ \A i, a, b : Simulator!Taken(i, a, b) <=> Taken(i, a, b)
<1>1. Simulator!AluOps = AluOps /\ Simulator!CondBranches = CondBranches
      /\ Simulator!Unassigned = Unassigned /\ Simulator!Reg = Reg
  BY DEF Simulator!AluOps, AluOps, Simulator!CondBranches, CondBranches,
         Simulator!Unassigned, Unassigned, Simulator!Reg, Reg
<1>2. \A s, i, regs : Simulator!Operand(s, i, regs) = Operand(s, i, regs)
  BY DEF Simulator!Operand, Operand
<1>3. Simulator!WordMod = WordMod
  BY DEF Simulator!WordMod, WordMod
<1>4. \A i, a, b : Simulator!Alu(i, a, b) = Alu(i, a, b)
  BY <1>3 DEF Simulator!Alu, Alu
<1>5. \A w : Simulator!Negative(w) <=> Negative(w)
  BY <1>3 DEF Simulator!Negative, Negative
<1>6. \A a, b : Simulator!ShiftRightSigned(a, b) = ShiftRightSigned(a, b)
  BY <1>3, <1>5 DEF Simulator!ShiftRightSigned, ShiftRightSigned
<1>7. \A i, a, b : Simulator!IntAlu(i, a, b) = IntAlu(i, a, b)
  BY <1>4, <1>6 DEF Simulator!IntAlu, IntAlu
<1>8. \A w : Simulator!Signed(w) = Signed(w)
  BY <1>3, <1>5 DEF Simulator!Signed, Signed
<1>9. \A i, a, b : Simulator!Taken(i, a, b) <=> Taken(i, a, b)
  BY <1>8 DEF Simulator!Taken, Taken
<1> QED
  BY <1>1, <1>2, <1>7, <1>9

\* Where both ALUs are given the same operands they agree: a word shifted to
\* the right has no sign to keep, and LHI takes its high half from r1, the
\* immediate.
LEMMA AlusAgree ==
  ASSUME NEW i, NEW regs,
         i.op = "LHI" => i.src1 = 1,
         i.op = "RSF" => ~Negative(Operand(i.src0, i, regs))
  PROVE  IntAlu(i, Operand(i.src0, i, regs), Operand(i.src1, i, regs))
           = Alu(i, Operand(i.src0, i, regs), Operand(i.src1, i, regs))
<1>1. CASE i.op = "RSF"
  BY <1>1 DEF IntAlu, Alu, ShiftRightSigned
<1>2. CASE i.op = "LHI"
  BY <1>2 DEF IntAlu, Alu, Operand
<1>3. CASE i.op \notin {"RSF", "LHI"}
  BY <1>3 DEF IntAlu
<1> QED
  BY <1>1, <1>2, <1>3

\* The registers the mapping shows are words.
LEMMA AbsRegsType == TypeOK => AbsRegs \in [Reg -> Word]
  BY WriteBackType DEF AbsRegs, TypeOK

\* An instruction that means the same in the two sources takes lab 2's
\* simulator where it takes the sequential machine.
LEMMA ArchStepIsIssStep ==
  ASSUME TypeOK, SameMeaning, Arch!Next
  PROVE  Simulator!Next
<1> DEFINE i == Decode(srami[AbsPc])
           a == Operand(i.src0, i, AbsRegs)
           b == Operand(i.src1, i, AbsRegs)
<1>1. /\ AbsPc \in Addr /\ AbsMem[AbsPc] = srami[AbsPc]
      /\ i.op \in Writers => i.dst >= 2
      /\ i.op \in {"ST", "JIN"} => i.src0 >= 2
      /\ i.op = "JIN" => i.src0 # 7 /\ AbsRegs[i.src0] \in Addr
      /\ i.op = "LHI" => i.src1 = 1
      /\ i.op = "RSF" => ~Negative(a)
  BY DEF SameMeaning
<1>2. i \in Instr
  BY <1>1, DecodeAssumption DEF TypeOK
<1>3. i.dst \in Reg /\ i.src0 \in Reg /\ i.op \in Opcode /\ AbsRegs \in [Reg -> Word]
  BY <1>2, AbsRegsType DEF Instr
<1>4. Arch!Fetched = i /\ Arch!OperandA = a /\ Arch!OperandB = b
  BY SameIsa DEF Arch!Fetched, Arch!OperandA, Arch!OperandB
<1>5. Simulator!In = i /\ Simulator!Val0 = a /\ Simulator!Val1 = b
  BY <1>1, SameSimulatorIsa DEF Simulator!In, Simulator!Val0, Simulator!Val1
<1>6. \A x \in Addr : x % Half = x
  BY HalfAssumption DEF Addr
<1>7. Arch!CanStep => Simulator!Looping
  BY <1>1, HalfAssumption DEF Arch!CanStep, Simulator!Looping, Addr
<1>8. Simulator!Linked = [AbsRegs EXCEPT ![7] = AbsPc]
  <2>1. AbsPc + 0 = AbsPc
    BY <1>1, HalfAssumption DEF Addr
  <2> QED
    BY <2>1 DEF Simulator!Linked
<1>9. i.op \in {"ST", "JIN"} => AbsRegs[i.src0] = a
  BY <1>1, <1>3 DEF Operand, Reg
<1>10. IntAlu(i, a, b) = Alu(i, a, b)
  BY <1>1, AlusAgree
<1> HIDE DEF i, a, b
<1>11. CASE Arch!ExecAlu
  <2>1. i.op \in AluOps /\ i.dst >= 2
    BY <1>1, <1>4, <1>11, SameIsa DEF Arch!ExecAlu, Writers
  <2>2. AbsRegs' = [AbsRegs EXCEPT ![i.dst] = Alu(i, a, b)]
    BY <1>4, <1>11, <2>1, SameIsa DEF Arch!ExecAlu, SetReg
  <2>3. Simulator!Result = Alu(i, a, b)
    BY <1>5, <1>10, SameSimulatorIsa DEF Simulator!Result
  <2>4. Simulator!Compute
    BY <1>5, <1>7, <1>11, <2>1, <2>2, <2>3, SameSimulatorIsa
       DEF Arch!ExecAlu, Simulator!Compute
  <2> QED
    BY <2>4 DEF Simulator!Next
<1>12. CASE Arch!ExecLoad
  <2>1. i.op = "LD" /\ i.dst >= 2 /\ b % Half = b
    BY <1>1, <1>4, <1>6, <1>12, SameIsa DEF Arch!ExecLoad, Writers
  <2>2. AbsRegs' = [AbsRegs EXCEPT ![i.dst] = AbsMem[b]]
    BY <1>4, <1>12, <2>1, SameIsa DEF Arch!ExecLoad, SetReg
  <2>3. Simulator!Load
    BY <1>5, <1>7, <1>12, <2>1, <2>2 DEF Arch!ExecLoad, Simulator!Load
  <2> QED
    BY <2>3 DEF Simulator!Next
<1>13. CASE Arch!ExecStore
  <2>1. i.op = "ST" /\ b % Half = b /\ AbsRegs[i.src0] = a
    BY <1>4, <1>6, <1>9, <1>13, SameIsa DEF Arch!ExecStore
  <2>2. Simulator!Store
    BY <1>4, <1>5, <1>7, <1>13, <2>1 DEF Arch!ExecStore, Simulator!Store
  <2> QED
    BY <2>2 DEF Simulator!Next
<1>14. CASE Arch!ExecTaken
  <2>1. Taken(i, a, b) /\ AbsRegs' = [AbsRegs EXCEPT ![7] = AbsPc] /\ AbsPc' = Target(i, a)
    BY <1>4, <1>14, SameIsa DEF Arch!ExecTaken
  <2>2. CASE i.op = "JIN"
    <3>1. Simulator!JinTarget = a
      BY <1>1, <1>3, <1>5, <1>6, <1>8, <1>9, <2>2 DEF Simulator!JinTarget
    <3>2. Simulator!JumpIndirect
      BY <1>5, <1>7, <1>8, <1>14, <2>1, <2>2, <3>1
         DEF Arch!ExecTaken, Simulator!JumpIndirect, Target
    <3> QED
      BY <3>2 DEF Simulator!Next
  <2>3. CASE i.op # "JIN"
    <3>1. i.op \in CondBranches /\ AbsPc' = i.imm % Half
      BY <2>1, <2>3 DEF Taken, CondBranches, Target
    <3>2. Simulator!Branch
      BY <1>5, <1>7, <1>8, <1>14, <2>1, <3>1, SameSimulatorIsa
         DEF Arch!ExecTaken, Simulator!Branch
    <3> QED
      BY <3>2 DEF Simulator!Next
  <2> QED
    BY <2>2, <2>3
<1>15. CASE Arch!ExecNothing
  <2>1. i.op \in CondBranches \cup Unassigned /\ ~Taken(i, a, b)
    BY <1>4, <1>15, SameIsa DEF Arch!ExecNothing
  <2>2. Simulator!Skip
    BY <1>5, <1>7, <1>15, <2>1, SameSimulatorIsa DEF Arch!ExecNothing, Simulator!Skip
  <2> QED
    BY <2>2 DEF Simulator!Next
<1>16. CASE Arch!ExecHalt
  <2>1. Simulator!Halt
    BY <1>4, <1>5, <1>7, <1>16 DEF Arch!ExecHalt, Simulator!Halt
  <2> QED
    BY <2>1 DEF Simulator!Next
<1> QED
  BY <1>11, <1>12, <1>13, <1>14, <1>15, <1>16 DEF Arch!Next

\* The simulator sees nothing the sequential machine does not see.
LEMMA ArchStutterIsIssStutter ==
  ASSUME UNCHANGED Arch!vars
  PROVE  UNCHANGED Simulator!issVars
  BY DEF Arch!vars, Simulator!issVars

LEMMA NextRefinesIss ==
  ASSUME Inv, QuietInReset, ForwardSafe(srami), AbsHalted \/ SameMeaning, [Next]_vars
  PROVE  [Simulator!Next]_(Simulator!issVars)
<1>1. [Arch!Next]_(Arch!vars)
  BY NextRefines
<1>2. Arch!Next => ~AbsHalted
  BY DEF Arch!Next, Arch!CanStep, Arch!ExecAlu, Arch!ExecLoad, Arch!ExecStore,
         Arch!ExecTaken, Arch!ExecNothing, Arch!ExecHalt
<1> QED
  BY <1>1, <1>2, ArchStepIsIssStep, ArchStutterIsIssStutter DEF Inv

LEMMA InitRefinesIss == Init => Simulator!Init
  BY InitRefines, SameIsa, SameSimulatorIsa DEF Init, Arch!Init, Simulator!Init

\* On a program of neither shape the forwarding gets wrong, every clock of
\* lab 3's pipeline is one step of lab 2's simulator, or none, as long as the
\* next instruction means the same in the two sources.  This is up to the
\* return address (LinkOffset is 0): sp.c saves a jump's own address in r[7],
\* iss.c the next one.
THEOREM PipelineImplementsIss == Spec => ImplementsIss
<1>1. Inv /\ QuietInReset /\ [Next]_vars
        => [ForwardSafe(srami) /\ (AbsHalted \/ SameMeaning)
              => [Simulator!Next]_(Simulator!issVars)]_vars
  BY NextRefinesIss
<1> QED
  BY <1>1, InitRefinesIss, InvAlways, QuietAlways, PTL DEF Spec, ImplementsIss

\* A safe program whose every executed instruction means the same in the two
\* sources runs on the pipeline of lab 3 as it runs on the simulator of lab 2,
\* the return addresses in r7 again being the jump's own (LinkOffset is 0).
THEOREM PipelineRefinesIss == SafeSpec /\ [](AbsHalted \/ SameMeaning) => Simulator!Spec
<1>1. Spec /\ ForwardSafe(srami) /\ [](AbsHalted \/ SameMeaning)
        => Simulator!Init /\ [][Simulator!Next]_(Simulator!issVars)
  BY InitRefinesIss, NextRefinesIss, InvAlways, QuietAlways, SafeAlways, PTL DEF Spec
<1> QED
  BY <1>1, PTL DEF SafeSpec, SafeInit, Spec, Simulator!Spec
=============================================================================
