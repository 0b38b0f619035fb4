----------------------- MODULE SpMultiCycleProperties -----------------------
(***************************************************************************)
(* What makes the multi-cycle machine of lab2 correct.                     *)
(***************************************************************************)
EXTENDS SpMultiCycle

(***************************************************************************)
(* Types: every register and memory word keeps its width, pc stays an      *)
(* address, and the dump is missing or a whole memory.                     *)
(***************************************************************************)
TypeOK ==
  /\ resets \in 0 .. ResetClocks
  /\ status \in Status
  /\ st \in CtlState
  /\ pc \in Addr
  /\ {inst, alu0, alu1, aluout, dataout} \subseteq Word
  /\ i \in Instr
  /\ r \in [Reg -> Word]
  /\ dma \in Dma
  /\ sram \in [Addr -> Word]
  /\ dump = NoDump \/ dump \in [Addr -> Word]

(***************************************************************************)
(* What the control states hand over to each other is still true when it   *)
(* is used: from its fetch to the end of its EXEC1 clock, the latched      *)
(* instruction is the one memory holds at pc (programs may store into      *)
(* their own code), the operands are those its registers hold, and a       *)
(* load's data is the word at its address.  The latches are filled up to   *)
(* four clocks before EXEC1 uses them, and sram's output latch only lives  *)
(* for one clock.                                                          *)
(***************************************************************************)
LatchesHold ==
  Running =>
     /\ st = "FETCH1" => dataout = sram[pc]
     /\ st = "DEC0" => inst = sram[pc]
     /\ st \in {"DEC1", "EXEC0", "EXEC1"} => i = Decode(sram[pc])
     /\ st \in {"EXEC0", "EXEC1"} => alu0 = Operand0 /\ alu1 = Operand1
     /\ st = "EXEC1" /\ i.op = "LD" => dataout = sram[alu1]
     /\ st = "EXEC1" => aluout = AluResult

\* The clock in which sp_ctl asks for a load, or for a store.
DataAccess ==
  \/ st = "EXEC0" /\ i.op = "LD"
  \/ st = "EXEC1" /\ i.op = "ST"

(***************************************************************************)
(* The process ends before HLT only for what the program asked.  llsim's   *)
(* assertion (src/lab2/llsim.c:266) exits for a load or a store above the  *)
(* memory alone: fetches are masked to 16 bits and never leave it, and no  *)
(* second access meets the processor's at the port.  Behaviour is          *)
(* undefined only after a negative data address or a JIN whose operand is  *)
(* no register number.                                                     *)
(***************************************************************************)
CutShortForAReason ==
  /\ status = "aborted" => DataAccess /\ alu1 >= Half /\ ~Negative(alu1)
  /\ status = "undefined" => (DataAccess /\ Negative(alu1)) \/ JinOutside

(***************************************************************************)
(* The machine executes what lab2/iss.c executes: an EXEC1 clock whose     *)
(* instruction means the same in both takes the simulator's step, and no   *)
(* other clock changes anything the simulator has.  DMA_START, which       *)
(* iss.c ignores, is among these instructions, and programs may mix them   *)
(* with the others.  The simulator meant is iss.c up to the return address *)
(* (LinkOffset is 0): sp.c saves a jump's own address in r[7], iss.c the   *)
(* next one.                                                               *)
(***************************************************************************)
Executes == st = "EXEC1" /\ st' # "EXEC1"

ImplementsIss ==
  /\ Simulator!Init
  /\ [][IF Executes
        THEN SameMeaning(i) /\ ~Wraps => Simulator!Next
        ELSE UNCHANGED Simulator!issVars]_vars

Ended == status # "running"

(***************************************************************************)
(* The control state machine never stops short: it reaches EXEC1 again and *)
(* again until the process ends.                                           *)
(***************************************************************************)
KeepsExecuting == []<>(st = "EXEC1" \/ Ended)

(***************************************************************************)
(* A HLT that has been fetched stops the simulator with its dump written;  *)
(* the state machine does not start the program over from IDLE.            *)
(***************************************************************************)
HaltEnds == (st = "FETCH1" /\ Decode(dataout).op = "HLT") ~> (Stopped /\ dump = sram)
=============================================================================
