------------------------ MODULE SpPipelineProperties ------------------------
(***************************************************************************)
(* What the pipeline must do: the safety, action and liveness properties   *)
(* of SpPipeline, and the repository's own statements about it that its    *)
(* code contradicts.                                                       *)
(***************************************************************************)
EXTENDS SpPipeline

\* Every variable has its type.
TypeOK ==
  /\ resets \in 0 .. ResetClocks
  /\ status \in Status
  /\ r \in [Reg -> Word]
  /\ fetch0 \in FetchLatch
  /\ fetch1 \in InstLatch
  /\ dec0 \in InstLatch
  /\ dec1 \in DecLatch
  /\ exec0 \in Exec0Latch
  /\ exec1 \in Exec1Latch
  /\ srami \in [Addr -> Word]
  /\ sramd \in [Addr -> Word]
  /\ dataout \in Word
  /\ dump \in [Addr -> Word] \cup {NoDump}

-----------------------------------------------------------------------------
(***************************************************************************)
(* Order.                                                                  *)
(***************************************************************************)

\* The stages in front of EXEC0 hold consecutive instructions of the
\* instruction memory, youngest first, with no gap: bubbles appear only
\* behind the oldest of them, in EXEC0.  Stalls, flushes and the fetch of the
\* next address (sp.c DEC1 to FETCH0) never lose, repeat or reorder one.
FrontInOrder ==
  /\ fetch1.active => /\ fetch0.active
                      /\ fetch0.pc = fetch1.pc + 1
                      /\ fetch1.pc \in Addr
                      /\ fetch1.inst = srami[fetch1.pc]
  /\ dec0.active => /\ fetch1.active
                    /\ fetch1.pc = dec0.pc + 1
                    /\ dec0.pc \in Addr
                    /\ dec0.inst = srami[dec0.pc]
  /\ dec1.active => /\ dec0.active
                    /\ dec0.pc = dec1.pc + 1
                    /\ dec1.pc \in Addr
                    /\ dec1.in = Decode(srami[dec1.pc])
  /\ exec0.active => /\ dec1.active
                     /\ dec1.pc = exec0.pc + 1
                     /\ exec0.pc \in Addr
                     /\ exec0.in = Decode(srami[exec0.pc])

Exec1Taken == exec1.active /\ Taken(exec1.in, exec1.alu0, exec1.alu1)

\* A gap behind EXEC1 has one of two causes: a load whose reader waits in
\* DEC1, or a taken branch.
BackInOrder ==
  exec1.active /\ ~Stopped =>
     /\ exec1.pc \in Addr
     /\ exec1.in = Decode(srami[exec1.pc])
     /\ exec0.active => exec0.pc = exec1.pc + 1
     /\ ~exec0.active /\ dec1.active =>
           /\ dec1.pc = exec1.pc + 1
           /\ exec1.in.op = "LD" /\ exec1.in.dst >= 2
           /\ exec1.in.dst \in Reads(dec1.in)
     /\ ~dec1.active => Exec1Taken

\* Program order is kept through the whole pipeline, and every instruction in
\* it is the one the instruction memory holds at its address.
InOrder == FrontInOrder /\ BackInOrder

\* When a taken branch is in EXEC1, no instruction of the fall-through path
\* is left behind it (the flush of sp.c clears four latches one by one), and
\* the fetch is at the branch's target.
WrongPathSquashed ==
  Exec1Taken /\ ~Stopped =>
     /\ ~exec0.active /\ ~dec1.active /\ ~dec0.active /\ ~fetch1.active
     /\ fetch0.active /\ fetch0.pc = Target(exec1.in, exec1.alu0)

-----------------------------------------------------------------------------
(***************************************************************************)
(* Data.                                                                   *)
(***************************************************************************)

\* When a load reaches EXEC1 its word is on the data port: neither the poison
\* of an idle clock nor the word of another access, and no younger store has
\* reached the memory first.
LoadDataValid ==
  exec1.active /\ exec1.in.op = "LD" /\ ~Stopped =>
     exec1.alu1 \in Addr /\ dataout = sramd[exec1.alu1]

\* A load and a reader of its register are never in EXEC1 and EXEC0 together:
\* the reader would have latched its operand before the word arrived.
LoadUseSeparated ==
  ~( /\ ~Stopped /\ exec1.active /\ exec0.active
     /\ exec1.in.op = "LD" /\ exec1.in.dst >= 2
     /\ exec1.in.dst \in Reads(exec0.in) )

\* The operands an instruction carries in EXEC0 are those the sequential
\* machine would give it, counting the result that is still in EXEC1.
OperandsFresh ==
  exec0.active /\ ~Stopped =>
     /\ exec0.alu0 = Operand(exec0.in.src0, exec0.in, AbsRegs)
     /\ exec0.alu1 = Operand(exec0.in.src1, exec0.in, AbsRegs)

\* The hazard logic of detect_hazards resolves every hazard of a program with
\* none of the two shapes ForwardSafe excludes.
SafeOperandsFresh == ForwardSafe(srami) => OperandsFresh

DataAccess == exec0.active /\ exec0.in.op \in {"LD", "ST"}

(***************************************************************************)
(* The process is cut short only for a reason in the program, and each end *)
(* has its own.  llsim's assertion (src/lab3_A/llsim.c:311) exits for a    *)
(* data address above the memory, or because the sequential machine is     *)
(* within four words of the memory's end, where the prefetch runs into it. *)
(* Behaviour is undefined only after a negative data address, which passes *)
(* the assertion, or a fetch out of the memory, which sp_ctl reads first.  *)
(* A jump out of the memory counts as being at its end.                    *)
(***************************************************************************)
CutShortForAReason ==
  /\ status = "aborted" =>
        \/ DataAccess /\ exec0.alu1 >= Half /\ ~Negative(exec0.alu1)
        \/ AbsPc + 4 >= Half /\ ~Negative(AbsPc)
  /\ status = "undefined" =>
        \/ DataAccess /\ Negative(exec0.alu1)
        \/ AbsPc + 4 >= Half

-----------------------------------------------------------------------------
(***************************************************************************)
(* Steps.                                                                  *)
(***************************************************************************)

\* A load-use stall lasts one clock: the bubble it makes removes its cause.
StallsOneClock == [][Running /\ Stall /\ Running' => ~Stall']_vars

\* On a program of neither shape ForwardSafe excludes, every clock either
\* executes exactly the instruction the sequential machine would execute next,
\* or changes nothing it can see.
ImplementsArch ==
  Arch!Init /\ [][ForwardSafe(srami) => [Arch!Next]_(Arch!vars)]_vars

\* On such a program the pipeline of lab 3 computes what lab 2's simulator
\* computes: every clock is one step of lab2/iss.c, or none, as long as the
\* next instruction means the same in the two sources; and none once halted.
\* This is up to the return address (LinkOffset is 0): sp.c saves a jump's own
\* address in r[7], iss.c the next one.
ImplementsIss ==
  /\ Simulator!Init
  /\ [][ForwardSafe(srami) /\ (AbsHalted \/ SameMeaning) =>
           [Simulator!Next]_(Simulator!issVars)]_vars

-----------------------------------------------------------------------------
(***************************************************************************)
(* Progress.                                                               *)
(***************************************************************************)

Ended == status # "running"

\* The pipeline keeps executing: again and again an instruction is in EXEC1,
\* until the process ends.
KeepsExecuting == []<>(exec1.active \/ Ended)

\* A HLT that reaches EXEC0 ends the process.
HaltEnds == (exec0.active /\ exec0.in.op = "HLT") ~> Ended

-----------------------------------------------------------------------------
(***************************************************************************)
(* Statements of the repository.                                           *)
(***************************************************************************)

\* sp.c:317, "Forward from EXEC1 (ALU + LD)": EXEC1 forwards for the opcodes
\* that write their dst register.
Exec1ForwardsAluAndLd ==
  Running /\ (Exec1Forwards(dec1.in.src0) \/ Exec1Forwards(dec1.in.src1)) =>
     exec1.in.op \in Writers
=============================================================================
