# The SP processors, in TLA+

This directory holds TLA+ models of the processors in this repository, the
TLC runs that check them on small instances, and TLAPS proofs about them for
every size of word, every program and every instruction encoding.

The repository builds one toy 32-bit processor, the SP, four times:

| where | what | one step of the program is |
|---|---|---|
| `src/lab #1/iss.c` | instruction-set simulator | one instruction |
| `src/lab2/iss.c` | instruction-set simulator with return addresses | one instruction |
| `src/lab2/sp.c` | multi-cycle hardware model with a DMA engine | one clock, six per instruction |
| `src/lab3_A/sp.c` | six-stage pipeline with stalls, forwarding, flushes | one clock, up to six instructions in flight |

The two hardware models run on `llsim.c`, a small framework of registers
(old and new copies swapped at the clock's end) and memories with one port.
`asm_cmd` programs (`add_asm.c`, `sqrtq_asm.c`, `dma_test.c`,
`dma_overlap_test.c`) write memory images the simulators load.

## Inventory

### Pipelined SP, `src/lab3_A/sp.c`

* State: the register file `r[]`; six latches `fetch0 .. exec1`, each with an
  `active` bit and a `pc`; the memories `srami` (code) and `sramd` (data), with
  `sramd`'s output latch; the stall and flush signals of the clock.
* Operations: one call of `sp_ctl` per clock runs all six stages
  (`detect_hazards` first, then EXEC1 to FETCH0); `llsim_run_clock` serves the
  two memory ports and swaps the registers; HLT dumps and stops.
* Interaction: the stages are concurrent actors. They share `r[]` (written by
  EXEC1, read by DEC1), `sramd`'s port (driven by EXEC0, its answer read by
  EXEC1 and by the forwarding logic a clock later) and the stall and flush
  decisions, which each stage applies to its own latch.
* Hard: two producers of one register in flight; a load whose data does not
  exist yet; stores in EXEC0 that could overtake older loads in EXEC1 or an
  older HLT; the prefetch running into the memory's end; a range check that a
  negative address passes; the branch flush done latch by latch. (A stall and a
  flush cannot fall into one clock: each needs its own opcode in EXEC0.)
* Correct when: nothing is lost, repeated or reordered; the wrong path leaves
  no trace; operands are those of the sequential machine; stalls end.

### Multi-cycle SP with DMA, `src/lab2/sp.c`

* State: `ctl_state`, `pc`, `inst`, the decoded fields, `alu0`, `alu1`,
  `aluout`, `r[]`, the five DMA registers, one memory for code and data.
* Operations: one control state per clock; EXEC1 has one case per opcode. The
  DMA engine steps after `sp_ctl` in every clock.
* Interaction: the processor and the engine are wired to the only memory port
  and meet in `DMA_START` and `DMA_STATUS`. Programs write the memory they run from.
* Hard: latches filled up to four clocks before use; the DMA registers assigned
  twice in one clock; JIN indexing `r[]` with a value. (Who owns the port would
  be hard too; but the double assignment keeps the engine from ever starting.)
* Correct when: what was latched still holds when used, each instruction does
  what `iss.c` does, the process is cut short by bad addresses only, HLT ends it.

### Instruction-set simulators, `src/lab #1/iss.c`, `src/lab2/iss.c`

* State: `pc`, `reg[]`, `mem[]`, `halted`. Operations: one opcode per turn.
* Hard: small differences (return address, LHI, what ST and JIN read) that only
  some programs can tell. `add_asm.c` can: it keeps a sign in r7 across jumps
  (lines 74, 76 and 80), which lab 2 overwrites with return addresses.
* Correct when: the two agree for as long as nothing is executed that they
  read differently.

### Assembly programs, encoder and image files

* State: an assembler program has `mem[]` and `pc`; a loader has
  `memory_image[]` or the simulator's `mem[]`; llsim's memories have one spare
  entry behind their height.
* Operations: `asm_cmd` packs a command; the program writes its first words as
  a file; `sp_generate_sram_memory_image` reads it and injects it word by word,
  `iss.c` reads it directly.
* Interaction: one file, two independent loaders, three decoders.
* Hard: fields masked to their width; the injection rewrites eight bytes to
  change four; branch targets counted by hand; register numbers above 7.
* Correct when: both loaders load the same words, the machines decode what was
  written, the programs compute what they say and halt.

### llsim, `src/lab2/llsim.c`, `src/lab3_A/llsim.c`

* State: memories with a port each, old and new registers, `stop_sim`.
  Operations: `llsim_mem_read`, `llsim_mem_write`, `llsim_mem_set_datain`,
  `llsim_run_clock`, `llsim_stop`, `main`.
* Hard: the port is served in statements, its flags cleared one by one while
  `read_done` and `write_done` remember them; the assertion on simultaneous
  access comes after both accesses; the bound check is signed and from above
  only; an idle port replaces the output latch by `0xBAADBAAD`.
* Correct when: for the unit, a clock is one atomic step; `llsim_stop` ends it.

### Not modelled

| part | why |
|---|---|
| traces (`inst_trace`, `cycle_trace`, ...) | formatting of state the models have; nothing reads them |
| the text of image files | one hexadecimal word a line; the words are modelled |
| `cycle_counter`, unread latches (`dec1_alu0`, `dec1_alu1`, `exec0_aluout`, copies of `inst`) | nothing but a trace reads them, or nothing writes them |
| the DMA block of lab 3 (`sp.c:792-802`) | nothing ever sets `dma_busy` |
| inputs, outputs and dual-ported memories of llsim | declared, never used |
| registration of units, registers and memories | runs once before the first clock: it is part of `Init` |
| Visual Studio state, build files, binaries, sample outputs | no behaviour |

Disagreements between comments and code that need no run to see, because one
line shows them: JIN takes its target from src0, not from R[dst]
(`src/lab3_A/sp.c:412`); the trace of LHI names dst where the code uses src0
(`src/lab3_A/sp.c:207`); `r[1]`, and by LD `r[0]`, are written although "r[0],
r[1] don't exist" (`src/lab2/sp.c:22`, written at `:337` and `:371`). The models
follow the code in all three.

## Modules

```
SpIsa ─┬─ LlsimMemory ─┬─ SpPipeline ── SpPipelineProperties ── MCSpPipeline
       │               │    └ INSTANCE SpArch, Iss
       │               ├─ SpMultiCycle ── SpMultiCycleProperties ── MCSpMultiCycle
       │               │    └ INSTANCE Iss
       │               ├─ LlsimClock
       │               └─ Llsim ── MCLlsim
       │                    └ INSTANCE LlsimClock
       ├─ SpArch
       ├─ Iss ── IssLockstep ── MCIssLockstep
       └─ MCWords (bits and images for TLC)

SpEncoding ── SpImage ── MCSpImage
Programs ─┬─ ProgramRun ── MCProgramRun            (INSTANCE Iss)
          └─ DmaProgramRun ── MCDmaProgramRun      (INSTANCE SpMultiCycle)

proofs: SpIsaProofs, SpPipelineProofs, SpPipelineRefinement, SpMultiCycleProofs,
        IssLockstepProofs, SpImageProofs, LlsimProofs, ProgramRunProofs
```

| module | models |
|---|---|
| `SpIsa` | words, instruction fields, operand selection, the ALUs, branch conditions |
| `LlsimMemory` | a memory port and what a clock does to it |
| `LlsimClock` | what llsim promises a unit: one atomic clock |
| `Llsim` | `main` and `llsim_run_clock`, statement by statement, and their mapping to `LlsimClock` |
| `SpPipeline` | the pipeline, clock by clock, and its mappings to `SpArch` and to lab 2's `Iss` |
| `SpArch` | the sequential machine the pipeline promises: one instruction per step |
| `SpMultiCycle` | the multi-cycle machine and DMA engine, clock by clock, and its mapping to `Iss` |
| `Iss` | both simulators, one instruction per step (`Lab` says which) |
| `IssLockstep` | lab 1's and lab 2's simulator on one program, side by side |
| `SpEncoding` | the instruction word: `asm_cmd` and DEC0, at their real width |
| `SpImage` | assembler, file, the two loaders, injection |
| `Programs` | the four assembler programs, line by line |
| `ProgramRun`, `DmaProgramRun` | those programs on lab 1's simulator and on the multi-cycle machine |

### Parameters

`Half` is 2^16 in the code: the memory height, the reach of the immediate and
the mask `0xFFFF`. A word is two halves; `Signed` is the C `int` it stands for.
`Decode` gives the fields of an instruction word, with the immediate already
sign-extended, and the five bit operations are parameters too. The
only assumptions on them are that they return instructions and words
(`DecodeAssumption`, `BitsAssumption`) and `Half >= 8`, so the proofs hold for
every encoding. The decoder of the code is one of them: `SpIsaProofs!SourceDecode`
is DEC0 of `SpEncoding`, and `SourceDecoder` proves the assumption of it.
Where C's `& | ^ << >>` are evaluated, `MCWords` defines them.
Shifts take their amount modulo the width, as the code's `& 31` does in lab 3
and as the x86 shift does for lab 2 and the simulators, whose plain `<<` by 32
or more is undefined in C; programs that shift by so much are outside the
models' claims.

### SpPipeline against the code

| model | code |
|---|---|
| `fetch0 .. exec1` | the `spro` latches of each stage, as records |
| `Stall`, `Exec1Forwards`, `Exec0Forwards`, `FreshOperand` | `detect_hazards` and the operand choice in DEC1 |
| `WriteBack`, `Halting`, `Dump` | EXEC1 |
| `Promote`, `SramdPort`, `BranchTaken`, `BranchTarget` | EXEC0 |
| `SramiPort`, `NextPc` | FETCH0 |
| `StallClock`, `FlushClock`, `AdvanceClock` | one call of `sp_ctl` and the end of `llsim_run_clock`, by what `detect_hazards` decided |
| `ResetClock` | the five clocks `main` runs with reset raised |
| `TrapClock` | a clock in which llsim's check fails, or an address escapes it |

The three clocks exclude each other and cover all cases, as the code's
`if (stall) ... else if (flush)` does. A clock is atomic because nothing else
runs: all old values come from `spro`, all new ones, `r[]` included, go to
`sprn`. So DEC1 reads `r[]` as it was before this clock's write-back, and the
forwarding from EXEC1 has to supply what EXEC1 is writing. The order of
statements inside the clock matters in one place and is kept: HLT dumps the
memories before the memory phase in which EXEC0's store takes effect.

### SpMultiCycle against the code

One action per `ctl_state`; EXEC1 is split by opcode (`Compute`, `Load`,
`Branch`, `JumpIndirect`, `DmaStatus`, `Pass`, `Halt`), `Pass` being the
opcodes that only move on. `Clock` is everything a clock does besides
`sp_ctl`: the port, the memory, the DMA engine. `Captured` is what `DMA_START`
puts into the new registers and `CarriedOver` the five assignments with which
`sp_run` then overwrites them; the engine's working states are modelled in
full although, for that reason, no run enters them (the mutant
`CarriedOverCaptured` does, and the properties then fail).

### Llsim against the code

`at` is the statement `main` or `llsim_run_clock` is at: the loop test, the
unit's `run`, then for the memory `Mems[k]` the read, the write and the check,
and the copy of the registers. `readDone` and `writeDone` are the two locals.
The unit is any unit: between `Enter` and `UnitReturns` it makes the calls
`MemRead`, `MemWrite`, `SetDatain`, `Stop` and writes its new registers, in any
order and number, restricted only to the addresses and data the constants list.
With reset raised it resets its registers and makes no call, as `sp_run` does.
`MemTwice`, `ReadFault`, `WriteFault` and `BothFault` are the four assertions.

The mapping lets the atomic clock happen when `run` returns: from then on the
rest of the clock is settled, so unserved memories are shown as served, the new
registers as copied, and a fault still ahead as the end it will be. A dead
process has no memories (`Gone`): what a fault in the second memory leaves of
the first one is nobody's to see.

### Programs and images against the code

`AddAsm`, `SqrtqAsm`, `DmaTest` and `DmaOverlapTest` have one line per
`asm_cmd`; a target the source writes as `pc + n` stays relative (`Jump`) and is
resolved by `At`, with the `pc` before its increment. The data addresses (1000,
100, 50, ...) are parameters, so that the programs fit a memory of 64 or 128
words. In `SpImage` every assembler command is possible, in any number, and
test data may be put anywhere behind the code. The two loaders are interleaved,
although they are runs of different processes, because nothing orders them.

### Undefined behaviour

* A negative address passes llsim's bound check and indexes in front of the
  array: the process goes to status `undefined`, after which nothing is claimed.
* FETCH0 of lab 3 takes the word at `fetch0_pc` straight from `srami` before
  llsim checks the address (`src/lab3_A/sp.c:753`), unless the clock stalls or
  flushes (`FetchReadsOutside`). A fetch out of the memory is then either
  `undefined` or, if that read does no harm, `aborted` by the check.
* `JIN` in lab 2 indexes `r[]` with its operand. Outside 0..7 it reads whatever
  follows the array or faults: the next `pc` is any address, or the status
  becomes `undefined`.

## Properties and runs

The properties marked P are proved for all constants. The runs bound the data.
For the machines `Half = 16` makes words of 8 bits and
memories of 16 words, which is enough for every sign, carry, wrap and range
check of the code to occur, and for a program to jump, to store into itself
and to run off its end. `Poison = 186` is the low byte's 0xBA, outside the
addresses, so a poisoned latch used as an address traps; `ResetClocks = 5` is the code's.
Programs are `Setup` (nothing, or two words that load r2 and r3), then every sequence of `Length`
words over `Alphabet`,
then HLT, then zeros, in the code and data memory alike. `Length` is 3 or 4 because
no hazard of the pipeline spans more than three instructions; the
words behind the HLT are the memory's zeros, `ADD r0 r0 r0`, as in the real
simulator. Instruction words are small indices of the table `Code`, so
loaded and stored data is itself an instruction.

### `pipeline`: `MCSpPipeline.cfg`

Every program of three words of sixteen: each ALU class, loads, stores,
conditional jumps, JIN, unassigned opcodes.

* `TypeOK` P.
* `InOrder` P: the latches hold consecutive instructions of `srami`, and the
  only gaps are the one a load-use stall makes and the one a taken branch makes.
* `WrongPathSquashed` P: with a taken branch in EXEC1, nothing of the
  fall-through path is left and FETCH0 is at the target.
* `LoadDataValid` P: a load in EXEC1 finds its word on the port's latch, not
  the poison and not another access's word.
* `LoadUseSeparated` P: a load in EXEC1 and its reader in EXEC0 never meet.
* `SafeOperandsFresh` P: on programs without the two shapes below, an
  instruction in EXEC0 carries the operands of the sequential machine.
* `CutShortForAReason` P: each early end has its own reason. The assertion
  exits only for a data address above the memory, or when the sequential machine
  is within four words of the memory's end, where the prefetch trips the bound
  check before a HLT there could execute. Behaviour is undefined only after a
  negative data address, or a fetch out of the memory. A check that treated the
  two kinds of address alike would break it, as would a prefetch further ahead.
* `StallsOneClock` P: a load-use stall removes its own cause.
* `ImplementsArch` P: under `ForwardSafe`, each clock is one step of `SpArch` or
  no step. The mapping counts an instruction as executed when it leaves EXEC0:
  its store is in memory then, its register result is seen through `WriteBack`.
  The dump stands for the memory once the process has stopped, so a store younger
  than the HLT that reached `sramd` in the last clock does not count.
* `ImplementsIss` P: under `ForwardSafe`, each clock is one step of lab 2's
  simulator or no step, whenever the next instruction means the same in
  `sp.c` and `iss.c`; once halted there is no step any more. All this is up to
  the return address in r7 (`LinkOffset`, see below).
* `KeepsExecuting`, `HaltEnds`: see Progress.

`ForwardSafe` excludes exactly the two shapes for which the code's forwarding
is wrong, which two of the runs below exhibit.

`SpPipeline!SameMeaning` leaves out, step by step, where the pipeline and
`iss.c` differ:

* a store into the code: the pipeline goes on fetching the old word from
  `srami`, the simulator has one memory;
* dst 0 or 1, dropped by the pipeline, written by `iss.c`; ST and JIN with
  src0 0 or 1, which `iss.c` reads from `reg[]`;
* JIN through r7, where `iss.c` has already saved its return address, or out
  of the memory, where `iss.c` keeps 16 bits and the pipeline's fetch traps;
* LHI with a src1 other than 1: the pipeline's high half is the immediate, the
  simulator's is the src1 operand;
* RSF of a negative number: unsigned in the pipeline, an `int` in `iss.c`.

`LinkOffset` is 0 in this mapping and the next one because both `sp.c` save the
jump's own address in r7 and `iss.c` the next one. So `ImplementsIss` of either
machine, and the four theorems about it, say that the machine does what `iss.c`
does up to that one: the simulator they mean saves the jump's address too.

### `multicycle`: `MCSpMultiCycle.cfg`

Every program of three words of fifteen.

* `TypeOK` P.
* `LatchesHold` P: from fetch to EXEC1 the latched instruction is the word at
  `pc`, the operands are those of `r[]`, a load's data is the word at its
  address, on programs that store into their own code too.
* `CutShortForAReason` P: the assertion exits only for a load or store above
  the memory; fetches, masked to 16 bits, never trip it, and no second access
  does. Behaviour is undefined only after a negative data address or a JIN
  outside `r[]`. What JIN does there is the code's, and not judged.
* `ImplementsIss` P: an EXEC1 clock is one step of lab 2's simulator
  whenever its instruction means the same in both sources, up to the return
  address in r7, and no other clock changes what the simulator has.
* `KeepsExecuting`, `HaltEnds`: see Progress.

`SameMeaning` leaves out the known differences, step by step, so a program may
mix such instructions with others:

* JIN: `r[alu0]` in `sp.c`, `reg[src0]` in `iss.c`;
* DMA_STATUS, which `iss.c` does not have;
* dst 0 of ALU instructions, written by `iss.c` only;
* LHI, whose low half is 0 in `sp.c` and src0's in `iss.c`;
* ST with src0 0 or 1, which `iss.c` reads from `reg[]`;
* `Wraps`, the step from the last word to address 0, where `iss.c` ends.

The DMA_START opcode is a no-op in both.

### `iss_lockstep`: `MCIssLockstep.cfg`

Every program of four words of eighteen.

* `IssTypeOK` P.
* `SimulatorsAgree` P: lab 1's and lab 2's simulators have the same `pc`, memory
  and registers as long as every instruction executed had one meaning in both
  (`OneMeaning`): it did not read a return address, was no JIN through r7, and
  no LHI of the form only lab 2 understands. r7 may differ from a jump to its
  next write, and there only. Two history variables carry this:
  `alike` remembers whether all instructions had one meaning, `linked` whether a
  jump was the last to write r7. The mutant, which saves the return address
  before the condition is looked at, breaks the agreement.

The programs run include readers of r7 before and after it is rewritten, JIN
through r7 and both forms of LHI; a program leaves the comparison at the first
instruction with two meanings. `LockNext` runs the two loops turn by turn and
ends with the first of them; while they agree they end together.

### `image`: `MCSpImage.cfg`

Commands with fields in and out of range, positive and negative test data, a
memory of four words, at the real width of a word.

* `ImageTypeOK` P: a packed command has 30 bits, whatever its arguments.
* `LoadersAgree` P: llsim's memories and the simulator's hold the same words
  when loaded. `lrbs` carries the sign of a negative word into the next entry;
  the next word, injected after it, repairs that, and only behind the last word
  of a file does a carried sign remain.
* `DecodedAsWritten` P: through packing, file, either loader and DEC0, command
  k is the instruction at address k, its numbers cut to their fields.

### `llsim`: `MCLlsim.cfg`

The pipelined machine's two memories, `sramd` served first; an address in range,
one out of range and a negative one; a unit with two register values. `Half = 8`.

* `LlsimTypeOK` P.
* `ClockIsAtomic` P: `Llsim` implements `LlsimClock`. Each memory serves its
  request once, from the contents before the clock; no request survives into
  the next clock; registers change all at once; the fault that ends the process
  is the first in the order of the memories. The machine models, whose clock is
  one step, rest on this.
* `StopEnds`: `llsim_stop` ends the process.

### `add`: `MCProgramRun.tla`, `MCAdd.cfg`

`add_asm.c` on lab 1's simulator with words of 14 bits and all pairs from
twelve operands: both zeros, small ones, the largest ones and those whose sum
just does or does not fit.

* `AddCorrect` P: the sum is stored whenever it fits, unless A is a zero in
  front of a number of its own sign (see below).
* `StaysInListing` P: no jump leads out of the program.
* `Halts`: see Progress.

### Progress

`KeepsExecuting` (an instruction reaches EXEC1 again and
again until the process ends: no endless stall, no endless bubbles) and
`HaltEnds` (a HLT in EXEC0, respectively in FETCH1, ends the process) under
`WF_vars(Next)`; `Halts` under the same of the simulator's loop. The fairness is that of
`main()`: a loop that runs one clock, or one instruction, after
the other until it ends. `Next` is the only actor, and it is disabled only
once the process has ended, which is also why the runs switch off the deadlock
check: stopping is what a simulator does. `StopEnds` needs only that the loop
and the return of `run` go on, `WF_vars(Advance)`: the units' run functions are
straight-line code, so they return, whatever calls they make.

### Runs that end in a violation

| run | statement | what the code does |
|---|---|---|
| `pipeline_stale_operand` | `OperandsFresh` ("Build fresh operands", `src/lab3_A/sp.c:634`) | EXEC1 has priority over the younger EXEC0: `r2 = 5; r2 = r2 - 1; r3 = r2 ...` uses 5 |
| `pipeline_bogus_forward` | `Exec1ForwardsAluAndLd` (`src/lab3_A/sp.c:317`) | EXEC1 forwards 0 for stores, branches and unassigned opcodes with a dst field |
| `dma_copy` | `CopyCompleteAtHalt` (`src/lab2/dma_test.c:4-5`) | `sp_run` overwrites what DMA_START captured; nothing is copied |
| `dma_overlap` | `PassMeansCopied` (`src/lab2/dma_overlap_test.c:4`) | registers 8 and 9 are r0 and r1, the mismatch branch is always taken and its target 18 is PASS |
| `add_leading_zero` | `AddAlwaysCorrect` (`src/lab #1/add_asm.c:4`) | with equal signs, a branch on A's magnitude skips taking the sign when A is 0: B's magnitude is added twice, and a negative sum loses its sign |
| `sqrtq` | `SafetyCounterWorks` (`src/lab #1/sqrtq_asm.c:67`) | the bit loop's `pc + 4` skips the shift and the counter: no end from 5 on, the program's own 3000 included |

The DMA runs use words of 12 bits, a copy of four words, in the overlap
test onto a range one word further.

## What is proved

All proofs are checked by TLAPS from the assumptions listed under Parameters,
`PoisonAssumption`, `ImagesAssumption`, `ResetAssumption` and, for their modules,
`HeightAssumption`, `CmdsAssumption`, `TestDataAssumption` (there is a memory,
commands are ints), `MemsAssumption`, `ClocksAssumption`, `UnitAssumption`
(a unit has at least one memory, all distinct, and drives them with words) and,
for the programs, `WidthAssumption` (a half word has an even number of values),
`LayoutAssumption` (the data lies behind the listing, in the memory),
`InputsAssumption` (the operands are words), `SignBitAssumption` and
`ShiftAssumption` (what C's `&` with the sign bit and `1 << 2` are). TLC
evaluates all of them on the runs.

* `SpIsaProofs`: the ALUs, operands, register writes and shifts stay in their
  widths; a read-over-write fact for `SetReg`; `SourceDecoder`.
* `SpPipelineProofs`: the invariant
  `Inv == TypeOK /\ FrontInOrder /\ BackInOrder /\ WrongPathSquashed /\
  LoadDataValid /\ LoadUseSeparated /\ SafeOperandsFresh /\ CutShortForAReason` is
  inductive, one step per clock. The parts need each other: the wrong path is
  squashed only because the flush empties what `FrontInOrder` says is there; a
  load's data is valid because nothing drives the port between EXEC0 and EXEC1;
  operands are fresh because at most a bubble or the next instruction in order
  stands between producer and consumer (`BackInOrder`) and because
  `ForwardSafe` excludes the two shapes at those addresses. The order and
  squash theorems need no assumption about the program.
* `SpPipelineRefinement`: initial states map to initial states, and under
  `Inv` and `ForwardSafe` each clock is a step of `SpArch` or leaves its
  variables alone: a stall, a reset and a flushed slot stutter, the rest take
  the step of the opcode in EXEC0. `PipelineImplementsArch` is the property of
  the run; `PipelineRefinesArch` says the same as `SafeSpec => Arch!Spec`.
  The second half goes on from `SpArch` to lab 2's simulator: where the next
  instruction means the same, the two ALUs agree (`AlusAgree`) and a step of
  `SpArch` is the simulator's (`ArchStepIsIssStep`). With the pipeline proved
  against `SpArch` before, `PipelineImplementsIss` needs no case on clocks;
  `PipelineRefinesIss` is the form for whole runs. Together with
  `MultiCycleImplementsIss` it puts both hardware models beside one simulator.
* `SpMultiCycleProofs`: `TypeOK`, that the DMA engine is idle (`DmaIdle`, which
  makes the port the processor's own), `LatchesHold` and `CutShortForAReason` together
  are inductive.
  From these follows `MultiCycleImplementsIss`. `LatchesHold` says that
  the instruction, operands, result and load data EXEC1 works with are those
  the simulator computes afresh; `NotStarted` and `LoadInRange` add that nothing
  happens before the first fetch and that a load in EXEC1 has passed the range check.
  `MultiCycleEngineNeverStarts` and `MultiCycleOnlyStoresWrite` say what the
  DMA findings come down to for every program: the engine's registers keep
  their zeros, and memory changes by ST alone, at the operands of the
  instruction at `pc`.
  `MultiCycleRefinesIss` is `MultiCycleImplementsIss` for a program all of whose
  instructions mean the same in both: its run is a run of the simulator.
* `IssLockstepProofs`: `IssTypeOK` with `SimulatorsAgree` is inductive. Before an
  instruction with one meaning the two simulators work with the same values
  (`SameWork`), since `linked` says when r7 may be looked at.
* `SpImageProofs`: the round trip of the fields, by place values; the invariant
  adds what each copy of the program has to do with the one before it
  (`FileIsMem`, `ImageIsFile`, `MemoryIsFile` with the carried sign,
  `IssMemIsFile`).
* `LlsimProofs`: `ClockIsAtomic` for any number of memories. The invariant says,
  for each statement, which requests are released and what the requests of the
  memory being served have already done (`AtRead`, `AtWrite`, `AtCheck`); with it
  the return of `run` is the abstract clock or its fault, and every statement
  of the memory loop leaves the mapped state alone. That a fault ahead has a
  first one is the library's well-foundedness of the numbers.

* `ProgramRunProofs`: `add_asm.c`'s program, for every width, every place of its
  data and all operands. `AddInv` says, address by address, what the
  registers hold there: the sign bit, the operands, their signs and magnitudes,
  which way the branches went, and the sum to be stored. It is inductive because the listing
  is still in the memory (`Loaded`: the only store goes to `Data + 2`), so that
  the step at each `pc` is known (one lemma per group of lines). Its arithmetic
  is the arithmetic of sign and magnitude: the difference of the magnitudes
  does not wrap after the comparison, the sum does not when it fits.
  `AddAsmCorrect` and `AddAsmStaysInListing` follow. `AddAsmMovesForward`, that
  every step goes to a later line, bounds a run by the length of the listing.
  Two findings hold in general too, and not only for the run's operands:
  `AddAsmDoublesAfterZero` says what is stored behind a leading zero (twice B's
  magnitude, without a sign, for every B of A's sign), and
  `SqrtqAsmNeverHalts` that `sqrtq_asm.c` halts for no number from 5 to the
  largest positive one, by the invariant `InBitLoop`: the lines after the
  misdirected jump are never reached. Their hypotheses name the listing
  (`Listing = AddAsm(Data)`, `Listing = SqrtqAsm(Data)`), which the runs `add`
  and `sqrtq` meet.

Only model-checked: liveness (`KeepsExecuting`, `HaltEnds`, `Halts`, `StopEnds`),
because the prover does not reach fairness and `ENABLED`. The violations
are counterexamples; of the two programs of lab 1 and of the DMA engine the
theorems above say more.

## Plan

Done: every component of the inventory, the refinements pipeline to
sequential machine and simulator, multi-cycle machine to simulator, statement-wise llsim to
atomic clock, and the proofs above.

Left, in this order:

1. The lab 1 programs on the lab 2 and lab 3 machines, where r7 holds return
   addresses and LHI differs: which of their results survive.
2. `SpMultiCycle` with the engine started (without the carry-over of
   `src/lab2/sp.c:461`), to state what the DMA engine alone would promise.
