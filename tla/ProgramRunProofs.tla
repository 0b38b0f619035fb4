-------------------------- MODULE ProgramRunProofs --------------------------
(***************************************************************************)
(* Proofs about the programs of lab 1, for every width, every place of the *)
(* data and all operands: add_asm.c computes the sum, and sqrtq_asm.c does *)
(* not come back from its bit loop.                                        *)
(***************************************************************************)
EXTENDS ProgramRun, TLAPS

Words == 0 .. WordMod - 1
SignBit == WordMod \div 2
SignOf(w) == IF Minus(w) THEN SignBit ELSE 0

(***************************************************************************)
(* What add_asm.c has established at each of its addresses, one conjunct   *)
(* for one thing it keeps in the registers.                                *)
(***************************************************************************)
Registers ==
  /\ pc \in 0 .. 46
  /\ reg \in [0 .. 7 -> Words]
  /\ mem \in [0 .. Half - 1 -> Words]
  /\ halted \in BOOLEAN /\ (halted <=> pc = 46)

Loaded == \A k \in 0 .. 45 : mem[k] = k + 1

SignBitReady ==
  /\ pc = 0 => reg[5] = 0
  /\ pc \in 1 .. 23 \cup 26 .. 27 \cup 30 .. 41 => reg[5] = SignBit

Addresses ==
  /\ pc \in 0 .. 3 => reg[6] = 0
  /\ pc = 4 => reg[6] = Immediate(Data)
  /\ pc = 7 => reg[6] = Immediate(Data + 1)
  /\ pc = 44 => reg[6] = Immediate(Data + 2)

Operands ==
  /\ pc >= 5 => reg[2] = A
  /\ pc >= 8 => reg[3] = B

Signs ==
  /\ pc \in 9 .. 12 \cup {30} => reg[6] = SignOf(A)
  /\ pc \in 10 .. 16 \cup 30 .. 34 => reg[7] = SignOf(B)
  /\ pc = 11 => reg[4] = (reg[6] - reg[7]) % WordMod

\* Which way the branches went.
Paths ==
  /\ pc \in 12 .. 29 => ~(Minus(A) <=> Minus(B))
  /\ pc \in 30 .. 41 => (Minus(A) <=> Minus(B))
  /\ pc \in {13, 31} => Minus(A)
  /\ pc \in {15, 33} => ~Minus(A)
  /\ pc \in {17, 35} => Minus(B)
  /\ pc \in {19, 37} => ~Minus(B)
  /\ pc \in 22 .. 24 => Magnitude(A) >= Magnitude(B)
  /\ pc \in 26 .. 28 => Magnitude(A) < Magnitude(B)
  /\ pc = 40 => Magnitude(A) # 0

MagnitudesReady ==
  /\ pc \in {14} \cup 16 .. 26 \cup {32} \cup 34 .. 41 => reg[6] = Magnitude(A)
  /\ pc \in {18} \cup 20 .. 26 \cup {36} \cup 38 .. 40 => reg[7] = Magnitude(B)

\* The difference or the sum of the magnitudes, and the sign to go with it.
Results ==
  /\ pc \in 23 .. 24 => reg[4] = Magnitude(A) - Magnitude(B)
  /\ pc \in 27 .. 28 => reg[4] = Magnitude(B) - Magnitude(A)
  /\ pc = 24 => reg[5] = SignOf(A)
  /\ pc = 28 => reg[5] = SignOf(B)
  /\ pc \in 39 .. 41 => reg[4] = Magnitude(A) + Magnitude(B)
  /\ pc = 41 => reg[7] = IF Magnitude(A) = 0 THEN Magnitude(B) ELSE SignOf(A)

\* What the program stores: the sum, or, where it goes wrong, twice B's magnitude.
IsSum(w) ==
  /\ SumFits /\ ~LeadingZero => Value(w) = Sum
  /\ LeadingZero => w = 2 * Magnitude(B)

Summed ==
  /\ pc \in {25, 29} \cup 42 .. 44 => IsSum(reg[4])
  /\ pc >= 45 => IsSum(mem[Data + 2])

AddInv ==
  /\ Registers /\ Loaded
  /\ SignBitReady /\ Addresses /\ Operands /\ Signs
  /\ Paths /\ MagnitudesReady /\ Results /\ Summed

-----------------------------------------------------------------------------
(***************************************************************************)
(* Words.                                                                  *)
(***************************************************************************)
LEMMA Widths ==
  /\ WordMod \in Nat /\ 8 * Half <= WordMod
  /\ SignBit \in Nat /\ WordMod = 2 * SignBit /\ SignBit = (Half \div 2) * Half
  /\ Half \div 2 \in Nat /\ Half = 2 * (Half \div 2)
<1>1. Half \div 2 \in Nat /\ Half = 2 * (Half \div 2)
  BY WidthAssumption, SMT
<1>2. PICK h \in Nat : h = Half \div 2 /\ Half = 2 * h
  BY <1>1
<1>3. WordMod = 2 * (h * Half) /\ h * Half \in Nat
  BY <1>2, WidthAssumption, SMT DEF WordMod
<1>4. (2 * (h * Half)) \div 2 = h * Half
  BY <1>3, SMT
<1>5. 8 * Half <= Half * Half
  BY WidthAssumption, SMT
<1> QED
  BY <1>1, <1>2, <1>3, <1>4, <1>5, WidthAssumption DEF WordMod, SignBit

\* Reducing what is a word already, or is below zero by less than a word.
LEMMA Reduce ==
  /\ \A x \in Words : x % WordMod = x /\ x % Half \in 0 .. Half - 1
  /\ \A x \in -WordMod .. -1 : x % WordMod = x + WordMod
  /\ \A x \in 0 .. Half - 1 : x % Half = x
<1> USE Widths, WidthAssumption
<1>1. \A n \in Nat \ {0} : \A x \in 0 .. n - 1 : x % n = x
  BY SMT
<1>2. \A n \in Nat \ {0} : \A x \in -n .. -1 : x % n = x + n
  BY SMT
<1>3. \A n \in Nat \ {0} : \A x \in Nat : x % n \in 0 .. n - 1
  BY SMT
<1>4. WordMod \in Nat \ {0} /\ Half \in Nat \ {0} /\ Words \subseteq Nat
  BY DEF Words
<1>5. \A x \in Words : x % WordMod = x
  BY <1>1, <1>4 DEF Words
<1>6. \A x \in Words : x % Half \in 0 .. Half - 1
  BY <1>3, <1>4
<1>7. \A x \in -WordMod .. -1 : x % WordMod = x + WordMod
  BY <1>2, <1>4
<1>8. \A x \in 0 .. Half - 1 : x % Half = x
  BY <1>1, <1>4
<1> QED
  BY <1>5, <1>6, <1>7, <1>8

\* A word in sign and magnitude, and back.
LEMMA SignMagnitude ==
  /\ \A w \in Words : /\ Magnitude(w) \in 0 .. SignBit - 1
                      /\ SignOf(w) \in {0, SignBit}
                      /\ w = Magnitude(w) + SignOf(w)
                      /\ Minus(w) <=> w >= SignBit
  /\ \A m \in 0 .. SignBit - 1 : /\ Value(m) = m
                                 /\ Value(m + SignBit) = -m
<1> USE Widths, WidthAssumption
<1>1. \A w \in Words : Minus(w) <=> w >= SignBit
  BY DEF Minus, Words, Simulator!Negative, Simulator!WordMod, WordMod
<1>2. \A m \in 0 .. SignBit - 1 : /\ Magnitude(m) = m
                                  /\ Magnitude(m + SignBit) = m
  <2>1. \A n \in Nat \ {0} : \A x \in 0 .. n - 1 : x % n = x /\ (x + n) % n = x
    BY SMT
  <2> QED
    BY <2>1 DEF Magnitude, SignBit
<1>3. \A w \in Words : w >= SignBit => Magnitude(w) = w - SignBit
  <2> SUFFICES ASSUME NEW w \in Words, w >= SignBit PROVE Magnitude(w) = w - SignBit
    OBVIOUS
  <2>1. w - SignBit \in 0 .. SignBit - 1 /\ w = (w - SignBit) + SignBit
    BY DEF Words
  <2> QED
    BY <2>1, <1>2
<1>4. \A w \in Words : ~(w >= SignBit) => Magnitude(w) = w
  BY <1>2 DEF Words
<1>5. \A m \in 0 .. SignBit - 1 : m \in Words /\ m + SignBit \in Words
  BY DEF Words
<1> QED
  BY <1>1, <1>2, <1>3, <1>4, <1>5 DEF SignOf, Value, Words

\* The immediate of an address is a word whose low half is the address.
LEMMA ImmediateOf ==
  ASSUME NEW v \in 0 .. Half - 1
  PROVE  Immediate(v) \in Words /\ Immediate(v) % Half = v
<1> USE WidthAssumption, Widths
<1>1. v % Half = v
  BY Reduce
<1>2. CASE 2 * v >= Half
  <2>1. Immediate(v) = v + Half * Half - Half
    BY <1>1, <1>2 DEF Immediate
  <2>2. \A n \in Nat \ {0} : \A x \in 0 .. n - 1 : (x + n * n - n) % n = x
    BY SMT
  <2> QED
    BY <2>1, <2>2 DEF Words, WordMod
<1>3. CASE ~(2 * v >= Half)
  BY <1>1, <1>3 DEF Immediate, Words
<1> QED
  BY <1>2, <1>3
-----------------------------------------------------------------------------
(***************************************************************************)
(* What the instructions of the program do on the simulator.               *)
(***************************************************************************)
Sets(d, v) ==
  /\ reg' = [reg EXCEPT ![d] = v]
  /\ pc' = pc + 1
  /\ UNCHANGED <<mem, halted>>

GoesTo(k, condition) ==
  /\ pc' = IF condition THEN k ELSE pc + 1
  /\ UNCHANGED <<reg, mem, halted>>

Read(s, i) == CASE s = 0 -> 0 [] s = 1 -> i.imm [] OTHER -> reg[s]

\* The simulator executes the command of the listing at pc.
LEMMA Fetches ==
  ASSUME NEW n \in Nat, n = Len(Listing), pc \in 0 .. n - 1, mem[pc] = pc + 1
  PROVE  Simulator!In = At(Listing, pc)
<1>1. mem[pc] # 0 /\ mem[pc] \in 1 .. Len(Listing) /\ mem[pc] - 1 = pc
  OBVIOUS
<1> QED
  BY <1>1 DEF Simulator!In, Decode, DecodeIn

\* One instruction of each kind the program has.
LEMMA Executes ==
  ASSUME Simulator!Next,
         NEW i, Simulator!In = i,
         i.src0 \in 0 .. 7, i.src1 \in 0 .. 7, i.imm \in Words
  PROVE  /\ i.op = "ADD" => Sets(i.dst, (Read(i.src0, i) + Read(i.src1, i)) % WordMod)
         /\ i.op = "SUB" => Sets(i.dst, (Read(i.src0, i) - Read(i.src1, i)) % WordMod)
         /\ i.op = "AND" => Sets(i.dst, BitAnd(Read(i.src0, i), Read(i.src1, i)))
         /\ i.op = "LHI" => Sets(i.dst, (i.imm % Half) * Half + (reg[i.dst] % Half))
         /\ i.op = "LSF" => Sets(i.dst, ShiftLeft(Read(i.src0, i), Read(i.src1, i)))
         /\ i.op = "LD" => Sets(i.dst, mem[Read(i.src1, i) % Half])
         /\ i.op = "JEQ" => GoesTo(i.imm % Half, Read(i.src0, i) = Read(i.src1, i))
         /\ i.op = "JNE" => GoesTo(i.imm % Half, Read(i.src0, i) # Read(i.src1, i))
         /\ i.op = "JLT" => GoesTo(i.imm % Half, Simulator!Signed(Read(i.src0, i))
                                                 < Simulator!Signed(Read(i.src1, i)))
         /\ i.op = "ST" => /\ mem' = [mem EXCEPT ![Read(i.src1, i) % Half] = reg[i.src0]]
                           /\ pc' = pc + 1 /\ UNCHANGED <<reg, halted>>
         /\ i.op = "HLT" => halted' = TRUE /\ pc' = pc + 1 /\ UNCHANGED <<reg, mem>>
<1> DEFINE a == Read(i.src0, i)
           b == Read(i.src1, i)
<1>1. Simulator!Val0 = a /\ Simulator!Val1 = b
  BY DEF Simulator!Val0, Simulator!Val1, Simulator!Operand, Read
<1> HIDE DEF a, b
<1>2. Simulator!Linked = reg
  BY DEF Simulator!Linked
<1> USE <1>1, <1>2
<1>3. /\ i.op \in {"ADD", "SUB", "AND", "LHI", "LSF"} =>
              Simulator!Compute
      /\ i.op = "LD" => Simulator!Load
      /\ i.op \in {"JEQ", "JNE", "JLT"} => Simulator!Branch \/ Simulator!Skip
      /\ i.op = "ST" => Simulator!Store
      /\ i.op = "HLT" => Simulator!Halt
  BY DEF Simulator!Next, Simulator!Compute, Simulator!Load, Simulator!Store,
         Simulator!Branch, Simulator!JumpIndirect, Simulator!Skip, Simulator!Halt,
         Simulator!AluOps, Simulator!CondBranches, Simulator!Unassigned
<1>4. CASE i.op \in {"ADD", "SUB", "AND", "LHI", "LSF"}
  <2>1. Sets(i.dst, Simulator!Result)
    BY <1>3, <1>4 DEF Simulator!Compute, Sets
  <2>2. /\ i.op = "ADD" => Simulator!Result = (a + b) % WordMod
        /\ i.op = "SUB" => Simulator!Result = (a - b) % WordMod
        /\ i.op = "AND" => Simulator!Result = BitAnd(a, b)
        /\ i.op = "LSF" => Simulator!Result = ShiftLeft(a, b)
        /\ i.op = "LHI" => Simulator!Result = (i.imm % Half) * Half + (reg[i.dst] % Half)
    BY DEF Simulator!Result, Simulator!IntAlu, Simulator!Alu, Simulator!WordMod, WordMod
  <2> QED
    BY <1>4, <2>1, <2>2 DEF a, b
<1>5. CASE i.op = "LD"
  BY <1>3, <1>5 DEF Simulator!Load, Sets, a, b
<1>6. CASE i.op \in {"JEQ", "JNE", "JLT"}
  <2>1. GoesTo(i.imm % Half, Simulator!Taken(i, a, b))
    BY <1>3, <1>6 DEF Simulator!Branch, Simulator!Skip, GoesTo
  <2>2. /\ i.op = "JEQ" => (Simulator!Taken(i, a, b) <=> a = b)
        /\ i.op = "JNE" => (Simulator!Taken(i, a, b) <=> a # b)
        /\ i.op = "JLT" => (Simulator!Taken(i, a, b)
                               <=> Simulator!Signed(a) < Simulator!Signed(b))
    BY DEF Simulator!Taken
  <2> QED
    BY <1>6, <2>1, <2>2 DEF GoesTo, a, b
<1>7. CASE i.op \in {"ST", "HLT"}
  BY <1>3, <1>7 DEF Simulator!Store, Simulator!Halt, a, b
<1> QED
  BY <1>4, <1>5, <1>6, <1>7
-----------------------------------------------------------------------------
(***************************************************************************)
(* add_asm.c as a transition system over its registers.                    *)
(***************************************************************************)
Prologue ==
  \/ pc = 0 /\ Sets(5, SignBit + (reg[5] % Half))
  \/ pc = 1 /\ Sets(5, reg[5])
  \/ pc = 2 /\ Sets(6, reg[6] % Half)
  \/ pc = 3 /\ Sets(6, (reg[6] + Immediate(Data)) % WordMod)
  \/ pc = 4 /\ Sets(2, mem[reg[6] % Half])
  \/ pc = 5 /\ Sets(6, reg[6] % Half)
  \/ pc = 6 /\ Sets(6, Immediate(Data + 1))
  \/ pc = 7 /\ Sets(3, mem[reg[6] % Half])
  \/ pc = 8 /\ Sets(6, BitAnd(reg[2], reg[5]))
  \/ pc = 9 /\ Sets(7, BitAnd(reg[3], reg[5]))
  \/ pc = 10 /\ Sets(4, (reg[6] - reg[7]) % WordMod)
  \/ pc = 11 /\ GoesTo(30, reg[4] = 0)

OppositeSigns ==
  \/ pc = 12 /\ GoesTo(15, reg[6] = 0)
  \/ pc = 13 /\ Sets(6, (reg[2] - reg[5]) % WordMod)
  \/ pc = 14 /\ GoesTo(16, TRUE)
  \/ pc = 15 /\ Sets(6, reg[2])
  \/ pc = 16 /\ GoesTo(19, reg[7] = 0)
  \/ pc = 17 /\ Sets(7, (reg[3] - reg[5]) % WordMod)
  \/ pc = 18 /\ GoesTo(20, TRUE)
  \/ pc = 19 /\ Sets(7, reg[3])
  \/ pc = 20 /\ Sets(4, reg[4])
  \/ pc = 21 /\ GoesTo(26, Simulator!Signed(reg[6]) < Simulator!Signed(reg[7]))
  \/ pc = 22 /\ Sets(4, (reg[6] - reg[7]) % WordMod)
  \/ pc = 23 /\ Sets(5, BitAnd(reg[2], reg[5]))
  \/ pc = 24 /\ Sets(4, (reg[4] + reg[5]) % WordMod)
  \/ pc = 25 /\ GoesTo(42, TRUE)
  \/ pc = 26 /\ Sets(4, (reg[7] - reg[6]) % WordMod)
  \/ pc = 27 /\ Sets(5, BitAnd(reg[3], reg[5]))
  \/ pc = 28 /\ Sets(4, (reg[4] + reg[5]) % WordMod)
  \/ pc = 29 /\ GoesTo(42, TRUE)

SameSigns ==
  \/ pc = 30 /\ GoesTo(33, reg[6] = 0)
  \/ pc = 31 /\ Sets(6, (reg[2] - reg[5]) % WordMod)
  \/ pc = 32 /\ GoesTo(34, TRUE)
  \/ pc = 33 /\ Sets(6, reg[2])
  \/ pc = 34 /\ GoesTo(37, reg[7] = 0)
  \/ pc = 35 /\ Sets(7, (reg[3] - reg[5]) % WordMod)
  \/ pc = 36 /\ GoesTo(38, TRUE)
  \/ pc = 37 /\ Sets(7, reg[3])
  \/ pc = 38 /\ Sets(4, (reg[6] + reg[7]) % WordMod)
  \/ pc = 39 /\ GoesTo(41, reg[6] = 0)
  \/ pc = 40 /\ Sets(7, BitAnd(reg[2], reg[5]))
  \/ pc = 41 /\ Sets(4, (reg[4] + reg[7]) % WordMod)

Epilogue ==
  \/ pc = 42 /\ Sets(6, reg[6] % Half)
  \/ pc = 43 /\ Sets(6, Immediate(Data + 2))
  \/ /\ pc = 44
     /\ mem' = [mem EXCEPT ![reg[6] % Half] = reg[4]]
     /\ pc' = pc + 1 /\ UNCHANGED <<reg, halted>>
  \/ pc = 45 /\ halted' = TRUE /\ pc' = pc + 1 /\ UNCHANGED <<reg, mem>>

\* The fields of its commands are registers and words, its targets lines of it.
LEMMA AddCommands ==
  ASSUME Listing = AddAsm(Data), NEW k \in 0 .. 45
  PROVE  /\ At(Listing, k).src0 \in 0 .. 7
         /\ At(Listing, k).src1 \in 0 .. 7
         /\ At(Listing, k).imm \in Words
<1>1. /\ Listing[k + 1].src0 \in 0 .. 7
      /\ Listing[k + 1].src1 \in 0 .. 7
  BY SMT DEF AddAsm, Cmd, Jump
<1>2. \/ Listing[k + 1].rel /\ k + Listing[k + 1].imm \in 0 .. 45
      \/ ~Listing[k + 1].rel /\ Listing[k + 1].imm \in {0, Half \div 2, Data, Data + 1, Data + 2}
  BY SMT DEF AddAsm, Cmd, Jump
<1>3. Len(Listing) = 46
  BY SMT DEF AddAsm, Cmd, Jump
<1>4. /\ 0 .. 45 \subseteq 0 .. Half - 1
      /\ {0, Half \div 2, Data, Data + 1, Data + 2} \subseteq 0 .. Half - 1
  BY <1>3, Widths, LayoutAssumption, WidthAssumption
<1>5. \A x \in 0 .. 7 : x % 8 \in 0 .. 7
  BY SMT
<1> QED
  BY <1>1, <1>2, <1>4, <1>5, ImmediateOf DEF At

LEMMA Lines ==
  ASSUME Listing = AddAsm(Data), Registers, Loaded, ~halted, Simulator!Next
  PROVE  Prologue \/ OppositeSigns \/ SameSigns \/ Epilogue
<1> DEFINE i == At(Listing, pc)
<1>1. pc \in 0 .. 46 /\ pc # 46 /\ reg \in [0 .. 7 -> Words]
  BY Zenon DEF Registers
<1>2. pc \in 0 .. 45
  BY <1>1
<1>3. Simulator!In = i
  <2>1. Len(Listing) = 46
    BY SMT DEF AddAsm, Cmd, Jump
  <2> QED
    BY <1>2, <2>1, Fetches DEF Loaded
<1>4. i.src0 \in 0 .. 7 /\ i.src1 \in 0 .. 7 /\ i.imm \in Words
  BY <1>2, AddCommands
<1> HIDE DEF i
<1>5. /\ i.op = "ADD" => Sets(i.dst, (Read(i.src0, i) + Read(i.src1, i)) % WordMod)
      /\ i.op = "SUB" => Sets(i.dst, (Read(i.src0, i) - Read(i.src1, i)) % WordMod)
      /\ i.op = "AND" => Sets(i.dst, BitAnd(Read(i.src0, i), Read(i.src1, i)))
      /\ i.op = "LHI" => Sets(i.dst, (i.imm % Half) * Half + (reg[i.dst] % Half))
      /\ i.op = "LD" => Sets(i.dst, mem[Read(i.src1, i) % Half])
      /\ i.op = "JEQ" => GoesTo(i.imm % Half, Read(i.src0, i) = Read(i.src1, i))
      /\ i.op = "JLT" => GoesTo(i.imm % Half, Simulator!Signed(Read(i.src0, i))
                                              < Simulator!Signed(Read(i.src1, i)))
      /\ i.op = "ST" => /\ mem' = [mem EXCEPT ![Read(i.src1, i) % Half] = reg[i.src0]]
                        /\ pc' = pc + 1 /\ UNCHANGED <<reg, halted>>
      /\ i.op = "HLT" => halted' = TRUE /\ pc' = pc + 1 /\ UNCHANGED <<reg, mem>>
  BY <1>3, <1>4, Executes
<1>6. Len(Listing) = 46 /\ Half \div 2 \in 0 .. Half - 1
  BY Widths, WidthAssumption, SMT DEF AddAsm, Cmd, Jump
<1>7. 0 .. 46 \subseteq 0 .. Half - 1 /\ \A k \in 0 .. 2 : Data + k \in 0 .. Half - 1
  BY <1>6, LayoutAssumption, WidthAssumption
<1>8. /\ \A k \in 0 .. 46 : Immediate(k) % Half = k
      /\ \A k \in 0 .. 2 : Immediate(Data + k) \in Words
      /\ Immediate(Half \div 2) % Half = Half \div 2
  BY <1>6, <1>7, ImmediateOf
<1>9. Immediate(0) = 0
  BY WidthAssumption, SMT DEF Immediate
<1>10. /\ \A x \in Words : /\ (x + 0) % WordMod = x
                           /\ (x - 0) % WordMod = x
                           /\ (0 + x) % WordMod = x
                           /\ (0 % Half) * Half + (x % Half) = x % Half
       /\ \A x \in 0 .. 7 : reg[x] \in Words
  <2>1. 0 % Half = 0 /\ \A x \in Words : 0 * Half + (x % Half) = x % Half
    BY Reduce, WidthAssumption DEF Words
  <2> QED
    BY <1>1, <2>1, Reduce, Widths DEF Words
<1>11. ASSUME pc \in 0 .. 11 PROVE Prologue
  <2>0. CASE pc = 0
    BY <2>0, <1>5, <1>8, <1>9, <1>10, Widths, SMT
       DEF Prologue, Read, i, At, AddAsm, Cmd, Jump
  <2>1. CASE pc = 1
    BY <2>1, <1>5, <1>8, <1>9, <1>10, SMT
       DEF Prologue, Read, i, At, AddAsm, Cmd, Jump
  <2>2. CASE pc = 2
    BY <2>2, <1>5, <1>8, <1>9, <1>10, SMT
       DEF Prologue, Read, i, At, AddAsm, Cmd, Jump
  <2>3. CASE pc = 3
    BY <2>3, <1>5, <1>8, <1>9, <1>10, SMT
       DEF Prologue, Read, i, At, AddAsm, Cmd, Jump
  <2>4. CASE pc = 4
    BY <2>4, <1>5, <1>8, <1>9, <1>10, SMT
       DEF Prologue, Read, i, At, AddAsm, Cmd, Jump
  <2>5. CASE pc = 5
    BY <2>5, <1>5, <1>8, <1>9, <1>10, SMT
       DEF Prologue, Read, i, At, AddAsm, Cmd, Jump
  <2>6. CASE pc = 6
    BY <2>6, <1>5, <1>8, <1>9, <1>10, SMT
       DEF Prologue, Read, i, At, AddAsm, Cmd, Jump
  <2>7. CASE pc = 7
    BY <2>7, <1>5, <1>8, <1>9, <1>10, SMT
       DEF Prologue, Read, i, At, AddAsm, Cmd, Jump
  <2>8. CASE pc = 8
    BY <2>8, <1>5, <1>8, <1>9, <1>10, SMT
       DEF Prologue, Read, i, At, AddAsm, Cmd, Jump
  <2>9. CASE pc = 9
    BY <2>9, <1>5, <1>8, <1>9, <1>10, SMT
       DEF Prologue, Read, i, At, AddAsm, Cmd, Jump
  <2>10. CASE pc = 10
    BY <2>10, <1>5, <1>8, <1>9, <1>10, SMT
       DEF Prologue, Read, i, At, AddAsm, Cmd, Jump
  <2>11. CASE pc = 11
    BY <2>11, <1>5, <1>8, <1>9, <1>10, SMT
       DEF Prologue, Read, i, At, AddAsm, Cmd, Jump
  <2> QED
    BY <1>11, <2>0, <2>1, <2>2, <2>3, <2>4, <2>5, <2>6, <2>7, <2>8, <2>9, <2>10, <2>11
<1>12. ASSUME pc \in 12 .. 29 PROVE OppositeSigns
  <2>12. CASE pc = 12
    BY <2>12, <1>5, <1>8, <1>9, <1>10, SMT
       DEF OppositeSigns, Read, i, At, AddAsm, Cmd, Jump
  <2>13. CASE pc = 13
    BY <2>13, <1>5, <1>8, <1>9, <1>10, SMT
       DEF OppositeSigns, Read, i, At, AddAsm, Cmd, Jump
  <2>14. CASE pc = 14
    BY <2>14, <1>5, <1>8, <1>9, <1>10, SMT
       DEF OppositeSigns, Read, i, At, AddAsm, Cmd, Jump, GoesTo
  <2>15. CASE pc = 15
    BY <2>15, <1>5, <1>8, <1>9, <1>10, SMT
       DEF OppositeSigns, Read, i, At, AddAsm, Cmd, Jump
  <2>16. CASE pc = 16
    BY <2>16, <1>5, <1>8, <1>9, <1>10, SMT
       DEF OppositeSigns, Read, i, At, AddAsm, Cmd, Jump
  <2>17. CASE pc = 17
    BY <2>17, <1>5, <1>8, <1>9, <1>10, SMT
       DEF OppositeSigns, Read, i, At, AddAsm, Cmd, Jump
  <2>18. CASE pc = 18
    BY <2>18, <1>5, <1>8, <1>9, <1>10, SMT
       DEF OppositeSigns, Read, i, At, AddAsm, Cmd, Jump, GoesTo
  <2>19. CASE pc = 19
    BY <2>19, <1>5, <1>8, <1>9, <1>10, SMT
       DEF OppositeSigns, Read, i, At, AddAsm, Cmd, Jump
  <2>20. CASE pc = 20
    BY <2>20, <1>5, <1>8, <1>9, <1>10, SMT
       DEF OppositeSigns, Read, i, At, AddAsm, Cmd, Jump
  <2>21. CASE pc = 21
    BY <2>21, <1>5, <1>8, <1>9, <1>10, SMT
       DEF OppositeSigns, Read, i, At, AddAsm, Cmd, Jump
  <2>22. CASE pc = 22
    BY <2>22, <1>5, <1>8, <1>9, <1>10, SMT
       DEF OppositeSigns, Read, i, At, AddAsm, Cmd, Jump
  <2>23. CASE pc = 23
    BY <2>23, <1>5, <1>8, <1>9, <1>10, SMT
       DEF OppositeSigns, Read, i, At, AddAsm, Cmd, Jump
  <2>24. CASE pc = 24
    BY <2>24, <1>5, <1>8, <1>9, <1>10, SMT
       DEF OppositeSigns, Read, i, At, AddAsm, Cmd, Jump
  <2>25. CASE pc = 25
    BY <2>25, <1>5, <1>8, <1>9, <1>10, SMT
       DEF OppositeSigns, Read, i, At, AddAsm, Cmd, Jump, GoesTo
  <2>26. CASE pc = 26
    BY <2>26, <1>5, <1>8, <1>9, <1>10, SMT
       DEF OppositeSigns, Read, i, At, AddAsm, Cmd, Jump
  <2>27. CASE pc = 27
    BY <2>27, <1>5, <1>8, <1>9, <1>10, SMT
       DEF OppositeSigns, Read, i, At, AddAsm, Cmd, Jump
  <2>28. CASE pc = 28
    BY <2>28, <1>5, <1>8, <1>9, <1>10, SMT
       DEF OppositeSigns, Read, i, At, AddAsm, Cmd, Jump
  <2>29. CASE pc = 29
    BY <2>29, <1>5, <1>8, <1>9, <1>10, SMT
       DEF OppositeSigns, Read, i, At, AddAsm, Cmd, Jump, GoesTo
  <2> QED
    BY <1>12, <2>12, <2>13, <2>14, <2>15, <2>16, <2>17, <2>18, <2>19, <2>20,
       <2>21, <2>22, <2>23, <2>24, <2>25, <2>26, <2>27, <2>28, <2>29
<1>13. ASSUME pc \in 30 .. 41 PROVE SameSigns
  <2>30. CASE pc = 30
    BY <2>30, <1>5, <1>8, <1>9, <1>10, SMT
       DEF SameSigns, Read, i, At, AddAsm, Cmd, Jump
  <2>31. CASE pc = 31
    BY <2>31, <1>5, <1>8, <1>9, <1>10, SMT
       DEF SameSigns, Read, i, At, AddAsm, Cmd, Jump
  <2>32. CASE pc = 32
    BY <2>32, <1>5, <1>8, <1>9, <1>10, SMT
       DEF SameSigns, Read, i, At, AddAsm, Cmd, Jump, GoesTo
  <2>33. CASE pc = 33
    BY <2>33, <1>5, <1>8, <1>9, <1>10, SMT
       DEF SameSigns, Read, i, At, AddAsm, Cmd, Jump
  <2>34. CASE pc = 34
    BY <2>34, <1>5, <1>8, <1>9, <1>10, SMT
       DEF SameSigns, Read, i, At, AddAsm, Cmd, Jump
  <2>35. CASE pc = 35
    BY <2>35, <1>5, <1>8, <1>9, <1>10, SMT
       DEF SameSigns, Read, i, At, AddAsm, Cmd, Jump
  <2>36. CASE pc = 36
    BY <2>36, <1>5, <1>8, <1>9, <1>10, SMT
       DEF SameSigns, Read, i, At, AddAsm, Cmd, Jump, GoesTo
  <2>37. CASE pc = 37
    BY <2>37, <1>5, <1>8, <1>9, <1>10, SMT
       DEF SameSigns, Read, i, At, AddAsm, Cmd, Jump
  <2>38. CASE pc = 38
    BY <2>38, <1>5, <1>8, <1>9, <1>10, SMT
       DEF SameSigns, Read, i, At, AddAsm, Cmd, Jump
  <2>39. CASE pc = 39
    BY <2>39, <1>5, <1>8, <1>9, <1>10, SMT
       DEF SameSigns, Read, i, At, AddAsm, Cmd, Jump
  <2>40. CASE pc = 40
    BY <2>40, <1>5, <1>8, <1>9, <1>10, SMT
       DEF SameSigns, Read, i, At, AddAsm, Cmd, Jump
  <2>41. CASE pc = 41
    BY <2>41, <1>5, <1>8, <1>9, <1>10, SMT
       DEF SameSigns, Read, i, At, AddAsm, Cmd, Jump
  <2> QED
    BY <1>13, <2>30, <2>31, <2>32, <2>33, <2>34, <2>35, <2>36, <2>37, <2>38, <2>39, <2>40, <2>41
<1>14. ASSUME pc \in 42 .. 45 PROVE Epilogue
  <2>42. CASE pc = 42
    BY <2>42, <1>5, <1>8, <1>9, <1>10, SMT
       DEF Epilogue, Read, i, At, AddAsm, Cmd, Jump
  <2>43. CASE pc = 43
    BY <2>43, <1>5, <1>8, <1>9, <1>10, SMT
       DEF Epilogue, Read, i, At, AddAsm, Cmd, Jump
  <2>44. CASE pc = 44
    BY <2>44, <1>5, <1>8, <1>9, <1>10, SMT
       DEF Epilogue, Read, i, At, AddAsm, Cmd, Jump
  <2>45. CASE pc = 45
    BY <2>45, <1>5, <1>8, <1>9, <1>10, SMT
       DEF Epilogue, Read, i, At, AddAsm, Cmd, Jump
  <2> QED
    BY <1>14, <2>42, <2>43, <2>44, <2>45
<1> QED
  BY <1>2, <1>11, <1>12, <1>13, <1>14
-----------------------------------------------------------------------------
(***************************************************************************)
(* Each phase keeps the invariant.                                         *)
(***************************************************************************)

\* The operands are words, each a magnitude and a sign.
LEMMA OperandParts ==
  ASSUME Registers
  PROVE  /\ A \in Words /\ B \in Words
         /\ Magnitude(A) \in 0 .. SignBit - 1 /\ A = Magnitude(A) + SignOf(A)
         /\ Magnitude(B) \in 0 .. SignBit - 1 /\ B = Magnitude(B) + SignOf(B)
         /\ SignOf(A) = IF Minus(A) THEN SignBit ELSE 0
         /\ SignOf(B) = IF Minus(B) THEN SignBit ELSE 0
<1>1. A \in Words /\ B \in Words
  BY LayoutAssumption, WidthAssumption DEF A, B, Registers
<1> QED
  BY <1>1, SignMagnitude DEF SignOf

\* No line but the store changes the memory, and with it the operands.
LEMMA OperandsKept ==
  ASSUME A' = A, B' = B
  PROVE  \A w : IsSum(w)' <=> IsSum(w)
  BY DEF IsSum, SumFits, Sum, LeadingZero

\* C's & with the sign bit is the sign.
LEMMA MaskIsSign ==
  ASSUME NEW w \in Words
  PROVE  BitAnd(w, SignBit) = SignOf(w)
  BY SignBitAssumption DEF Words, SignBit, SignOf, Minus, Simulator!Negative,
     Simulator!WordMod, WordMod

LEMMA OppositeSignsNext ==
  ASSUME AddInv, OppositeSigns
  PROVE  AddInv'
<1> USE DEF AddInv
<1>1. mem' = mem /\ halted' = halted
  BY DEF OppositeSigns, Sets, GoesTo
<1>2. pc \in 12 .. 29 /\ pc' \in 12 .. 42
  BY DEF OppositeSigns, Sets, GoesTo
<1>3. /\ reg \in [0 .. 7 -> Words] /\ mem \in [0 .. Half - 1 -> Words]
      /\ A \in Words /\ B \in Words /\ A' = A /\ B' = B
  BY <1>1, OperandParts DEF Registers, A, B
<1> HIDE DEF A, B, Minus, Magnitude
<1>4. /\ Magnitude(A) \in 0 .. SignBit - 1 /\ A = Magnitude(A) + SignOf(A)
      /\ Magnitude(B) \in 0 .. SignBit - 1 /\ B = Magnitude(B) + SignOf(B)
      /\ SignOf(A) = IF Minus(A) THEN SignBit ELSE 0
      /\ SignOf(B) = IF Minus(B) THEN SignBit ELSE 0
  BY OperandParts
<1>5. \A x \in 0 .. WordMod - 1 : x % WordMod = x
  BY Reduce DEF Words
<1>6. /\ pc = 13 => (reg[2] - reg[5]) % WordMod = Magnitude(A)
      /\ pc = 15 => reg[2] = Magnitude(A)
      /\ pc = 17 => (reg[3] - reg[5]) % WordMod = Magnitude(B)
      /\ pc = 19 => reg[3] = Magnitude(B)
  BY <1>4, <1>5, Widths DEF Operands, SignBitReady, Paths
<1>7. /\ pc = 22 => (reg[6] - reg[7]) % WordMod = Magnitude(A) - Magnitude(B)
      /\ pc = 24 => (reg[4] + reg[5]) % WordMod = Magnitude(A) - Magnitude(B) + SignOf(A)
      /\ pc = 26 => (reg[7] - reg[6]) % WordMod = Magnitude(B) - Magnitude(A)
      /\ pc = 28 => (reg[4] + reg[5]) % WordMod = Magnitude(B) - Magnitude(A) + SignOf(B)
  <2>1. /\ pc \in {22, 24} => Magnitude(A) - Magnitude(B) \in 0 .. SignBit - 1
        /\ pc \in {26, 28} => Magnitude(B) - Magnitude(A) \in 0 .. SignBit - 1
    BY <1>4, Widths DEF Paths
  <2>2. \A d \in 0 .. SignBit - 1 : \A z \in {0, SignBit} :
           d \in 0 .. WordMod - 1 /\ d + z \in 0 .. WordMod - 1
    BY Widths
  <2>3. /\ pc \in {22, 26} => reg[6] = Magnitude(A) /\ reg[7] = Magnitude(B)
        /\ pc = 24 => reg[4] = Magnitude(A) - Magnitude(B) /\ reg[5] = SignOf(A)
        /\ pc = 28 => reg[4] = Magnitude(B) - Magnitude(A) /\ reg[5] = SignOf(B)
    BY DEF MagnitudesReady, Results
  <2>4. SignOf(A) \in {0, SignBit} /\ SignOf(B) \in {0, SignBit}
    BY <1>4
  <2> QED
    BY <1>5, <2>1, <2>2, <2>3, <2>4
<1>8. /\ pc = 23 => BitAnd(reg[2], reg[5]) = SignOf(A)
      /\ pc = 27 => BitAnd(reg[3], reg[5]) = SignOf(B)
  BY <1>2, <1>3, MaskIsSign DEF Operands, SignBitReady
<1>9. pc = 21 => (Simulator!Signed(reg[6]) < Simulator!Signed(reg[7])
                    <=> Magnitude(A) < Magnitude(B))
  BY <1>4, Widths DEF MagnitudesReady, Simulator!Signed, Simulator!Negative,
                     Simulator!WordMod, WordMod
<1>10. /\ pc = 12 => (reg[6] = 0 <=> ~Minus(A))
       /\ pc = 16 => (reg[7] = 0 <=> ~Minus(B))
  BY <1>4, Widths, WidthAssumption DEF Signs
<1>11. reg' \in [0 .. 7 -> Words]
  <2>1. \A x \in Int : x % WordMod \in Words
    BY Widths, WidthAssumption, SMT DEF Words
  <2>2. SignOf(A) \in Words /\ SignOf(B) \in Words
    BY <1>4, Widths, WidthAssumption DEF Words
  <2>3. \A k \in 0 .. 7 : reg[k] \in Words /\ reg[k] \in Int
    <3>1. Words \subseteq Int
      BY Widths DEF Words
    <3> QED
      BY <1>3, <3>1
  <2> QED
    BY <1>2, <1>3, <1>7, <1>8, <2>1, <2>2, <2>3 DEF OppositeSigns, Sets, GoesTo
<1>12. Registers'
  <2>1. ~halted /\ pc' # 46
    BY <1>2 DEF Registers
  <2> QED
    BY <1>1, <1>2, <1>3, <1>11, <2>1 DEF Registers
<1>13. Loaded'
  BY <1>1 DEF Loaded
<1>14. SignBitReady'
  BY <1>2, <1>3 DEF SignBitReady, OppositeSigns, Sets, GoesTo
<1>15. Addresses' /\ Operands'
  BY <1>2, <1>3 DEF Addresses, Operands, OppositeSigns, Sets, GoesTo
<1>16. Signs'
  BY <1>2, <1>3 DEF Signs, OppositeSigns, Sets, GoesTo
<1>17. MagnitudesReady'
  BY <1>2, <1>3, <1>6 DEF MagnitudesReady, OppositeSigns, Sets, GoesTo
<1>18. Paths'
  BY <1>2, <1>3, <1>4, <1>9, <1>10 DEF Paths, OppositeSigns, Sets, GoesTo
<1>19. Results'
  BY <1>2, <1>3, <1>7, <1>8 DEF Results, OppositeSigns, Sets, GoesTo
<1>20. /\ pc = 24 => IsSum(Magnitude(A) - Magnitude(B) + SignOf(A))
       /\ pc = 28 => IsSum(Magnitude(B) - Magnitude(A) + SignOf(B))
  <2>1. /\ ~LeadingZero
        /\ Sum = (IF Minus(A) THEN -Magnitude(A) ELSE Magnitude(A))
                   + (IF Minus(B) THEN -Magnitude(B) ELSE Magnitude(B))
    BY <1>2 DEF Paths, LeadingZero, Sum, Value
  <2>2. ASSUME pc = 24 PROVE Value(Magnitude(A) - Magnitude(B) + SignOf(A)) = Sum
    <3>1. Magnitude(A) - Magnitude(B) \in 0 .. SignBit - 1 /\ ~(Minus(A) <=> Minus(B))
      BY <1>4, <2>2, Widths DEF Paths
    <3> QED
      BY <1>4, <2>1, <3>1, SignMagnitude
  <2>3. ASSUME pc = 28 PROVE Value(Magnitude(B) - Magnitude(A) + SignOf(B)) = Sum
    <3>1. Magnitude(B) - Magnitude(A) \in 0 .. SignBit - 1 /\ ~(Minus(A) <=> Minus(B))
      BY <1>4, <2>3, Widths DEF Paths
    <3> QED
      BY <1>4, <2>1, <3>1, SignMagnitude
  <2> QED
    BY <2>1, <2>2, <2>3 DEF IsSum
<1>21. Summed'
  <2>1. pc' \in {25, 29, 42} => IsSum(reg'[4])
    BY <1>2, <1>3, <1>7, <1>20 DEF Summed, OppositeSigns, Sets, GoesTo
  <2>2. IsSum(reg'[4]) <=> IsSum(reg[4])'
    BY <1>3, OperandsKept DEF IsSum, SumFits, Sum, LeadingZero
  <2> QED
    BY <1>2, <2>1, <2>2 DEF Summed
<1> QED
  BY <1>12, <1>13, <1>14, <1>15, <1>16, <1>17, <1>18, <1>19, <1>21

LEMMA SameSignsNext ==
  ASSUME AddInv, SameSigns
  PROVE  AddInv'
<1> USE DEF AddInv
<1>1. mem' = mem /\ halted' = halted
  BY DEF SameSigns, Sets, GoesTo
<1>2. pc \in 30 .. 41 /\ pc' \in 30 .. 42
  BY DEF SameSigns, Sets, GoesTo
<1>3. /\ reg \in [0 .. 7 -> Words] /\ mem \in [0 .. Half - 1 -> Words]
      /\ A \in Words /\ B \in Words /\ A' = A /\ B' = B
  BY <1>1, OperandParts DEF Registers, A, B
<1> HIDE DEF A, B, Minus, Magnitude
<1>4. /\ Magnitude(A) \in 0 .. SignBit - 1 /\ A = Magnitude(A) + SignOf(A)
      /\ Magnitude(B) \in 0 .. SignBit - 1 /\ B = Magnitude(B) + SignOf(B)
      /\ SignOf(A) = IF Minus(A) THEN SignBit ELSE 0
      /\ SignOf(B) = IF Minus(B) THEN SignBit ELSE 0
  BY OperandParts
<1>5. \A x \in 0 .. WordMod - 1 : x % WordMod = x
  BY Reduce DEF Words
<1>6. /\ pc = 31 => (reg[2] - reg[5]) % WordMod = Magnitude(A)
      /\ pc = 33 => reg[2] = Magnitude(A)
      /\ pc = 35 => (reg[3] - reg[5]) % WordMod = Magnitude(B)
      /\ pc = 37 => reg[3] = Magnitude(B)
  BY <1>4, <1>5, Widths DEF Operands, SignBitReady, Paths
<1>7. /\ pc = 38 => (reg[6] + reg[7]) % WordMod = Magnitude(A) + Magnitude(B)
      /\ pc = 40 => BitAnd(reg[2], reg[5]) = SignOf(A)
  <2>1. Magnitude(A) + Magnitude(B) \in 0 .. WordMod - 1
    BY <1>4, Widths
  <2>2. pc = 38 => reg[6] = Magnitude(A) /\ reg[7] = Magnitude(B)
    BY DEF MagnitudesReady
  <2>3. pc = 40 => reg[2] = A /\ reg[5] = SignBit
    BY DEF Operands, SignBitReady
  <2> QED
    BY <1>3, <1>5, <2>1, <2>2, <2>3, MaskIsSign
<1>8. pc = 41 => (reg[4] + reg[7]) % WordMod \in Words /\ IsSum((reg[4] + reg[7]) % WordMod)
  <2> SUFFICES ASSUME pc = 41
               PROVE  /\ (reg[4] + reg[7]) % WordMod \in Words
                      /\ IsSum((reg[4] + reg[7]) % WordMod)
    OBVIOUS
  <2>1. /\ reg[4] = Magnitude(A) + Magnitude(B)
        /\ reg[7] = IF Magnitude(A) = 0 THEN Magnitude(B) ELSE SignOf(A)
        /\ Minus(A) <=> Minus(B)
    BY DEF Results, Paths
  <2>2. (reg[4] + reg[7]) % WordMod \in Words
    <3>1. \A x \in Nat : x % WordMod \in Words
      BY Widths, WidthAssumption, SMT DEF Words
    <3>2. Magnitude(A) \in Nat /\ Magnitude(B) \in Nat /\ SignOf(A) \in Nat
      BY <1>4, Widths
    <3>3. reg[4] + reg[7] \in Nat
      BY <2>1, <3>2
    <3> QED
      BY <3>1, <3>3
  <2>3. CASE Magnitude(A) = 0
    <3>1. (reg[4] + reg[7]) % WordMod = 2 * Magnitude(B)
      BY <1>4, <1>5, <2>1, <2>3, Widths
    <3>2. LeadingZero
      BY <2>1, <2>3 DEF LeadingZero
    <3> QED
      BY <2>2, <3>1, <3>2 DEF IsSum
  <2>4. CASE Magnitude(A) # 0
    <3>1. ~LeadingZero
      BY <2>4 DEF LeadingZero
    <3>2. Sum = IF Minus(A) THEN -(Magnitude(A) + Magnitude(B)) ELSE Magnitude(A) + Magnitude(B)
      BY <1>4, <2>1, Widths DEF Sum, Value
    <3>3. SumFits => Magnitude(A) + Magnitude(B) \in 0 .. SignBit - 1
      BY <1>4, <3>2, Widths DEF SumFits, SignBit
    <3>4. SumFits => (reg[4] + reg[7]) % WordMod = Magnitude(A) + Magnitude(B) + SignOf(A)
      BY <1>4, <1>5, <2>1, <2>4, <3>3, Widths
    <3>5. SumFits => Value(Magnitude(A) + Magnitude(B) + SignOf(A)) = Sum
      BY <1>4, <3>2, <3>3, SignMagnitude, Widths
    <3> QED
      BY <2>2, <3>1, <3>4, <3>5 DEF IsSum
  <2> QED
    BY <2>2, <2>3, <2>4
<1>9. /\ pc = 30 => (reg[6] = 0 <=> ~Minus(A))
      /\ pc = 34 => (reg[7] = 0 <=> ~Minus(B))
      /\ pc = 39 => reg[6] = Magnitude(A) /\ reg[7] = Magnitude(B)
  BY <1>4, Widths, WidthAssumption DEF Signs, MagnitudesReady
<1>11. reg' \in [0 .. 7 -> Words]
  <2>1. \A x \in Int : x % WordMod \in Words
    BY Widths, WidthAssumption, SMT DEF Words
  <2>2. SignOf(A) \in Words
    BY <1>4, Widths, WidthAssumption DEF Words
  <2>3. \A k \in 0 .. 7 : reg[k] \in Words /\ reg[k] \in Int
    <3>1. Words \subseteq Int
      BY Widths DEF Words
    <3> QED
      BY <1>3, <3>1
  <2> QED
    BY <1>2, <1>3, <1>7, <1>8, <2>1, <2>2, <2>3 DEF SameSigns, Sets, GoesTo
<1>12. Registers'
  <2>1. ~halted /\ pc' # 46
    BY <1>2 DEF Registers
  <2> QED
    BY <1>1, <1>2, <1>3, <1>11, <2>1 DEF Registers
<1>13. Loaded'
  BY <1>1 DEF Loaded
<1>14. SignBitReady'
  BY <1>2, <1>3 DEF SignBitReady, SameSigns, Sets, GoesTo
<1>15. Addresses' /\ Operands'
  BY <1>2, <1>3 DEF Addresses, Operands, SameSigns, Sets, GoesTo
<1>16. Signs'
  BY <1>2, <1>3 DEF Signs, SameSigns, Sets, GoesTo
<1>17. MagnitudesReady'
  BY <1>2, <1>3, <1>6 DEF MagnitudesReady, SameSigns, Sets, GoesTo
<1>18. Paths'
  BY <1>2, <1>3, <1>4, <1>9 DEF Paths, SameSigns, Sets, GoesTo
<1>19. Results'
  <2>1. CASE pc = 39
    <3>1. reg' = reg /\ pc' = IF Magnitude(A) = 0 THEN 41 ELSE 40
      BY <1>9, <2>1 DEF SameSigns, Sets, GoesTo
    <3>2. reg[4] = Magnitude(A) + Magnitude(B) /\ reg[7] = Magnitude(B)
      BY <1>9, <2>1 DEF Results
    <3> QED
      BY <1>3, <3>1, <3>2 DEF Results
  <2>2. CASE pc = 40
    <3>1. reg' = [reg EXCEPT ![7] = SignOf(A)] /\ pc' = 41
      BY <1>7, <2>2 DEF SameSigns, Sets, GoesTo
    <3>2. reg[4] = Magnitude(A) + Magnitude(B) /\ Magnitude(A) # 0
      BY <2>2 DEF Results, Paths
    <3> QED
      BY <1>3, <3>1, <3>2 DEF Results
  <2>3. CASE pc \notin {39, 40}
    BY <1>2, <1>3, <1>7, <2>3 DEF Results, SameSigns, Sets, GoesTo
  <2> QED
    BY <2>1, <2>2, <2>3
<1>20. Summed'
  <2>1. pc' = 42 => IsSum(reg'[4])
    BY <1>2, <1>3, <1>8 DEF SameSigns, Sets, GoesTo
  <2>2. IsSum(reg'[4]) <=> IsSum(reg[4])'
    BY <1>3, OperandsKept DEF IsSum, SumFits, Sum, LeadingZero
  <2> QED
    BY <1>2, <2>1, <2>2 DEF Summed
<1> QED
  BY <1>12, <1>13, <1>14, <1>15, <1>16, <1>17, <1>18, <1>19, <1>20
LEMMA PrologueNext ==
  ASSUME AddInv, Prologue, 46 <= Data
  PROVE  AddInv'
<1> USE DEF AddInv
<1>1. mem' = mem /\ halted' = halted
  BY DEF Prologue, Sets, GoesTo
<1>2. pc \in 0 .. 11 /\ pc' \in 1 .. 12 \cup {30}
  BY DEF Prologue, Sets, GoesTo
<1>3. /\ reg \in [0 .. 7 -> Words] /\ mem \in [0 .. Half - 1 -> Words]
      /\ A \in Words /\ B \in Words /\ A' = A /\ B' = B
  BY <1>1, OperandParts DEF Registers, A, B
<1> HIDE DEF A, B, Minus, Magnitude
<1>4. /\ Magnitude(A) \in 0 .. SignBit - 1 /\ A = Magnitude(A) + SignOf(A)
      /\ Magnitude(B) \in 0 .. SignBit - 1 /\ B = Magnitude(B) + SignOf(B)
      /\ SignOf(A) = IF Minus(A) THEN SignBit ELSE 0
      /\ SignOf(B) = IF Minus(B) THEN SignBit ELSE 0
  BY OperandParts
<1>5. \A x \in 0 .. WordMod - 1 : x % WordMod = x
  BY Reduce DEF Words
<1>6. /\ \A k \in {Data, Data + 1} : Immediate(k) \in Words /\ Immediate(k) % Half = k
  BY LayoutAssumption, WidthAssumption, ImmediateOf
<1>7. /\ pc = 0 => SignBit + (reg[5] % Half) = SignBit
      /\ pc = 2 => reg[6] % Half = 0
      /\ pc = 3 => (reg[6] + Immediate(Data)) % WordMod = Immediate(Data)
      /\ pc = 4 => mem[reg[6] % Half] = A
      /\ pc = 5 => reg[6] % Half \in Words
      /\ pc = 7 => mem[reg[6] % Half] = B
  <2>1. 0 % Half = 0 /\ \A x \in Words : 0 + x = x /\ x % WordMod = x
    BY Reduce, Widths, WidthAssumption DEF Words
  <2>2. \A x \in 0 .. Half - 1 : x \in Words
    BY Widths, WidthAssumption DEF Words
  <2>3. pc = 5 => reg[6] \in Words
    BY <1>3
  <2>4. /\ pc = 0 => reg[5] = 0
        /\ pc \in {2, 3} => reg[6] = 0
        /\ pc = 4 => reg[6] = Immediate(Data)
        /\ pc = 7 => reg[6] = Immediate(Data + 1)
    BY DEF SignBitReady, Addresses
  <2> QED
    <3>1. /\ pc = 0 => SignBit + (reg[5] % Half) = SignBit
          /\ pc = 2 => reg[6] % Half = 0
          /\ pc = 3 => (reg[6] + Immediate(Data)) % WordMod = Immediate(Data)
      BY <1>6, <2>1, <2>4, Widths
    <3>2. /\ pc = 4 => mem[reg[6] % Half] = A
          /\ pc = 7 => mem[reg[6] % Half] = B
      BY <1>6, <2>4 DEF A, B
    <3>3. pc = 5 => reg[6] % Half \in Words
      BY <2>2, <2>3, Reduce
    <3> QED
      BY <3>1, <3>2, <3>3
<1>8. /\ pc = 8 => BitAnd(reg[2], reg[5]) = SignOf(A)
      /\ pc = 9 => BitAnd(reg[3], reg[5]) = SignOf(B)
  BY <1>2, <1>3, MaskIsSign DEF Operands, SignBitReady
<1>9. pc = 11 => (reg[4] = 0 <=> (Minus(A) <=> Minus(B)))
  <2> SUFFICES ASSUME pc = 11 PROVE reg[4] = 0 <=> (Minus(A) <=> Minus(B))
    OBVIOUS
  <2>1. reg[4] = (SignOf(A) - SignOf(B)) % WordMod
    BY DEF Signs
  <2>2. /\ (SignBit - SignBit) % WordMod = 0 /\ (0 - 0) % WordMod = 0
        /\ (SignBit - 0) % WordMod = SignBit /\ (0 - SignBit) % WordMod = SignBit
        /\ SignBit # 0
    <3>1. /\ SignBit - SignBit = 0 /\ 0 \in 0 .. WordMod - 1
          /\ SignBit \in 0 .. WordMod - 1 /\ SignBit # 0
          /\ 0 - SignBit \in -WordMod .. -1 /\ 0 - SignBit + WordMod = SignBit
      BY Widths, WidthAssumption
    <3> QED
      <4>1. \A x \in -WordMod .. -1 : x % WordMod = x + WordMod
        BY Reduce
      <4>2. 0 - 0 = 0 /\ SignBit - 0 = SignBit
        BY Widths
      <4> QED
        BY <1>5, <3>1, <4>1, <4>2
  <2> QED
    BY <1>4, <2>1, <2>2
<1>11. reg' \in [0 .. 7 -> Words]
  <2>1. \A x \in Int : x % WordMod \in Words
    BY Widths, WidthAssumption, SMT DEF Words
  <2>2. SignOf(A) \in Words /\ SignOf(B) \in Words /\ SignBit \in Words /\ 0 \in Words
    BY <1>4, Widths, WidthAssumption DEF Words
  <2>3. \A k \in 0 .. 7 : reg[k] \in Words /\ reg[k] \in Int
    <3>1. Words \subseteq Int
      BY Widths DEF Words
    <3> QED
      BY <1>3, <3>1
  <2> QED
    BY <1>2, <1>3, <1>6, <1>7, <1>8, <2>1, <2>2, <2>3 DEF Prologue, Sets, GoesTo
<1>12. Registers'
  <2>1. ~halted /\ pc' # 46
    BY <1>2 DEF Registers
  <2> QED
    BY <1>1, <1>2, <1>3, <1>11, <2>1 DEF Registers
<1>13. Loaded'
  BY <1>1 DEF Loaded
<1>14. SignBitReady'
  BY <1>2, <1>3, <1>7 DEF SignBitReady, Prologue, Sets, GoesTo
<1>15. Addresses' /\ Operands'
  BY <1>2, <1>3, <1>7 DEF Addresses, Operands, Prologue, Sets, GoesTo
<1>16. Signs'
  BY <1>2, <1>3, <1>8 DEF Signs, Prologue, Sets, GoesTo
<1>17. MagnitudesReady' /\ Results' /\ Summed'
  BY <1>2 DEF MagnitudesReady, Results, Summed
<1>18. Paths'
  BY <1>2, <1>3, <1>4, <1>9 DEF Paths, Prologue, Sets, GoesTo
<1> QED
  BY <1>12, <1>13, <1>14, <1>15, <1>16, <1>17, <1>18

LEMMA EpilogueNext ==
  ASSUME AddInv, Epilogue, 46 <= Data
  PROVE  AddInv'
<1> USE DEF AddInv
<1>1. pc \in 42 .. 45 /\ pc' = pc + 1
  BY DEF Epilogue, Sets
<1>2. /\ reg \in [0 .. 7 -> Words] /\ mem \in [0 .. Half - 1 -> Words]
      /\ ~halted /\ halted \in BOOLEAN
  BY <1>1 DEF Registers
<1>3. Immediate(Data + 2) \in Words /\ Immediate(Data + 2) % Half = Data + 2
  BY LayoutAssumption, WidthAssumption, ImmediateOf
<1>4. IF pc = 44 THEN mem' = [mem EXCEPT ![Data + 2] = reg[4]] ELSE mem' = mem
  BY <1>1, <1>3 DEF Epilogue, Sets, Addresses
<1>5. A' = A /\ B' = B /\ Loaded'
  <2>1. /\ Data \in 0 .. Half - 1 /\ Data + 1 \in 0 .. Half - 1
        /\ Data + 2 # Data /\ Data + 2 # Data + 1
        /\ \A k \in 0 .. 45 : k \in 0 .. Half - 1 /\ Data + 2 # k
    BY LayoutAssumption, WidthAssumption
  <2>2. \A k \in 0 .. Half - 1 : Data + 2 # k => mem'[k] = mem[k]
    BY <1>2, <1>4
  <2> QED
    BY <2>1, <2>2 DEF A, B, Loaded
<1>6. Registers'
  <2>1. mem' \in [0 .. Half - 1 -> Words]
    BY <1>2, <1>4
  <2>2. reg' \in [0 .. 7 -> Words]
    <3>1. \A x \in Words : x % Half \in Words
      BY Reduce, Widths, WidthAssumption DEF Words
    <3> QED
      BY <1>1, <1>2, <1>3, <3>1 DEF Epilogue, Sets
  <2>3. halted' \in BOOLEAN /\ (halted' <=> pc' = 46)
    <3>1. CASE pc = 45
      BY <1>1, <3>1 DEF Epilogue, Sets
    <3>2. CASE pc # 45
      <4>1. halted' = halted /\ pc' # 46
        BY <1>1, <3>2 DEF Epilogue, Sets
      <4> QED
        BY <1>2, <4>1
    <3> QED
      BY <3>1, <3>2
  <2> QED
    BY <1>1, <2>1, <2>2, <2>3 DEF Registers
<1>7. SignBitReady' /\ Signs' /\ Paths' /\ MagnitudesReady' /\ Results'
  BY <1>1 DEF SignBitReady, Signs, Paths, MagnitudesReady, Results
<1>8. Addresses' /\ Operands'
  BY <1>1, <1>2, <1>5 DEF Addresses, Operands, Epilogue, Sets
<1>9. Summed'
  <2>1. pc \in 42 .. 44 => IsSum(reg[4]) /\ reg'[4] = reg[4]
    BY <1>1, <1>2 DEF Summed, Epilogue, Sets
  <2>2. pc = 44 => mem'[Data + 2] = reg[4]
    BY <1>2, <1>4, LayoutAssumption, WidthAssumption
  <2>3. pc = 45 => IsSum(mem[Data + 2]) /\ mem' = mem
    BY <1>4 DEF Summed
  <2>4. \A w : IsSum(w)' <=> IsSum(w)
    BY <1>5, OperandsKept
  <2>5. /\ IsSum(reg'[4]) <=> IsSum(reg[4])'
        /\ IsSum(mem'[Data + 2]) <=> IsSum(mem[Data + 2])'
    BY <1>5 DEF IsSum, SumFits, Sum, LeadingZero
  <2> QED
    BY <1>1, <2>1, <2>2, <2>3, <2>5 DEF Summed
<1> QED
  BY <1>5, <1>6, <1>7, <1>8, <1>9
-----------------------------------------------------------------------------
(***************************************************************************)
(* The theorems about add_asm.c.                                           *)
(***************************************************************************)

\* The file of the program: its listing, then words.
LEMMA FileLoaded ==
  ASSUME Simulator!Init, NEW n \in Nat, n = Len(Listing)
  PROVE  /\ mem \in [0 .. Half - 1 -> Words]
         /\ \A k \in 0 .. n - 1 : mem[k] = k + 1
<1>1. PICK input \in Inputs : mem = FileOf(Listing, Data, input)
  BY DEF Simulator!Init, Files
<1>2. input \in Seq(Words)
  BY <1>1, InputsAssumption DEF Words
<1>3. n <= Half - 1 /\ \A k \in 0 .. n - 1 : k + 1 \in Words /\ k \in 0 .. Half - 1
  BY LayoutAssumption, WidthAssumption, Widths DEF Words
<1>4. \A a \in Data .. Data + Len(input) - 1 : input[a - Data + 1] \in Words
  BY <1>2, LayoutAssumption
<1>5. 0 \in Words
  BY Widths, WidthAssumption DEF Words
<1>6. ASSUME NEW a \in 0 .. Half - 1
      PROVE  /\ mem[a] \in Words
             /\ a < n => mem[a] = a + 1
  <2>1. mem[a] = CASE a < n -> a + 1
                   [] a \in Data .. Data + Len(input) - 1 -> input[a - Data + 1]
                   [] OTHER -> 0
    BY <1>1 DEF FileOf
  <2>2. n <= Data
    BY LayoutAssumption
  <2>3. CASE a < n
    <3>1. a \notin Data .. Data + Len(input) - 1
      BY <2>2, <2>3, LayoutAssumption
    <3> QED
      BY <1>3, <2>1, <2>3, <3>1
  <2>4. CASE ~(a < n)
    BY <1>4, <1>5, <2>1, <2>4
  <2> QED
    BY <2>3, <2>4
<1>7. mem = [a \in 0 .. Half - 1 |-> mem[a]]
  BY <1>1 DEF FileOf
<1>8. mem \in [0 .. Half - 1 -> Words]
  BY <1>6, <1>7, Zenon
<1>9. \A k \in 0 .. n - 1 : mem[k] = k + 1
  BY <1>3, <1>6
<1> QED
  BY <1>8, <1>9

LEMMA AddInvInit ==
  ASSUME Listing = AddAsm(Data), Simulator!Init
  PROVE  AddInv
<1>1. Len(Listing) = 46
  BY SMT DEF AddAsm, Cmd, Jump
<1>2. mem \in [0 .. Half - 1 -> Words] /\ Loaded
  <2>1. /\ mem \in [0 .. Half - 1 -> Words]
        /\ \A k \in 0 .. 46 - 1 : mem[k] = k + 1
    BY <1>1, FileLoaded
  <2> QED
    BY <2>1 DEF Loaded
<1>3. pc = 0 /\ halted = FALSE /\ reg = [x \in 0 .. 7 |-> 0]
  BY DEF Simulator!Init, Simulator!Reg
<1>4. 0 \in Words
  BY Widths, WidthAssumption DEF Words
<1>5. Registers
  <2>1. pc \in 0 .. 46 /\ reg \in [0 .. 7 -> Words] /\ pc # 46
    BY <1>3, <1>4
  <2>2. halted \in BOOLEAN /\ (halted <=> pc = 46)
    BY <1>3, <2>1
  <2> QED
    BY <1>2, <2>1, <2>2 DEF Registers
<1>6. SignBitReady /\ Addresses /\ Operands /\ Signs
  BY <1>3 DEF SignBitReady, Addresses, Operands, Signs
<1>7. Paths /\ MagnitudesReady /\ Results /\ Summed
  BY <1>3 DEF Paths, MagnitudesReady, Results, Summed
<1> QED
  BY <1>2, <1>5, <1>6, <1>7 DEF AddInv

LEMMA AddInvNext ==
  ASSUME Listing = AddAsm(Data), AddInv, Simulator!Next
  PROVE  AddInv' /\ pc' > pc
<1>1. ~halted
  BY DEF Simulator!Next, Simulator!Compute, Simulator!Load, Simulator!Store,
         Simulator!Branch, Simulator!JumpIndirect, Simulator!Skip, Simulator!Halt,
         Simulator!Looping
<1>2. Prologue \/ OppositeSigns \/ SameSigns \/ Epilogue
  BY <1>1, Lines DEF AddInv
<1>3. Len(Listing) = 46
  BY SMT DEF AddAsm, Cmd, Jump
<1>4. 46 <= Data
  BY <1>3, LayoutAssumption
<1>5. AddInv'
  BY <1>2, <1>4, PrologueNext, OppositeSignsNext, SameSignsNext, EpilogueNext
<1>6. pc' > pc
  BY <1>2 DEF Prologue, OppositeSigns, SameSigns, Epilogue, Sets, GoesTo
<1> QED
  BY <1>5, <1>6

LEMMA AddInvAlways ==
  ASSUME Listing = AddAsm(Data)
  PROVE  Spec => []AddInv
<1>1. Simulator!Init => AddInv
  BY AddInvInit
<1>2. AddInv /\ [Simulator!Next]_vars => AddInv'
  <2>1. AddInv /\ UNCHANGED vars => AddInv'
    BY DEF vars, AddInv, Registers, Loaded, SignBitReady, Addresses, Operands, Signs,
           Paths, MagnitudesReady, Results, IsSum, Summed, A, B, SumFits, Sum, LeadingZero
  <2> QED
    BY <2>1, AddInvNext
<1> QED
  BY <1>1, <1>2, PTL DEF Spec

\* add_asm.c stores the sum of its operands, in every width and for all
\* operands whose sum fits, a leading zero aside.
THEOREM AddAsmCorrect ==
  ASSUME Listing = AddAsm(Data)
  PROVE  Spec => []AddCorrect
<1>1. AddInv => AddCorrect
  BY DEF AddInv, Registers, Summed, IsSum, AddCorrect
<1> QED
  BY <1>1, AddInvAlways, PTL

\* Its jumps, whose offsets were counted by hand, stay on its lines.
THEOREM AddAsmStaysInListing ==
  ASSUME Listing = AddAsm(Data)
  PROVE  Spec => []StaysInListing
<1>1. Len(Listing) = 46
  BY SMT DEF AddAsm, Cmd, Jump
<1>2. AddInv => StaysInListing
  BY <1>1 DEF AddInv, Registers, StaysInListing
<1> QED
  BY <1>2, AddInvAlways, PTL

\* No instruction of it jumps back: it executes at most one for each line.
THEOREM AddAsmMovesForward ==
  ASSUME Listing = AddAsm(Data)
  PROVE  Spec => [][pc < pc']_vars
<1>1. AddInv /\ [Simulator!Next]_vars => [pc < pc']_vars
  BY AddInvNext DEF AddInv, Registers
<1> QED
  BY <1>1, AddInvAlways, PTL DEF Spec

\* What it gets wrong: with a zero in front of a number of the same sign it
\* stores twice the number's magnitude, without its sign.
THEOREM AddAsmDoublesAfterZero ==
  ASSUME Listing = AddAsm(Data)
  PROVE  Spec => [](halted /\ LeadingZero => mem[Data + 2] = 2 * Magnitude(B))
<1>1. AddInv => (halted /\ LeadingZero => mem[Data + 2] = 2 * Magnitude(B))
  BY DEF AddInv, Registers, Summed, IsSum
<1> QED
  BY <1>1, AddInvAlways, PTL
-----------------------------------------------------------------------------
(***************************************************************************)
(* sqrtq_asm.c never comes back from its bit loop: the branch at line 6    *)
(* that should go on with the shift goes to line 10, behind the shift and  *)
(* the counting down, and line 10 back to 5, for every number from 5 on.   *)
(***************************************************************************)
LargeRadicands ==
  \A input \in Inputs : Len(input) >= 1 /\ input[1] \in 5 .. SignBit - 1

InBitLoop ==
  /\ pc \in 0 .. 6 \cup {10}
  /\ halted = FALSE
  /\ reg \in [0 .. 7 -> Words]
  /\ \A k \in 0 .. 24 : mem[k] = k + 1
  /\ mem[Data] \in 5 .. SignBit - 1
  /\ pc \in 1 .. 6 \cup {10} => reg[2] = mem[Data]
  /\ pc \in 4 .. 6 \cup {10} => reg[3] = 1
  /\ pc \in 5 .. 6 \cup {10} => reg[7] # 0
  /\ pc = 6 => reg[5] = 4
LEMMA InBitLoopInit ==
  ASSUME Listing = SqrtqAsm(Data), LargeRadicands, Simulator!Init
  PROVE  InBitLoop
<1>1. Len(Listing) = 25
  BY SMT DEF SqrtqAsm, Cmd, Jump
<1>2. \A k \in 0 .. 25 - 1 : mem[k] = k + 1
  BY <1>1, FileLoaded
<1>3. mem[Data] \in 5 .. SignBit - 1
  <2>1. PICK input \in Inputs : mem = FileOf(Listing, Data, input)
    BY DEF Simulator!Init, Files
  <2>2. Len(input) \in Nat /\ Len(input) >= 1 /\ input[1] \in 5 .. SignBit - 1
    BY InputsAssumption DEF LargeRadicands
  <2>3. /\ Data \in 0 .. Half - 1 /\ ~(Data < Len(Listing))
        /\ Data \in Data .. Data + Len(input) - 1 /\ Data - Data + 1 = 1
    BY <1>1, <2>2, LayoutAssumption, WidthAssumption
  <2>4. mem[Data] = input[1]
    BY <2>1, <2>3 DEF FileOf
  <2> QED
    BY <2>2, <2>4
<1>4. pc = 0 /\ halted = FALSE /\ reg = [x \in 0 .. 7 |-> 0]
  BY DEF Simulator!Init, Simulator!Reg
<1>5. reg \in [0 .. 7 -> Words]
  BY <1>4, Widths, WidthAssumption DEF Words
<1> QED
  BY <1>2, <1>3, <1>4, <1>5 DEF InBitLoop

LEMMA InBitLoopNext ==
  ASSUME Listing = SqrtqAsm(Data), InBitLoop, Simulator!Next
  PROVE  InBitLoop'
<1> DEFINE i == At(Listing, pc)
<1>1. Len(Listing) = 25
  BY SMT DEF SqrtqAsm, Cmd, Jump
<1>2. /\ pc \in 0 .. 6 \cup {10} /\ halted = FALSE /\ reg \in [0 .. 7 -> Words]
      /\ mem[Data] \in 5 .. SignBit - 1
  BY DEF InBitLoop
<1>3. 0 .. 27 \subseteq 0 .. Half - 1 /\ Data \in 0 .. Half - 1
  BY <1>1, LayoutAssumption, WidthAssumption
<1>4. Simulator!In = i
  <2>1. pc \in 0 .. 25 - 1 /\ mem[pc] = pc + 1
    BY <1>2 DEF InBitLoop
  <2> QED
    BY <1>1, <2>1, Fetches
<1>5. /\ \A v \in 0 .. 27 \cup {Data} : Immediate(v) \in Words /\ Immediate(v) % Half = v
      /\ \A v \in 0 .. 2 : Immediate(v) = v
      /\ Immediate(16) # 0
  <2>1. \A v \in 0 .. 27 \cup {Data} : Immediate(v) \in Words /\ Immediate(v) % Half = v
    BY <1>3, ImmediateOf
  <2>2. \A v \in 0 .. 2 : v % Half = v /\ ~(2 * v >= Half)
    BY <1>3, WidthAssumption, Reduce
  <2>3. \A v \in 0 .. 2 : Immediate(v) = v
    BY <2>2 DEF Immediate
  <2>4. 0 % Half = 0
    BY <2>2
  <2>5. Immediate(16) # 0
    BY <2>1, <2>4
  <2> QED
    BY <2>1, <2>3, <2>5
<1>6. i.src0 \in 0 .. 7 /\ i.src1 \in 0 .. 7 /\ i.imm \in Words
  <2>1. /\ i.src0 \in 0 .. 7 /\ i.src1 \in 0 .. 7
        /\ \E v \in 0 .. 27 \cup {Data} : i.imm = Immediate(v)
    BY <1>2, SMT DEF At, SqrtqAsm, Cmd, Jump
  <2> QED
    BY <1>5, <2>1
<1> HIDE DEF i
<1>7. /\ i.op = "ADD" => Sets(i.dst, (Read(i.src0, i) + Read(i.src1, i)) % WordMod)
      /\ i.op = "LSF" => Sets(i.dst, ShiftLeft(Read(i.src0, i), Read(i.src1, i)))
      /\ i.op = "LD" => Sets(i.dst, mem[Read(i.src1, i) % Half])
      /\ i.op = "JEQ" => GoesTo(i.imm % Half, Read(i.src0, i) = Read(i.src1, i))
      /\ i.op = "JNE" => GoesTo(i.imm % Half, Read(i.src0, i) # Read(i.src1, i))
      /\ i.op = "JLT" => GoesTo(i.imm % Half, Simulator!Signed(Read(i.src0, i))
                                              < Simulator!Signed(Read(i.src1, i)))
  BY <1>4, <1>6, Executes
<1>8. \A x \in Words : (0 + 0) % WordMod = 0 /\ (x + 0) % WordMod = x
  BY Reduce, Widths, WidthAssumption DEF Words
<1>9. 0 \in Words /\ 1 \in Words /\ 4 \in Words /\ mem[Data] \in Words
  BY <1>2, Widths, WidthAssumption DEF Words
<1>10. /\ mem' = mem /\ halted' = halted
       /\ \/ pc = 0 /\ pc' = 1 /\ reg' = [reg EXCEPT ![2] = mem[Data]]
          \/ pc = 1 /\ pc' = 2 /\ reg' = reg
          \/ pc = 2 /\ pc' = 3 /\ reg' = [reg EXCEPT ![4] = 0]
          \/ pc = 3 /\ pc' = 4 /\ reg' = [reg EXCEPT ![3] = 1]
          \/ pc = 4 /\ pc' = 5 /\ reg' = [reg EXCEPT ![7] = Immediate(16)]
          \/ pc = 5 /\ pc' = 6 /\ reg' = [reg EXCEPT ![5] = 4]
          \/ pc = 6 /\ pc' = 10 /\ reg' = reg
          \/ pc = 10 /\ pc' = 5 /\ reg' = reg
  <2> DEFINE Command(op, d, s, t, v) ==
               [op |-> op, dst |-> d, src0 |-> s, src1 |-> t, imm |-> Immediate(v)]
  <2>1. /\ pc = 0 => i = Command("LD", 2, 0, 1, Data)
        /\ pc = 1 => i = Command("JEQ", 0, 2, 0, 21)
        /\ pc = 2 => i = Command("ADD", 4, 0, 0, 0)
        /\ pc = 3 => i = Command("ADD", 3, 1, 0, 1)
        /\ pc = 4 => i = Command("ADD", 7, 1, 0, 16)
        /\ pc = 5 => i = Command("LSF", 5, 3, 1, 2)
        /\ pc = 6 => i = Command("JLT", 0, 5, 2, 10)
        /\ pc = 10 => i = Command("JNE", 0, 7, 0, 5)
    <3>1. At(Listing, 0) = Command("LD", 2, 0, 1, Data)
      BY SMT DEF At, SqrtqAsm, Cmd, Jump
    <3>2. At(Listing, 1) = Command("JEQ", 0, 2, 0, 21)
      BY SMT DEF At, SqrtqAsm, Cmd, Jump
    <3>3. At(Listing, 2) = Command("ADD", 4, 0, 0, 0)
      BY SMT DEF At, SqrtqAsm, Cmd, Jump
    <3>4. At(Listing, 3) = Command("ADD", 3, 1, 0, 1)
      BY SMT DEF At, SqrtqAsm, Cmd, Jump
    <3>5. At(Listing, 4) = Command("ADD", 7, 1, 0, 16)
      BY SMT DEF At, SqrtqAsm, Cmd, Jump
    <3>6. At(Listing, 5) = Command("LSF", 5, 3, 1, 2)
      BY SMT DEF At, SqrtqAsm, Cmd, Jump
    <3>7. At(Listing, 6) = Command("JLT", 0, 5, 2, 10)
      BY SMT DEF At, SqrtqAsm, Cmd, Jump
    <3>8. At(Listing, 10) = Command("JNE", 0, 7, 0, 5)
      BY SMT DEF At, SqrtqAsm, Cmd, Jump
    <3> QED
      BY <3>1, <3>2, <3>3, <3>4, <3>5, <3>6, <3>7, <3>8 DEF i
  <2>2. CASE pc = 0
    BY <1>5, <1>7, <2>1, <2>2 DEF Read, Sets
  <2>3. CASE pc = 1
    <3>1. reg[2] # 0
      BY <1>2, <2>3 DEF InBitLoop
    <3> QED
      BY <1>7, <2>1, <2>3, <3>1 DEF Read, GoesTo
  <2>4. CASE pc \in {2, 3, 4}
    BY <1>5, <1>7, <1>8, <1>9, <2>1, <2>4 DEF Read, Sets
  <2>5. CASE pc = 5
    <3>1. reg[3] = 1
      BY <2>5 DEF InBitLoop
    <3> QED
      BY <1>5, <1>7, <2>1, <2>5, <3>1, ShiftAssumption DEF Read, Sets
  <2>6. CASE pc = 6
    <3>1. reg[5] = 4 /\ reg[2] = mem[Data]
      BY <2>6 DEF InBitLoop
    <3>2. Simulator!Signed(4) = 4 /\ Simulator!Signed(mem[Data]) = mem[Data]
      BY <1>2, Widths DEF Simulator!Signed, Simulator!Negative, Simulator!WordMod, WordMod
    <3>3. Simulator!Signed(4) < Simulator!Signed(mem[Data])
      BY <1>2, <3>2
    <3> QED
      BY <1>5, <1>7, <2>1, <2>6, <3>1, <3>3 DEF Read, GoesTo
  <2>7. CASE pc = 10
    <3>1. reg[7] # 0
      BY <2>7 DEF InBitLoop
    <3> QED
      BY <1>5, <1>7, <2>1, <2>7, <3>1 DEF Read, GoesTo
  <2> QED
    BY <1>2, <2>2, <2>3, <2>4, <2>5, <2>6, <2>7
<1> QED
  BY <1>2, <1>5, <1>9, <1>10 DEF InBitLoop

\* sqrtq_asm.c halts for none of these numbers, its own 3000 among them,
\* whatever the width.
THEOREM SqrtqAsmNeverHalts ==
  ASSUME Listing = SqrtqAsm(Data), LargeRadicands
  PROVE  Spec => []~halted
<1>1. Simulator!Init => InBitLoop
  BY InBitLoopInit
<1>2. InBitLoop /\ [Simulator!Next]_vars => InBitLoop'
  <2>1. InBitLoop /\ UNCHANGED vars => InBitLoop'
    BY DEF vars, InBitLoop
  <2> QED
    BY <2>1, InBitLoopNext
<1>3. InBitLoop => ~halted
  BY DEF InBitLoop
<1> QED
  BY <1>1, <1>2, <1>3, PTL DEF Spec
=============================================================================
