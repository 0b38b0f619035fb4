----------------------------- MODULE ProgramRun -----------------------------
(***************************************************************************)
(* The programs of lab 1 on lab 1's simulator, and what they compute.      *)
(***************************************************************************)
EXTENDS Programs

CONSTANTS
  Listing,      \* the program
  Data,         \* the address of its first operand
  Inputs,       \* the operands, as sequences of words
  BitAnd(_, _), BitOr(_, _), BitXor(_, _), ShiftLeft(_, _), ShiftRight(_, _)

\* Words of an even number of bits; room for the program and its data.
ASSUME WidthAssumption == Half \in Nat /\ Half >= 8 /\ Half % 2 = 0
ASSUME LayoutAssumption ==
  Data \in Nat /\ Len(Listing) <= Data /\ Data + 2 < Half

WordMod == Half * Half

ASSUME InputsAssumption ==
  \A input \in Inputs : input \in Seq(0 .. WordMod - 1)

\* C's & with the sign bit, and C's 1 << 2.
ASSUME SignBitAssumption ==
  \A w \in 0 .. WordMod - 1 :
     BitAnd(w, WordMod \div 2) = IF 2 * w >= WordMod THEN WordMod \div 2 ELSE 0
ASSUME ShiftAssumption == ShiftLeft(1, 2) = 4

VARIABLES pc, reg, mem, halted

vars == <<pc, reg, mem, halted>>

Decode(w) == DecodeIn(Listing, w)
Files == { FileOf(Listing, Data, input) : input \in Inputs }

Simulator == INSTANCE Iss WITH Lab <- 1, LinkOffset <- 1, Images <- Files

Spec == Simulator!Init /\ [][Simulator!Next]_vars

\* The loop in main() goes on until the program halts.
FairSpec == Spec /\ WF_vars(Simulator!Next)

-----------------------------------------------------------------------------
(***************************************************************************)
(* Numbers in sign and magnitude, as add_asm.c reads them.                 *)
(***************************************************************************)
Minus(w) == Simulator!Negative(w)
Magnitude(w) == w % (WordMod \div 2)
Value(w) == IF Minus(w) THEN -Magnitude(w) ELSE Magnitude(w)

A == mem[Data]
B == mem[Data + 1]
Sum == Value(A) + Value(B)
SumFits == -(WordMod \div 2) < Sum /\ Sum < WordMod \div 2

\* The operands add_asm.c gets wrong: a zero before a number of its sign.
LeadingZero == Magnitude(A) = 0 /\ (Minus(A) <=> Minus(B))

(***************************************************************************)
(* add_asm.c stores the sum of its operands, through its thirteen          *)
(* branches, their targets computed by hand from the pc of their lines,    *)
(* and the sharing of r4 to r7 between magnitudes, signs and results.      *)
(***************************************************************************)
AddCorrect ==
  halted /\ SumFits /\ ~LeadingZero => Value(mem[Data + 2]) = Sum

(***************************************************************************)
(* No jump of the program, and no missing halt, lets the simulator run on  *)
(* into the words behind the listing or into its data.                     *)
(***************************************************************************)
StaysInListing == ~halted => pc < Len(Listing)

(***************************************************************************)
(* The program comes to its HLT whatever its operands are.                 *)
(***************************************************************************)
Halts == <>halted

-----------------------------------------------------------------------------
(***************************************************************************)
(* Statements of the programs that they do not keep.                       *)
(***************************************************************************)

\* add_asm.c:4: "This program adds two numbers in sign magnitude format".
AddAlwaysCorrect == halted /\ SumFits => Value(mem[Data + 2]) = Sum

\* sqrtq_asm.c:67: "Fixed: Use safety counter to prevent infinite loops".
SafetyCounterWorks == <>halted
=============================================================================
