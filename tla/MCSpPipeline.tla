---------------------------- MODULE MCSpPipeline ----------------------------
(***************************************************************************)
(* SpPipeline for TLC.  Half is 16 (the word has 8 bits, the memories 16   *)
(* words).  The program images are all sequences of Length words of an     *)
(* alphabet, between a fixed beginning and a HLT, followed by zeros.  The  *)
(* alphabet's words are indices of the table Code.                         *)
(***************************************************************************)
EXTENDS SpPipelineProperties, MCWords

CONSTANTS
  Setup,       \* the words every program begins with
  Length,      \* words of the alphabet that follow, before the HLT
  Alphabet     \* the instruction words a program is made of

Code == <<
  I("ADD", 2, 1, 0, 5),     \*  1  r2 = 5
  I("ADD", 2, 2, 1, 255),   \*  2  r2 = r2 - 1
  I("SUB", 3, 2, 3, 0),     \*  3  r3 = r2 - r3
  I("LD", 2, 0, 2, 0),      \*  4  r2 = MEM[r2]
  I("LD", 3, 0, 1, 1),      \*  5  r3 = MEM[1]
  I("ST", 0, 2, 3, 0),      \*  6  MEM[r3] = r2
  I("JNE", 0, 2, 3, 1),     \*  7  if r2 # r3 goto 1
  I("JIN", 0, 2, 0, 0),     \*  8  goto r2
  I("HLT", 0, 0, 0, 0),     \*  9
  I("ADD", 3, 7, 2, 0),     \* 10  r3 = r7 + r2
  I("ST", 2, 2, 1, 3),      \* 11  MEM[3] = r2, with r2 in its dst field
  I("JLT", 3, 2, 3, 0),     \* 12  if r2 < r3 goto 0, with r3 in its dst field
  I("U", 2, 0, 0, 0),       \* 13  unassigned, with r2 in its dst field
  I("LHI", 3, 2, 1, 2),     \* 14  r3 = 2 << 4 | low half of r2
  I("JLE", 0, 2, 1, 14),    \* 15  if r2 <= 14 goto 14
  I("XOR", 2, 2, 3, 0),     \* 16  r2 = r2 ^ r3
  I("RSF", 7, 2, 1, 1),     \* 17  r7 = r2 >> 1
  I("JEQ", 0, 7, 0, 3),     \* 18  if r7 = 0 goto 3
  I("LSF", 2, 2, 1, 7),     \* 19  r2 = r2 << 7
  I("AND", 3, 2, 1, 6),     \* 20  r3 = r2 & 6
  I("OR", 2, 1, 3, 9),      \* 21  r2 = 9 | r3
  I("JIN", 3, 2, 0, 0)      \* 22  goto r2, with r3 in its dst field
>>

MCDecode(w) == DecodeBy(Code, w)

HltWord == 9

\* A program: Setup, then Length words of the alphabet, then a HLT.
MCImages == { ImageOf(Setup \o p \o <<HltWord>>) : p \in [1 .. Length -> Alphabet] }

NoSetup == <<>>
LoadedRegs == <<1, 5>>    \* r2 = 5, r3 = MEM[1]
=============================================================================
