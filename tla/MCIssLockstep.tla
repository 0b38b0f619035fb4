--------------------------- MODULE MCIssLockstep ---------------------------
(***************************************************************************)
(* The two instruction-set simulators for TLC, on the programs made of a   *)
(* fixed beginning, Length words of an alphabet and a HLT.                 *)
(***************************************************************************)
EXTENDS IssLockstep, MCWords

CONSTANTS
  Setup,       \* the words every program begins with
  Length,      \* words of the alphabet that follow, before the HLT
  Alphabet     \* the instruction words a program is made of

Code == <<
  I("ADD", 2, 1, 0, 5),       \*  1  r2 = 5
  I("ADD", 2, 2, 1, 255),     \*  2  r2 = r2 - 1
  I("SUB", 3, 2, 3, 0),       \*  3  r3 = r2 - r3
  I("LD", 2, 0, 2, 0),        \*  4  r2 = MEM[r2]
  I("LD", 0, 0, 1, 1),        \*  5  r0 = MEM[1]
  I("ST", 0, 0, 3, 0),        \*  6  MEM[r3] = r0
  I("JNE", 0, 2, 3, 1),       \*  7  if r2 # r3 goto 1
  I("JIN", 0, 2, 0, 0),       \*  8  goto r2
  I("HLT", 0, 0, 0, 0),       \*  9
  I("JIN", 0, 1, 0, 0),       \* 10  goto r1
  I("LHI", 2, 2, 1, 3),       \* 11  r2 = 3 << 4 | low half of r2
  I("LHI", 6, 6, 1, 200),     \* 12  r6 = 200 << 4 | low half of r6
  I("ADD", 1, 2, 1, 3),       \* 13  r1 = r2 + 3
  I("ST", 0, 2, 3, 0),        \* 14  MEM[r3] = r2
  I("ADD", 7, 2, 3, 0),       \* 15  r7 = r2 + r3
  I("RSF", 3, 3, 1, 1),       \* 16  r3 = r3 >> 1
  I("JLE", 0, 3, 2, 15),      \* 17  if r3 <= r2 goto 15
  I("ADD", 6, 6, 2, 0),       \* 18  r6 = r6 + r2
  I("DMA_STATUS", 4, 0, 0, 0),\* 19  unassigned here
  I("ADD", 3, 7, 2, 0),       \* 20  r3 = r7 + r2
  I("ST", 0, 7, 2, 0),        \* 21  MEM[r2] = r7
  I("JIN", 0, 7, 0, 0),       \* 22  goto r7
  I("LHI", 2, 3, 1, 3)        \* 23  r2 = 3 << 4 | low half of r3, of r2 in lab 1
>>

MCDecode(w) == DecodeBy(Code, w)

HltWord == 9

MCImages == { ImageOf(Setup \o p \o <<HltWord>>) : p \in [1 .. Length -> Alphabet] }

LoadedRegs == <<1>>    \* r2 = 5
=============================================================================
