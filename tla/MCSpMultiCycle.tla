--------------------------- MODULE MCSpMultiCycle ---------------------------
(***************************************************************************)
(* SpMultiCycle for TLC, on the program images made of a fixed beginning,  *)
(* Length words of an alphabet and a HLT.  Small data values are           *)
(* themselves words of the table, so a program that stores into its own    *)
(* code runs what it stored.                                               *)
(***************************************************************************)
EXTENDS SpMultiCycleProperties, MCWords

CONSTANTS
  Setup,       \* the words every program begins with
  Length,      \* words of the alphabet that follow, before the HLT
  Alphabet     \* the instruction words a program is made of

Code == <<
  I("ADD", 2, 1, 0, 5),          \*  1  r2 = 5
  I("ADD", 2, 2, 1, 255),        \*  2  r2 = r2 - 1
  I("SUB", 3, 2, 3, 0),          \*  3  r3 = r2 - r3
  I("LD", 2, 0, 2, 0),           \*  4  r2 = MEM[r2]
  I("LD", 0, 0, 1, 1),           \*  5  r0 = MEM[1]
  I("ST", 0, 2, 3, 0),           \*  6  MEM[r3] = r2
  I("JNE", 0, 2, 3, 1),          \*  7  if r2 # r3 goto 1
  I("JIN", 0, 2, 0, 0),          \*  8  goto r[r2]
  I("HLT", 0, 0, 0, 0),          \*  9
  I("DMA_START", 0, 2, 3, 2),    \* 10  copy 2 words from r2 to r3
  I("DMA_STATUS", 4, 0, 0, 0),   \* 11  r4 = DMA busy
  I("JNE", 0, 4, 0, 3),          \* 12  if r4 # 0 goto 3
  I("LHI", 3, 0, 1, 2),          \* 13  r3 = 2 << 4
  I("RSF", 7, 2, 1, 1),          \* 14  r7 = r2 >> 1
  I("ADD", 1, 2, 1, 3),          \* 15  r1 = r2 + 3
  I("ST", 0, 1, 2, 4),           \* 16  MEM[r2] = 4
  I("JLT", 0, 2, 3, 1),          \* 17  if r2 < r3 goto 1
  I("ADD", 3, 1, 0, 12),         \* 18  r3 = 12
  I("U", 2, 0, 0, 0),            \* 19  unassigned
  I("XOR", 2, 2, 7, 0),          \* 20  r2 = r2 ^ r7
  I("LSF", 2, 2, 1, 7),          \* 21  r2 = r2 << 7
  I("AND", 3, 2, 1, 6),          \* 22  r3 = r2 & 6
  I("OR", 2, 1, 3, 9),           \* 23  r2 = 9 | r3
  I("JLE", 0, 2, 1, 14),         \* 24  if r2 <= 14 goto 14
  I("JEQ", 0, 7, 0, 3)           \* 25  if r7 = 0 goto 3
>>

MCDecode(w) == DecodeBy(Code, w)

HltWord == 9

MCImages == { ImageOf(Setup \o p \o <<HltWord>>) : p \in [1 .. Length -> Alphabet] }

LoadedRegs == <<1, 18>>                        \* r2 = 5, r3 = 12
=============================================================================
