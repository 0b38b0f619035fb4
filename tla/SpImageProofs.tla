--------------------------- MODULE SpImageProofs ---------------------------
(***************************************************************************)
(* Proofs about instruction words and about loading them, for every height *)
(* of memory, every listing and all test data.                             *)
(***************************************************************************)
EXTENDS SpImage, TLAPS

-----------------------------------------------------------------------------
(***************************************************************************)
(* Instruction words.  The proofs use of Low and Sign only what this first *)
(* lemma says.                                                             *)
(***************************************************************************)
LEMMA Widths ==
  Low \in Nat /\ Low > 0 /\ Sign \in Nat /\ Low = Sign + Sign
  BY SMT DEF Low, Sign

\* A field is recovered by dividing by its place value: what is above it is
\* the quotient, what is below it the remainder.
LEMMA Split ==
  ASSUME NEW q \in Int, NEW n \in Nat, n > 0, NEW r \in 0 .. n - 1
  PROVE  (q * n + r) \div n = q /\ (q * n + r) % n = r
<1>1. (q * n + r) \div n = q
  BY SMT
<1>2. (q * n + r) % n = r
  BY SMT
<1> QED
  BY <1>1, <1>2

\* A field of three bits above one of n values.
LEMMA Place ==
  ASSUME NEW n \in Nat, n > 0, NEW q \in 0 .. 7, NEW r \in 0 .. n - 1
  PROVE  q * n + r \in 0 .. 8 * n - 1
<1>1. q * n \in Nat /\ q * n <= 7 * n
  BY SMT
<1> QED
  BY <1>1, SMT

\* The five masks of asm_cmd.
LEMMA Masked ==
  ASSUME NEW c \in Cmd
  PROVE  /\ c.opcode % 32 \in 0 .. 31
         /\ c.dst % 8 \in 0 .. 7
         /\ c.src0 % 8 \in 0 .. 7
         /\ c.src1 % 8 \in 0 .. 7
         /\ c.imm % Low \in 0 .. Low - 1
<1>1. /\ c.opcode \in Int /\ c.dst \in Int /\ c.src0 \in Int
      /\ c.src1 \in Int /\ c.imm \in Int
  BY DEF Cmd
<1>2. \A v \in Int : v % 32 \in 0 .. 31 /\ v % 8 \in 0 .. 7
  BY SMT
<1>3. \A v \in Int : v % Low \in 0 .. Low - 1
  BY Widths, SMT
<1> QED
  BY <1>1, <1>2, <1>3

\* What asm_cmd packs keeps its top two bits clear, whatever its arguments,
\* and comes apart at the borders of its fields.
LEMMA AsmCmdPacked ==
  ASSUME NEW c \in Cmd
  PROVE  /\ AsmCmd(c) \in InstWord
         /\ (AsmCmd(c) \div OpUnit) % 32 = c.opcode % 32
         /\ (AsmCmd(c) \div DstUnit) % 8 = c.dst % 8
         /\ (AsmCmd(c) \div Src0Unit) % 8 = c.src0 % 8
         /\ (AsmCmd(c) \div Src1Unit) % 8 = c.src1 % 8
         /\ AsmCmd(c) % Low = c.imm % Low
<1> DEFINE o == c.opcode % 32
           d == c.dst % 8
           x == c.src0 % 8
           y == c.src1 % 8
           h == c.imm % Low
           w == AsmCmd(c)
<1>1. o \in 0 .. 31 /\ d \in 0 .. 7 /\ x \in 0 .. 7 /\ y \in 0 .. 7 /\ h \in 0 .. Low - 1
  BY Masked
<1>2. w = o * (512 * Low) + d * (64 * Low) + x * (8 * Low) + y * Low + h
  BY DEF AsmCmd, OpUnit, DstUnit, Src0Unit, Src1Unit
<1> HIDE DEF o, d, x, y, h, w
<1>3. /\ w \in 0 .. 32 * (512 * Low) - 1
      /\ w \div (512 * Low) = o
      /\ w \div (64 * Low) = o * 8 + d
      /\ w \div (8 * Low) = (o * 8 + d) * 8 + x
      /\ w \div Low = ((o * 8 + d) * 8 + x) * 8 + y
      /\ w % Low = h
  <2> USE <1>1, <1>2, Widths
  <2> HIDE DEF Low
  <2> DEFINE r1 == y * Low + h
             r2 == x * (8 * Low) + r1
             r3 == d * (64 * Low) + r2
  <2>1. r1 \in 0 .. 8 * Low - 1
    BY Place
  <2>2. r2 \in 0 .. 64 * Low - 1
    <3>1. r2 \in 0 .. 8 * (8 * Low) - 1
      <4>1. 8 * Low \in Nat /\ 8 * Low > 0 
        BY SMT
      <4> HIDE DEF r1
      <4> QED BY <2>1, <4>1, Place
    <3> HIDE DEF r2
    <3> QED BY <3>1, SMT
  <2>3. r3 \in 0 .. 512 * Low - 1
    <3>1. r3 \in 0 .. 8 * (64 * Low) - 1
      <4>1. 64 * Low \in Nat /\ 64 * Low > 0 
        BY SMT
      <4> HIDE DEF r2
      <4> QED BY <2>2, <4>1, Place
    <3> HIDE DEF r3
    <3> QED BY <3>1, SMT
  <2>4. w = o * (512 * Low) + r3
    BY SMT
  <2>5. w = (o * 8 + d) * (64 * Low) + r2
    BY SMT
  <2>6. w = ((o * 8 + d) * 8 + x) * (8 * Low) + r1
    BY SMT
  <2>7. w = (((o * 8 + d) * 8 + x) * 8 + y) * Low + h
    BY SMT
  <2> HIDE DEF r1, r2, r3
  <2>8. o * (512 * Low) \in Nat /\ o * (512 * Low) <= 31 * (512 * Low)
    BY SMT
  <2>9. w \in 0 .. 32 * (512 * Low) - 1
    BY SMT, <2>3, <2>4, <2>8
  <2>10. /\ 512 * Low \in Nat /\ 512 * Low > 0
         /\ 64 * Low \in Nat /\ 64 * Low > 0
         /\ 8 * Low \in Nat /\ 8 * Low > 0
    BY SMT
  <2>11. w \div (512 * Low) = o
    BY <2>10, <2>4, <2>3, Split, SMT
  <2>12. w \div (64 * Low) = o * 8 + d
    BY <2>10, <2>5, <2>2, Split, SMT
  <2>13. w \div (8 * Low) = (o * 8 + d) * 8 + x
    BY <2>10, <2>6, <2>1, Split, SMT
  <2>14. /\ w \div Low = ((o * 8 + d) * 8 + x) * 8 + y
         /\ w % Low = h
    <3> DEFINE q == ((o * 8 + d) * 8 + x) * 8 + y
    <3>1. q \in Int /\ w = q * Low + h
      BY <2>7, SMT
    <3> HIDE DEF q
    <3>2. w \div Low = q /\ w % Low = h
      BY <3>1, Split
    <3> QED
      BY <3>2 DEF q
  <2> QED
    BY <2>9, <2>11, <2>12, <2>13, <2>14
<1>4. o % 32 = o
  BY <1>1, SMT
<1>5. (o * 8 + d) % 8 = d
  BY <1>1, Split, SMT
<1>6. ((o * 8 + d) * 8 + x) % 8 = x
  BY <1>1, Split, SMT
<1>7. (((o * 8 + d) * 8 + x) * 8 + y) % 8 = y
  BY <1>1, Split, SMT
<1>8. /\ w \in InstWord
      /\ (w \div OpUnit) % 32 = o
      /\ (w \div DstUnit) % 8 = d
      /\ (w \div Src0Unit) % 8 = x
      /\ (w \div Src1Unit) % 8 = y
  BY <1>3, <1>4, <1>5, <1>6, <1>7 DEF InstWord, OpUnit, DstUnit, Src0Unit, Src1Unit
<1> QED
  BY <1>3, <1>8 DEF o, d, x, y, h, w

\* Packing and decoding (asm_cmd, then DEC0) gives back a command's numbers,
\* each cut to its field, whatever the numbers: nothing spills into another
\* field.
THEOREM RoundTrip ==
  ASSUME NEW c \in Cmd PROVE Dec0(AsmCmd(c)) = Meaning(c)
  BY AsmCmdPacked DEF Dec0, Meaning

\* Any word at all decodes to fields of their widths.
THEOREM Dec0Fields ==
  ASSUME NEW w \in Int PROVE Dec0(w) \in Fields
<1>1. OpUnit \in Nat \ {0} /\ DstUnit \in Nat \ {0} /\ Src0Unit \in Nat \ {0} /\ Src1Unit \in Nat \ {0}
  BY Widths, SMT DEF OpUnit, DstUnit, Src0Unit, Src1Unit
<1>2. \A n \in Nat \ {0} : w \div n \in Int
  BY SMT
<1>3. \A v \in Int : v % 32 \in 0 .. 31 /\ v % 8 \in 0 .. 7
  BY SMT
<1>4. w % Low \in 0 .. Low - 1
  BY Widths, SMT
<1>5. SignExtended(w % Low) \in -Sign .. Sign - 1
  BY <1>4, Widths, SMT DEF SignExtended
<1> QED
  BY <1>1, <1>2, <1>3, <1>5 DEF Dec0, Fields

\* A command whose numbers fit their fields means itself.
THEOREM FittingCommand ==
  ASSUME NEW c \in Fields PROVE Meaning(c) = c
<1>1. ASSUME NEW v \in -Sign .. Sign - 1 PROVE SignExtended(v % Low) = v
  <2>1. CASE v >= 0
    <3>1. v % Low = v
      BY <2>1, Widths, SMT
    <3> QED
      BY <2>1, <3>1, Widths, SMT DEF SignExtended
  <2>2. CASE v < 0
    <3>1. v + Low \in 0 .. Low - 1 /\ v = (-1) * Low + (v + Low) /\ -1 \in Int
      BY <2>2, Widths, SMT
    <3>2. v % Low = v + Low
      BY <3>1, Split, Widths
    <3> QED
      BY <2>2, <3>2, Widths, SMT DEF SignExtended
  <2> QED
    BY <2>1, <2>2, Widths, SMT
<1>2. (\A v \in 0 .. 31 : v % 32 = v) /\ (\A v \in 0 .. 7 : v % 8 = v)
  BY SMT
<1>3. c = [opcode |-> c.opcode, dst |-> c.dst, src0 |-> c.src0, src1 |-> c.src1,
           imm |-> c.imm]
  BY DEF Fields
<1>4. /\ c.opcode % 32 = c.opcode /\ c.dst % 8 = c.dst /\ c.src0 % 8 = c.src0
      /\ c.src1 % 8 = c.src1 /\ SignExtended(c.imm % Low) = c.imm
  BY <1>1, <1>2 DEF Fields
<1> QED
  BY <1>3, <1>4 DEF Meaning

-----------------------------------------------------------------------------
(***************************************************************************)
(* Loading.  The invariant says of every stage where its words come from.  *)
(***************************************************************************)

\* Every command stands packed at its address.
LaidOut == \A k \in 1 .. Len(listing) : mem[k - 1] = AsmCmd(listing[k])

\* The file is the beginning of mem[], and covers the code.
FileIsMem ==
  file # NoFile => /\ Len(listing) <= Len(file)
                   /\ \A k \in 1 .. Len(file) : file[k] = mem[k - 1]

\* memory_image is the beginning of the file, and complete when injected.
ImageIsFile ==
  /\ \A k \in 1 .. Len(image) : image[k] = file[k]
  /\ injected > 0 => ImageRead

\* An llsim memory in the middle of its loading: the words injected so far,
\* the sign the last one left behind it, then zeros.
MemoryIsFile ==
  \A m \in Memories, a \in Entry :
     data[m][a] = IF a < injected THEN file[a + 1]
                  ELSE IF a = injected /\ a > 0 /\ file[a] < 0 THEN -1 ELSE 0

\* The simulator's memory in the middle of its loading.
IssMemIsFile ==
  \A a \in Address : issmem[a] = IF a < issread THEN file[a + 1] ELSE 0

Inv == ImageTypeOK /\ LaidOut /\ FileIsMem /\ ImageIsFile /\ MemoryIsFile /\ IssMemIsFile

\* Words that can be in a file are ints, 0 and -1 fit an llsim entry.
LEMMA Words ==
  /\ FileWord \subseteq Int /\ 0 \in FileWord
  /\ FileWord \subseteq EntryWord /\ -1 \in EntryWord
  /\ \A c \in Cmds : AsmCmd(c) \in FileWord
  /\ TestData \subseteq FileWord
<1>1. InstWord \subseteq Int /\ 0 \in InstWord
  BY Widths, SMT DEF InstWord, OpUnit
<1>2. \A c \in Cmds : AsmCmd(c) \in InstWord
  BY AsmCmdPacked, CmdsAssumption
<1>3. FileWord \subseteq Int /\ 0 \in FileWord
  BY <1>1 DEF FileWord
<1>4. FileWord \subseteq EntryWord /\ -1 \in EntryWord
  <2>1. -1 \in Int
    BY SMT
  <2> QED
    BY <1>3, <2>1 DEF EntryWord
<1>5. \A c \in Cmds : AsmCmd(c) \in FileWord
  BY <1>1, <1>2 DEF FileWord
<1>6. TestData \subseteq FileWord
  BY TestDataAssumption DEF FileWord
<1> QED
  BY <1>3, <1>4, <1>5, <1>6

\* The invariant holds before anything is assembled.
LEMMA ImageInit ==
  Init => Inv
<1> SUFFICES ASSUME Init PROVE Inv
  OBVIOUS
<1> USE DEF Init
<1>1. ImageTypeOK
  BY Words, HeightAssumption DEF ImageTypeOK, NoFile, Address, Entry
<1>2. LaidOut /\ FileIsMem /\ ImageIsFile
  BY DEF LaidOut, FileIsMem, ImageIsFile
<1>3. MemoryIsFile /\ IssMemIsFile
  BY HeightAssumption DEF MemoryIsFile, IssMemIsFile, Entry, Address
<1> QED
  BY <1>1, <1>2, <1>3 DEF Inv

\* A command is laid out.
LEMMA AssembleStep ==
  ASSUME Inv, NEW c \in Cmds, Assemble(c) PROVE Inv'
<1> USE HeightAssumption DEF Inv, Assemble, NoFile
<1>1. Len(file) = 0 /\ Len(image) = 0 /\ injected = 0 /\ issread = 0
  BY DEF ImageTypeOK
<1>2. /\ listing' \in Seq(Cmds) /\ Len(listing') = Len(listing) + 1
      /\ \A k \in 1 .. Len(listing) : listing'[k] = listing[k]
      /\ listing'[Len(listing) + 1] = c
  BY DEF ImageTypeOK
<1>3. ImageTypeOK'
  BY <1>1, <1>2, Words DEF ImageTypeOK, Address
<1>4. LaidOut'
  <2> SUFFICES ASSUME NEW k \in 1 .. Len(listing) + 1
               PROVE  mem'[k - 1] = AsmCmd(listing'[k])
    BY <1>2 DEF LaidOut
  <2>1. Len(listing) \in Address /\ k - 1 \in Address
    BY <1>2 DEF ImageTypeOK, Address
  <2>2. CASE k = Len(listing) + 1
    BY <2>1, <2>2, <1>2 DEF ImageTypeOK
  <2>3. CASE k # Len(listing) + 1
    <3>1. k \in 1 .. Len(listing) /\ k - 1 # Len(listing)
      BY <2>3, <1>2 DEF ImageTypeOK
    <3> QED
      BY <2>1, <3>1, <1>2 DEF ImageTypeOK, LaidOut
  <2> QED
    BY <2>2, <2>3
<1>5. (FileIsMem /\ ImageIsFile /\ MemoryIsFile /\ IssMemIsFile)'
  BY <1>1 DEF FileIsMem, ImageIsFile, ImageRead, MemoryIsFile, IssMemIsFile
<1> QED
  BY <1>3, <1>4, <1>5

\* A word of test data is stored behind the code.
LEMMA StoreStep ==
  ASSUME Inv, NEW a \in Address, NEW w \in TestData, Store(a, w) PROVE Inv'
<1> USE HeightAssumption DEF Inv, Store, NoFile
<1>1. ImageTypeOK'
  BY Words DEF ImageTypeOK, Address
<1>2. LaidOut'
  BY DEF LaidOut, ImageTypeOK, Address
<1>3. (FileIsMem /\ ImageIsFile /\ MemoryIsFile /\ IssMemIsFile)'
  BY DEF FileIsMem, ImageIsFile, ImageRead, MemoryIsFile, IssMemIsFile
<1> QED
  BY <1>1, <1>2, <1>3

\* The file is written.
LEMMA WriteStep ==
  ASSUME Inv, NEW n \in 1 .. Height, Write(n) PROVE Inv'
<1> USE HeightAssumption DEF Inv, Write, NoFile
<1>1. Len(file) = 0 /\ Len(image) = 0 /\ injected = 0 /\ issread = 0
  BY DEF ImageTypeOK
<1>2. file' \in Seq(FileWord) /\ Len(file') = n /\ \A k \in 1 .. n : file'[k] = mem[k - 1]
  <2>1. \A k \in 1 .. n : mem[k - 1] \in FileWord
    BY DEF ImageTypeOK, Address
  <2> QED
    BY <2>1
<1>3. ImageTypeOK'
  BY <1>1, <1>2 DEF ImageTypeOK
<1>4. LaidOut' /\ FileIsMem'
  BY <1>2 DEF LaidOut, FileIsMem
<1>5. (ImageIsFile /\ MemoryIsFile /\ IssMemIsFile)'
  BY <1>1 DEF ImageIsFile, ImageTypeOK, MemoryIsFile, IssMemIsFile, Entry, Address
<1> QED
  BY <1>3, <1>4, <1>5

\* A word is read into memory_image.
LEMMA ReadWordStep ==
  ASSUME Inv, ReadWord PROVE Inv'
<1> USE HeightAssumption DEF Inv, ReadWord, NoFile
<1>1. Len(image) \in Nat /\ Len(file) \in Nat /\ file[Len(image) + 1] \in FileWord
  BY DEF ImageTypeOK
<1>2. /\ image' \in Seq(FileWord) /\ Len(image') = Len(image) + 1
      /\ \A k \in 1 .. Len(image) : image'[k] = image[k]
      /\ image'[Len(image) + 1] = file[Len(image) + 1]
  BY <1>1 DEF ImageTypeOK
<1>3. injected = 0
  BY <1>1 DEF ImageTypeOK, ImageIsFile, ImageRead
<1>4. ImageTypeOK'
  BY <1>1, <1>2, <1>3 DEF ImageTypeOK
<1>5. ImageIsFile'
  BY <1>1, <1>2, <1>3 DEF ImageIsFile
<1>6. (LaidOut /\ FileIsMem /\ MemoryIsFile /\ IssMemIsFile)'
  BY DEF LaidOut, FileIsMem, MemoryIsFile, IssMemIsFile
<1> QED
  BY <1>4, <1>5, <1>6

\* A word is injected: it replaces the sign its predecessor left, and leaves
\* its own behind it.
LEMMA InjectWordStep ==
  ASSUME Inv, InjectWord PROVE Inv'
<1> USE HeightAssumption DEF Inv, InjectWord, NoFile
<1> DEFINE w == file[injected + 1]
<1>1. /\ injected \in Nat /\ injected < Height
      /\ image[injected + 1] = w /\ w \in FileWord
      /\ {injected, injected + 1} \subseteq Entry
  BY DEF ImageTypeOK, ImageIsFile, Entry
<1>2. \A m \in Memories : /\ data'[m] = Inject(data[m], injected, w)
                          /\ data[m] \in [Entry -> EntryWord]
  BY <1>1 DEF ImageTypeOK
<1>3. \A m \in Memories : data'[m] \in [Entry -> EntryWord]
  <2>1. w \in EntryWord /\ -1 \in EntryWord
    BY <1>1, Words
  <2> HIDE DEF w, Inv, InjectWord
  <2> SUFFICES ASSUME NEW m \in Memories
               PROVE  Inject(data[m], injected, w) \in [Entry -> EntryWord]
    BY <1>2
  <2>2. data[m] \in [Entry -> EntryWord]
    BY <1>2
  <2> QED
    BY <2>1, <2>2 DEF Inject
<1>4. ImageTypeOK'
  BY <1>1, <1>3 DEF ImageTypeOK
<1>5. ImageIsFile'
  BY DEF ImageIsFile, ImageRead
<1>6. MemoryIsFile'
  <2> SUFFICES ASSUME NEW m \in Memories, NEW a \in Entry
               PROVE  data'[m][a] = IF a < injected + 1 THEN file[a + 1]
                                    ELSE IF a = injected + 1 /\ a > 0 /\ file[a] < 0
                                         THEN -1 ELSE 0
    BY DEF MemoryIsFile
  <2>1. data'[m][a] = IF a = injected THEN w
                      ELSE IF a = injected + 1 THEN (IF w < 0 THEN -1 ELSE data[m][a])
                      ELSE data[m][a]
    BY <1>1, <1>2 DEF Inject
  <2>2. data[m][a] = IF a < injected THEN file[a + 1]
                     ELSE IF a = injected /\ a > 0 /\ file[a] < 0 THEN -1 ELSE 0
    BY DEF MemoryIsFile
  <2>3. a \in Nat
    BY DEF Entry
  <2>4. CASE a <= injected
    BY <1>1, <2>1, <2>2, <2>3, <2>4
  <2>5. CASE a > injected
    BY <1>1, <2>1, <2>2, <2>3, <2>5
  <2> QED
    BY <1>1, <2>3, <2>4, <2>5
<1>7. (LaidOut /\ FileIsMem /\ IssMemIsFile)'
  BY DEF LaidOut, FileIsMem, IssMemIsFile
<1> QED
  BY <1>4, <1>5, <1>6, <1>7

\* The simulator reads a word.
LEMMA IssReadWordStep ==
  ASSUME Inv, IssReadWord PROVE Inv'
<1> USE HeightAssumption DEF Inv, IssReadWord, NoFile
<1>1. issread \in Address /\ file[issread + 1] \in FileWord
  BY DEF ImageTypeOK, Address
<1>2. ImageTypeOK'
  BY <1>1 DEF ImageTypeOK, Address
<1>3. IssMemIsFile'
  BY <1>1 DEF ImageTypeOK, IssMemIsFile, Address
<1>4. (LaidOut /\ FileIsMem /\ ImageIsFile /\ MemoryIsFile)'
  BY DEF LaidOut, FileIsMem, ImageIsFile, ImageRead, MemoryIsFile
<1> QED
  BY <1>2, <1>3, <1>4

\* The invariant holds of every behaviour.
THEOREM ImageInv ==
  Spec => []Inv
<1>1. Inv /\ [Next]_vars => Inv'
  <2> SUFFICES ASSUME Inv, [Next]_vars PROVE Inv'
    OBVIOUS
  <2>1. CASE UNCHANGED vars
    BY <2>1 DEF vars, Inv, ImageTypeOK, LaidOut, FileIsMem, ImageIsFile, ImageRead,
       MemoryIsFile, IssMemIsFile
  <2> QED
    BY <2>1, AssembleStep, StoreStep, WriteStep, ReadWordStep, InjectWordStep,
       IssReadWordStep DEF Next
<1> QED
  BY <1>1, ImageInit, PTL DEF Spec

\* Everything loaded has its type; packed commands keep their top bits clear.
THEOREM ImageTypes ==
  Spec => []ImageTypeOK
  BY ImageInv, PTL DEF Inv

\* Both loaders load the same memory, but for the sign behind the last word.
THEOREM ImageLoadersAgree ==
  Spec => []LoadersAgree
<1>1. Inv => LoadersAgree
  <2> SUFFICES ASSUME Inv, Loaded, NEW m \in Memories, NEW a \in Address
               PROVE  data[m][a] = IF a = Len(file) /\ file[a] < 0 THEN -1 ELSE issmem[a]
    BY DEF LoadersAgree
  <2>1. injected = Len(file) /\ issread = Len(file) /\ Len(file) > 0
    BY HeightAssumption DEF Inv, ImageTypeOK, Loaded, ImageRead, NoFile
  <2>2. /\ data[m][a] = IF a < injected THEN file[a + 1]
                        ELSE IF a = injected /\ a > 0 /\ file[a] < 0 THEN -1 ELSE 0
        /\ issmem[a] = IF a < issread THEN file[a + 1] ELSE 0
        /\ a \in Nat
    BY HeightAssumption DEF Inv, MemoryIsFile, IssMemIsFile, Entry, Address
  <2> QED
    BY <2>1, <2>2
<1> QED
  BY <1>1, ImageInv, PTL

\* The machines decode the commands as they were written, whatever numbers
\* they were written with.
THEOREM ImageDecodedAsWritten ==
  Spec => []DecodedAsWritten
<1>1. Inv => DecodedAsWritten
  <2> SUFFICES ASSUME Inv, Loaded, NEW k \in 0 .. Len(listing) - 1
               PROVE  /\ Dec0(issmem[k]) = Meaning(listing[k + 1])
                      /\ \A m \in Memories : Dec0(data[m][k]) = Meaning(listing[k + 1])
    BY DEF DecodedAsWritten
  <2>1. /\ file # NoFile /\ injected = Len(file) /\ issread = Len(file)
        /\ Len(listing) <= Len(file) /\ Len(file) <= Height
        /\ Len(listing) \in Nat /\ Len(file) \in Nat
    BY HeightAssumption DEF Inv, ImageTypeOK, Loaded, ImageRead, FileIsMem
  <2>2. k < Len(file) /\ k \in Address /\ k \in Entry /\ k + 1 \in 1 .. Len(listing)
    BY <2>1, HeightAssumption DEF Address, Entry
  <2>3. file[k + 1] = mem[k] /\ mem[k] = AsmCmd(listing[k + 1])
    BY <2>1, <2>2 DEF Inv, FileIsMem, LaidOut
  <2>4. issmem[k] = mem[k] /\ \A m \in Memories : data[m][k] = mem[k]
    BY <2>1, <2>2, <2>3 DEF Inv, MemoryIsFile, IssMemIsFile
  <2>5. listing[k + 1] \in Cmd
    BY <2>2, CmdsAssumption DEF Inv, ImageTypeOK
  <2> QED
    BY <2>3, <2>4, <2>5, RoundTrip
<1> QED
  BY <1>1, ImageInv, PTL
=============================================================================
