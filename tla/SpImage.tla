------------------------------ MODULE SpImage ------------------------------
(***************************************************************************)
(* The way of a program into memory.  An assembler program lays out its    *)
(* commands and its test data and writes the first words as a file.  Two   *)
(* loaders, run independently, read that file: sp_init of lab2 and lab3_A, *)
(* which reads it into memory_image and then injects the image word by     *)
(* word into the llsim memories, and main of the instruction-set           *)
(* simulators, which reads it into mem[] directly.                         *)
(*                                                                         *)
(* llsim_mem_inject rewrites eight bytes to change four.  The mask it cuts *)
(* the word with is an int, so a negative word is carried, by its sign,    *)
(* into the four bytes of the next entry.  An llsim memory has one spare   *)
(* entry behind its height.                                                *)
(*                                                                         *)
(* Abstracted: the text of the file, one hexadecimal word a line.          *)
(***************************************************************************)
EXTENDS SpEncoding, Sequences

CONSTANTS
  Height,       \* 2^16: SP_SRAM_HEIGHT and MEM_SIZE
  Memories,     \* {sram} in lab2, {srami, sramd} in lab3_A
  Cmds,         \* the commands of the assembler programs
  TestData      \* the words they store beside them

ASSUME HeightAssumption == Height \in Nat \ {0}
ASSUME CmdsAssumption == Cmds \subseteq Cmd
ASSUME TestDataAssumption == TestData \subseteq Int

VARIABLES
  listing,      \* the commands assembled so far; Len(listing) is pc
  mem,          \* mem[] of the assembler program
  file,         \* the file, NoFile before it is written
  image,        \* the words read into memory_image
  injected,     \* how many of them are injected
  data,         \* the llsim memories
  issmem, issread   \* mem[] of the simulator, and how many words it has read

vars == <<listing, mem, file, image, injected, data, issmem, issread>>

Address == 0 .. Height - 1
Entry == 0 .. Height
NoFile == <<>>
FileWord == {w \in Int : w \in InstWord \/ w \in TestData}
EntryWord == {w \in Int : w \in FileWord \/ w = -1}

Init ==
  /\ listing = <<>>
  /\ mem = [a \in Address |-> 0]
  /\ file = NoFile
  /\ image = <<>> /\ injected = 0
  /\ data = [m \in Memories |-> [a \in Entry |-> 0]]
  /\ issmem = [a \in Address |-> 0] /\ issread = 0

-----------------------------------------------------------------------------
\* asm_cmd: mem[pc++] = inst.
Assemble(c) ==
  /\ file = NoFile /\ Len(listing) < Height
  /\ listing' = Append(listing, c)
  /\ mem' = [mem EXCEPT ![Len(listing)] = AsmCmd(c)]
  /\ UNCHANGED <<file, image, injected, data, issmem, issread>>

\* The test data goes where no code is.
Store(a, w) ==
  /\ file = NoFile /\ a >= Len(listing)
  /\ mem' = [mem EXCEPT ![a] = w]
  /\ UNCHANGED <<listing, file, image, injected, data, issmem, issread>>

\* Every program writes at least its code, up to an address of its own.
Write(n) ==
  /\ file = NoFile /\ n >= Len(listing)
  /\ file' = [k \in 1 .. n |-> mem[k - 1]]
  /\ UNCHANGED <<listing, mem, image, injected, data, issmem, issread>>

-----------------------------------------------------------------------------
(***************************************************************************)
(* sp_generate_sram_memory_image.                                          *)
(***************************************************************************)
ReadWord ==
  /\ Len(image) < Len(file) /\ Len(image) < Height
  /\ image' = Append(image, file[Len(image) + 1])
  /\ UNCHANGED <<listing, mem, file, injected, data, issmem, issread>>

\* The reading loop ends with the file, or with the memory.
ImageRead == file # NoFile /\ (Len(image) = Len(file) \/ Len(image) = Height)

\* A slip: the next entry keeps the sign of what is injected before it.
InjectOring(words, a, w) ==
  [words EXCEPT ![a] = IF @ < 0 THEN @ ELSE w, ![a + 1] = IF w < 0 THEN -1 ELSE @]

Inject(words, a, w) ==
  [words EXCEPT ![a] = w, ![a + 1] = IF w < 0 THEN -1 ELSE @]

InjectWord ==
  /\ ImageRead /\ injected < Len(image)
  /\ data' = [m \in Memories |-> Inject(data[m], injected, image[injected + 1])]
  /\ injected' = injected + 1
  /\ UNCHANGED <<listing, mem, file, image, issmem, issread>>

\* The loop of iss.c: i < MEM_SIZE && fgets(...).
IssReadWord ==
  /\ issread < Height /\ issread < Len(file)
  /\ issmem' = [issmem EXCEPT ![issread] = file[issread + 1]]
  /\ issread' = issread + 1
  /\ UNCHANGED <<listing, mem, file, image, injected, data>>

Next ==
  \/ \E c \in Cmds : Assemble(c)
  \/ \E a \in Address, w \in TestData : Store(a, w)
  \/ \E n \in 1 .. Height : Write(n)
  \/ ReadWord \/ InjectWord
  \/ IssReadWord

Spec == Init /\ [][Next]_vars

-----------------------------------------------------------------------------
(***************************************************************************)
(* Types.  What asm_cmd packs keeps bits 31 and 30 clear, whatever its     *)
(* arguments; the carried sign shows up in the llsim memories only.        *)
(***************************************************************************)
ImageTypeOK ==
  /\ listing \in Seq(Cmds) /\ Len(listing) <= Height
  /\ mem \in [Address -> FileWord]
  /\ file \in Seq(FileWord) /\ Len(file) <= Height
  /\ image \in Seq(FileWord) /\ Len(image) <= Len(file)
  /\ injected \in 0 .. Len(image)
  /\ data \in [Memories -> [Entry -> EntryWord]]
  /\ issmem \in [Address -> FileWord] /\ issread \in 0 .. Len(file)

Loaded == ImageRead /\ injected = Len(image) /\ issread = Len(file)

(***************************************************************************)
(* Both loaders load the same memory, in spite of the carried sign: each   *)
(* word injected replaces what its predecessor left there.  Only the last  *)
(* has no successor.  Behind a file that ends in a negative word, lab2 and *)
(* lab3_A find all ones where the simulators find 0.                       *)
(***************************************************************************)
LoadersAgree ==
  Loaded =>
     \A m \in Memories, a \in Address :
        data[m][a] = IF a = Len(file) /\ file[a] < 0 THEN -1 ELSE issmem[a]

(***************************************************************************)
(* The machines decode what the program's author wrote: through packing,   *)
(* file, either loader and DEC0, command k is the instruction at address   *)
(* k, with its numbers cut to their fields and none spilled into another.  *)
(***************************************************************************)
DecodedAsWritten ==
  Loaded =>
     \A k \in 0 .. Len(listing) - 1 :
        /\ Dec0(issmem[k]) = Meaning(listing[k + 1])
        /\ \A m \in Memories : Dec0(data[m][k]) = Meaning(listing[k + 1])
=============================================================================
