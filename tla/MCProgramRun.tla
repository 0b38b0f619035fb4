---------------------------- MODULE MCProgramRun ----------------------------
(***************************************************************************)
(* The programs of lab 1 for TLC, on words of 14 bits.                     *)
(***************************************************************************)
EXTENDS ProgramRun, Bitwise

MCBitAnd(a, b) == a & b
MCBitOr(a, b) == a | b
MCBitXor(a, b) == a ^^ b
MCShiftLeft(a, b) == (a * 2^(b % 14)) % WordMod
MCShiftRight(a, b) == a \div 2^(b % 14)

MCAddAsm == AddAsm(Data)
MCSqrtqAsm == SqrtqAsm(Data)

\* Both zeros, small numbers, and numbers whose sums just fit or do not.
Magnitudes == {0, 1, 46, 4096, 8190, 8191}
Numbers == Magnitudes \cup { m + 8192 : m \in Magnitudes }
Pairs == { <<a, b>> : a \in Numbers, b \in Numbers }

Radicands == { <<n>> : n \in 0 .. 5 }
=============================================================================
