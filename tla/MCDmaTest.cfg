CONSTANTS
  Half = 64
  Poison = 2989
  ResetClocks = 5
  Src = 24
  Dst = 28
  Count = 4
  Pattern <- MCPattern
  Listing <- MCDmaTest
  BitAnd <- MCBitAnd
  BitOr <- MCBitOr
  BitXor <- MCBitXor
  ShiftLeft <- MCShiftLeft
  ShiftRight <- MCShiftRight
SPECIFICATION Spec
INVARIANT CopyCompleteAtHalt
CHECK_DEADLOCK FALSE
