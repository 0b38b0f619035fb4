CONSTANTS
  Half = 64
  Poison = 2989
  ResetClocks = 5
  Src = 24
  Dst = 25
  Count = 4
  Pattern <- MCPattern
  Listing <- MCDmaOverlapTest
  BitAnd <- MCBitAnd
  BitOr <- MCBitOr
  BitXor <- MCBitXor
  ShiftLeft <- MCShiftLeft
  ShiftRight <- MCShiftRight
SPECIFICATION Spec
INVARIANT PassMeansCopied
CHECK_DEADLOCK FALSE
