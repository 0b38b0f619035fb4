CONSTANTS
  Half = 16
  Poison = 186
  ResetClocks = 5
  Decode <- MCDecode
  BitAnd <- MCBitAnd
  BitOr <- MCBitOr
  BitXor <- MCBitXor
  ShiftLeft <- MCShiftLeft
  ShiftRight <- MCShiftRight
  Images <- MCImages
  Setup <- NoSetup
  Length = 3
  Alphabet = {1, 6, 11, 12, 13}
SPECIFICATION Spec
INVARIANT Exec1ForwardsAluAndLd
CHECK_DEADLOCK FALSE
