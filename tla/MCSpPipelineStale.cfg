CONSTANTS
  Half = 16
  Poison = 186
  ResetClocks = 5
  Decode <- MCDecode
  BitAnd <- MCBitAnd
  BitOr <- MCBitOr
  BitXor <- MCBitXor
  ShiftLeft <- MCShiftLeft
  ShiftRight <- MCShiftRight
  Images <- MCImages
  Setup <- NoSetup
  Length = 4
  Alphabet = {1, 2, 3, 5, 6, 10}
SPECIFICATION Spec
INVARIANT OperandsFresh
CHECK_DEADLOCK FALSE
