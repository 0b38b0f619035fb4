CONSTANTS
  Half = 16
  Lab = 2
  LinkOffset = 1
  Decode <- MCDecode
  BitAnd <- MCBitAnd
  BitOr <- MCBitOr
  BitXor <- MCBitXor
  ShiftLeft <- MCShiftLeft
  ShiftRight <- MCShiftRight
  Images <- MCImages
  Setup <- LoadedRegs
  Length = 4
  Alphabet = {2, 3, 4, 5, 6, 7, 8, 11, 12, 14, 15, 16, 17, 19, 20, 21, 22, 23}
SPECIFICATION LockSpec
INVARIANTS IssTypeOK SimulatorsAgree
CHECK_DEADLOCK FALSE
