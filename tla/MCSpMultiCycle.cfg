CONSTANTS
  Half = 16
  Poison = 186
  ResetClocks = 5
  BitAnd <- MCBitAnd
  BitOr <- MCBitOr
  BitXor <- MCBitXor
  ShiftLeft <- MCShiftLeft
  ShiftRight <- MCShiftRight
  Images <- MCImages
  Decode <- MCDecode
  Setup <- LoadedRegs
  Length = 3
  Alphabet = {2, 3, 4, 5, 6, 7, 8, 9, 10, 11, 13, 15, 16, 17, 20}
SPECIFICATION FairSpec
INVARIANTS TypeOK LatchesHold CutShortForAReason
PROPERTIES KeepsExecuting HaltEnds ImplementsIss
CHECK_DEADLOCK FALSE
