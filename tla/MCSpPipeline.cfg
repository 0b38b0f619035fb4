CONSTANTS
  Half = 16
  Poison = 186
  ResetClocks = 5
  Decode <- MCDecode
  BitAnd <- MCBitAnd
  BitOr <- MCBitOr
  BitXor <- MCBitXor
  ShiftLeft <- MCShiftLeft
  ShiftRight <- MCShiftRight
  Images <- MCImages
  Setup <- LoadedRegs
  Length = 3
  Alphabet = {1, 2, 3, 4, 5, 6, 7, 8, 9, 10, 13, 14, 15, 17, 18, 19}
SPECIFICATION FairSpec
INVARIANTS TypeOK InOrder WrongPathSquashed LoadDataValid LoadUseSeparated SafeOperandsFresh CutShortForAReason
PROPERTIES StallsOneClock ImplementsArch ImplementsIss KeepsExecuting HaltEnds
CHECK_DEADLOCK FALSE
