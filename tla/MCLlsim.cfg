CONSTANTS
  Half = 8
  Poison = 42
  Decode <- MCDecode
  BitAnd <- MCBitAnd
  BitOr <- MCBitOr
  BitXor <- MCBitXor
  ShiftLeft <- MCShiftLeft
  ShiftRight <- MCShiftRight
  Mems <- MCMems
  Value = {0, 1}
  ResetValue = 0
  ResetClocks = 5
  ReadAddrs <- MCReadAddrs
  WriteAddrs <- MCWriteAddrs
  Datains <- MCDatains
  Contents <- MCContents
SPECIFICATION FairSpec
INVARIANT LlsimTypeOK
PROPERTIES ClockIsAtomic StopEnds
CHECK_DEADLOCK FALSE
