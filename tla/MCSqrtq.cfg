CONSTANTS
  Half = 128
  Data = 60
  Listing <- MCSqrtqAsm
  Inputs <- Radicands
  BitAnd <- MCBitAnd
  BitOr <- MCBitOr
  BitXor <- MCBitXor
  ShiftLeft <- MCShiftLeft
  ShiftRight <- MCShiftRight
SPECIFICATION FairSpec
PROPERTY SafetyCounterWorks
CHECK_DEADLOCK FALSE
