CONSTANTS
  Half = 128
  Data = 60
  Listing <- MCAddAsm
  Inputs <- Pairs
  BitAnd <- MCBitAnd
  BitOr <- MCBitOr
  BitXor <- MCBitXor
  ShiftLeft <- MCShiftLeft
  ShiftRight <- MCShiftRight
SPECIFICATION FairSpec
INVARIANTS AddCorrect StaysInListing
PROPERTY Halts
CHECK_DEADLOCK FALSE
