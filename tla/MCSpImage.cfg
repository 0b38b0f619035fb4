CONSTANTS
  Height = 4
  Memories = {srami, sramd}
  Cmds <- MCCmds
  TestData <- MCTestData
SPECIFICATION Spec
INVARIANTS ImageTypeOK LoadersAgree DecodedAsWritten
CHECK_DEADLOCK FALSE
