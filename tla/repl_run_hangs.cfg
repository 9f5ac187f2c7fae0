SPECIFICATION FairSpec
CONSTANTS
  File <- MCFile
  Version <- MCVersion
  Text <- MCText
  Broken <- MCBroken
  Node <- MCNode
  Typed <- MCTyped
  Msg <- MCMsg
  Store <- MCStore
  Outcome <- MCOutcome
  Json <- MCJson
  EmptyStore = "empty"
  MaxSteps = 1
  MaxCommands = 4
  MaxEdits = 1
  MaxQueue = 2
PROPERTIES RunReturns
CHECK_DEADLOCK FALSE
