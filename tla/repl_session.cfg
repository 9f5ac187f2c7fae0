SPECIFICATION FairSpec
CONSTANTS
  File <- MCFile
  Version <- MCVersion
  Text <- MCText
  Broken <- MCBroken
  Node <- MCNode
  Typed <- MCTyped
  Msg <- MCMsg
  Store <- MCStore
  Outcome <- MCOutcome
  Json <- MCJson
  EmptyStore = "empty"
  MaxSteps = 3
  MaxCommands = 5
  MaxEdits = 2
  MaxQueue = 2
INVARIANTS IdsAreFresh TypedRulesStay FileRulesAreCurrent
PROPERTIES RunReturnsWithinLimit
CHECK_DEADLOCK FALSE
