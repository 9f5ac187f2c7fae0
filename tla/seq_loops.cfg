SPECIFICATION FairSpec
CONSTANTS
  Msg <- MCMsg
  Store = {0, 1}
  EmptyStore = 0
  Lib <- MCLib
  NoLib = ""
  Name <- MCName
  Table <- MCTable
  Bootstrap <- MCBootstrap
  Outcome <- MCOutcome
  Bind <- MCBind
  MaxSteps = 12
INVARIANTS TypeOK TakenInOrder SpawnIsInert
PROPERTIES Halts ImplementsDelta
