SPECIFICATION Spec
CONSTANTS
  w1 = w1
  w2 = w2
  w3 = w3
  main = main
  nobody = nobody
  Workers <- MCWorkers
  Main <- main
  Nobody <- nobody
  Msg <- MCMsg
  Store = {0, 1}
  EmptyStore = 0
  Lib <- MCLib
  NoLib = ""
  Name <- MCName
  Table <- PayloadTable
  Bootstrap <- PayloadBootstrap
  Outcome <- PayloadOutcome
  Aid <- PayloadAid
INVARIANTS SameAsSequential
