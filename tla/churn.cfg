SPECIFICATION FairSpec
CONSTANTS
  w1 = w1
  w2 = w2
  w3 = w3
  main = main
  nobody = nobody
  Workers <- MCThreeWorkers
  Main <- main
  Nobody <- nobody
  Msg <- MCMsg
  Store = {0, 1}
  EmptyStore = 0
  Lib <- MCLib
  NoLib = ""
  Name <- MCName
  Table <- ChurnTable
  Bootstrap <- ChurnBootstrap
  Outcome <- ChurnOutcome
  Aid <- ChurnAid
INVARIANTS InflightExact MailboxCovered FailureIsNeverCompletion
PROPERTIES ReturnsUnlessABodyRaised ImplementsActors
CHECK_DEADLOCK FALSE
