SPECIFICATION FairSpec
CONSTANTS
  Workers = {w1, w2}
  Main = main
  Nobody = nobody
  Msg = {"start", "go", "done"}
  Store = {0}
  EmptyStore = 0
  Lib = {""}
  NoLib = ""
  Name = {"worker", "boss"}
  Copies = 2
  Gos = 2
  Table <- FanTable
  Bootstrap <- FanBootstrap
  Outcome <- FanOutcome
  Aid = {0, 1, 2, 3, 4}
INVARIANTS TypeOK GetNeverBlocks DoneMeansQuiet FanAnswers
PROPERTIES DoneIsFinal Returns
