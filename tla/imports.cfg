SPECIFICATION Spec
CONSTANTS
  Segment <- MCSegment
  Name = {"r", "q"}
  TopLib = ""
  Main <- MCMain
  BaseDir <- MCBase
  Here = "here"
  Cwd <- MCCwd
  Samples <- MCSamples
  Dirs <- MCDirs
  Worlds <- MCAllWorlds
  Broken = broken
  Evol <- MCEvol
  PyModule <- MCPyModule
  Banned = {"eval", "open"}
  PathMax = 15
  MaxDepth = 13
INVARIANTS
  TypeOK
  ClosedUnderImports
  TopRulesAreOfMain
  PlainCirclesClose
PROPERTIES
  SlotsAreKept
CHECK_DEADLOCK FALSE
