SPECIFICATION Spec
CONSTANTS
  Segment <- MCSegment
  Name = {"r", "q"}
  TopLib = ""
  Main <- MCMain
  BaseDir <- MCBase
  Here = "here"
  Cwd <- MCCwd
  Samples <- MCSamples
  Dirs <- MCDirs
  Worlds <- MCCircles
  Broken = broken
  Evol <- MCEvol
  PyModule <- MCPyModule
  Banned = {"eval", "open"}
  PathMax = 15
  MaxDepth = 13
INVARIANT CirclesClose
CHECK_DEADLOCK FALSE
