SPECIFICATION Spec
CONSTANTS
  LoopLimit = 4
  Same <- SameValue
  Leaves <- MCLeaves
  Samples <- MCSamples
  Beside <- MCBeside
  Guards <- MCGuards
  Colls <- MCColls
  LoopVar = "i"
  CatchVar = "e"
  Stores <- MCStores
  MaxDepth = 3
  NoLib = ""
  EnumDecls <- MCEnums
  LibRules <- MCLibRules
  TopRules <- MCTopRules
  RunSteps = 6
INVARIANT ProvenTagsAreCovered
CHECK_DEADLOCK FALSE
