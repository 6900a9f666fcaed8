\* The guest module driven by every sequence of up to MaxApiCalls embedder
\* operations, starting with a fuel limit (the other VM runs also start without).
CONSTANTS
  W = 4
  StackSize = 3
  NumRegs = 3
  MaxParams = 2
  PageSize = 2
  MemLimits = {2, 4}
  FuelLimits = {12}
  ImportName <- MC_ImportName
  RegCount <- MC_RegCount
  Code <- MC_Code
  Exports <- MC_ExportsInit
  HasMemory = TRUE
  MemInitial = 1
  MemMaxDecl = 2
  DataSegs <- MC_DataSegs
  GlobalInit <- MC_GlobalInit
  HostFns <- MC_HostFns
  CallNames = {"add", "loop", "nest", "mem", "glob", "rec", "misc", "bad", "bits", "nope"}
  ArgVecs <- MC_DivArgVecs
  Budgets = {12}
  MaxApiCalls = 4
  MaxSteps = 14
  ZeroTag = ZeroTag
  NoRet = NoRet
SPECIFICATION Spec
INVARIANT TypeOK FrameBound FuelBound PagesWithinAllocation
PROPERTY CallerFramesPreserved ApiRefinement
CHECK_DEADLOCK FALSE
