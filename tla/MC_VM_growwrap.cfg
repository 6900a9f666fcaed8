\* MEM_GROW with a request of -1 pages.
CONSTANTS
  W = 4
  StackSize = 3
  NumRegs = 3
  MaxParams = 2
  PageSize = 2
  MemLimits = {4}
  FuelLimits = {0, 12}
  ImportName <- MC_ImportName
  RegCount <- MC_RegCount
  Code <- MC_Code
  Exports <- MC_ExportsInit
  HasMemory = TRUE
  MemInitial = 1
  MemMaxDecl = 2
  DataSegs <- MC_DataSegs
  GlobalInit <- MC_GlobalInit
  HostFns <- MC_HostFns
  CallNames = {"add", "loop", "nest", "mem", "glob", "rec", "misc", "bad", "nope"}
  ArgVecs <- MC_ArgVecs
  Budgets = {12}
  MaxApiCalls = 4
  MaxSteps = 14
  ZeroTag = ZeroTag
  NoRet = NoRet
SPECIFICATION Spec
INVARIANT MemorySafe
CHECK_DEADLOCK FALSE
