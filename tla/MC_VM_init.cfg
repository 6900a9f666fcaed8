\* rune_vm_init failing before _init runs: an unregistered import, the
\* memory limit, and a data segment past the initial pages.
CONSTANTS
  W = 4
  StackSize = 3
  NumRegs = 3
  MaxParams = 2
  PageSize = 2
  MemLimits = {2, 4}
  FuelLimits = {0, 12}
  ImportName <- MC_ImportName
  RegCount <- MC_RegCount
  Code <- MC_Code
  Exports <- MC_ExportsInit
  HasMemory = TRUE
  MemInitial = 1
  MemMaxDecl = 2
  DataSegs <- MC_BadSegs
  GlobalInit <- MC_GlobalInit
  HostFns <- MC_HostFns
  CallNames = {"add", "loop", "nest", "mem", "glob", "rec", "misc", "bad", "nope"}
  ArgVecs <- MC_ArgVecs
  Budgets = {12}
  MaxApiCalls = 4
  MaxSteps = 14
  ZeroTag = ZeroTag
  NoRet = NoRet
SPECIFICATION Spec
INVARIANT InitFailureLeavesUninitialized
CHECK_DEADLOCK FALSE
