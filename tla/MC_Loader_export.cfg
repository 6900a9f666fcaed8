CONSTANTS
  SectId <- MC_SectId
  ExportKind <- MC_ExportKind
  TypeCode <- MC_TypeCode
  Opcode <- MC_Opcode
  Magic <- MC_Magic
  Version <- MC_Version
  GlobalTypes <- MC_GlobalTypes
  Inputs <- Inputs_Export
  MaxFuncs = 4096
  MaxGlobals = 512
  MaxParams = 16
SPECIFICATION Spec
INVARIANT ExportsInRange
CHECK_DEADLOCK FALSE
