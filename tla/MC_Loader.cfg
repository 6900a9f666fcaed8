CONSTANTS
  SectId <- MC_SectId
  ExportKind <- MC_ExportKind
  TypeCode <- MC_TypeCode
  Opcode <- MC_Opcode
  Magic <- MC_Magic
  Version <- MC_Version
  GlobalTypes <- MC_GlobalTypes
  Inputs <- MC_Inputs
  MaxFuncs = 4096
  MaxGlobals = 512
  MaxParams = 16
SPECIFICATION Spec
INVARIANT TypeOK
INVARIANT RoundTrip
INVARIANT TruncationDetected
INVARIANT CorruptionDetected
INVARIANT PatchedJumpsLand
CHECK_DEADLOCK FALSE
