\* The loader's and the assembler's CRC against the polynomial reference
\* and the published check value, and single-bit error detection.
CONSTANT Msgs <- MC_Msgs
SPECIFICATION Spec
INVARIANT TypeOK CrcMatchesReference SingleBitDetected
CHECK_DEADLOCK FALSE
