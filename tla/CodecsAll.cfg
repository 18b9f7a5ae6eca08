SPECIFICATION Spec
CONSTANTS
  Block = 4
  Mod = 32
  Sizes <- MCSizes
  MaxCap = 12
  B = 8
  Words = 128
  LenSize = 2
  Pieces <- MCPieces
  Bytes <- MCBytes
  Fields <- MCFields
  Names <- MCNames
  MaxMsg = 40
  MaxBytes = 4
  MaxFields = 3
  MaxPath = 7
INVARIANTS BufKeeps DigestPadding RoundTrip PathKept
CHECK_DEADLOCK FALSE
