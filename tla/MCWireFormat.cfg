SPECIFICATION Spec
CONSTANTS
  Alphabet = {65, 127, 128, 143, 144, 159, 160, 191, 192, 193, 194, 223, 224, 225, 236, 237, 238, 239, 240, 241, 243, 244, 245, 255}
  MaxText = 4
  MaxName = 2
  MaxRoute = 9
  MaxTarget = 10
  Names <- MCNames
  Targets <- MCTargets
  SmallBits = 3
  WideBits = 5
  DoubleBits = 3
  FloatBits = 2
  FloatMax = 64
  MaxBytes = 16
  MaxDepth = 2
  Composites <- MCComposites
  Values <- MCValues
  Documents <- MCDocuments
  KeyParts <- MCKeyParts
  MaxEvents = 9
  Cases <- MCCases
  Buffer = 3
  JsonValues <- MCJsonValues
  Catalog <- MCCatalog
  Signatures <- MCSignatures
CHECK_DEADLOCK FALSE
INVARIANTS
  Utf8Exact
  PathExact
  PutExact
  WriteExact
  ParseExact
  OperationExact
