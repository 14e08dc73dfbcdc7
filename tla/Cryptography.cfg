SPECIFICATION MCSpec
CONSTANTS
  BlsR = 3
  BlsQ12 = 7
  BnR = 2
  BnQ = 3
  BnQ12 = 5
  MemoryLimit = 5
  U64s = {2}
  ByteStrings <- MCByteStrings
  MaxElements = 2
  Names = {var1, var2}
  Order = 5
  HighBit = 8
  U8 = 2
  U64 = 3
  U128 = 5
  Unset = Unset
  WrongLength = WrongLength
  NumPointsLimit = 2
  NotAPoint = NotAPoint
  Aborted = Aborted
  MaxTerms = 2
  Widths = {8, 64, 72}
  Ranges = {8, 10, 64}
  Tags <- MCTags
  Bases = {B, H}
  MaxBatch = 3
  None = None
  Garbage = Garbage
  Signers = {signer1, signer2}
  Messages = {m1}
  MaxKeys = 2
  MaxSignatures = 2
  Missing = Missing
  Malformed = Malformed
  MaxSubKeys = 2
  MaxSubSigs = 2
  BitmapBits = 3
  Absent = Absent
  var1 = var1
  var2 = var2
  signer1 = signer1
  signer2 = signer2
  m1 = m1
  B = B
  H = H
INVARIANTS
  AlgebraIsLawful
  RangesAreProved
  AggregatesMeanEveryone
  EdKeysAreSound
PROPERTIES
  PointsAndScalarsAreValues
CHECK_DEADLOCK FALSE
