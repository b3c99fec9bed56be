SPECIFICATION PayloadsSpec
CONSTANTS
  a = a
  b = b
  KeyOrder <- MCKeyOrder
  NoKey = NoKey
  MaxElements = 2
  MaxNodes = 3
  MaxDepth = 3
  Loggers = {l1}
  Null = Null
  Noop = Noop
  Scopes <- MCOwners
  Resources <- MCOwners
  Contexts <- MCContexts
  None = None
  MaxAttributes = 2
  MaxExported = 2
  Records <- MCRecords
  Pools <- MCPools
  MaxQueue = 3
  t1 = t1
  t2 = t2
  t3 = t3
  x = x
  Tokens <- MCTokens
  OtherKeys <- MCOtherKeys
  MaxItems = 2
  MaxBytes = 11
  Blank = Blank
  NoEquals = NoEquals
  MaxState = 512
  MaxMembers = 2
  Absent = Absent
  Members <- MCMembers
  MaxHeader = 4
  Traceparents <- MCTraceparents
  States <- MCStates
  MaxCreated = 530
SYMMETRY PayloadsSymmetry
ACTION_CONSTRAINT SmallBatches
INVARIANTS
  AcceptedIffForest
  ConvertedFaithfully
  ExportRoundTrip
  WithinLimits
  HopKeepsWhatItCarries
