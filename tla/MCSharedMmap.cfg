CONSTANTS
  Files = {f}
  NoFile = NoFile
  FileSize <- SmallSize
  Fds <- TwoFds
  Bases <- ThreeBases
  PageSize = 4
  SizeLimit = 32
  Objects = {a, b, x, y}
  Heap = {x, y}
  Shared = {t, u}
  NoImpl = NoImpl
  Requests <- SmallRequests
  AccessMode = "write"

SPECIFICATION SharedSpec
SYMMETRY Interchangeable
CONSTRAINT Bounds
INVARIANTS
  SharedTypeOK
  MappingsOwned
  HandlesOwned
  OrdersObjects
PROPERTIES
  FailedCallKeepsMappings
  DestructionSyncs
  SharersKeepView
  ImplementsMappedViews
