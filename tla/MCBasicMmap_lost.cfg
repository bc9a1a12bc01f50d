CONSTANTS
  Files = {f}
  NoFile = NoFile
  FileSize <- SmallSize
  Fds <- TwoFds
  Bases <- TwoBases
  PageSize = 4
  SizeLimit = 32
  Objects = {a}
  Requests <- SmallRequests
  AccessMode = "read"

SPECIFICATION Spec
INVARIANT
  NoHandleLost
