CONSTANTS
  RowLists <- SmallRowLists
  PageSize = 4

SPECIFICATION ThreadSpec
INVARIANT
  LeavesMappingOnlyIfCut
PROPERTY
  AddsRowsWritten

\* A thread ends.
CHECK_DEADLOCK FALSE
