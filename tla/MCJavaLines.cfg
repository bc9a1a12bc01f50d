\* A buffer of nine bytes: a name of three letters and the longest temperature.
CONSTANTS
  LineLists <- SmallLineLists
  BUFFER_SIZE = 9

SPECIFICATION RunSpec
INVARIANT
  AddsRowsOfLines

\* A run ends.
CHECK_DEADLOCK FALSE
