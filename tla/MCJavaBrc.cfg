\* Files of up to 10 bytes, the fewest that make three full chunks, 1 to 3 cores,
\* files below and above SmallFile, rows that do not fit into the buffer, and
\* chunks too long to be mapped.
CONSTANTS
  Names = {a, b}
  Absent = Absent
  Temps <- SmallTemps
  Files <- SmallFileSet
  MinSize = 0
  MaxSize = 10
  MaxCores = 3
  SmallFile = 4
  MaxMap = 9
  BufferSize = 4

SPECIFICATION Spec
INVARIANTS
  ChunksFollow
  OneThreadPerCore
  PrintsAllButLostRows
PROPERTIES
  Terminates

\* The process ends.
CHECK_DEADLOCK FALSE
