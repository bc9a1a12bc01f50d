\* Files of up to 10 bytes: rows that fit into the buffer and rows that do not,
\* files that fill their pages and files that do not.
CONSTANTS
  Names = {a, b}
  Absent = Absent
  Temps <- SmallTemps
  Files <- SmallFileSet
  MinSize = 0
  MaxSize = 10
  PageSize = 5
  BUFFER_LENGTH = 4

SPECIFICATION Spec
INVARIANTS
  BufferIsRow
  GivesUpOnlyFor
PROPERTY
  ImplementsBrc

\* The process ends.
CHECK_DEADLOCK FALSE
