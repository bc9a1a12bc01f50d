\* Files of up to 10 bytes, the fewest that make three full chunks, and pages
\* of 6: every distance from the end of the file to the end of its page, 0 to 3
\* cores, files below and above SmallFile.
CONSTANTS
  Names = {a, b}
  Absent = Absent
  Temps <- SmallTemps
  Files <- SmallFileSet
  MinSize = 1
  MaxSize = 10
  MaxCores = 3
  SmallFile = 4
  PageSize = 6

SPECIFICATION Spec
INVARIANTS
  TypeOK
  ChunksTile
  OneThreadPerCore
  NoSizeWrap
  UndefinedOnlyAtPageEdge
  NoThreadOutlivesMapping
PROPERTY
  ImplementsBrc

\* The process ends.
CHECK_DEADLOCK FALSE
