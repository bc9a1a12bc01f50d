\* Files of up to 11 bytes, the fewest for which offset leaves the last chunk a negative
\* length while a chunk before it has rows left; 1 to 4 cores, files below and above
\* SmallFile.
CONSTANTS
  Names = {a, b}
  Absent = Absent
  Temps <- SmallTemps
  Files <- SmallFileSet
  MinSize = 0
  MaxSize = 11
  MaxCores = 4
  SmallFile = 9

SPECIFICATION Spec
INVARIANTS
  ChunksFollow
  LastChunkComplete
  QueueHasRoom
  PrintsAllButLostRows
  NoPartialAnswer
PROPERTIES
  EndsUnlessProcessFails

\* The process ends, or waits for an answer that never comes.
CHECK_DEADLOCK FALSE
