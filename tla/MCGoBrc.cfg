\* Batches of 2 lines and a channel that holds one of them.  Six rows fill three
\* batches: the reader waits for room in the channel, batches come back from the
\* pool, and the last batch is empty or half filled.
CONSTANTS
  Names = {a, b}
  Absent = Absent
  Temps <- SmallTemps
  Files <- GoFiles
  MinSize = 0
  MaxSize = 13
  BatchSize = 2
  ChannelSize = 1

SPECIFICATION Spec
INVARIANTS
  OneOwner
  NoStaleLines
PROPERTY
  ImplementsBrc

\* The process ends.
CHECK_DEADLOCK FALSE
