\* Files of up to 13 bytes: three full parts whose scans step over a byte each.
\* Pages of 10, 1 to 3 cores, files below and above MinFileSize, parts too long
\* for an int, one station with a short name.
CONSTANTS
  Names = {a, b}
  Absent = Absent
  Temps <- SmallTemps
  Files <- CSharpFiles
  MinSize = 0
  MaxSize = 13
  MaxCores = 3
  MinFileSize = 4
  PageSize = 10
  MaxLength = 12
  ShortNames = {b}

SPECIFICATION Spec
INVARIANT MinimumIsMeasured

\* The process ends.
CHECK_DEADLOCK FALSE
