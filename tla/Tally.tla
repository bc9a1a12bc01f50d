-------------------------------- MODULE Tally -------------------------------
(***************************************************************************)
(* What the answer to the challenge is: each station's minimum, maximum,   *)
(* sum and count over a set of rows.  It is the reference that the         *)
(* programs' add and merge methods, threads and chunks are compared with.  *)
(***************************************************************************)
EXTENDS Measurements, FiniteSetsExt

(***************************************************************************)
(* The statistics of the set R of rows of file f.                          *)
(***************************************************************************)
Summary(f, R) ==
  LET temps == {f.row[p].temp : p \in R}
  IN  [min   |-> Min(temps),
       max   |-> Max(temps),
       sum   |-> MapThenSumSet(LAMBDA p : f.row[p].temp, R),
       count |-> Cardinality(R)]

RowsOf(f, R, name) == {p \in R : f.row[p].name = name}

Tally(f, R) ==
  [n \in Names |-> IF RowsOf(f, R, n) = {} THEN Absent ELSE Summary(f, RowsOf(f, R, n))]
=============================================================================
