-------------------------------- MODULE Brc ---------------------------------
(***************************************************************************)
(* What every implementation promises, whatever its threads, chunks and    *)
(* buffers: the rows of the file are accounted for one by one or many at a *)
(* time, none twice, and the answer is printed when all of them are, with  *)
(* each station's minimum, maximum, sum and count over all of its rows.  A *)
(* program may give up without printing anything.                          *)
(***************************************************************************)
EXTENDS Tally

VARIABLES
  file,       \* the file named on the command line
  absorbed,   \* the rows accounted for
  answer,     \* from the stations to their statistics
  status      \* "running", "printed" or "aborted"

vars == <<file, absorbed, answer, status>>

Init ==
  /\ file \in Files
  /\ absorbed = {}
  /\ answer = Tally(file, {})
  /\ status = "running"

Absorb(R) ==
  /\ status = "running"
  /\ absorbed' = absorbed \cup R
  /\ answer' = Tally(file, absorbed')
  /\ UNCHANGED <<file, status>>

PrintAnswer ==
  /\ status = "running"
  /\ absorbed = Rows(file)
  /\ status' = "printed"
  /\ UNCHANGED <<file, absorbed, answer>>

Abort ==
  /\ status = "running"
  /\ status' = "aborted"
  /\ UNCHANGED <<file, absorbed, answer>>

Next ==
  \/ \E R \in SUBSET (Rows(file) \ absorbed) : Absorb(R)
  \/ PrintAnswer
  \/ Abort

Spec == Init /\ [][Next]_vars /\ <>(status # "running")
=============================================================================
