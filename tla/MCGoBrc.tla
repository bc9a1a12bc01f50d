------------------------------ MODULE MCGoBrc -------------------------------
(***************************************************************************)
(* The Go program on files whose rows are two bytes long: it does not look *)
(* at the length of rows.                                                  *)
(***************************************************************************)
EXTENDS GoBrc, SmallFiles

EvenLayouts ==
  {f \in Layouts : f.newlines = {p \in 0 .. f.size - 1 : p % 2 = 1}}

GoFiles == FilesOf(EvenLayouts)
=============================================================================
