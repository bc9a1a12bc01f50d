----------------------------- MODULE SmallFiles ------------------------------
(***************************************************************************)
(* Small files for the model checker: every layout of MinSize to MaxSize   *)
(* bytes without blank lines, with and without a last newline, every       *)
(* assignment of stations to its rows up to a renaming of the first row's, *)
(* and temperatures that differ between rows and are positive, negative    *)
(* and zero.                                                               *)
(***************************************************************************)
EXTENDS Measurements, FiniteSetsExt

CONSTANTS MinSize, MaxSize

TempAt(p) == IF p % 2 = 0 THEN p - 4 ELSE 4 - p

SmallTemps == {TempAt(p) : p \in 0 .. MaxSize}

Layouts ==
  {f \in [size : MinSize .. MaxSize, newlines : SUBSET (0 .. MaxSize - 1)] :
     /\ f.newlines \subseteq 0 .. f.size - 1
     /\ \A p \in f.newlines : ~ IsRowStart(f, p)}

Namings(f) ==
  {names \in [Rows(f) -> Names] :
     Rows(f) # {} => names[Min(Rows(f))] = CHOOSE n \in Names : TRUE}

Fill(f, names) ==
  [size |-> f.size, newlines |-> f.newlines,
   row |-> [p \in Rows(f) |-> [name |-> names[p], temp |-> TempAt(p)]]]

FilesOf(layouts) == UNION {{Fill(f, names) : names \in Namings(f)} : f \in layouts}

SmallFileSet == FilesOf(Layouts)
=============================================================================
