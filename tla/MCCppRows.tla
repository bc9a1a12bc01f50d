------------------------------ MODULE MCCppRows ------------------------------
(***************************************************************************)
(* Every temperature of the data set in a file of one row, and files of up *)
(* to three rows with names of one and two letters and temperatures of     *)
(* each shape.                                                             *)
(***************************************************************************)
EXTENDS CppRows

A == <<17>>
AB == <<17, 18>>

OfShape == {-999, -105, -1, 0, 34, 120}

FewRows == [name : {A, AB}, tenths : {-105, 0, 120}]

SmallRowLists ==
  {<<[name |-> AB, tenths |-> t]>> : t \in -999 .. 999}
    \cup {<<[name |-> n, tenths |-> t], [name |-> A, tenths |-> u]>> :
            n \in {A, AB}, t \in OfShape, u \in OfShape}
    \cup {<<x, y, z>> : x \in FewRows, y \in FewRows, z \in FewRows}
=============================================================================
