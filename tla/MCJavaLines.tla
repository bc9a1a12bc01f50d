----------------------------- MODULE MCJavaLines -----------------------------
(***************************************************************************)
(* Chunks of up to three lines: blank ones, rows of the shortest and the   *)
(* longest temperatures behind names of one and three letters, rows that   *)
(* fill the buffer and one that does not fit.                              *)
(***************************************************************************)
EXTENDS JavaLines

SmallRows ==
  [name : {<<17>>, <<18, 17, 19>>}, tenths : {-999, -12, 7, 345}]
    \cup {[name |-> <<17, 18, 17, 18>>, tenths |-> -10],
          [name |-> <<17, 18, 17, 18, 17>>, tenths |-> -100]}

SmallLines == {<<>>} \cup SmallRows

SmallLineLists ==
  {<<x, y>> : x \in SmallLines, y \in SmallLines}
    \cup {<<x, y, z>> : x \in SmallLines, y \in SmallLines, z \in SmallLines}
=============================================================================
