-------------------------------- MODULE Pages --------------------------------
(***************************************************************************)
(* The pages of memory a file is mapped to.                                *)
(***************************************************************************)
EXTENDS Integers

CONSTANT PageSize     \* the size of a page of memory

ASSUME PageAssumption == PageSize \in Nat \ {0}
=============================================================================
