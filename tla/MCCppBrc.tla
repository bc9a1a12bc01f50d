------------------------------ MODULE MCCppBrc -------------------------------
(***************************************************************************)
(* The C++ program on small files.                                         *)
(***************************************************************************)
EXTENDS CppBrc, SmallFiles
=============================================================================
