----------------------------- MODULE MCPythonBrc -----------------------------
(***************************************************************************)
(* The Python program on small files.                                      *)
(***************************************************************************)
EXTENDS PythonBrc, SmallFiles
=============================================================================
