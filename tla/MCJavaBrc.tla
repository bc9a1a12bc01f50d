------------------------------ MODULE MCJavaBrc ------------------------------
(***************************************************************************)
(* The Java program on small files.                                        *)
(***************************************************************************)
EXTENDS JavaBrc, SmallFiles
=============================================================================
