------------------------------ MODULE MCRustBrc ------------------------------
(***************************************************************************)
(* The Rust program on small files.                                        *)
(***************************************************************************)
EXTENDS RustBrc, SmallFiles
=============================================================================
