---------------------------- MODULE MCCSharpBrc -----------------------------
(***************************************************************************)
(* The C# program on small files whose rows have at least two bytes.       *)
(***************************************************************************)
EXTENDS CSharpBrc, SmallFiles

CSharpFiles == FilesOf({f \in Layouts : \A p \in f.newlines : ~ IsRowStart(f, p - 1)})
=============================================================================
