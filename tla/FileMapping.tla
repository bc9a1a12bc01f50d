----------------------------- MODULE FileMapping -----------------------------
(***************************************************************************)
(* A file mapped into memory, as the C++, C# and Rust programs read it.    *)
(* The bytes from the end of the file to the end of its last page read as  *)
(* zero.  Nothing is mapped beyond that page: what a program that reads    *)
(* there does is undefined.                                                *)
(***************************************************************************)
EXTENDS Measurements, Pages

MappedEnd(f) == ((f.size + PageSize - 1) \div PageSize) * PageSize

IsZero(f, p) == f.size <= p /\ p < MappedEnd(f)

IsStop(f, p) == p \in f.newlines \/ IsZero(f, p)

(***************************************************************************)
(* q is where a scan for a newline or a zero, started at p, ends; a scan   *)
(* that meets neither runs off the mapping.                                *)
(***************************************************************************)
StopsAt(f, p, q) == IsStop(f, q) /\ \A k \in p .. q - 1 : ~ IsStop(f, k)

RunsOff(f, p) == \A q \in p .. MappedEnd(f) - 1 : ~ IsStop(f, q)
=============================================================================
