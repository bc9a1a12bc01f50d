---------------------------- MODULE Measurements ----------------------------
(***************************************************************************)
(* The measurements file every implementation reads: rows of the form      *)
(* "name;temperature", each ended by a newline byte.                       *)
(*                                                                         *)
(* A file is a record of                                                   *)
(*   size      the number of its bytes,                                    *)
(*   newlines  the offsets of its newline bytes,                           *)
(*   row       what each row says: its station and its temperature, in     *)
(*             tenths of a degree.                                         *)
(* A row is named by its end, the offset of the byte after its last digit: *)
(* its newline, or the end of the file for a last row that has none.  The  *)
(* characters of names and numbers are left out; where the rows begin and  *)
(* end, all that the splitters and readers depend on, is kept.             *)
(***************************************************************************)
EXTENDS Integers

CONSTANTS
  Names,     \* the stations
  Absent,    \* what a program holds for a station it has not seen
  Temps,     \* the temperatures, in tenths of a degree
  Files      \* the files to consider

Row == [name : Names, temp : Temps]

(***************************************************************************)
(* The ends of the rows of file f.                                         *)
(***************************************************************************)
Terminated(f) == f.size - 1 \in f.newlines

Rows(f) == f.newlines \cup (IF f.size = 0 \/ Terminated(f) THEN {} ELSE {f.size})

(***************************************************************************)
(* The offset at which a row may begin: the first byte of the file or the  *)
(* byte after a newline.                                                   *)
(***************************************************************************)
IsRowStart(f, p) == p = 0 \/ p - 1 \in f.newlines

(***************************************************************************)
(* A file has no blank line: a row holds at least one byte.                *)
(***************************************************************************)
IsFile(f) ==
  /\ f.size \in Nat
  /\ f.newlines \in SUBSET (0 .. f.size - 1)
  /\ f.row \in [Rows(f) -> Row]
  /\ \A p \in f.newlines : ~ IsRowStart(f, p)

(***************************************************************************)
(* The 1BRC data: temperatures lie between -99.9 and 99.9 degrees.         *)
(***************************************************************************)
ASSUME TempsAssumption == \A t \in Temps : t \in Int /\ -999 <= t /\ t <= 999

ASSUME FilesAssumption == \A f \in Files : IsFile(f)
=============================================================================
