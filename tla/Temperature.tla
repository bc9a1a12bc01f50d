---------------------------- MODULE Temperature -----------------------------
(***************************************************************************)
(* What a program keeps per station, class Temperature of the C++ program, *)
(* and the hash maps from stations to it that its threads fill and main    *)
(* merges.  Temperatures are integers, in tenths of a degree: the rounding *)
(* of double additions is left out.                                        *)
(***************************************************************************)
EXTENDS Integers

CONSTANTS
  Names,
  Absent,     \* what a map holds for a station it has no entry for
  MinInit,    \* min of a new Temperature, in tenths
  MaxInit     \* max of a new Temperature, in tenths

Stat == [min : Int, max : Int, sum : Int, count : Nat]

(***************************************************************************)
(* A map says for each station what it holds.                              *)
(***************************************************************************)
Tables == [Names -> Stat \cup {Absent}]

Empty == [n \in Names |-> Absent]

New == [min |-> MinInit, max |-> MaxInit, sum |-> 0, count |-> 0]

Lesser(a, b)  == IF b < a THEN b ELSE a
Greater(a, b) == IF b > a THEN b ELSE a

Add(t, temp) ==
  [min   |-> Lesser(t.min, temp),
   max   |-> Greater(t.max, temp),
   sum   |-> t.sum + temp,
   count |-> t.count + 1]

\* Mutant: the count of the other side is forgotten.
MergeWithoutCount(t, other) ==
  [min   |-> Lesser(t.min, other.min),
   max   |-> Greater(t.max, other.max),
   sum   |-> t.sum + other.sum,
   count |-> t.count]

Merge(t, other) ==
  [min   |-> Lesser(t.min, other.min),
   max   |-> Greater(t.max, other.max),
   sum   |-> t.sum + other.sum,
   count |-> t.count + other.count]

(***************************************************************************)
(* operator[] of the map: the station's Temperature, a new one if none.    *)
(***************************************************************************)
Entry(map, n) == IF map[n] = Absent THEN New ELSE map[n]

AddRow(map, row) == [map EXCEPT ![row.name] = Add(Entry(map, row.name), row.temp)]

MergeTable(global, map) ==
  [n \in Names |->
     IF map[n] = Absent THEN global[n] ELSE Merge(Entry(global, n), map[n])]
=============================================================================
