---------------------------- MODULE RustBrc_proofs ---------------------------
(***************************************************************************)
(* Proofs about the Rust program, for every file, every size of page and   *)
(* every length of the buffer.                                             *)
(***************************************************************************)
EXTENDS RustBrc, BrcLemmas

-----------------------------------------------------------------------------
(***************************************************************************)
(* The mapping of a file, in whole pages, holds the file, and holds        *)
(* nothing else only if the file is made of whole pages.                   *)
(***************************************************************************)
LEMMA MappedEndBounds ==
  ASSUME NEW f, f.size \in Nat
  PROVE  /\ MappedEnd(f) \in Nat /\ f.size <= MappedEnd(f)
         /\ MappedEnd(f) = f.size => f.size % PageSize = 0
<1> DEFINE a == f.size + PageSize - 1
           q == a \div PageSize
<1>1. PageSize \in Nat \ {0} /\ a \in Nat
  BY PageAssumption
<1>2. q \in Nat /\ a < PageSize * q + PageSize
  BY <1>1, DivBounds
<1>3. PageSize * q = q * PageSize /\ PageSize * q \in Nat
  BY <1>1, <1>2
<1> HIDE DEF q
<1>4. f.size <= q * PageSize
  BY <1>1, <1>2, <1>3
<1>5. (q * PageSize) % PageSize = 0
  BY <1>1, <1>2
<1> QED
  BY <1>3, <1>4, <1>5 DEF MappedEnd, q

(***************************************************************************)
(* What result_map holds when the rows R are in it.                        *)
(***************************************************************************)
Has(R) == Held(file, R, 10000, -10000)

LEMMA HasIsTally ==
  ASSUME NEW R, IsRowSet(file, R)
  PROVE  Has(R) = Tally(file, R) /\ Has(R) \in Tables
<1> DEFINE hi == -10000
<1>1. hi \in Int /\ hi <= -999 /\ 10000 \in Int /\ 999 <= 10000
  OBVIOUS
<1> HIDE DEF hi
<1>2. /\ Held(file, R, 10000, hi) = Tally(file, R)
      /\ Held(file, R, 10000, hi) \in
           [Names -> [min : Int, max : Int, sum : Int, count : Nat] \cup {Absent}]
  BY <1>1, HeldIsTally, HeldType
<1> QED
  BY <1>2 DEF Has, Tables, Stat, hi

LEMMA HasNothing == Has({}) = Empty
  BY HeldNothing DEF Has, Empty

LEMMA AddRowHas ==
  ASSUME NEW R, NEW p, IsRowSet(file, R \cup {p}), p \notin R
  PROVE  AddRow(Has(R), file.row[p]) = Has(R \cup {p})
<1> DEFINE lo == 10000
           hi == -10000
           n == file.row[p].name
           t == file.row[p].temp
           h == Held(file, R, lo, hi)
           a == Holding(file, RowsOf(file, R, n), lo, hi)
<1>1. IsRowSet(file, R)
  <2> DEFINE RP == R \cup {p}
  <2>1. IsRowSet(file, RP) /\ R \in SUBSET RP
    OBVIOUS
  <2> HIDE DEF RP
  <2> QED
    BY <2>1, RowSetFacts
<1>2. lo \in Int /\ hi \in Int /\ n \in Names
  BY DEF IsRowSet, Row
<1>3. Absent \notin [min : Int, max : Int, sum : Int, count : Nat]
  BY RustAssumption DEF Stat
<1> HIDE DEF lo, hi, n
<1>4. /\ h[n] = Absent => a = [min |-> lo, max |-> hi, sum |-> 0, count |-> 0]
      /\ h[n] # Absent => a = h[n]
  BY <1>1, <1>2, <1>3, HeldEntry
<1>h. /\ h = Held(file, R, lo, hi) /\ n = file.row[p].name
      /\ a = Holding(file, RowsOf(file, R, n), lo, hi)
  BY DEF n
<1> HIDE DEF h, a
<1>5. Held(file, R \cup {p}, lo, hi) =
        [h EXCEPT ![n] = [min   |-> IF t < a.min THEN t ELSE a.min,
                          max   |-> IF t > a.max THEN t ELSE a.max,
                          sum   |-> a.sum + t,
                          count |-> a.count + 1]]
  BY <1>2, <1>h, HeldRow
<1>6. Entry(h, n) = a
  BY <1>4 DEF Entry, New, lo, hi
<1>7. AddRow(h, file.row[p]) = [h EXCEPT ![n] = Add(a, t)]
  BY <1>6 DEF AddRow, n
<1>8. AddRow(h, file.row[p]) = Held(file, R \cup {p}, lo, hi)
  BY <1>5, <1>7 DEF Add, Lesser, Greater
<1> QED
  BY <1>8 DEF Has, h, lo, hi

-----------------------------------------------------------------------------
(***************************************************************************)
(* The inductive invariant: while the loop runs, mmap_ptr has not passed   *)
(* the zero after the file and no newline is in the buffer; result_map     *)
(* holds the rows that ended before mmap_ptr; and the loop ends at the end *)
(* of the last row.                                                        *)
(***************************************************************************)
InRow ==
  /\ pc = "map" => mmap_ptr = 0 /\ buffer_pos = 0
  /\ pc = "read" =>
       /\ mmap_ptr <= file.size
       /\ buffer_pos <= mmap_ptr
       /\ \A q \in mmap_ptr - buffer_pos .. mmap_ptr - 1 : q \notin file.newlines

RowsBefore == {p \in Rows(file) : p < mmap_ptr}

HoldsRows == result_map = Has(RowsBefore)

ReadsAll == pc \in {"print", "printed"} => RowsBefore = Rows(file)

IInv == BufferIsRow /\ GivesUpOnlyFor /\ InRow /\ HoldsRows /\ ReadsAll

-----------------------------------------------------------------------------
LEMMA FileFacts ==
  ASSUME TypeOK
  PROVE  /\ file.size \in Nat /\ mmap_ptr \in Nat /\ buffer_pos \in Nat
         /\ buffer_pos <= BUFFER_LENGTH /\ BUFFER_LENGTH \in Nat
         /\ \A p \in file.newlines : p \in Nat /\ p < file.size
         /\ \A p \in Rows(file) : p \in Nat /\ p <= file.size
         /\ file.newlines \subseteq Rows(file)
         /\ \A R \in SUBSET Rows(file) : IsRowSet(file, R)
<1>1. /\ file.size \in Nat /\ mmap_ptr \in Nat /\ buffer_pos \in Nat
      /\ buffer_pos <= BUFFER_LENGTH /\ BUFFER_LENGTH \in Nat
      /\ IsFile(file)
  BY RustAssumption DEF TypeOK, IsFile
<1>2. \A p \in file.newlines : p \in Nat /\ p < file.size
  BY <1>1 DEF IsFile
<1>3. \A p \in Rows(file) : p \in file.newlines \/ p = file.size
  BY DEF Rows
<1>4. \A p \in Rows(file) : p \in Nat /\ p <= file.size
  BY <1>1, <1>2, <1>3
<1>5. \A R \in SUBSET Rows(file) : IsRowSet(file, R)
  BY <1>1, RowsAreRows
<1> QED
  BY <1>1, <1>2, <1>4, <1>5 DEF Rows

LEMMA InitInvariant == Init => IInv
<1> SUFFICES ASSUME Init PROVE IInv
  OBVIOUS
<1>1. /\ file \in Files /\ pc = "map" /\ mmap_ptr = 0 /\ buffer_pos = 0
      /\ result_map = Empty
  BY DEF Init
<1>2. TypeOK
  <2>1. Empty \in Tables /\ IsFile(file)
    BY <1>1, FilesAssumption DEF Empty, Tables
  <2> QED
    BY <1>1, <2>1, RustAssumption DEF TypeOK, IsFile
<1>3. BufferIsRow /\ GivesUpOnlyFor /\ InRow /\ ReadsAll
  BY <1>1, <1>2 DEF BufferIsRow, GivesUpOnlyFor, InRow, ReadsAll
<1>4. HoldsRows
  <2>1. RowsBefore = {}
    BY <1>1, <1>2, FileFacts DEF RowsBefore
  <2> QED
    BY <1>1, <2>1, HasNothing DEF HoldsRows
<1> QED
  BY <1>3, <1>4 DEF IInv

(***************************************************************************)
(* Steps that leave the pointer, the buffer and the map alone.             *)
(***************************************************************************)
LEMMA MovesOn ==
  ASSUME IInv, UNCHANGED <<file, mmap_ptr, buffer_pos, result_map>>,
         pc' \in {"map", "read", "print", "printed", "panicked", "undefined"},
         GivesUpOnlyFor',
         pc' = "map" => pc = "map",
         pc' = "read" => pc = "map" \/ pc = "read",
         pc' \in {"print", "printed"} => RowsBefore = Rows(file)
  PROVE  IInv'
<1>1. TypeOK /\ TypeOK'
  BY DEF IInv, BufferIsRow, TypeOK
<1>2. pc' = "read" => IsRowStart(file, mmap_ptr - buffer_pos)
  <2>1. CASE pc = "map"
    BY <2>1 DEF IInv, InRow, IsRowStart
  <2>2. CASE pc = "read"
    BY <2>2 DEF IInv, BufferIsRow
  <2> QED
    BY <2>1, <2>2
<1>3. BufferIsRow'
  BY <1>1, <1>2 DEF BufferIsRow
<1>4. InRow'
  <2>1. CASE pc' = "read" /\ pc = "map"
    BY <1>1, <2>1, FileFacts DEF IInv, InRow
  <2>2. CASE ~ (pc' = "read" /\ pc = "map")
    BY <2>2 DEF IInv, InRow
  <2> QED
    BY <2>1, <2>2
<1>5. RowsBefore' = RowsBefore
  BY DEF RowsBefore
<1>6. HoldsRows' /\ ReadsAll'
  BY <1>5 DEF IInv, HoldsRows, Has, ReadsAll
<1> QED
  BY <1>3, <1>4, <1>6 DEF IInv

LEMMA StutterInvariant == IInv /\ UNCHANGED vars => IInv'
<1> SUFFICES ASSUME IInv, UNCHANGED vars PROVE IInv'
  OBVIOUS
<1>1. UNCHANGED <<file, pc, mmap_ptr, buffer_pos, result_map>>
  BY DEF vars
<1>2. GivesUpOnlyFor'
  BY <1>1 DEF IInv, GivesUpOnlyFor, LongRow
<1> QED
  BY <1>1, <1>2, MovesOn DEF IInv, BufferIsRow, TypeOK, ReadsAll

LEMMA MapFileInvariant == IInv /\ MapFile => IInv'
  BY MovesOn DEF MapFile, GivesUpOnlyFor

LEMMA MapFailsInvariant == IInv /\ MapFails => IInv'
<1> SUFFICES ASSUME IInv, MapFails PROVE IInv'
  OBVIOUS
<1>1. /\ pc = "map" /\ pc' = "panicked"
      /\ UNCHANGED <<file, mmap_ptr, buffer_pos, result_map>>
  BY DEF MapFails
<1>2. GivesUpOnlyFor'
  BY <1>1 DEF IInv, InRow, GivesUpOnlyFor
<1> QED
  BY <1>1, <1>2, MovesOn

(***************************************************************************)
(* The last row, without a newline, is in the buffer or there is none.     *)
(***************************************************************************)
LEMMA AtTheZero ==
  ASSUME IInv, pc = "read", IsZero(file, mmap_ptr)
  PROVE  /\ mmap_ptr = file.size
         /\ RowLeft(buffer_pos) <=> file.size \in Rows(file)
<1>1. /\ TypeOK /\ mmap_ptr <= file.size /\ buffer_pos <= mmap_ptr
      /\ \A q \in mmap_ptr - buffer_pos .. mmap_ptr - 1 : q \notin file.newlines
      /\ IsRowStart(file, mmap_ptr - buffer_pos)
  BY DEF IInv, InRow, BufferIsRow
<1>2. mmap_ptr = file.size
  BY <1>1, FileFacts DEF IsZero
<1>3. file.size \in Rows(file) <=> file.size # 0 /\ file.size - 1 \notin file.newlines
  BY <1>1, FileFacts DEF Rows, Terminated
<1>4. CASE buffer_pos > 0
  <2>1. file.size - 1 \in mmap_ptr - buffer_pos .. mmap_ptr - 1 /\ file.size # 0
    BY <1>1, <1>2, <1>4, FileFacts
  <2> QED
    BY <1>1, <1>2, <1>3, <1>4, <2>1 DEF RowLeft
<1>5. CASE ~ (buffer_pos > 0)
  <2>1. mmap_ptr - buffer_pos = file.size
    BY <1>1, <1>2, <1>5, FileFacts
  <2> QED
    BY <1>1, <1>2, <1>3, <1>5, <2>1 DEF RowLeft, IsRowStart
<1> QED
  BY <1>1, <1>4, <1>5, FileFacts

(***************************************************************************)
(* ProcLine takes in the row that mmap_ptr has come to the end of.         *)
(***************************************************************************)
LEMMA ProcLineTakesRow ==
  ASSUME IInv, mmap_ptr \in Rows(file), ProcLine, UNCHANGED file
  PROVE  /\ RowsBefore' = RowsBefore \cup {mmap_ptr}
         /\ mmap_ptr \notin RowsBefore
         /\ HoldsRows' /\ result_map' \in Tables
<1>1. TypeOK
  BY DEF IInv, BufferIsRow
<1>2. mmap_ptr' = mmap_ptr + 1 /\ result_map' = AddRow(result_map, file.row[mmap_ptr])
  BY DEF ProcLine
<1>3. RowsBefore' = RowsBefore \cup {mmap_ptr} /\ mmap_ptr \notin RowsBefore
  <2>1. \A p \in Rows(file) : p < mmap_ptr + 1 <=> p < mmap_ptr \/ p = mmap_ptr
    BY <1>1, FileFacts
  <2> QED
    BY <1>1, <1>2, <2>1, FileFacts DEF RowsBefore
<1>4. IsRowSet(file, RowsBefore \cup {mmap_ptr})
  <2>1. RowsBefore \cup {mmap_ptr} \in SUBSET Rows(file)
    BY DEF RowsBefore
  <2> QED
    BY <1>1, <2>1, FileFacts
<1>5. result_map' = Has(RowsBefore \cup {mmap_ptr})
  BY <1>2, <1>3, <1>4, AddRowHas DEF IInv, HoldsRows
<1>6. result_map' \in Tables
  BY <1>4, <1>5, HasIsTally
<1>7. HoldsRows'
  BY <1>3, <1>5 DEF HoldsRows, Has
<1> QED
  BY <1>3, <1>6, <1>7

LEMMA NewlineInvariant == IInv /\ Newline => IInv'
<1> SUFFICES ASSUME IInv, Newline PROVE IInv'
  OBVIOUS
<1>1. /\ pc = "read" /\ pc' = "read" /\ file' = file
      /\ mmap_ptr \in file.newlines /\ ProcLine
      /\ mmap_ptr' = mmap_ptr + 1 /\ buffer_pos' = 0
  BY DEF Newline, ProcLine, ClearLine
<1>2. TypeOK
  BY DEF IInv, BufferIsRow
<1>3. mmap_ptr \in Rows(file) /\ mmap_ptr < file.size
  BY <1>1, <1>2, FileFacts
<1>4. HoldsRows' /\ result_map' \in Tables
  BY <1>1, <1>3, ProcLineTakesRow
<1>5. TypeOK'
  BY <1>1, <1>2, <1>3, <1>4, FileFacts DEF TypeOK
<1>6. BufferIsRow'
  <2>1. (mmap_ptr + 1) - 0 - 1 = mmap_ptr
    BY <1>2, FileFacts
  <2> QED
    BY <1>1, <1>5, <2>1 DEF BufferIsRow, IsRowStart
<1>7. InRow'
  BY <1>1, <1>2, <1>3, FileFacts DEF InRow
<1>8. GivesUpOnlyFor' /\ ReadsAll'
  BY <1>1 DEF GivesUpOnlyFor, ReadsAll
<1> QED
  BY <1>4, <1>6, <1>7, <1>8 DEF IInv

LEMMA LastRowInvariant == IInv /\ LastRow => IInv'
<1> SUFFICES ASSUME IInv, LastRow PROVE IInv'
  OBVIOUS
<1>1. /\ pc = "read" /\ pc' = "print" /\ file' = file
      /\ IsZero(file, mmap_ptr) /\ RowLeft(buffer_pos) /\ ProcLine
      /\ mmap_ptr' = mmap_ptr + 1 /\ buffer_pos' = 0
  BY DEF LastRow, ProcLine, ClearLine
<1>2. TypeOK
  BY DEF IInv, BufferIsRow
<1>3. mmap_ptr = file.size /\ mmap_ptr \in Rows(file)
  BY <1>1, AtTheZero
<1>4. HoldsRows' /\ result_map' \in Tables
  BY <1>1, <1>3, ProcLineTakesRow
<1>5. TypeOK'
  BY <1>1, <1>2, <1>3, <1>4, FileFacts DEF TypeOK
<1>6. BufferIsRow' /\ InRow' /\ GivesUpOnlyFor'
  BY <1>1, <1>5 DEF BufferIsRow, InRow, GivesUpOnlyFor
<1>7. ReadsAll'
  <2>1. \A p \in Rows(file) : p < mmap_ptr + 1
    BY <1>2, <1>3, FileFacts
  <2> QED
    BY <1>1, <2>1 DEF ReadsAll, RowsBefore
<1> QED
  BY <1>4, <1>6, <1>7 DEF IInv

LEMMA EndOfFileInvariant == IInv /\ EndOfFile => IInv'
<1> SUFFICES ASSUME IInv, EndOfFile PROVE IInv'
  OBVIOUS
<1>1. /\ pc = "read" /\ pc' = "print" /\ IsZero(file, mmap_ptr) /\ ~ RowLeft(buffer_pos)
      /\ UNCHANGED <<file, mmap_ptr, buffer_pos, result_map>>
  BY DEF EndOfFile
<1>2. TypeOK
  BY DEF IInv, BufferIsRow
<1>3. RowsBefore = Rows(file)
  <2>1. mmap_ptr = file.size /\ file.size \notin Rows(file)
    BY <1>1, AtTheZero
  <2>2. \A p \in Rows(file) : p < mmap_ptr
    BY <1>2, <2>1, FileFacts
  <2> QED
    BY <2>2 DEF RowsBefore
<1>4. GivesUpOnlyFor'
  BY <1>1 DEF GivesUpOnlyFor
<1> QED
  BY <1>1, <1>3, <1>4, MovesOn

LEMMA StoreInvariant == IInv /\ Store => IInv'
<1> SUFFICES ASSUME IInv, Store PROVE IInv'
  OBVIOUS
<1>1. /\ pc = "read" /\ pc' = "read" /\ UNCHANGED <<file, result_map>>
      /\ mmap_ptr < MappedEnd(file) /\ ~ IsStop(file, mmap_ptr)
      /\ buffer_pos < BUFFER_LENGTH
      /\ buffer_pos' = buffer_pos + 1 /\ mmap_ptr' = mmap_ptr + 1
  BY DEF Store, HasRoom
<1>2. TypeOK
  BY DEF IInv, BufferIsRow
<1>3. /\ mmap_ptr < file.size /\ mmap_ptr \notin file.newlines /\ mmap_ptr \notin Rows(file)
  <2>1. mmap_ptr < file.size /\ mmap_ptr \notin file.newlines
    BY <1>1, <1>2, FileFacts DEF IsStop, IsZero
  <2> QED
    BY <1>2, <2>1, FileFacts DEF Rows
<1>4. /\ buffer_pos <= mmap_ptr
      /\ \A q \in mmap_ptr - buffer_pos .. mmap_ptr - 1 : q \notin file.newlines
      /\ IsRowStart(file, mmap_ptr - buffer_pos)
  BY <1>1 DEF IInv, InRow, BufferIsRow
<1>5. mmap_ptr' - buffer_pos' = mmap_ptr - buffer_pos
  BY <1>1, <1>2, FileFacts
<1>6. TypeOK'
  BY <1>1, <1>2, <1>3, FileFacts DEF TypeOK
<1>7. BufferIsRow'
  BY <1>1, <1>4, <1>5, <1>6 DEF BufferIsRow
<1>8. InRow'
  <2>1. \A q \in mmap_ptr - buffer_pos .. mmap_ptr : q \notin file.newlines
    BY <1>2, <1>3, <1>4, FileFacts
  <2>2. mmap_ptr' - 1 = mmap_ptr /\ mmap_ptr' <= file.size /\ buffer_pos' <= mmap_ptr'
    BY <1>1, <1>2, <1>3, <1>4, FileFacts
  <2> QED
    BY <1>1, <1>5, <2>1, <2>2 DEF InRow
<1>9. HoldsRows'
  <2>1. \A p \in Rows(file) : p < mmap_ptr + 1 <=> p < mmap_ptr
    BY <1>2, <1>3, FileFacts
  <2>2. RowsBefore' = RowsBefore
    BY <1>1, <2>1 DEF RowsBefore
  <2> QED
    BY <1>1, <2>2 DEF IInv, HoldsRows, Has
<1>10. GivesUpOnlyFor' /\ ReadsAll'
  BY <1>1 DEF GivesUpOnlyFor, ReadsAll
<1> QED
  BY <1>7, <1>8, <1>9, <1>10 DEF IInv

LEMMA BufferFullInvariant == IInv /\ BufferFull => IInv'
<1> SUFFICES ASSUME IInv, BufferFull PROVE IInv'
  OBVIOUS
<1>1. /\ pc = "read" /\ pc' = "panicked"
      /\ UNCHANGED <<file, mmap_ptr, buffer_pos, result_map>>
      /\ mmap_ptr < MappedEnd(file) /\ ~ IsStop(file, mmap_ptr)
      /\ ~ (buffer_pos < BUFFER_LENGTH)
  BY DEF BufferFull, HasRoom
<1>2. TypeOK
  BY DEF IInv, BufferIsRow
<1>3. mmap_ptr < file.size /\ mmap_ptr \notin file.newlines
  BY <1>1, <1>2, FileFacts DEF IsStop, IsZero
<1>4. /\ buffer_pos = BUFFER_LENGTH /\ buffer_pos <= mmap_ptr
      /\ \A q \in mmap_ptr - buffer_pos .. mmap_ptr - 1 : q \notin file.newlines
  BY <1>1, <1>2, FileFacts DEF IInv, InRow
<1>5. LongRow
  <2> DEFINE start == mmap_ptr - BUFFER_LENGTH
  <2>1. start \in 0 .. file.size /\ start + BUFFER_LENGTH = mmap_ptr
    BY <1>2, <1>3, <1>4, FileFacts
  <2>2. \A q \in start .. mmap_ptr : q < file.size /\ q \notin file.newlines
    BY <1>2, <1>3, <1>4, FileFacts
  <2> HIDE DEF start
  <2> QED
    BY <2>1, <2>2 DEF LongRow
<1>6. GivesUpOnlyFor'
  BY <1>1, <1>5 DEF GivesUpOnlyFor, LongRow
<1> QED
  BY <1>1, <1>6, MovesOn

LEMMA LeavesMappingInvariant == IInv /\ LeavesMapping => IInv'
<1> SUFFICES ASSUME IInv, LeavesMapping PROVE IInv'
  OBVIOUS
<1>1. /\ pc = "read" /\ pc' = "undefined" /\ mmap_ptr >= MappedEnd(file)
      /\ UNCHANGED <<file, mmap_ptr, buffer_pos, result_map>>
  BY DEF LeavesMapping
<1>2. TypeOK /\ mmap_ptr <= file.size
  BY <1>1 DEF IInv, BufferIsRow, InRow
<1>3. file.size % PageSize = 0
  <2>1. MappedEnd(file) \in Nat /\ file.size <= MappedEnd(file)
    BY <1>2, FileFacts, MappedEndBounds
  <2>2. MappedEnd(file) = file.size
    BY <1>1, <1>2, <2>1, FileFacts
  <2> QED
    BY <1>2, <2>2, FileFacts, MappedEndBounds
<1>4. GivesUpOnlyFor'
  BY <1>1, <1>3 DEF GivesUpOnlyFor
<1> QED
  BY <1>1, <1>4, MovesOn

LEMMA PrintResultInvariant == IInv /\ PrintResult => IInv'
  BY MovesOn DEF PrintResult, GivesUpOnlyFor, IInv, ReadsAll

LEMMA NextInvariant == IInv /\ [Next]_vars => IInv'
  BY StutterInvariant, MapFileInvariant, MapFailsInvariant, NewlineInvariant,
     LastRowInvariant, EndOfFileInvariant, StoreInvariant, BufferFullInvariant,
     LeavesMappingInvariant, PrintResultInvariant DEF Next

(***************************************************************************)
(* The inductive invariant holds throughout.                               *)
(***************************************************************************)
THEOREM Invariance == Spec => []IInv
  BY InitInvariant, NextInvariant, PTL DEF Spec

(***************************************************************************)
(* The buffer holds the current row from its first byte, whatever rows     *)
(* came before; and the variables keep their types.                        *)
(***************************************************************************)
THEOREM BufferHoldsRow == Spec => []BufferIsRow
<1>1. IInv => BufferIsRow
  BY DEF IInv
<1> QED
  BY <1>1, Invariance, PTL

(***************************************************************************)
(* The program panics only for a file it cannot map or a row longer than   *)
(* the buffer, and leaves the mapping only if the file fills its pages.    *)
(***************************************************************************)
THEOREM GivesUpOnlyForReason == Spec => []GivesUpOnlyFor
<1>1. IInv => GivesUpOnlyFor
  BY DEF IInv
<1> QED
  BY <1>1, Invariance, PTL

-----------------------------------------------------------------------------
(***************************************************************************)
(* The program implements Brc, but for Brc's promise to come to an end.    *)
(***************************************************************************)
LEMMA PromiseTally == \A R : Promise!Tally(file, R) = Tally(file, R)
<1>1. \A S : Promise!Min(S) = Min(S) /\ Promise!Max(S) = Max(S)
  BY DEF Promise!Min, Min, Promise!Max, Max
<1>2. \A S : Promise!Cardinality(S) = Cardinality(S)
  BY DEF Promise!Cardinality, Cardinality
<1>3. \A S : Promise!MapThenSumSet(LAMBDA p : file.row[p].temp, S) =
             MapThenSumSet(LAMBDA p : file.row[p].temp, S)
  BY DEF Promise!MapThenSumSet, MapThenSumSet, Promise!MapThenFoldSet, MapThenFoldSet
<1>4. \A S : Promise!Summary(file, S) = Summary(file, S)
  BY <1>1, <1>2, <1>3 DEF Promise!Summary, Summary
<1>5. \A R, n : Promise!RowsOf(file, R, n) = RowsOf(file, R, n)
  BY DEF Promise!RowsOf, RowsOf
<1> QED
  BY <1>4, <1>5 DEF Promise!Tally, Tally

LEMMA PromiseRows == Promise!Rows(file) = Rows(file)
  BY DEF Promise!Rows, Rows, Promise!Terminated, Terminated

LEMMA PromiseInit == Init => Promise!Init
<1> SUFFICES ASSUME Init PROVE Promise!Init
  OBVIOUS
<1>1. /\ file \in Files /\ pc = "map" /\ result_map = Empty
      /\ IInv
  BY InitInvariant DEF Init
<1>2. RowsBefore = {}
  BY <1>1, FileFacts DEF Init, IInv, BufferIsRow, RowsBefore
<1>3. result_map = Tally(file, {})
  <2>1. IsRowSet(file, {})
    BY <1>1, FileFacts DEF IInv, BufferIsRow
  <2> QED
    BY <1>1, <2>1, HasNothing, HasIsTally
<1> QED
  BY <1>1, <1>2, <1>3, PromiseTally DEF Promise!Init, RowsBefore

(***************************************************************************)
(* What the status of Brc is, before and after a step.                     *)
(***************************************************************************)
Status(p) == CASE p = "printed" -> "printed"
               [] p \in {"panicked", "undefined"} -> "aborted"
               [] OTHER -> "running"

LEMMA PromiseNext == IInv /\ IInv' /\ [Next]_vars => [Promise!Next]_(Promise!vars)
<1> SUFFICES ASSUME IInv, IInv', [Next]_vars PROVE [Promise!Next]_(Promise!vars)
  OBVIOUS
<1>1. TypeOK
  BY DEF IInv, BufferIsRow
<1>2. \A R \in SUBSET Rows(file) : IsRowSet(file, R)
  BY <1>1, FileFacts
<1>3. CASE Newline \/ LastRow
  <2>1. /\ pc = "read" /\ pc' \in {"read", "print"} /\ file' = file
        /\ mmap_ptr \in Rows(file) /\ ProcLine
    <3>1. CASE Newline
      BY <1>1, <3>1, FileFacts DEF Newline
    <3>2. CASE LastRow
      BY <1>1, <3>2, AtTheZero DEF LastRow
    <3> QED
      BY <1>3, <3>1, <3>2
  <2>2. RowsBefore' = RowsBefore \cup {mmap_ptr} /\ mmap_ptr \notin RowsBefore /\ HoldsRows'
    BY <2>1, ProcLineTakesRow
  <2>3. RowsBefore' \in SUBSET Rows(file)
    BY <2>1 DEF RowsBefore, Rows, Terminated
  <2>4. result_map' = Tally(file, RowsBefore')
    <3> DEFINE R == RowsBefore'
    <3>1. result_map' = Has(R)
      BY <2>1, <2>2 DEF HoldsRows, Has
    <3> HIDE DEF R
    <3>2. IsRowSet(file, R)
      BY <1>2, <2>3 DEF R
    <3>3. result_map' = Tally(file, R)
      BY <3>1, <3>2, HasIsTally
    <3> QED
      BY <3>3 DEF R
  <2>5. Status(pc) = "running" /\ Status(pc') = "running"
    BY <2>1 DEF Status
  <2>6. PICK p : p = mmap_ptr
    OBVIOUS
  <2>7. {p} \in SUBSET (Promise!Rows(file) \ RowsBefore)
    BY <2>1, <2>2, <2>6, PromiseRows
  <2>8. Promise!Absorb({p})
    BY <2>1, <2>2, <2>4, <2>5, <2>6, PromiseTally DEF Promise!Absorb, RowsBefore, Status
  <2> QED
    BY <2>7, <2>8 DEF Promise!Next, RowsBefore
<1>4. CASE PrintResult
  <2>1. /\ pc = "print" /\ pc' = "printed"
        /\ UNCHANGED <<file, mmap_ptr, buffer_pos, result_map>>
    BY <1>4 DEF PrintResult
  <2>2. RowsBefore = Rows(file) /\ RowsBefore' = RowsBefore
    BY <2>1 DEF IInv, ReadsAll, RowsBefore
  <2>3. Promise!PrintAnswer
    BY <2>1, <2>2, PromiseRows DEF Promise!PrintAnswer, RowsBefore
  <2> QED
    BY <2>3 DEF Promise!Next
<1>5. CASE MapFails \/ BufferFull \/ LeavesMapping
  <2>1. /\ pc \in {"map", "read"} /\ pc' \in {"panicked", "undefined"}
        /\ UNCHANGED <<file, mmap_ptr, buffer_pos, result_map>>
    BY <1>5 DEF MapFails, BufferFull, LeavesMapping
  <2>2. RowsBefore' = RowsBefore
    BY <2>1 DEF RowsBefore
  <2>3. Promise!Abort
    BY <2>1, <2>2 DEF Promise!Abort, RowsBefore
  <2> QED
    BY <2>3 DEF Promise!Next
<1>6. CASE MapFile \/ EndOfFile \/ UNCHANGED vars
  <2>1. /\ Status(pc') = Status(pc)
        /\ UNCHANGED <<file, mmap_ptr, result_map>>
    BY <1>6 DEF MapFile, EndOfFile, vars, Status
  <2>2. RowsBefore' = RowsBefore
    BY <2>1 DEF RowsBefore
  <2> QED
    BY <2>1, <2>2 DEF Promise!vars, RowsBefore, Status
<1>7. CASE Store
  <2>1. /\ pc = "read" /\ pc' = pc /\ UNCHANGED <<file, result_map>>
        /\ mmap_ptr < MappedEnd(file) /\ ~ IsStop(file, mmap_ptr)
        /\ mmap_ptr' = mmap_ptr + 1
    BY <1>7 DEF Store
  <2>2. mmap_ptr < file.size /\ mmap_ptr \notin file.newlines
    BY <1>1, <2>1, FileFacts DEF IsStop, IsZero
  <2>3. mmap_ptr \notin Rows(file)
    BY <1>1, <2>2, FileFacts DEF Rows
  <2>4. \A p \in Rows(file) : p < mmap_ptr + 1 <=> p < mmap_ptr
    BY <1>1, <2>3, FileFacts
  <2>5. RowsBefore' = RowsBefore
    BY <2>1, <2>4 DEF RowsBefore
  <2> QED
    BY <2>1, <2>5 DEF Promise!vars, RowsBefore
<1> QED
  BY <1>3, <1>4, <1>5, <1>6, <1>7 DEF Next

(***************************************************************************)
(* Every step of the program is a step of Brc or leaves its state alone:   *)
(* the rows come into the map one by one, none twice, and when the map is  *)
(* printed it has all rows of the file, the last with or without a         *)
(* newline, and their statistics.                                          *)
(***************************************************************************)
THEOREM Refinement == Spec => Promise!Init /\ [][Promise!Next]_(Promise!vars)
<1>1. Init => Promise!Init
  BY PromiseInit
<1>2. IInv /\ IInv' /\ [Next]_vars => [Promise!Next]_(Promise!vars)
  BY PromiseNext
<1> QED
  BY <1>1, <1>2, Invariance, PTL DEF Spec

-----------------------------------------------------------------------------
(***************************************************************************)
(* The program comes to an end.  What is left to do, as a number: the      *)
(* bytes mmap_ptr has not passed, the zero among them, and the steps that  *)
(* read none.                                                              *)
(***************************************************************************)
MainLeft ==
  CASE pc = "map"   -> 3
    [] pc = "read"  -> 2
    [] pc = "print" -> 1
    [] OTHER        -> 0

Left == (file.size + 1 - mmap_ptr) + MainLeft

(***************************************************************************)
(* No run goes on for ever: each turn of the loop takes a byte or ends it, *)
(* and the zero that ends it is the one after the file.                    *)
(***************************************************************************)
THEOREM EveryStepLeavesLess == Spec => [](Left \in Nat) /\ [][Left' < Left]_vars
<1>1. ASSUME IInv PROVE Left \in Nat
  <2>1. PICK s, p, m : s = file.size /\ p = mmap_ptr /\ m = MainLeft
    OBVIOUS
  <2>2. s \in Nat /\ p \in 0 .. s + 1 /\ m \in Nat
    BY <1>1, <2>1 DEF IInv, BufferIsRow, TypeOK, IsFile, MainLeft
  <2>3. (s + 1 - p) + m \in Nat
    BY <2>2
  <2> QED
    BY <2>1, <2>3 DEF Left
<1>2. ASSUME IInv, Next PROVE Left' < Left
  <2>1. PICK s, p, m, n : s = file.size /\ p = mmap_ptr /\ m = MainLeft /\ n = MainLeft'
    OBVIOUS
  <2>2. s \in Nat /\ p \in Nat /\ m \in Nat /\ n \in Nat
    <3>1. s \in Nat /\ p \in Nat
      BY <1>2, <2>1, FileFacts DEF IInv, BufferIsRow
    <3> QED
      BY <2>1, <3>1 DEF MainLeft
  <2>3. /\ UNCHANGED file
        /\ \/ mmap_ptr' = p /\ n < m
           \/ mmap_ptr' = p + 1 /\ n <= m
    BY <1>2, <2>1 DEF Next, MapFile, MapFails, Newline, LastRow, EndOfFile, Store,
       BufferFull, LeavesMapping, PrintResult, ProcLine, MainLeft
  <2>4. Left = (s + 1 - p) + m /\ Left' = (s + 1 - mmap_ptr') + n
    BY <2>1, <2>3 DEF Left
  <2> QED
    BY <2>2, <2>3, <2>4
<1>3. IInv => Left \in Nat
  BY <1>1
<1>4. IInv /\ [Next]_vars => [Left' < Left]_vars
  BY <1>2
<1> QED
  BY <1>3, <1>4, Invariance, PTL DEF Spec
=============================================================================
