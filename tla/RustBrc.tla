------------------------------- MODULE RustBrc -------------------------------
(***************************************************************************)
(* The Rust program: one loop over the mapped file, byte by byte, that     *)
(* keeps the bytes of a row in a buffer until it meets the row's newline,  *)
(* or the zero after the file.  An offset into the file stands for         *)
(* mmap_ptr; the buffer holds the buffer_pos bytes before it.              *)
(***************************************************************************)
EXTENDS FileMapping

INSTANCE Temperature WITH MinInit <- 10000, MaxInit <- -10000

CONSTANT BUFFER_LENGTH     \* the longest row the buffer can hold

ASSUME RustAssumption == BUFFER_LENGTH \in Nat /\ Absent \notin Stat

VARIABLES
  file,          \* the file named by args[1]
  pc,            \* where main is
  mmap_ptr,
  buffer_pos,
  result_map

vars == <<file, pc, mmap_ptr, buffer_pos, result_map>>

-----------------------------------------------------------------------------
Init ==
  /\ file \in Files
  /\ pc = "map"
  /\ mmap_ptr = 0
  /\ buffer_pos = 0
  /\ result_map = Empty

MapFile ==
  /\ pc = "map"
  /\ pc' = "read"
  /\ UNCHANGED <<file, mmap_ptr, buffer_pos, result_map>>

(***************************************************************************)
(* unwrap and expect panic.                                                *)
(***************************************************************************)
MapFails ==
  /\ pc = "map"
  /\ pc' = "panicked"
  /\ UNCHANGED <<file, mmap_ptr, buffer_pos, result_map>>

-----------------------------------------------------------------------------
\* Mutant: the buffer is not emptied after a row.
KeepLine(pos) == pos

ClearLine(pos) == 0

(***************************************************************************)
(* One turn of the loop that ends a row, the one whose end mmap_ptr has    *)
(* come to.                                                                *)
(***************************************************************************)
ProcLine ==
  /\ result_map' = AddRow(result_map, file.row[mmap_ptr])
  /\ buffer_pos' = ClearLine(buffer_pos)
  /\ mmap_ptr' = mmap_ptr + 1

Newline ==
  /\ pc = "read"
  /\ mmap_ptr \in file.newlines
  /\ ProcLine
  /\ UNCHANGED <<file, pc>>

\* Mutant: a last row without a newline is not looked for.
Nothing(pos) == FALSE

RowLeft(pos) == pos > 0

LastRow ==
  /\ pc = "read"
  /\ IsZero(file, mmap_ptr)
  /\ RowLeft(buffer_pos)
  /\ ProcLine
  /\ pc' = "print"
  /\ UNCHANGED file

EndOfFile ==
  /\ pc = "read"
  /\ IsZero(file, mmap_ptr)
  /\ ~ RowLeft(buffer_pos)
  /\ pc' = "print"
  /\ UNCHANGED <<file, mmap_ptr, buffer_pos, result_map>>

\* Mutant: the last byte of the buffer is not used.
HasRoomForTwo(pos) == pos + 1 < BUFFER_LENGTH

HasRoom(pos) == pos < BUFFER_LENGTH

Store ==
  /\ pc = "read"
  /\ mmap_ptr < MappedEnd(file)
  /\ ~ IsStop(file, mmap_ptr)
  /\ HasRoom(buffer_pos)
  /\ buffer_pos' = buffer_pos + 1
  /\ mmap_ptr' = mmap_ptr + 1
  /\ UNCHANGED <<file, pc, result_map>>

(***************************************************************************)
(* An index beyond the buffer panics.                                      *)
(***************************************************************************)
BufferFull ==
  /\ pc = "read"
  /\ mmap_ptr < MappedEnd(file)
  /\ ~ IsStop(file, mmap_ptr)
  /\ ~ HasRoom(buffer_pos)
  /\ pc' = "panicked"
  /\ UNCHANGED <<file, mmap_ptr, buffer_pos, result_map>>

(***************************************************************************)
(* There is no zero after the file, and mmap_ptr leaves the mapping.       *)
(***************************************************************************)
LeavesMapping ==
  /\ pc = "read"
  /\ mmap_ptr >= MappedEnd(file)
  /\ pc' = "undefined"
  /\ UNCHANGED <<file, mmap_ptr, buffer_pos, result_map>>

PrintResult ==
  /\ pc = "print"
  /\ pc' = "printed"
  /\ UNCHANGED <<file, mmap_ptr, buffer_pos, result_map>>

Next == \/ MapFile \/ MapFails \/ Newline \/ LastRow \/ EndOfFile
        \/ Store \/ BufferFull \/ LeavesMapping \/ PrintResult

(***************************************************************************)
(* The program is sequential and runs on.                                  *)
(***************************************************************************)
Spec == Init /\ [][Next]_vars /\ WF_vars(Next)

-----------------------------------------------------------------------------
(***************************************************************************)
(* Type invariant.                                                         *)
(***************************************************************************)
TypeOK ==
  /\ IsFile(file)
  /\ pc \in {"map", "read", "print", "printed", "panicked", "undefined"}
  /\ mmap_ptr \in 0 .. file.size + 1
  /\ buffer_pos \in 0 .. BUFFER_LENGTH
  /\ result_map \in Tables

(***************************************************************************)
(* The buffer holds the current row, from its first byte, and nothing of   *)
(* the rows before it.  And the variables keep their types.                *)
(***************************************************************************)
BufferIsRow ==
  /\ TypeOK
  /\ pc = "read" => IsRowStart(file, mmap_ptr - buffer_pos)

(***************************************************************************)
(* The program ends without an answer only if the file cannot be mapped, a *)
(* row does not fit into the buffer, or no byte of the last page is left   *)
(* for the zero that ends the loop.                                        *)
(***************************************************************************)
LongRow == \E p \in 0 .. file.size : \A q \in p .. p + BUFFER_LENGTH :
             q < file.size /\ q \notin file.newlines

GivesUpOnlyFor ==
  /\ pc = "panicked" => mmap_ptr = 0 \/ LongRow
  /\ pc = "undefined" => file.size % PageSize = 0

(***************************************************************************)
(* The program counts each row once, the last one with or without a        *)
(* newline, and prints the statistics of all of them or gives up.          *)
(***************************************************************************)
Promise == INSTANCE Brc WITH
  absorbed <- {p \in Rows(file) : p < mmap_ptr},
  answer   <- result_map,
  status   <- CASE pc = "printed" -> "printed"
                [] pc \in {"panicked", "undefined"} -> "aborted"
                [] OTHER -> "running"

ImplementsBrc == Promise!Spec
=============================================================================
