------------------------------ MODULE CSharpBrc ------------------------------
(***************************************************************************)
(* The C# program.  Main maps the file, cuts it into parts with a pointer  *)
(* that looks for newlines and for the zero after the file                 *)
(* (SplitIntoChunks), starts a thread per part, which adds the rows whose  *)
(* newline it meets to a dictionary of its own (ThreadRunner), then joins  *)
(* the threads in order, merges their dictionaries and prints.             *)
(*                                                                         *)
(* Offsets into the file stand for pointers.  A read beyond the mapping,   *)
(* and a length that does not fit into an int, end the model in            *)
(* "undefined".                                                            *)
(***************************************************************************)
EXTENDS FileMapping, Sequences, FiniteSetsExt

CONSTANTS
  MaxCores,      \* the most Environment.ProcessorCount may return
  MinFileSize,   \* minFileSize: a file of no more bytes is left to one thread
  MaxLength,     \* int.MaxValue
  ShortNames     \* the stations whose name has two bytes

(***************************************************************************)
(* The hash of a Key is the four bytes its pointer points to.  For a name  *)
(* of two bytes they take in the character that comes after the delimiter, *)
(* the sign (-1) or first digit of the temperature, so that the dictionary  *)
(* may hold several entries for such a station.                            *)
(***************************************************************************)
Lead(temp) ==
  IF temp < 0 THEN -1 ELSE IF temp < 100 THEN temp \div 10 ELSE temp \div 100

KeyOf(row) == <<row.name, IF row.name \in ShortNames THEN {Lead(row.temp)} ELSE {}>>

Keys == {KeyOf([name |-> n, temp |-> t]) : n \in Names, t \in Temps}

(***************************************************************************)
(* GetValueRefOrAddDefault adds a Stat of zeros; no constructor runs.      *)
(***************************************************************************)
INSTANCE Temperature WITH Names <- Keys, MinInit <- 0, MaxInit <- 0

ASSUME CSharpAssumption ==
  /\ MaxCores \in Nat \ {0}
  /\ MinFileSize \in Nat
  /\ MaxLength \in Nat
  /\ ShortNames \subseteq Names
  /\ Absent \notin Stat

VARIABLES
  file,           \* the file named by args[0]
  pc,             \* where Main is
  cores,
  partStartPtr,   \* in SplitIntoChunks: the start of the part being cut
  ptr,            \* in SplitIntoChunks: where the scan for its end begins
  offset,         \* in SplitIntoChunks
  threadDatas,    \* the parts, with the dictionaries of their threads
  threads,        \* the threads started: "running" or "done"
  joined,         \* how many threads Main has joined and merged
  result          \* Main's dictionary

splitVars == <<partStartPtr, ptr, offset>>
vars == <<file, pc, cores, splitVars, threadDatas, threads, joined, result>>

-----------------------------------------------------------------------------
bytesPerCore == file.size \div cores

\* Mutant: offset is added to the length.
LengthPlusOffset(start, length, extra) ==
  IF start + length > file.size THEN length + extra ELSE length

\* Mutant: one byte too many is subtracted.
OneByteLess(start, length, extra) ==
  IF start + length > file.size THEN length - extra - 1 ELSE length

(***************************************************************************)
(* The length of the part that ends at the zero.                           *)
(***************************************************************************)
LastLength(start, length, extra) ==
  IF start + length > file.size THEN length - extra ELSE length

\* Mutant: the newline a part ends at is left to the next part.
StartAtNewline(newline) == newline

NextStart(newline) == newline + 1

\* Mutant: the length of the part is added to the pointer twice.
NextScanTwice(start) == start + 2 * bytesPerCore + 1

(***************************************************************************)
(* The next scan steps over a byte before it looks at one.                 *)
(***************************************************************************)
NextScan(start) == start + bytesPerCore + 1

-----------------------------------------------------------------------------
Init ==
  /\ file \in Files
  /\ pc = "map"
  /\ cores = 1
  /\ partStartPtr = 0 /\ ptr = 0 /\ offset = 0
  /\ threadDatas = <<>> /\ threads = <<>>
  /\ joined = 0 /\ result = Empty

(***************************************************************************)
(* An empty file cannot be mapped.                                         *)
(***************************************************************************)
MapFile ==
  /\ pc = "map"
  /\ file.size > 0
  /\ \E count \in 1 .. MaxCores : cores' = IF file.size <= MinFileSize THEN 1 ELSE count
  /\ ptr' = file.size \div cores'
  /\ pc' = IF file.size \div cores' > MaxLength THEN "undefined" ELSE "split"
  /\ UNCHANGED <<file, partStartPtr, offset, threadDatas, threads, joined, result>>

MapFails ==
  /\ pc = "map"
  /\ pc' = "failed"
  /\ UNCHANGED <<file, cores, splitVars, threadDatas, threads, joined, result>>

AddPart(length) ==
  threadDatas' = Append(threadDatas,
    [Ptr |-> partStartPtr, Length |-> length, ThreadResult |-> Empty])

(***************************************************************************)
(* The scan meets a newline.  The part ends there, before the end of the   *)
(* file, so that the test for going past that never holds here.            *)
(***************************************************************************)
CutPart ==
  /\ pc = "split"
  /\ \E newline \in file.newlines :
       /\ ptr <= newline
       /\ StopsAt(file, ptr, newline)
       /\ newline - partStartPtr <= MaxLength
       /\ AddPart(newline - partStartPtr)
       /\ partStartPtr' = NextStart(newline)
       /\ ptr' = NextScan(partStartPtr')
       /\ offset' = offset + (newline - ptr) + 1
  /\ UNCHANGED <<file, pc, cores, threads, joined, result>>

(***************************************************************************)
(* The scan meets a zero.                                                  *)
(***************************************************************************)
LastPart ==
  /\ pc = "split"
  /\ \E zero \in file.size .. MappedEnd(file) - 1 :
       /\ ptr <= zero
       /\ StopsAt(file, ptr, zero)
       /\ zero - partStartPtr <= MaxLength
       /\ offset' = offset + (zero - ptr)
       /\ AddPart(LastLength(partStartPtr, zero - partStartPtr, offset'))
  /\ pc' = "start"
  /\ UNCHANGED <<file, cores, partStartPtr, ptr, threads, joined, result>>

(***************************************************************************)
(* The scan meets neither, or counts further than an int does.             *)
(***************************************************************************)
ScanRunsOff ==
  /\ pc = "split"
  /\ \A p \in ptr .. MappedEnd(file) - 1 :
       StopsAt(file, ptr, p) => p - partStartPtr > MaxLength
  /\ pc' = "undefined"
  /\ UNCHANGED <<file, cores, splitVars, threadDatas, threads, joined, result>>

StartThread ==
  /\ pc = "start"
  /\ Len(threads) < Len(threadDatas)
  /\ threads' = Append(threads, "running")
  /\ UNCHANGED <<file, pc, cores, splitVars, threadDatas, joined, result>>

AllStarted ==
  /\ pc = "start"
  /\ Len(threads) = Len(threadDatas)
  /\ pc' = "join"
  /\ UNCHANGED <<file, cores, splitVars, threadDatas, threads, joined, result>>

-----------------------------------------------------------------------------
PartEnd(i) == threadDatas[i].Ptr + threadDatas[i].Length

(***************************************************************************)
(* The rows thread i handles: those whose newline it meets.                *)
(***************************************************************************)
RowsHandled(i) == {p \in file.newlines : threadDatas[i].Ptr <= p /\ p < PartEnd(i)}

Keyed(f) ==
  [f EXCEPT !.row = [p \in Rows(f) |-> [name |-> KeyOf(f.row[p]), temp |-> f.row[p].temp]]]

HandleLine(dictionary, p) == AddRow(dictionary, Keyed(file).row[p])

Alive == pc \in {"start", "join"}

ThreadRunner(i) ==
  /\ Alive
  /\ threads[i] = "running"
  /\ threadDatas[i].Length >= 0
  /\ threadDatas' = [threadDatas EXCEPT ![i].ThreadResult =
       FoldSet(LAMBDA p, dictionary : HandleLine(dictionary, p), Empty, RowsHandled(i))]
  /\ threads' = [threads EXCEPT ![i] = "done"]
  /\ UNCHANGED <<file, pc, cores, splitVars, joined, result>>

(***************************************************************************)
(* A span of a negative length is an exception, and nothing catches it.    *)
(***************************************************************************)
ThreadThrows(i) ==
  /\ Alive
  /\ threads[i] = "running"
  /\ threadDatas[i].Length < 0
  /\ pc' = "failed"
  /\ UNCHANGED <<file, cores, splitVars, threadDatas, threads, joined, result>>

Thread(i) == ThreadRunner(i) \/ ThreadThrows(i)

-----------------------------------------------------------------------------
\* Mutant: a thread is not waited for.
NotJoined(i) == TRUE

Join(i) == threads[i] = "done"

JoinAndMerge ==
  /\ pc = "join"
  /\ joined < Len(threads)
  /\ Join(joined + 1)
  /\ result' = MergeTable(result, threadDatas[joined + 1].ThreadResult)
  /\ joined' = joined + 1
  /\ UNCHANGED <<file, pc, cores, splitVars, threadDatas, threads>>

\* Mutant: Main waits for a thread per core.
JoinedPerCore == joined = cores

AllJoined == joined = Len(threads)

PrintResult ==
  /\ pc = "join"
  /\ AllJoined
  /\ pc' = "printed"
  /\ UNCHANGED <<file, cores, splitVars, threadDatas, threads, joined, result>>

Main == \/ MapFile \/ MapFails \/ CutPart \/ LastPart \/ ScanRunsOff
        \/ StartThread \/ AllStarted \/ JoinAndMerge \/ PrintResult

Next == Main \/ (\E i \in DOMAIN threads : Thread(i))

(***************************************************************************)
(* The runtime runs every thread that can run.                             *)
(***************************************************************************)
Spec ==
  /\ Init /\ [][Next]_vars
  /\ WF_vars(Main)
  /\ \A i \in 1 .. MaxCores : WF_vars(i \in DOMAIN threads /\ Thread(i))

-----------------------------------------------------------------------------
ThreadData == [Ptr : Nat, Length : Int, ThreadResult : Tables]

(***************************************************************************)
(* Type invariant.                                                         *)
(***************************************************************************)
TypeOK ==
  /\ IsFile(file)
  /\ pc \in {"map", "split", "start", "join", "printed", "failed", "undefined"}
  /\ cores \in 1 .. MaxCores
  /\ partStartPtr \in 0 .. file.size
  /\ ptr \in Nat
  /\ offset \in Nat
  /\ threadDatas \in Seq(ThreadData)
  /\ threads \in Seq({"running", "done"})
  /\ joined \in 0 .. Len(threads)
  /\ result \in Tables

(***************************************************************************)
(* The parts follow one another from the first byte with one newline       *)
(* between them, and there are no more of them than cores, although the    *)
(* scans step over a byte each.  And the variables keep their types.       *)
(***************************************************************************)
PartsFollow ==
  /\ TypeOK
  /\ \A i \in DOMAIN threadDatas :
       /\ threadDatas[i].Ptr = IF i = 1 THEN 0 ELSE PartEnd(i - 1) + 1
       /\ i < Len(threadDatas) => PartEnd(i) \in file.newlines
  /\ Len(threadDatas) <= cores

(***************************************************************************)
(* The bytes the parts got beyond their share are all subtracted from the  *)
(* last part.  That takes no row from it as long as they, and the newlines *)
(* between the parts, are no more than one share.                          *)
(***************************************************************************)
LastPartComplete ==
  pc \in {"start", "join", "printed"} /\ offset + Len(threadDatas) - 1 <= bytesPerCore =>
    PartEnd(Len(threadDatas)) >= file.size

(***************************************************************************)
(* No thread reads beyond the mapping, although the last part may go past  *)
(* the end of the file.                                                    *)
(***************************************************************************)
ThreadsStayInMapping == \A i \in DOMAIN threadDatas : PartEnd(i) <= MappedEnd(file)

(***************************************************************************)
(* The pointer of SplitIntoChunks leaves the mapping only if the last page *)
(* has no more bytes after the file than the parts got beyond their share  *)
(* and there are newlines between them, or lengths do not fit into an int. *)
(***************************************************************************)
UndefinedOnlyAtPageEdge ==
  pc = "undefined" =>
    \/ MappedEnd(file) - file.size <= offset + Len(threadDatas)
    \/ file.size > MaxLength

Reference == INSTANCE Tally WITH Names <- Keys, Files <- {Keyed(f) : f \in Files}

(***************************************************************************)
(* What the program prints for a key is the statistics of the rows of that *)
(* key that have a newline before the end of the last part, except the     *)
(* last row of every part but the last, and of a temperature of zero that  *)
(* is not counted.                                                         *)
(***************************************************************************)
LostRows == {PartEnd(i) : i \in 1 .. Len(threadDatas) - 1}

CountedRows == {p \in file.newlines : p < PartEnd(Len(threadDatas))} \ LostRows

WithZero(table) ==
  [k \in Keys |-> IF table[k] = Absent THEN Absent
                  ELSE [table[k] EXCEPT !.min = Lesser(0, table[k].min),
                                        !.max = Greater(0, table[k].max)]]

PrintsAllButLostRows ==
  pc = "printed" => result = WithZero(Reference!Tally(Keyed(file), CountedRows))

(***************************************************************************)
(* The program comes to an end.                                            *)
(***************************************************************************)
Terminates == <>(pc \in {"printed", "failed", "undefined"})

(***************************************************************************)
(* The minimum printed for a station is one of its temperatures.           *)
(***************************************************************************)
MinimumIsMeasured ==
  pc = "printed" =>
    \A k \in Keys : result[k] # Absent =>
      \E p \in Rows(file) : KeyOf(file.row[p]) = k /\ file.row[p].temp = result[k].min
=============================================================================
