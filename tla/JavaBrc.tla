------------------------------- MODULE JavaBrc -------------------------------
(***************************************************************************)
(* The Java program: BrcRunner.main cuts the file into FileChunks, reading *)
(* it with a RandomAccessFile, starts a thread for each chunk, which maps  *)
(* its part of the file and adds a row at each newline it meets there,     *)
(* then joins the threads in order and merges their maps, and prints.      *)
(*                                                                         *)
(* The threads share nothing until they are joined: the run of a thread is *)
(* one action.  Nothing interrupts main, so that join never fails.  The    *)
(* bytes that clearBuffer leaves behind a row are not read: a row is       *)
(* parsed from its first byte to the digit after its point.                *)
(***************************************************************************)
EXTENDS Tally, Sequences

INSTANCE Temperature WITH MinInit <- 100000, MaxInit <- -100000

CONSTANTS
  MaxCores,     \* the most availableProcessors may return
  SmallFile,    \* a file of fewer bytes is left to one thread (10000)
  MaxMap,       \* the longest part of a file map takes (Integer.MAX_VALUE)
  BufferSize    \* BUFFER_SIZE, the longest row a thread can hold

ASSUME JavaAssumption ==
  /\ MaxCores \in Nat \ {0}
  /\ SmallFile \in Nat
  /\ MaxMap \in Nat
  /\ BufferSize \in Nat \ {0}
  /\ Absent \notin Stat

VARIABLES
  file,           \* the file named by args[0]
  pc,             \* where main is
  cores,
  filePtr,        \* the start of the chunk being cut
  chunkLength,
  fileChunks,     \* the chunks, with the map of their threads
  threads,        \* the threads started: "running", "done" or "failed"
  joined,         \* how many threads main has joined and merged
  result          \* main's map

splitVars == <<filePtr, chunkLength>>
vars == <<file, pc, cores, splitVars, fileChunks, threads, joined, result>>

-----------------------------------------------------------------------------
(***************************************************************************)
(* size / n, rounded to the nearest integer.                               *)
(***************************************************************************)
BytesPerChunk(size, n) == (2 * size + n) \div (2 * n)

bytesPerChunk == BytesPerChunk(file.size, cores)

\* Mutant: the chunk length is kept where it would pass the end of the file.
KeepLength(ptr, length, size) == length

Shrink(ptr, length, size) ==
  IF ptr + length > size THEN length - (ptr + length - size) ELSE length

\* Mutant: the newline a chunk ends at is left to the next chunk.
NextAtNewline(ptr, length) == ptr + length

NextPtr(ptr, length) == ptr + length + 1

-----------------------------------------------------------------------------
Init ==
  /\ file \in Files
  /\ pc = "open"
  /\ cores = 1
  /\ filePtr = 0 /\ chunkLength = 0
  /\ fileChunks = <<>> /\ threads = <<>>
  /\ joined = 0 /\ result = Empty

OpenFile ==
  /\ pc = "open"
  /\ \E processors \in 1 .. MaxCores :
       cores' = IF file.size < SmallFile THEN 1 ELSE processors
  /\ chunkLength' = BytesPerChunk(file.size, cores')
  /\ pc' = "split"
  /\ UNCHANGED <<file, filePtr, fileChunks, threads, joined, result>>

(***************************************************************************)
(* An IOException of main, opening or reading the file, ends the program.  *)
(***************************************************************************)
FileFails ==
  /\ pc \in {"open", "split"}
  /\ pc' = "failed"
  /\ UNCHANGED <<file, cores, splitVars, fileChunks, threads, joined, result>>

AddChunk(length) ==
  fileChunks' = Append(fileChunks,
    [start |-> filePtr, length |-> length, fileChunkResult |-> Empty])

(***************************************************************************)
(* One turn of the loop of main: the scan that begins bytesPerChunk bytes  *)
(* into the chunk meets a newline.  The chunk's length does not count it.  *)
(***************************************************************************)
CutChunk ==
  /\ pc = "split"
  /\ \E newline \in file.newlines :
       LET from   == filePtr + bytesPerChunk
           length == chunkLength + (newline - from)
       IN  /\ from <= newline
           /\ \A p \in from .. newline - 1 : p \notin file.newlines
           /\ AddChunk(length)
           /\ filePtr' = NextPtr(filePtr, length)
           /\ chunkLength' = Shrink(filePtr', bytesPerChunk, file.size)
  /\ UNCHANGED <<file, pc, cores, threads, joined, result>>

(***************************************************************************)
(* The scan meets the end of the file: this chunk is the last.             *)
(***************************************************************************)
LastChunk ==
  /\ pc = "split"
  /\ \A p \in file.newlines : p < filePtr + bytesPerChunk
  /\ AddChunk(chunkLength + Max({0, file.size - (filePtr + bytesPerChunk)}))
  /\ pc' = "start"
  /\ UNCHANGED <<file, cores, splitVars, threads, joined, result>>

StartThread ==
  /\ pc = "start"
  /\ Len(threads) < Len(fileChunks)
  /\ threads' = Append(threads, "running")
  /\ UNCHANGED <<file, pc, cores, splitVars, fileChunks, joined, result>>

AllStarted ==
  /\ pc = "start"
  /\ Len(threads) = Len(fileChunks)
  /\ pc' = "join"
  /\ UNCHANGED <<file, cores, splitVars, fileChunks, threads, joined, result>>

-----------------------------------------------------------------------------
(***************************************************************************)
(* Where a chunk has more bytes without a newline than fit into the buffer *)
(* of its thread, and the rows before that whose newline the thread meets. *)
(***************************************************************************)
Overflows(chunk) ==
  {p \in chunk.start .. chunk.start + chunk.length - BufferSize - 1 :
     \A q \in p .. p + BufferSize : q \notin file.newlines}

RowsAdded(chunk) ==
  {p \in file.newlines : /\ chunk.start <= p /\ p < chunk.start + chunk.length
                         /\ \A q \in Overflows(chunk) : p < q}

Alive == pc \in {"start", "join"}

(***************************************************************************)
(* The thread of chunk i runs.  An exception, for a row longer than the    *)
(* buffer, ends it with what it has so far.                                *)
(***************************************************************************)
Run(i) ==
  /\ Alive
  /\ threads[i] = "running"
  /\ fileChunks[i].length <= MaxMap
  /\ fileChunks' = [fileChunks EXCEPT ![i].fileChunkResult =
       FoldSet(LAMBDA p, map : AddRow(map, file.row[p]), Empty, RowsAdded(fileChunks[i]))]
  /\ threads' = [threads EXCEPT ![i] =
       IF Overflows(fileChunks[i]) = {} THEN "done" ELSE "failed"]
  /\ UNCHANGED <<file, pc, cores, splitVars, joined, result>>

(***************************************************************************)
(* The file cannot be opened or mapped: the exception is printed, and the  *)
(* thread ends with an empty map.                                          *)
(***************************************************************************)
MapFails(i) ==
  /\ Alive
  /\ threads[i] = "running"
  /\ threads' = [threads EXCEPT ![i] = "failed"]
  /\ UNCHANGED <<file, pc, cores, splitVars, fileChunks, joined, result>>

Thread(i) == Run(i) \/ MapFails(i)

-----------------------------------------------------------------------------
\* Mutant: the entries of stations seen before are replaced.
PutAll(global, map) == [n \in Names |-> IF map[n] = Absent THEN global[n] ELSE map[n]]

(***************************************************************************)
(* BrcRunner.merge: a station not seen before gets the thread's entry.     *)
(***************************************************************************)
MergeMap(global, map) ==
  [n \in Names |-> IF map[n] = Absent    THEN global[n]
                   ELSE IF global[n] = Absent THEN map[n]
                   ELSE Merge(global[n], map[n])]

\* Mutant: a thread that fails does not report its end.
HasSucceeded(i) == threads[i] = "done"

Ended(i) == threads[i] # "running"

JoinAndMerge ==
  /\ pc = "join"
  /\ joined < Len(threads)
  /\ Ended(joined + 1)
  /\ result' = MergeMap(result, fileChunks[joined + 1].fileChunkResult)
  /\ joined' = joined + 1
  /\ UNCHANGED <<file, pc, cores, splitVars, fileChunks, threads>>

PrintResult ==
  /\ pc = "join"
  /\ joined = Len(threads)
  /\ pc' = "printed"
  /\ UNCHANGED <<file, cores, splitVars, fileChunks, threads, joined, result>>

Main == \/ OpenFile \/ FileFails \/ CutChunk \/ LastChunk
        \/ StartThread \/ AllStarted \/ JoinAndMerge \/ PrintResult

Next == Main \/ (\E i \in DOMAIN threads : Thread(i))

(***************************************************************************)
(* The virtual machine runs every thread that can run.                     *)
(***************************************************************************)
Spec ==
  /\ Init /\ [][Next]_vars
  /\ WF_vars(Main)
  /\ \A i \in 1 .. MaxCores : WF_vars(i \in DOMAIN threads /\ Thread(i))

-----------------------------------------------------------------------------
Chunk == [start : Nat, length : Nat, fileChunkResult : Tables]

(***************************************************************************)
(* Type invariant.                                                         *)
(***************************************************************************)
TypeOK ==
  /\ IsFile(file)
  /\ pc \in {"open", "split", "start", "join", "printed", "failed"}
  /\ cores \in 1 .. MaxCores
  /\ filePtr \in 0 .. file.size
  /\ chunkLength \in 0 .. file.size
  /\ fileChunks \in Seq(Chunk)
  /\ threads \in Seq({"running", "done", "failed"})
  /\ joined \in 0 .. Len(threads)
  /\ result \in Tables

ChunkEnd(k) == fileChunks[k].start + fileChunks[k].length

(***************************************************************************)
(* The chunks follow one another with one newline between them, from the   *)
(* first byte, and the last one ends where the file ends, for all that its *)
(* length and the place its scan begins at are computed from different     *)
(* chunk lengths.  And the variables keep their types.                     *)
(***************************************************************************)
ChunksFollow ==
  /\ TypeOK
  /\ \A k \in DOMAIN fileChunks :
       /\ fileChunks[k].start = IF k = 1 THEN 0 ELSE ChunkEnd(k - 1) + 1
       /\ k < Len(fileChunks) => ChunkEnd(k) \in file.newlines
  /\ pc \in {"start", "join", "printed"} => ChunkEnd(Len(fileChunks)) = file.size

(***************************************************************************)
(* main makes no more chunks than there are cores, the empty one it makes  *)
(* when a newline ends the chunk before the last included.                 *)
(***************************************************************************)
OneThreadPerCore == Len(fileChunks) <= cores

AllDone == \A i \in DOMAIN threads : threads[i] = "done"

(***************************************************************************)
(* What the program prints, if no thread fails, is the statistics of all   *)
(* rows that have a newline except the last row of every chunk but the     *)
(* last.  A thread adds a row when it meets its newline, and the newline a *)
(* chunk ends at is not part of it.                                        *)
(***************************************************************************)
LostRows == {ChunkEnd(k) : k \in 1 .. Len(fileChunks) - 1}

PrintsAllButLostRows ==
  pc = "printed" /\ AllDone => result = Tally(file, file.newlines \ LostRows)

(***************************************************************************)
(* The program counts every row of a file that ends with a newline.        *)
(***************************************************************************)
CountsEveryRow ==
  pc = "printed" /\ AllDone /\ Terminated(file) => result = Tally(file, Rows(file))

(***************************************************************************)
(* Every run of the program comes to an end, whatever fails.               *)
(***************************************************************************)
Terminates == <>(pc \in {"printed", "failed"})
=============================================================================
