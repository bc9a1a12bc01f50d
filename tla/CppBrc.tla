------------------------------- MODULE CppBrc -------------------------------
(***************************************************************************)
(* The C++ program, cpp/CppBrc: main maps the whole file, cuts it into one *)
(* chunk per core at newlines (splitFile), starts a thread per chunk that  *)
(* fills a map of its own (threadProc), then joins the threads in order,   *)
(* merging each one's map into the result (mergeFromThread), unmaps the    *)
(* file and prints.                                                        *)
(*                                                                         *)
(* Offsets into the file stand for the iterators into the mapping.  The    *)
(* bytes from the end of the file to the end of its last page read as      *)
(* zero; beyond that page nothing is mapped and the behaviour of the       *)
(* program is undefined: the model stops there, in "undefined".  A         *)
(* shared_ptr is the set of what it points to, empty for a null pointer.   *)
(***************************************************************************)
EXTENDS FileMapping, Sequences

INSTANCE Temperature WITH MinInit <- 10000, MaxInit <- -10000

CONSTANTS
  MaxCores,     \* the most std::thread::hardware_concurrency may return
  SmallFile     \* a file of fewer bytes is left to one thread (10000)

ASSUME CppAssumption ==
  /\ MaxCores \in Nat \ {0}
  /\ SmallFile \in Nat
  /\ Absent \notin Stat

VARIABLES
  file,               \* the file named by argv[1]
  pc,                 \* where main is
  cores,              \* cores in main, coreCount in splitFile
  iter,               \* in splitFile: the start of the chunk being cut
  filePos,            \* in splitFile
  currentChunkSize,   \* in splitFile
  fileChunks,         \* the chunks, with the map their threads publish
  threads,            \* the threads started, thread i on chunk i
  joined,             \* how many threads main has joined and merged
  result              \* main's map

splitVars == <<iter, filePos, currentChunkSize>>
vars == <<file, pc, cores, splitVars, fileChunks, threads, joined, result>>

-----------------------------------------------------------------------------
(***************************************************************************)
(* q ends the row a thread finds at p.                                     *)
(***************************************************************************)
RowEndsAt(f, p, q) == q \in f.newlines /\ \A k \in p .. q - 1 : k \notin f.newlines

-----------------------------------------------------------------------------
(***************************************************************************)
(* The size of a chunk: size / n rounded to the nearest integer.           *)
(***************************************************************************)
ChunkSize(size, n) == IF n > 1 THEN (2 * size + n) \div (2 * n) ELSE size

\* Mutant: a chunk that would pass the end of the file is not cut down.
KeepChunk(pos, chunkSize, size) == chunkSize

\* Mutant: the bytes left after the next chunk are taken for its size.
ShrinkSwapped(pos, chunkSize, size) ==
  IF pos + chunkSize > size THEN size - (pos + chunkSize) ELSE chunkSize

(***************************************************************************)
(* The chunk size is cut down when the next chunk would pass the end of    *)
(* the file, judged from filePos.                                          *)
(***************************************************************************)
Shrink(pos, chunkSize, size) ==
  IF pos + chunkSize > size THEN chunkSize - (pos + chunkSize - size) ELSE chunkSize

\* Mutant: the newline a chunk ends at is left to the next chunk.
NextStartAtNewline(chunkEnd) == chunkEnd

NextStart(chunkEnd) == chunkEnd + 1

-----------------------------------------------------------------------------
Init ==
  /\ file \in Files
  /\ pc = "map"
  /\ cores = 0
  /\ iter = 0
  /\ filePos = 0
  /\ currentChunkSize = 0
  /\ fileChunks = <<>>
  /\ threads = <<>>
  /\ joined = 0
  /\ result = Empty

(***************************************************************************)
(* main maps the file, picks the number of cores and calls splitFile.      *)
(* hardware_concurrency returns 0 when it cannot tell.                     *)
(***************************************************************************)
MapFile ==
  /\ pc = "map"
  /\ file.size > 0
  /\ \E hardware \in 0 .. MaxCores :
       cores' = IF file.size < SmallFile THEN 1 ELSE hardware
  /\ currentChunkSize' = ChunkSize(file.size, cores')
  /\ pc' = "split"
  /\ UNCHANGED <<file, iter, filePos, fileChunks, threads, joined, result>>

(***************************************************************************)
(* The file is missing, unreadable or empty.  The error is ignored and     *)
(* splitFile takes begin() of a mapping that does not exist.               *)
(***************************************************************************)
MapFails ==
  /\ pc = "map"
  /\ pc' = "unmapped"
  /\ UNCHANGED <<file, cores, splitVars, fileChunks, threads, joined, result>>

(***************************************************************************)
(* One turn of the loop of splitFile: a chunk runs from iter to the first  *)
(* newline or zero at least currentChunkSize bytes further.  filePos does  *)
(* not count the newlines between chunks, iter does.                       *)
(***************************************************************************)
CutChunk ==
  /\ pc = "split"
  /\ iter # file.size
  /\ \E chunkEnd \in iter + currentChunkSize .. MappedEnd(file) - 1 :
       /\ StopsAt(file, iter + currentChunkSize, chunkEnd)
       /\ fileChunks' = Append(fileChunks,
            [start |-> iter, end |-> chunkEnd, chunkResult |-> {}])
       /\ filePos' = filePos + (chunkEnd - iter)
       /\ IF IsZero(file, chunkEnd)
          THEN /\ pc' = "spawn"
               /\ UNCHANGED <<iter, currentChunkSize>>
          ELSE /\ iter' = NextStart(chunkEnd)
               /\ currentChunkSize' = Shrink(filePos', currentChunkSize, file.size)
               /\ UNCHANGED pc
  /\ UNCHANGED <<file, cores, threads, joined, result>>

(***************************************************************************)
(* The scan for the end of a chunk runs off the mapping.                   *)
(***************************************************************************)
ScanRunsOff ==
  /\ pc = "split"
  /\ iter # file.size
  /\ RunsOff(file, iter + currentChunkSize)
  /\ pc' = "undefined"
  /\ UNCHANGED <<file, cores, splitVars, fileChunks, threads, joined, result>>

SplitDone ==
  /\ pc = "split"
  /\ iter = file.size
  /\ pc' = "spawn"
  /\ UNCHANGED <<file, cores, splitVars, fileChunks, threads, joined, result>>

(***************************************************************************)
(* main starts the thread of the next chunk, and once all are started goes *)
(* on to join them.                                                        *)
(***************************************************************************)
StartThread ==
  /\ pc = "spawn"
  /\ Len(threads) < Len(fileChunks)
  /\ threads' = Append(threads,
       [iter |-> fileChunks[Len(threads) + 1].start, map |-> Empty, running |-> TRUE])
  /\ UNCHANGED <<file, pc, cores, splitVars, fileChunks, joined, result>>

AllStarted ==
  /\ pc = "spawn"
  /\ Len(threads) = Len(fileChunks)
  /\ pc' = "join"
  /\ UNCHANGED <<file, cores, splitVars, fileChunks, threads, joined, result>>

-----------------------------------------------------------------------------
(***************************************************************************)
(* threadProc, on the thread of chunk i.  A process that printed or went   *)
(* wrong has no more threads.                                              *)
(***************************************************************************)
Alive == pc \in {"spawn", "join"}

AtEnd(i) ==
  \/ threads[i].iter >= fileChunks[i].end
  \/ IsZero(file, threads[i].iter)

(***************************************************************************)
(* The thread adds the row at its iter to its map.                         *)
(***************************************************************************)
ReadRow(i) ==
  /\ Alive
  /\ threads[i].running
  /\ ~ AtEnd(i)
  /\ \E newline \in threads[i].iter .. file.size - 1 :
       /\ RowEndsAt(file, threads[i].iter, newline)
       /\ threads' = [threads EXCEPT
            ![i].map  = AddRow(@, file.row[newline]),
            ![i].iter = newline + 1]
  /\ UNCHANGED <<file, pc, cores, splitVars, fileChunks, joined, result>>

(***************************************************************************)
(* The last row has no newline: the search for it has no other limit.      *)
(***************************************************************************)
RowRunsOff(i) ==
  /\ Alive
  /\ threads[i].running
  /\ ~ AtEnd(i)
  /\ \A p \in threads[i].iter .. file.size - 1 : p \notin file.newlines
  /\ pc' = "undefined"
  /\ UNCHANGED <<file, cores, splitVars, fileChunks, threads, joined, result>>

(***************************************************************************)
(* The thread stores its map in its chunk and ends.                        *)
(***************************************************************************)
Publish(i) ==
  /\ Alive
  /\ threads[i].running
  /\ AtEnd(i)
  /\ fileChunks' = [fileChunks EXCEPT ![i].chunkResult = {threads[i].map}]
  /\ threads' = [threads EXCEPT ![i].running = FALSE]
  /\ UNCHANGED <<file, pc, cores, splitVars, joined, result>>

Thread(i) == ReadRow(i) \/ RowRunsOff(i) \/ Publish(i)

-----------------------------------------------------------------------------
(***************************************************************************)
(* main joins the next thread and merges the map of its chunk; a chunk     *)
(* without a map is a null pointer dereferenced.                           *)
(***************************************************************************)
JoinAndMerge ==
  /\ pc = "join"
  /\ joined < Len(threads)
  /\ ~ threads[joined + 1].running
  /\ \/ \E map \in fileChunks[joined + 1].chunkResult :
          /\ result' = MergeTable(result, map)
          /\ joined' = joined + 1
          /\ UNCHANGED pc
     \/ /\ fileChunks[joined + 1].chunkResult = {}
        /\ pc' = "undefined"
        /\ UNCHANGED <<joined, result>>
  /\ UNCHANGED <<file, cores, splitVars, fileChunks, threads>>

\* Mutant: main joins as many threads as there are cores.
JoinedPerCore == joined = cores

AllJoined == joined = Len(threads)

(***************************************************************************)
(* All are merged: main unmaps the file and prints the stations in order.  *)
(***************************************************************************)
UnmapAndPrint ==
  /\ pc = "join"
  /\ AllJoined
  /\ pc' = "printed"
  /\ UNCHANGED <<file, cores, splitVars, fileChunks, threads, joined, result>>

Main == \/ MapFile \/ MapFails \/ CutChunk \/ ScanRunsOff \/ SplitDone
        \/ StartThread \/ AllStarted \/ JoinAndMerge \/ UnmapAndPrint

Next == Main \/ (\E i \in DOMAIN threads : Thread(i))

(***************************************************************************)
(* The operating system runs every thread that can run.                    *)
(***************************************************************************)
Spec ==
  /\ Init /\ [][Next]_vars
  /\ WF_vars(Main)
  /\ \A i \in 1 .. MaxCores : WF_vars(i \in DOMAIN threads /\ Thread(i))

-----------------------------------------------------------------------------
Chunk == [start : Nat, end : Nat, chunkResult : SUBSET Tables]

ThreadState == [iter : Nat, map : Tables, running : BOOLEAN]

(***************************************************************************)
(* Type invariant.                                                         *)
(***************************************************************************)
TypeOK ==
  /\ IsFile(file)
  /\ pc \in {"map", "split", "spawn", "join", "printed", "unmapped", "undefined"}
  /\ cores \in Nat
  /\ iter \in Nat
  /\ filePos \in Nat
  /\ currentChunkSize \in Nat
  /\ fileChunks \in Seq(Chunk)
  /\ threads \in Seq(ThreadState)
  /\ joined \in Nat
  /\ result \in Tables

(***************************************************************************)
(* The chunks splitFile has cut so far lie one after the other, from the   *)
(* first byte of the file on: each begins at the start of a row, each but  *)
(* the last ends at a newline, the next begins right after it, and when    *)
(* splitFile is done they reach the end of the file.  So no row is split   *)
(* between two threads, read by two of them or left out.                   *)
(***************************************************************************)
ChunksTile ==
  /\ \A k \in DOMAIN fileChunks :
       /\ fileChunks[k].start = IF k = 1 THEN 0 ELSE fileChunks[k-1].end + 1
       /\ fileChunks[k].start < file.size
       /\ fileChunks[k].end \notin file.newlines =>
            k = Len(fileChunks) /\ fileChunks[k].end >= file.size
  /\ pc \in {"spawn", "join", "printed"} =>
       /\ fileChunks # <<>>
       /\ fileChunks[Len(fileChunks)].end >= file.size - 1

(***************************************************************************)
(* splitFile never makes more chunks than there are cores, so main starts  *)
(* at most one thread per core: the rounding of the chunk size and the     *)
(* bytes skipped to the next newline never add up to one more chunk.       *)
(***************************************************************************)
OneThreadPerCore == Len(fileChunks) <= IF cores > 1 THEN cores ELSE 1

(***************************************************************************)
(* currentChunkSize is a size_t: the offset taken from it, computed from a *)
(* filePos that lags behind iter, never exceeds it, and a chunk is never   *)
(* larger than the file.                                                   *)
(***************************************************************************)
NoSizeWrap == pc # "map" => currentChunkSize \in 0 .. file.size

(***************************************************************************)
(* The program leaves the mapping only when the file is one it cannot      *)
(* take: its last row has no newline, or its last page has fewer spare     *)
(* bytes than there are cores.                                             *)
(***************************************************************************)
UndefinedOnlyAtPageEdge ==
  pc = "undefined" =>
    \/ ~ Terminated(file)
    \/ MappedEnd(file) - file.size < IF cores > 1 THEN cores ELSE 1

(***************************************************************************)
(* The mapping is removed only when no thread can still read from it.      *)
(***************************************************************************)
NoThreadOutlivesMapping ==
  pc = "printed" => \A i \in DOMAIN threads : ~ threads[i].running

(***************************************************************************)
(* The program implements Brc: a chunk's rows are absorbed when main       *)
(* merges its map.                                                         *)
(***************************************************************************)
ChunkRows(k) == {p \in Rows(file) : fileChunks[k].start <= p /\ p <= fileChunks[k].end}

Promise == INSTANCE Brc WITH
  absorbed <- UNION {ChunkRows(k) : k \in 1 .. joined},
  answer   <- result,
  status   <- CASE pc = "printed" -> "printed"
                [] pc \in {"unmapped", "undefined"} -> "aborted"
                [] OTHER -> "running"

ImplementsBrc == Promise!Spec
=============================================================================
