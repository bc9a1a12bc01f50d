------------------------------ MODULE PythonBrc ------------------------------
(***************************************************************************)
(* The Python program.  main reads the file in search of the ends of       *)
(* chunks and starts a process for each chunk as soon as it has found it.  *)
(* A process makes a dictionary of the rows whose newline it meets in its  *)
(* chunk, and puts it into a queue that main has bounded by core_count.    *)
(* main joins the processes in order and takes one dictionary from the     *)
(* queue for each: whichever has been there longest.                       *)
(*                                                                         *)
(* A process that fails puts nothing.  os.cpu_count never gives None.      *)
(***************************************************************************)
EXTENDS Tally, Sequences

INSTANCE Temperature WITH MinInit <- 1000000, MaxInit <- -1000000

CONSTANTS
  MaxCores,     \* the most os.cpu_count may return
  SmallFile     \* a file of fewer bytes gets two processes (1024 * 1024)

ASSUME PythonAssumption ==
  /\ MaxCores \in Nat \ {0}
  /\ SmallFile \in Nat
  /\ Absent \notin Stat

VARIABLES
  file,                 \* the file named by argv[1]
  pc,                   \* where main is
  core_count,
  current_chunk_start,  \* the start of the chunk being cut
  offset,               \* the bytes by which chunks exceeded bytes_per_proc
  chunk_procs,          \* the processes: their chunk, dictionary and state
  queue,
  joined,               \* how many processes main has joined
  result                \* main's dictionary

vars == <<file, pc, core_count, current_chunk_start, offset, chunk_procs,
          queue, joined, result>>

-----------------------------------------------------------------------------
MostCores == Max({2, MaxCores})

bytes_per_proc == file.size \div core_count

\* Mutant: one place less than there may be processes.
OnePlaceLess == core_count - 1

QueueSize == core_count

\* Mutant: the newline a chunk ends at is left to the next chunk.
StartAtNewline(newline) == newline

NextStart(newline) == newline + 1

\* Mutant: the newlines between the chunks are subtracted as well.
WithoutNewlines(start, length, extra) ==
  IF start + length > file.size /\ core_count > 1
  THEN length - extra - Len(chunk_procs)
  ELSE length

(***************************************************************************)
(* The length of the chunk the file ends in: if it would go past the end   *)
(* of the file, offset is subtracted.                                      *)
(***************************************************************************)
LastLength(start, length, extra) ==
  IF start + length > file.size /\ core_count > 1 THEN length - extra ELSE length

Start(start, length) ==
  chunk_procs' = Append(chunk_procs,
    [start_pos |-> start, length |-> length, proc_result |-> Empty, state |-> "running"])

-----------------------------------------------------------------------------
Init ==
  /\ file \in Files
  /\ pc = "open"
  /\ core_count = 1
  /\ current_chunk_start = 0 /\ offset = 0
  /\ chunk_procs = <<>> /\ queue = <<>>
  /\ joined = 0 /\ result = Empty

OpenFile ==
  /\ pc = "open"
  /\ \E cpu_count \in 1 .. MaxCores :
       core_count' = IF file.size < SmallFile THEN 2 ELSE cpu_count
  /\ pc' = "split"
  /\ UNCHANGED <<file, current_chunk_start, offset, chunk_procs, queue, joined, result>>

OpenFails ==
  /\ pc = "open"
  /\ pc' = "failed"
  /\ UNCHANGED <<file, core_count, current_chunk_start, offset, chunk_procs, queue,
                 joined, result>>

(***************************************************************************)
(* The scan that begins bytes_per_proc bytes into the chunk meets a        *)
(* newline.  The chunk ends there, before the end of the file, so that the *)
(* test for going past that never holds here.                              *)
(***************************************************************************)
CutChunk ==
  /\ pc = "split"
  /\ \E newline \in file.newlines :
       LET from  == current_chunk_start + bytes_per_proc
           extra == newline - from
       IN  /\ from <= newline
           /\ \A p \in from .. newline - 1 : p \notin file.newlines
           /\ offset' = offset + extra
           /\ Start(current_chunk_start, bytes_per_proc + extra)
           /\ current_chunk_start' = NextStart(newline)
  /\ UNCHANGED <<file, pc, core_count, queue, joined, result>>

(***************************************************************************)
(* The scan meets the end of the file.                                     *)
(***************************************************************************)
LastChunk ==
  LET from  == current_chunk_start + bytes_per_proc
      extra == Max({0, file.size - from})
  IN  /\ pc = "split"
      /\ \A p \in file.newlines : p < from
      /\ offset' = offset + extra
      /\ Start(current_chunk_start,
               LastLength(current_chunk_start, bytes_per_proc + extra, offset'))
      /\ pc' = "join"
      /\ UNCHANGED <<file, core_count, current_chunk_start, queue, joined, result>>

-----------------------------------------------------------------------------
ChunkEnd(k) == chunk_procs[k].start_pos + chunk_procs[k].length

(***************************************************************************)
(* The rows process k adds: those whose newline it meets.                  *)
(***************************************************************************)
RowsAdded(k) ==
  {p \in file.newlines : chunk_procs[k].start_pos <= p /\ p < ChunkEnd(k)}

ProcessChunk(k) ==
  /\ chunk_procs[k].state = "running"
  /\ chunk_procs' = [chunk_procs EXCEPT
       ![k].proc_result = FoldSet(LAMBDA p, dict : AddRow(dict, file.row[p]), Empty, RowsAdded(k)),
       ![k].state = "putting"]
  /\ UNCHANGED <<file, pc, core_count, current_chunk_start, offset, queue, joined, result>>

(***************************************************************************)
(* put waits while the queue is full.  Then the process ends.              *)
(***************************************************************************)
Put(k) ==
  /\ chunk_procs[k].state = "putting"
  /\ Len(queue) < QueueSize
  /\ queue' = Append(queue, chunk_procs[k].proc_result)
  /\ chunk_procs' = [chunk_procs EXCEPT ![k].state = "ended"]
  /\ UNCHANGED <<file, pc, core_count, current_chunk_start, offset, joined, result>>

\* Mutant: a process puts what it has whatever happens.
FailAndPut(k) ==
  /\ chunk_procs[k].state = "running"
  /\ Len(queue) < QueueSize
  /\ queue' = Append(queue, Empty)
  /\ chunk_procs' = [chunk_procs EXCEPT ![k].state = "failed"]
  /\ UNCHANGED <<file, pc, core_count, current_chunk_start, offset, joined, result>>

(***************************************************************************)
(* An exception, when it opens or reads the file, ends a process.          *)
(***************************************************************************)
Fail(k) ==
  /\ chunk_procs[k].state = "running"
  /\ chunk_procs' = [chunk_procs EXCEPT ![k].state = "failed"]
  /\ UNCHANGED <<file, pc, core_count, current_chunk_start, offset, queue, joined, result>>

Process(k) == ProcessChunk(k) \/ Put(k) \/ Fail(k)

-----------------------------------------------------------------------------
\* Mutant: the entries of stations seen before are replaced.
Updated(global, dict) == [n \in Names |-> IF dict[n] = Absent THEN global[n] ELSE dict[n]]

(***************************************************************************)
(* A station not seen before gets the process's entry.                     *)
(***************************************************************************)
Merged(global, dict) ==
  [n \in Names |-> IF dict[n] = Absent    THEN global[n]
                   ELSE IF global[n] = Absent THEN dict[n]
                   ELSE Merge(global[n], dict[n])]

(***************************************************************************)
(* join, then get: main waits for the next process to end, however it      *)
(* ends, and then for the queue to hold something.                         *)
(***************************************************************************)
JoinAndGet ==
  /\ pc = "join"
  /\ joined < Len(chunk_procs)
  /\ chunk_procs[joined + 1].state \in {"ended", "failed"}
  /\ queue # <<>>
  /\ result' = Merged(result, Head(queue))
  /\ queue' = Tail(queue)
  /\ joined' = joined + 1
  /\ UNCHANGED <<file, pc, core_count, current_chunk_start, offset, chunk_procs>>

PrintResult ==
  /\ pc = "join"
  /\ joined = Len(chunk_procs)
  /\ pc' = "printed"
  /\ UNCHANGED <<file, core_count, current_chunk_start, offset, chunk_procs, queue,
                 joined, result>>

Main == \/ OpenFile \/ OpenFails \/ CutChunk \/ LastChunk
        \/ JoinAndGet \/ PrintResult

Next == Main \/ (\E k \in DOMAIN chunk_procs : Process(k))

(***************************************************************************)
(* The operating system runs every process that can run.                   *)
(***************************************************************************)
Spec ==
  /\ Init /\ [][Next]_vars
  /\ WF_vars(Main)
  /\ \A k \in 1 .. MostCores : WF_vars(k \in DOMAIN chunk_procs /\ Process(k))

-----------------------------------------------------------------------------
ChunkProc == [start_pos : Nat, length : Int, proc_result : Tables,
              state : {"running", "putting", "ended", "failed"}]

(***************************************************************************)
(* Type invariant.                                                         *)
(***************************************************************************)
TypeOK ==
  /\ IsFile(file)
  /\ pc \in {"open", "split", "join", "printed", "failed"}
  /\ core_count \in 1 .. MostCores
  /\ current_chunk_start \in 0 .. file.size
  /\ offset \in 0 .. file.size
  /\ chunk_procs \in Seq(ChunkProc)
  /\ queue \in Seq(Tables)
  /\ joined \in 0 .. Len(chunk_procs)
  /\ result \in Tables

(***************************************************************************)
(* The chunks follow one another from the first byte, with one newline     *)
(* between them.  And the variables keep their types.                      *)
(***************************************************************************)
ChunksFollow ==
  /\ TypeOK
  /\ \A k \in DOMAIN chunk_procs :
       /\ chunk_procs[k].start_pos = IF k = 1 THEN 0 ELSE ChunkEnd(k - 1) + 1
       /\ k < Len(chunk_procs) => ChunkEnd(k) \in file.newlines

(***************************************************************************)
(* The bytes the chunks got beyond their share are all subtracted from the *)
(* last chunk.  That takes no row from it as long as they, and the         *)
(* newlines between the chunks, are fewer than one share.                  *)
(***************************************************************************)
LastChunkComplete ==
  pc \in {"join", "printed"} /\ offset + Len(chunk_procs) - 1 <= bytes_per_proc =>
    ChunkEnd(Len(chunk_procs)) >= file.size

(***************************************************************************)
(* put never blocks.  main joins a process before it makes room in the     *)
(* queue, so that it would wait for ever for one that does.                *)
(***************************************************************************)
QueueHasRoom ==
  \A k \in DOMAIN chunk_procs : chunk_procs[k].state = "putting" => Len(queue) < QueueSize

AllEnded == \A k \in DOMAIN chunk_procs : chunk_procs[k].state = "ended"

(***************************************************************************)
(* What the program prints is the statistics of the rows that have a       *)
(* newline before the end of the last chunk, except the last row of every  *)
(* chunk but the last: a process adds a row when it meets its newline, and *)
(* the newline a chunk ends at is not part of it.  This is so in whichever *)
(* order the dictionaries come through the queue.  offset may leave the    *)
(* last chunk a negative length: it then takes no row, but none from the   *)
(* chunks before it.                                                       *)
(***************************************************************************)
LostRows == {ChunkEnd(k) : k \in 1 .. Len(chunk_procs) - 1}

LastEnd ==
  LET last == Len(chunk_procs)
  IN  Max({chunk_procs[last].start_pos, ChunkEnd(last)})

PrintsAllButLostRows ==
  pc = "printed" =>
    result = Tally(file, {p \in file.newlines : p < LastEnd} \ LostRows)

(***************************************************************************)
(* The program does not print an answer that lacks a process's rows: if    *)
(* one fails, main waits for ever.                                         *)
(***************************************************************************)
NoPartialAnswer == pc = "printed" => AllEnded

(***************************************************************************)
(* The program ends, unless one of its processes fails.                    *)
(***************************************************************************)
EndsUnlessProcessFails ==
  <>(\/ pc \in {"printed", "failed"}
     \/ \E k \in DOMAIN chunk_procs : chunk_procs[k].state = "failed")
=============================================================================
