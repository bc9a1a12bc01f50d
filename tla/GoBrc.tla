-------------------------------- MODULE GoBrc --------------------------------
(***************************************************************************)
(* The Go program, golang: the goroutine fileReader reads the file line by *)
(* line into batches, arrays of BATCH_SIZE strings, and sends them over a  *)
(* buffered channel to the goroutine fileProcessor, which adds their lines *)
(* to the result, blanks the batch and puts it into a pool that the reader *)
(* takes its next batch from.  Onebrcrunner waits for both, by a WaitGroup,*)
(* and prints.                                                             *)
(*                                                                         *)
(* Arrays and slice variables, numbered in the order of their creation,    *)
(* make up the heap: a slice variable holds an array, the pool holds       *)
(* pointers to slice variables, the channel holds arrays.  A line is named *)
(* like its row, by the offset of its newline; Blank is the empty string.  *)
(* An error in the middle of the file ends it for the reader just as its   *)
(* end does, so that file stands for the part that can be read.            *)
(***************************************************************************)
EXTENDS Measurements, Sequences, FiniteSetsExt

INSTANCE Temperature WITH MinInit <- 100000, MaxInit <- -10000

CONSTANTS
  BatchSize,     \* BATCH_SIZE
  ChannelSize    \* CHANNEL_BUFFER_SIZE

ASSUME GoAssumption ==
  /\ BatchSize \in Nat \ {0}
  /\ ChannelSize \in Nat \ {0}
  /\ Absent \notin Stat

VARIABLES
  file,          \* the file named on the command line
  main,          \* Onebrcrunner: "waiting", "printed", or "panicked"
  waitGroup,     \* the counter of wg
  reader,        \* where fileReader is
  pos,           \* the offset of the next byte it reads
  lineBuffer,    \* the slice variable it points to
  index,         \* the lines it has stored there
  processor,     \* where fileProcessor is
  lines,         \* the slice variable of its loop over the channel
  i,             \* the number of lines it has added
  result,        \* the map both goroutines are given
  lineChannel,   \* the arrays sent and not received
  closed,        \* whether lineChannel is closed
  linePool,      \* the slice variables in the pool
  slices,        \* the array of each slice variable
  arrays         \* the strings of each array

readerVars    == <<reader, pos, lineBuffer, index>>
processorVars == <<processor, lines, i, result>>
channelVars   == <<lineChannel, closed>>
heapVars      == <<linePool, slices, arrays>>
vars == <<file, main, waitGroup, readerVars, processorVars, channelVars, heapVars>>

Blank == -1

BlankArray == [k \in 1 .. BatchSize |-> Blank]

(***************************************************************************)
(* The strings a slice variable refers to.                                 *)
(***************************************************************************)
Strings(slice) == arrays[slices[slice]]

-----------------------------------------------------------------------------
Goroutines == 2

Init ==
  /\ file \in Files
  /\ main = "waiting"
  /\ waitGroup = Goroutines
  /\ reader = "open" /\ pos = 0 /\ lineBuffer = 0 /\ index = 0
  /\ processor = "receive" /\ lines = 0 /\ i = 0 /\ result = Empty
  /\ lineChannel = <<>> /\ closed = FALSE
  /\ linePool = {} /\ slices = <<>> /\ arrays = <<>>

(***************************************************************************)
(* The goroutines run until the process ends.                              *)
(***************************************************************************)
Running == main = "waiting"

-----------------------------------------------------------------------------
(***************************************************************************)
(* fileReader opens the file, and counts as done from here on.             *)
(***************************************************************************)
Open ==
  /\ Running
  /\ reader = "open"
  /\ waitGroup' = waitGroup - 1
  /\ reader' = "get"
  /\ UNCHANGED <<file, main, pos, lineBuffer, index, processorVars, channelVars, heapVars>>

(***************************************************************************)
(* The file cannot be opened: the panic ends the process.                  *)
(***************************************************************************)
OpenFails ==
  /\ Running
  /\ reader = "open"
  /\ main' = "panicked"
  /\ UNCHANGED <<file, waitGroup, readerVars, processorVars, channelVars, heapVars>>

(***************************************************************************)
(* linePool.Get: any pointer of the pool, or a new one.  The pool may drop *)
(* what it holds at any time, so that New may be called even if there is   *)
(* a pointer in it.                                                        *)
(***************************************************************************)
GetPooled ==
  /\ Running
  /\ reader = "get"
  /\ \E slice \in linePool :
       /\ lineBuffer' = slice
       /\ linePool' = linePool \ {slice}
  /\ reader' = "read"
  /\ UNCHANGED <<file, main, waitGroup, pos, index, processorVars, channelVars, slices, arrays>>

GetNew ==
  /\ Running
  /\ reader = "get"
  /\ arrays' = Append(arrays, BlankArray)
  /\ slices' = Append(slices, Len(arrays'))
  /\ lineBuffer' = Len(slices')
  /\ reader' = "read"
  /\ UNCHANGED <<file, main, waitGroup, pos, index, processorVars, channelVars, linePool>>

(***************************************************************************)
(* The reader stores the next line, and sends the batch if that fills it.  *)
(***************************************************************************)
ReadLine ==
  /\ Running
  /\ reader = "read"
  /\ \E newline \in file.newlines :
       /\ pos <= newline
       /\ \A p \in pos .. newline - 1 : p \notin file.newlines
       /\ arrays' = [arrays EXCEPT ![slices[lineBuffer]][index + 1] = newline]
       /\ pos' = newline + 1
  /\ index' = index + 1
  /\ reader' = IF index' = BatchSize THEN "send" ELSE "read"
  /\ UNCHANGED <<file, main, waitGroup, lineBuffer, processorVars, channelVars,
                 linePool, slices>>

NoMoreLines == \A p \in file.newlines : p < pos

\* Mutant: the lines of the last batch are not sent.
BatchDropped ==
  /\ Running
  /\ reader = "read"
  /\ NoMoreLines
  /\ reader' = "close"
  /\ UNCHANGED <<file, main, waitGroup, pos, lineBuffer, index, processorVars,
                 channelVars, heapVars>>

(***************************************************************************)
(* There is no further newline: the rest of the file, a last row without a *)
(* newline, is dropped, and the batch sent as far as it is filled.         *)
(***************************************************************************)
EndOfFile ==
  /\ Running
  /\ reader = "read"
  /\ NoMoreLines
  /\ reader' = "flush"
  /\ UNCHANGED <<file, main, waitGroup, pos, lineBuffer, index, processorVars,
                 channelVars, heapVars>>

(***************************************************************************)
(* The reader sends its batch, once the channel has room.                  *)
(***************************************************************************)
Send ==
  /\ Running
  /\ reader \in {"send", "flush"}
  /\ Len(lineChannel) < ChannelSize
  /\ lineChannel' = Append(lineChannel, slices[lineBuffer])
  /\ index' = 0
  /\ reader' = IF reader = "send" THEN "get" ELSE "close"
  /\ UNCHANGED <<file, main, waitGroup, pos, lineBuffer, processorVars, closed, heapVars>>

(***************************************************************************)
(* The reader returns, and its deferred call closes the channel.           *)
(***************************************************************************)
Close ==
  /\ Running
  /\ reader = "close"
  /\ closed' = TRUE
  /\ reader' = "done"
  /\ UNCHANGED <<file, main, waitGroup, pos, lineBuffer, index, processorVars,
                 lineChannel, heapVars>>

FileReader == Open \/ OpenFails \/ GetPooled \/ GetNew \/ ReadLine \/ EndOfFile \/ Send \/ Close

-----------------------------------------------------------------------------
\* Mutant: Go before 1.22, where all turns of a loop share one variable.
SharedLoopVariable == IF lines = 0 THEN Len(slices) + 1 ELSE lines

(***************************************************************************)
(* Each turn of the loop over the channel has a variable lines of its own. *)
(***************************************************************************)
LoopVariable == Len(slices) + 1

(***************************************************************************)
(* fileProcessor receives a batch.                                         *)
(***************************************************************************)
Receive ==
  /\ Running
  /\ processor = "receive"
  /\ lineChannel # <<>>
  /\ lines' = LoopVariable
  /\ slices' = [s \in 1 .. Max({Len(slices), lines'}) |->
                  IF s = lines' THEN Head(lineChannel) ELSE slices[s]]
  /\ lineChannel' = Tail(lineChannel)
  /\ i' = 0
  /\ processor' = "add"
  /\ UNCHANGED <<file, main, waitGroup, readerVars, result, closed, linePool, arrays>>

(***************************************************************************)
(* The channel is closed and empty: the processor is done.                 *)
(***************************************************************************)
Finish ==
  /\ Running
  /\ processor = "receive"
  /\ lineChannel = <<>> /\ closed
  /\ waitGroup' = waitGroup - 1
  /\ processor' = "done"
  /\ UNCHANGED <<file, main, readerVars, lines, i, result, channelVars, heapVars>>

LinesLeft == i < BatchSize /\ Strings(lines)[i + 1] # Blank

(***************************************************************************)
(* The processor adds the next line of the batch to the result.            *)
(***************************************************************************)
AddLine ==
  /\ Running
  /\ processor = "add"
  /\ LinesLeft
  /\ result' = AddRow(result, file.row[Strings(lines)[i + 1]])
  /\ i' = i + 1
  /\ UNCHANGED <<file, main, waitGroup, readerVars, processor, lines, channelVars, heapVars>>

\* Mutant: the loop of clearLineBuffer blanks the first string each time.
FirstCleared(strings) == [strings EXCEPT ![1] = Blank]

ClearedLines(strings) == [k \in DOMAIN strings |-> Blank]

(***************************************************************************)
(* At the first blank line, or at the end of the batch, the processor      *)
(* blanks the batch, and then puts it into the pool.                       *)
(***************************************************************************)
ClearLineBuffer ==
  /\ Running
  /\ processor = "add"
  /\ ~ LinesLeft
  /\ arrays' = [arrays EXCEPT ![slices[lines]] = ClearedLines(@)]
  /\ processor' = "put"
  /\ UNCHANGED <<file, main, waitGroup, readerVars, lines, i, result, channelVars,
                 linePool, slices>>

Put ==
  /\ Running
  /\ processor = "put"
  /\ linePool' = linePool \cup {lines}
  /\ processor' = "receive"
  /\ UNCHANGED <<file, main, waitGroup, readerVars, lines, i, result, channelVars,
                 slices, arrays>>

FileProcessor == Receive \/ Finish \/ AddLine \/ ClearLineBuffer \/ Put

-----------------------------------------------------------------------------
(***************************************************************************)
(* Onebrcrunner prints when the counter of the WaitGroup is zero.          *)
(***************************************************************************)
PrintResult ==
  /\ Running
  /\ waitGroup = 0
  /\ main' = "printed"
  /\ UNCHANGED <<file, waitGroup, readerVars, processorVars, channelVars, heapVars>>

Next == FileReader \/ FileProcessor \/ PrintResult

(***************************************************************************)
(* The Go scheduler runs every goroutine that can run.                     *)
(***************************************************************************)
Spec ==
  /\ Init /\ [][Next]_vars
  /\ WF_vars(FileReader)
  /\ WF_vars(FileProcessor)
  /\ WF_vars(PrintResult)

-----------------------------------------------------------------------------
(***************************************************************************)
(* Type invariant.                                                         *)
(***************************************************************************)
TypeOK ==
  /\ IsFile(file)
  /\ main \in {"waiting", "printed", "panicked"}
  /\ waitGroup \in 0 .. 2
  /\ reader \in {"open", "get", "read", "send", "flush", "close", "done"}
  /\ pos \in 0 .. file.size
  /\ index \in 0 .. BatchSize
  /\ processor \in {"receive", "add", "put", "done"}
  /\ i \in 0 .. BatchSize
  /\ result \in Tables
  /\ lineChannel \in Seq(DOMAIN arrays) /\ Len(lineChannel) <= ChannelSize
  /\ closed \in BOOLEAN
  /\ slices \in Seq(DOMAIN arrays)
  /\ arrays \in Seq([1 .. BatchSize -> file.newlines \cup {Blank}])
  /\ lineBuffer \in DOMAIN slices \cup {0}
  /\ lines \in DOMAIN slices \cup {0}
  /\ linePool \subseteq DOMAIN slices

(***************************************************************************)
(* Who may read or write an array: the reader from Get to the send, the    *)
(* channel from the send to the receive, the processor from there to Put,  *)
(* and whoever gets it from the pool next.                                 *)
(***************************************************************************)
ReaderHolds    == reader \in {"read", "send", "flush"}
ProcessorHolds == processor \in {"add", "put"}

Sent == {lineChannel[k] : k \in DOMAIN lineChannel}

(***************************************************************************)
(* Every array has one owner: the reader never fills a batch that waits in *)
(* the channel, that the processor still reads, or that the pool will hand *)
(* out again, no batch is sent twice, and no two pointers of the pool lead *)
(* to the same batch.  And the variables keep their types.                 *)
(***************************************************************************)
OneOwner ==
  /\ TypeOK
  /\ \A s \in linePool :
       /\ slices[s] \notin Sent
       /\ ReaderHolds => slices[lineBuffer] # slices[s]
       /\ ProcessorHolds => slices[lines] # slices[s]
       /\ \A t \in linePool : slices[t] = slices[s] => t = s
  /\ ReaderHolds => slices[lineBuffer] \notin Sent
  /\ ProcessorHolds => slices[lines] \notin Sent
  /\ ReaderHolds /\ ProcessorHolds => slices[lines] # slices[lineBuffer]
  /\ \A k, l \in DOMAIN lineChannel : lineChannel[k] = lineChannel[l] => k = l

(***************************************************************************)
(* No line of an earlier use is left in a batch: the pool's are blank, and *)
(* the reader's is blank beyond its index, so that in a batch sent before  *)
(* it is full the processor stops where the reader did.                    *)
(***************************************************************************)
NoStaleLines ==
  /\ \A s \in linePool : Strings(s) = BlankArray
  /\ ReaderHolds => \A k \in index + 1 .. BatchSize : Strings(lineBuffer)[k] = Blank

-----------------------------------------------------------------------------
(***************************************************************************)
(* The program implements Brc for the file up to its last newline: a row   *)
(* is absorbed when the processor adds it.  The rows read and not absorbed *)
(* are in the reader's batch, in the channel and in the processor's batch. *)
(***************************************************************************)
Readable(f) ==
  [size     |-> IF f.newlines = {} THEN 0 ELSE Max(f.newlines) + 1,
   newlines |-> f.newlines,
   row      |-> [p \in f.newlines |-> f.row[p]]]

Lines(array, from, to) == {arrays[array][k] : k \in from .. to} \ {Blank}

Waiting ==
  (IF ReaderHolds THEN Lines(slices[lineBuffer], 1, index) ELSE {})
    \cup (UNION {Lines(a, 1, BatchSize) : a \in Sent})
    \cup (IF processor = "add" THEN Lines(slices[lines], i + 1, BatchSize) ELSE {})

Promise == INSTANCE Brc WITH
  Files    <- {Readable(f) : f \in Files},
  file     <- Readable(file),
  absorbed <- {p \in file.newlines : p < pos} \ Waiting,
  answer   <- result,
  status   <- CASE main = "printed"  -> "printed"
                [] main = "panicked" -> "aborted"
                [] OTHER -> "running"

ImplementsBrc == Promise!Spec
=============================================================================
