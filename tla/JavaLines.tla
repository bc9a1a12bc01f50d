------------------------------ MODULE JavaLines ------------------------------
(***************************************************************************)
(* FileChunk.run of the Java program, byte by byte where JavaBrc takes     *)
(* whole rows: a thread collects the bytes of a line in a buffer, of which *)
(* clearBuffer clears the first byte only, so that the rest of a longer    *)
(* line stays behind a shorter one.  The names differ from those of        *)
(* JavaBrc, so that one module can extend both.                            *)
(***************************************************************************)
EXTENDS RowText

CONSTANTS
  LineLists,      \* the sequences of rows of a chunk; <<>> is a blank line
  BUFFER_SIZE     \* the size of the buffer

ASSUME BufferAssumption == BUFFER_SIZE \in Nat \ {0}

ASSUME LineListsAssumption == LineLists \subseteq Seq({<<>>} \cup Measured)

VARIABLES
  lineList,       \* the rows of the chunk
  bytesRead,      \* how many of its bytes were read
  lineBuffer,
  bufferPos,
  rowsAdded,      \* the rows added to the chunk's map
  threadFailed    \* whether an exception ended the run

runVars == <<lineList, bytesRead, lineBuffer, bufferPos, rowsAdded, threadFailed>>

Line(x) == IF x = <<>> THEN <<Newline>> ELSE Text(x)

Bytes == FlattenSeq([i \in 1 .. Len(lineList) |-> Line(lineList[i])])

RunInit ==
  /\ lineList \in LineLists
  /\ bytesRead = 0
  /\ lineBuffer = [i \in 0 .. BUFFER_SIZE - 1 |-> Zero]
  /\ bufferPos = 0
  /\ rowsAdded = <<>>
  /\ threadFailed = FALSE

Running == ~ threadFailed /\ bytesRead < Len(Bytes)

Byte == Bytes[bytesRead + 1]

AllKept == lineBuffer                      \* mutant

ClearedBuffer == [lineBuffer EXCEPT ![0] = Zero]

indexOfDelimiter(q) == FirstAt(lineBuffer, 0, Semicolon, q)

procLine ==
  IF lineBuffer[0] = Zero THEN UNCHANGED rowsAdded ELSE
  \E q \in DOMAIN lineBuffer :
    /\ indexOfDelimiter(q)
    /\ rowsAdded' = Append(rowsAdded,
         [name   |-> Between(lineBuffer, 0, q),
          tenths |-> customFloatParse(lineBuffer, q + 1)])

EndOfLine ==
  /\ Running /\ Byte = Newline
  /\ procLine
  /\ lineBuffer' = ClearedBuffer
  /\ bufferPos' = 0
  /\ bytesRead' = bytesRead + 1
  /\ UNCHANGED <<lineList, threadFailed>>

Collect ==
  /\ Running /\ Byte # Newline /\ bufferPos < BUFFER_SIZE
  /\ lineBuffer' = [lineBuffer EXCEPT ![bufferPos] = Byte]
  /\ bufferPos' = bufferPos + 1
  /\ bytesRead' = bytesRead + 1
  /\ UNCHANGED <<lineList, rowsAdded, threadFailed>>

BufferFull ==
  /\ Running /\ Byte # Newline /\ bufferPos = BUFFER_SIZE
  /\ threadFailed' = TRUE
  /\ UNCHANGED <<lineList, bytesRead, lineBuffer, bufferPos, rowsAdded>>

RunNext == EndOfLine \/ Collect \/ BufferFull

RunSpec == RunInit /\ [][RunNext]_runVars

-----------------------------------------------------------------------------
NewlinesRead == Cardinality({i \in 1 .. bytesRead : Bytes[i] = Newline})

(***************************************************************************)
(* The rows of the first n lines.                                          *)
(***************************************************************************)
RowsOfLines(n) ==
  FlattenSeq([i \in 1 .. n |-> IF lineList[i] = <<>> THEN <<>> ELSE <<lineList[i]>>])

(***************************************************************************)
(* What was added are the rows of the lines that ended, and no others: a   *)
(* line is never read from the rest of a longer one before it, and a blank *)
(* line does not bring the row before it back.  Only a row with more bytes *)
(* than the buffer ends the run.                                           *)
(***************************************************************************)
AddsRowsOfLines ==
  /\ rowsAdded = RowsOfLines(NewlinesRead)
  /\ threadFailed => \E i \in 1 .. Len(lineList) : Len(Line(lineList[i])) - 1 > BUFFER_SIZE
=============================================================================
