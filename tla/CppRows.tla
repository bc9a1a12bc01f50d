------------------------------- MODULE CppRows -------------------------------
(***************************************************************************)
(* threadProc of the C++ program, byte by byte where CppBrc takes whole    *)
(* rows: how a thread finds the name, the temperature and the end of each  *)
(* row of its chunk in the mapping, which may end within a row.  The names *)
(* differ from those of CppBrc, so that one module can extend both.        *)
(***************************************************************************)
EXTENDS RowText, Pages

CONSTANT RowLists     \* the sequences of rows that a file was written from

ASSUME RowListsAssumption == RowLists \subseteq Seq(Measured)

VARIABLES
  rowList,      \* the rows that were to be written
  bytes,        \* the bytes of the mapping; those behind the file are zero
  textEnd,      \* the end of the chunk, which is the end of the file
  position,     \* where the thread is
  rowsAdded,    \* the rows it added to its map
  threadPc      \* "reading", "done", or "undefined"

threadVars == <<rowList, bytes, textEnd, position, rowsAdded, threadPc>>

MappedSize(n) == ((n + PageSize - 1) \div PageSize) * PageSize

Mapping(text, size) ==
  [p \in 0 .. MappedSize(size) - 1 |-> IF p < size THEN text[p + 1] ELSE Zero]

(***************************************************************************)
(* The file is cut somewhere in its last row, or not at all.               *)
(***************************************************************************)
ThreadInit ==
  /\ rowList \in RowLists
  /\ LET text == TextOf(rowList) IN
     /\ textEnd \in Len(TextOf(Front(rowList))) + 1 .. Len(text)
     /\ bytes = Mapping(text, textEnd)
  /\ position = 0
  /\ rowsAdded = <<>>
  /\ threadPc = "reading"

AtTextEnd == position < textEnd => bytes[position] = Zero

Done ==
  /\ threadPc = "reading" /\ AtTextEnd
  /\ threadPc' = "done"
  /\ UNCHANGED <<rowList, bytes, textEnd, position, rowsAdded>>

Token(t, from) == \E q \in DOMAIN bytes : FirstAt(bytes, from, t, q)

RowAt(delimiter) ==
  [name   |-> Between(bytes, position, delimiter),
   tenths |-> customFloatParse(bytes, delimiter + 1)]

NotChecked(delimiter) == FALSE             \* mutant

NoTemperature(delimiter) == delimiter + 1 \in DOMAIN bytes /\ bytes[delimiter + 1] = Zero

ReadRowBytes ==
  /\ threadPc = "reading" /\ ~ AtTextEnd
  /\ \E delimiter, newline \in DOMAIN bytes :
       /\ FirstAt(bytes, position, Semicolon, delimiter)
       /\ ~ NoTemperature(delimiter)
       /\ FirstAt(bytes, delimiter + 1, Newline, newline)
       /\ rowsAdded' = Append(rowsAdded, RowAt(delimiter))
       /\ position' = newline + 1
  /\ UNCHANGED <<rowList, bytes, textEnd, threadPc>>

BreakAfterDelimiter ==
  /\ threadPc = "reading" /\ ~ AtTextEnd
  /\ \E delimiter \in DOMAIN bytes :
       /\ FirstAt(bytes, position, Semicolon, delimiter)
       /\ NoTemperature(delimiter)
       /\ position' = delimiter + 1
  /\ threadPc' = "done"
  /\ UNCHANGED <<rowList, bytes, textEnd, rowsAdded>>

(***************************************************************************)
(* A search has no end of its own: without the byte it looks for it leaves *)
(* the mapping.                                                            *)
(***************************************************************************)
SearchRunsOff ==
  /\ threadPc = "reading" /\ ~ AtTextEnd
  /\ \/ ~ Token(Semicolon, position)
     \/ \E delimiter \in DOMAIN bytes :
          /\ FirstAt(bytes, position, Semicolon, delimiter)
          /\ ~ NoTemperature(delimiter)
          /\ ~ Token(Newline, delimiter + 1)
  /\ threadPc' = "undefined"
  /\ UNCHANGED <<rowList, bytes, textEnd, position, rowsAdded>>

ThreadNext == Done \/ ReadRowBytes \/ BreakAfterDelimiter \/ SearchRunsOff

ThreadSpec == ThreadInit /\ [][ThreadNext]_threadVars /\ WF_threadVars(ThreadNext)

-----------------------------------------------------------------------------
IsCut == textEnd < Len(TextOf(rowList))

(***************************************************************************)
(* A thread comes to an end, and the rows it has added then are those the  *)
(* file was written from, name and temperature, in order: all of them, but *)
(* for one that is cut short.                                              *)
(***************************************************************************)
AddsRowsWritten ==
  <>(threadPc # "reading" /\ rowsAdded = IF IsCut THEN Front(rowList) ELSE rowList)

(***************************************************************************)
(* The thread leaves the mapping only for a last row without its newline,  *)
(* and not if that row ends with its delimiter in the middle of a page.    *)
(***************************************************************************)
LeavesMappingOnlyIfCut ==
  threadPc = "undefined" =>
    IsCut /\ (bytes[textEnd - 1] = Semicolon => textEnd = MappedSize(textEnd))
=============================================================================
