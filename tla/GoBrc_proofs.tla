----------------------------- MODULE GoBrc_proofs ----------------------------
(***************************************************************************)
(* Proofs about the Go program, for every file, every length of a batch    *)
(* and every capacity of the channel.                                      *)
(***************************************************************************)
EXTENDS GoBrc, BrcLemmas, SequenceTheorems

-----------------------------------------------------------------------------
(***************************************************************************)
(* The inductive invariant.                                                *)
(***************************************************************************)

(***************************************************************************)
(* The arrays whose lines are still to be added.                           *)
(***************************************************************************)
Owned ==
  Sent \cup (IF ReaderHolds THEN {slices[lineBuffer]} ELSE {})
       \cup (IF processor = "add" THEN {slices[lines]} ELSE {})

(***************************************************************************)
(* Where the goroutines are, the batch they hold, and what they know.      *)
(***************************************************************************)
Control ==
  /\ ReaderHolds => lineBuffer \in DOMAIN slices
  /\ ProcessorHolds => lines \in DOMAIN slices
  /\ reader \in {"open", "get", "close", "done"} => index = 0
  /\ reader = "read" => index < BatchSize
  /\ waitGroup = (IF reader = "open" THEN 1 ELSE 0) + (IF processor = "done" THEN 0 ELSE 1)
  /\ closed => reader = "done"
  /\ reader \in {"flush", "close", "done"} => NoMoreLines
  /\ processor = "done" => closed /\ lineChannel = <<>>

(***************************************************************************)
(* A line that has been read is in one place of one array; the blanks of   *)
(* an array come after its lines; and a batch is blank before it is put    *)
(* into the pool.                                                          *)
(***************************************************************************)
Batches ==
  /\ \A a, b \in Owned : \A k, l \in 1 .. BatchSize :
       arrays[a][k] # Blank /\ arrays[a][k] = arrays[b][l] => a = b /\ k = l
  /\ \A a \in Owned : \A k \in 1 .. BatchSize : arrays[a][k] < pos
  /\ \A a \in Owned : \A k, l \in 1 .. BatchSize :
       k < l /\ arrays[a][k] = Blank => arrays[a][l] = Blank
  /\ ReaderHolds => \A k \in 1 .. index : arrays[slices[lineBuffer]][k] # Blank
  /\ processor = "put" => arrays[slices[lines]] = BlankArray

(***************************************************************************)
(* The result holds the rows that have been read and wait nowhere.         *)
(***************************************************************************)
Absorbed == {p \in file.newlines : p < pos} \ Waiting

Has(R) == Held(Readable(file), R, 100000, -10000)

ResultHasRows == result = Has(Absorbed)

IInv == OneOwner /\ NoStaleLines /\ Control /\ Batches /\ ResultHasRows

-----------------------------------------------------------------------------
LEMMA HeapFacts ==
  ASSUME TypeOK
  PROVE  /\ BatchSize \in Nat \ {0} /\ ChannelSize \in Nat \ {0}
         /\ Len(slices) \in Nat /\ DOMAIN slices = 1 .. Len(slices)
         /\ Len(arrays) \in Nat /\ DOMAIN arrays = 1 .. Len(arrays)
         /\ Len(lineChannel) \in Nat /\ DOMAIN lineChannel = 1 .. Len(lineChannel)
         /\ \A s \in DOMAIN slices : slices[s] \in DOMAIN arrays
         /\ \A a \in DOMAIN arrays : arrays[a] \in [1 .. BatchSize -> file.newlines \cup {Blank}]
         /\ Sent \subseteq DOMAIN arrays
         /\ file.size \in Nat /\ pos \in Nat /\ index \in Nat
         /\ \A p \in file.newlines : p \in Nat /\ p < file.size
         /\ Blank \in Int /\ Blank < 0 /\ Blank \notin file.newlines
         /\ Absent \notin Stat
         /\ slices \in Seq(DOMAIN arrays) /\ lineChannel \in Seq(DOMAIN arrays)
         /\ arrays \in Seq([1 .. BatchSize -> file.newlines \cup {Blank}])
<1>1. /\ BatchSize \in Nat \ {0} /\ ChannelSize \in Nat \ {0} /\ Absent \notin Stat
      /\ slices \in Seq(DOMAIN arrays) /\ lineChannel \in Seq(DOMAIN arrays)
      /\ arrays \in Seq([1 .. BatchSize -> file.newlines \cup {Blank}])
  BY GoAssumption DEF TypeOK
<1>2. /\ Len(slices) \in Nat /\ DOMAIN slices = 1 .. Len(slices)
      /\ Len(arrays) \in Nat /\ DOMAIN arrays = 1 .. Len(arrays)
      /\ Len(lineChannel) \in Nat /\ DOMAIN lineChannel = 1 .. Len(lineChannel)
  BY <1>1, LenProperties
<1>3. \A s \in DOMAIN slices : slices[s] \in DOMAIN arrays
  BY <1>1, <1>2, ElementOfSeq
<1>4. \A a \in DOMAIN arrays : arrays[a] \in [1 .. BatchSize -> file.newlines \cup {Blank}]
  BY <1>1, <1>2, ElementOfSeq
<1>5. Sent \subseteq DOMAIN arrays
  BY <1>1, <1>2, ElementOfSeq DEF Sent
<1>6. /\ file.size \in Nat /\ pos \in Nat /\ index \in Nat
      /\ \A p \in file.newlines : p \in Nat /\ p < file.size
  BY SMTT(30), <1>1 DEF TypeOK, IsFile
<1>7. Blank \in Int /\ Blank < 0 /\ Blank \notin file.newlines
  BY <1>6 DEF Blank
<1> QED
  BY <1>1, <1>2, <1>3, <1>4, <1>5, <1>6, <1>7

(***************************************************************************)
(* The readable part of a file has the file's newlines and rows, and its   *)
(* rows are those that end with a newline.                                 *)
(***************************************************************************)
LEMMA ReadableFacts ==
  ASSUME IsFile(file)
  PROVE  /\ Readable(file).newlines = file.newlines
         /\ \A p \in file.newlines : Readable(file).row[p] = file.row[p]
         /\ Rows(Readable(file)) = file.newlines
         /\ \A R \in SUBSET file.newlines : IsRowSet(Readable(file), R)
<1> DEFINE f == Readable(file)
<1>1. /\ f.newlines = file.newlines
      /\ \A p \in file.newlines : f.row[p] = file.row[p]
      /\ f.size = IF file.newlines = {} THEN 0 ELSE Max(file.newlines) + 1
  BY DEF Readable
<1>2. file.newlines \in SUBSET (0 .. file.size - 1) /\ file.size \in Nat
  BY DEF IsFile
<1>3. IsFiniteSet(file.newlines)
  <2>1. IsFiniteSet(0 .. file.size - 1)
    BY <1>2, FS_Interval
  <2> QED
    BY <1>2, <2>1, FS_Subset
<1>4. file.newlines # {} => Max(file.newlines) \in file.newlines
  <2>1. file.newlines \in SUBSET Int
    BY <1>2
  <2> QED
    BY <1>3, <2>1, LeastMember
<1> HIDE DEF f
<1>5. Rows(f) = file.newlines
  <2>1. CASE file.newlines = {}
    BY <1>1, <2>1 DEF Rows
  <2>2. CASE file.newlines # {}
    <3>1. Max(file.newlines) \in Nat
      BY <1>2, <1>4, <2>2
    <3>2. f.size - 1 = Max(file.newlines)
      BY <1>1, <2>2, <3>1
    <3> QED
      BY <1>1, <1>4, <2>2, <3>2 DEF Rows, Terminated
  <2> QED
    BY <2>1, <2>2
<1>6. \A p \in file.newlines : f.row[p] \in Row
  BY <1>1 DEF IsFile, Rows
<1>7. ASSUME NEW R \in SUBSET file.newlines PROVE IsRowSet(f, R)
  BY <1>3, <1>6, FS_Subset DEF IsRowSet
<1> QED
  BY <1>1, <1>5, <1>7 DEF f

(***************************************************************************)
(* What it is to wait.                                                     *)
(***************************************************************************)
LEMMA WaitingFacts ==
  ASSUME NEW p
  PROVE  p \in Waiting <=>
           /\ p # Blank
           /\ \/ ReaderHolds /\ \E k \in 1 .. index : p = arrays[slices[lineBuffer]][k]
              \/ \E a \in Sent : \E k \in 1 .. BatchSize : p = arrays[a][k]
              \/ processor = "add" /\ \E k \in i + 1 .. BatchSize : p = arrays[slices[lines]][k]
  BY DEF Waiting, Lines

LEMMA HasType ==
  ASSUME IsFile(file), NEW R \in SUBSET file.newlines
  PROVE  Has(R) \in Tables
<1> DEFINE hi == -10000
           f == Readable(file)
<1>1. hi \in Int /\ IsRowSet(f, R)
  BY ReadableFacts
<1> HIDE DEF hi, f
<1>2. Held(f, R, 100000, hi) \in
        [Names -> [min : Int, max : Int, sum : Int, count : Nat] \cup {Absent}]
  BY <1>1, HeldType
<1> QED
  BY <1>2 DEF Has, Tables, Stat, hi, f

LEMMA HasIsTally ==
  ASSUME IsFile(file), NEW R \in SUBSET file.newlines
  PROVE  Has(R) = Tally(Readable(file), R)
<1> DEFINE hi == -10000
           f == Readable(file)
<1>1. hi \in Int /\ hi <= -999 /\ 100000 \in Int /\ 999 <= 100000 /\ IsRowSet(f, R)
  BY ReadableFacts
<1> HIDE DEF hi, f
<1>2. Held(f, R, 100000, hi) = Tally(f, R)
  BY <1>1, HeldIsTally
<1> QED
  BY <1>2 DEF Has, hi, f

LEMMA HasNothing == Has({}) = Empty
  BY HeldNothing DEF Has, Empty

LEMMA AddRowHas ==
  ASSUME IsFile(file), Absent \notin Stat,
         NEW R \in SUBSET file.newlines, NEW p \in file.newlines, p \notin R
  PROVE  AddRow(Has(R), file.row[p]) = Has(R \cup {p})
<1> DEFINE lo == 100000
           hi == -10000
           f == Readable(file)
           n == f.row[p].name
           t == f.row[p].temp
           h == Held(f, R, lo, hi)
           a == Holding(f, RowsOf(f, R, n), lo, hi)
<1>1. IsRowSet(f, R) /\ IsRowSet(f, R \cup {p}) /\ f.row[p] = file.row[p]
  BY ReadableFacts
<1> HIDE DEF f
<1>2. lo \in Int /\ hi \in Int /\ n \in Names
  BY <1>1 DEF IsRowSet, Row
<1>3. Absent \notin [min : Int, max : Int, sum : Int, count : Nat]
  BY DEF Stat
<1> HIDE DEF lo, hi, n
<1>4. /\ h[n] = Absent => a = [min |-> lo, max |-> hi, sum |-> 0, count |-> 0]
      /\ h[n] # Absent => a = h[n]
  BY <1>1, <1>2, <1>3, HeldEntry
<1>h. /\ h = Held(f, R, lo, hi) /\ n = f.row[p].name
      /\ a = Holding(f, RowsOf(f, R, n), lo, hi)
  BY DEF n
<1> HIDE DEF h, a
<1>5. Held(f, R \cup {p}, lo, hi) =
        [h EXCEPT ![n] = [min   |-> IF t < a.min THEN t ELSE a.min,
                          max   |-> IF t > a.max THEN t ELSE a.max,
                          sum   |-> a.sum + t,
                          count |-> a.count + 1]]
  BY <1>1, <1>2, <1>h, HeldRow
<1>6. Entry(h, n) = a
  BY <1>4 DEF Entry, New, lo, hi
<1>7. AddRow(h, f.row[p]) = [h EXCEPT ![n] = Add(a, t)]
  BY <1>6 DEF AddRow, n
<1>8. AddRow(h, f.row[p]) = Held(f, R \cup {p}, lo, hi)
  BY <1>5, <1>7 DEF Add, Lesser, Greater
<1> QED
  BY <1>1, <1>8 DEF Has, h, lo, hi, f

-----------------------------------------------------------------------------
LEMMA InitInvariant == Init => IInv
<1> SUFFICES ASSUME Init PROVE IInv
  OBVIOUS
<1>1. /\ file \in Files /\ main = "waiting" /\ waitGroup = 2
      /\ reader = "open" /\ pos = 0 /\ lineBuffer = 0 /\ index = 0
      /\ processor = "receive" /\ lines = 0 /\ i = 0 /\ result = Empty
      /\ lineChannel = <<>> /\ closed = FALSE
      /\ linePool = {} /\ slices = <<>> /\ arrays = <<>>
  BY DEF Init, Goroutines
<1>2. TypeOK
  <2>1. Empty \in Tables /\ IsFile(file)
    BY <1>1, FilesAssumption DEF Empty, Tables
  <2>2. /\ slices \in Seq(DOMAIN arrays) /\ lineChannel \in Seq(DOMAIN arrays)
        /\ arrays \in Seq([1 .. BatchSize -> file.newlines \cup {Blank}])
        /\ Len(lineChannel) = 0
    BY <1>1, EmptySeq
  <2>3. pos \in 0 .. file.size /\ index \in 0 .. BatchSize /\ i \in 0 .. BatchSize
    BY <1>1, <2>1, GoAssumption DEF IsFile
  <2>4. closed \in BOOLEAN
    BY <1>1, Zenon
  <2>5. Len(lineChannel) <= ChannelSize /\ waitGroup \in 0 .. 2
    BY <1>1, <2>2, GoAssumption
  <2> QED
    BY <1>1, <2>1, <2>2, <2>3, <2>4, <2>5 DEF TypeOK
<1>3. ~ ReaderHolds /\ ~ ProcessorHolds /\ Sent = {} /\ Owned = {}
  BY <1>1 DEF ReaderHolds, ProcessorHolds, Sent, Owned
<1>4. OneOwner /\ NoStaleLines
  BY <1>1, <1>2, <1>3 DEF OneOwner, NoStaleLines
<1>5. Control /\ Batches
  BY <1>1, <1>3 DEF Control, Batches, ProcessorHolds
<1>6. ResultHasRows
  <2>1. {p \in file.newlines : p < pos} = {}
    BY <1>1, <1>2, HeapFacts
  <2> QED
    BY <1>1, <2>1, HasNothing DEF ResultHasRows, Absorbed
<1> QED
  BY <1>4, <1>5, <1>6 DEF IInv

(***************************************************************************)
(* Steps that move a goroutine on and leave the batches where they are.    *)
(***************************************************************************)
LEMMA MovesOn ==
  ASSUME IInv,
         UNCHANGED <<file, pos, lineBuffer, index, lines, i, result, lineChannel,
                     linePool, slices, arrays>>,
         main' \in {"waiting", "printed", "panicked"}, closed' \in BOOLEAN,
         reader' \in {"open", "get", "read", "send", "flush", "close", "done"},
         processor' \in {"receive", "add", "put", "done"},
         waitGroup' \in 0 .. 2,
         ReaderHolds' <=> ReaderHolds,
         processor' = "add" <=> processor = "add",
         processor' = "put" <=> processor = "put",
         Control'
  PROVE  IInv' /\ Absorbed' = Absorbed
<1> USE DEF IInv
<1>1. TypeOK'
  BY DEF OneOwner, TypeOK
<1>2. ProcessorHolds' <=> ProcessorHolds
  BY DEF ProcessorHolds
<1>3. Sent' = Sent
  BY DEF Sent
<1>4. OneOwner'
  BY <1>1, <1>2, <1>3 DEF OneOwner
<1>5. NoStaleLines'
  BY DEF NoStaleLines, Strings
<1>6. Batches'
  <2>1. Owned' = Owned
    BY <1>3 DEF Owned
  <2> QED
    BY <2>1 DEF Batches
<1>7. Absorbed' = Absorbed /\ ResultHasRows'
  <2>1. Absorbed' = Absorbed
    BY <1>3 DEF Absorbed, Waiting, Lines
  <2> QED
    BY <2>1 DEF ResultHasRows, Has
<1> QED
  BY <1>4, <1>5, <1>6, <1>7

LEMMA StutterInvariant == IInv /\ UNCHANGED vars => IInv' /\ Absorbed' = Absorbed
<1> SUFFICES ASSUME IInv, UNCHANGED vars PROVE IInv' /\ Absorbed' = Absorbed
  OBVIOUS
<1>1. UNCHANGED <<file, main, waitGroup, reader, pos, lineBuffer, index, processor, lines,
                  i, result, lineChannel, closed, linePool, slices, arrays>>
  BY DEF vars, readerVars, processorVars, channelVars, heapVars
<1>2. Control'
  BY <1>1 DEF IInv, Control, ReaderHolds, ProcessorHolds, NoMoreLines
<1> QED
  BY <1>1, <1>2, MovesOn DEF IInv, OneOwner, TypeOK, ReaderHolds

LEMMA OpenInvariant == IInv /\ Open => IInv' /\ Absorbed' = Absorbed
<1> SUFFICES ASSUME IInv, Open PROVE IInv' /\ Absorbed' = Absorbed
  OBVIOUS
<1>1. /\ reader = "open" /\ reader' = "get" /\ waitGroup' = waitGroup - 1
      /\ UNCHANGED <<file, main, pos, lineBuffer, index, processor, lines,
                     i, result, lineChannel, closed, linePool, slices, arrays>>
  BY DEF Open, processorVars, channelVars, heapVars
<1>2. Control' /\ waitGroup' \in 0 .. 2
  BY <1>1 DEF IInv, Control, ReaderHolds, ProcessorHolds
<1> QED
  BY <1>1, <1>2, MovesOn DEF IInv, OneOwner, TypeOK, ReaderHolds

LEMMA MainInvariant == IInv /\ (OpenFails \/ PrintResult) => IInv' /\ Absorbed' = Absorbed
<1> SUFFICES ASSUME IInv, OpenFails \/ PrintResult PROVE IInv' /\ Absorbed' = Absorbed
  OBVIOUS
<1>1. /\ main' \in {"printed", "panicked"}
      /\ UNCHANGED <<file, waitGroup, reader, pos, lineBuffer, index, processor, lines,
                     i, result, lineChannel, closed, linePool, slices, arrays>>
  BY DEF OpenFails, PrintResult, readerVars, processorVars, channelVars, heapVars
<1>2. Control'
  BY <1>1 DEF IInv, Control, ReaderHolds, ProcessorHolds, NoMoreLines
<1> QED
  BY <1>1, <1>2, MovesOn DEF IInv, OneOwner, TypeOK, ReaderHolds

LEMMA EndOfFileInvariant == IInv /\ EndOfFile => IInv' /\ Absorbed' = Absorbed
<1> SUFFICES ASSUME IInv, EndOfFile PROVE IInv' /\ Absorbed' = Absorbed
  OBVIOUS
<1>1. /\ reader = "read" /\ reader' = "flush" /\ NoMoreLines
      /\ UNCHANGED <<file, main, waitGroup, pos, lineBuffer, index, processor, lines,
                     i, result, lineChannel, closed, linePool, slices, arrays>>
  BY DEF EndOfFile, processorVars, channelVars, heapVars
<1>2. Control'
  BY <1>1 DEF IInv, Control, ReaderHolds, ProcessorHolds, NoMoreLines
<1> QED
  BY <1>1, <1>2, MovesOn DEF IInv, OneOwner, TypeOK, ReaderHolds

LEMMA CloseInvariant == IInv /\ Close => IInv' /\ Absorbed' = Absorbed
<1> SUFFICES ASSUME IInv, Close PROVE IInv' /\ Absorbed' = Absorbed
  OBVIOUS
<1>1. /\ reader = "close" /\ reader' = "done" /\ closed' = TRUE
      /\ UNCHANGED <<file, main, waitGroup, pos, lineBuffer, index, processor, lines,
                     i, result, lineChannel, linePool, slices, arrays>>
  BY DEF Close, processorVars, heapVars
<1>2. Control'
  BY <1>1 DEF IInv, Control, ReaderHolds, ProcessorHolds, NoMoreLines
<1> QED
  BY <1>1, <1>2, MovesOn DEF IInv, OneOwner, TypeOK, ReaderHolds

LEMMA FinishInvariant == IInv /\ Finish => IInv' /\ Absorbed' = Absorbed
<1> SUFFICES ASSUME IInv, Finish PROVE IInv' /\ Absorbed' = Absorbed
  OBVIOUS
<1>1. /\ processor = "receive" /\ processor' = "done" /\ waitGroup' = waitGroup - 1
      /\ lineChannel = <<>> /\ closed
      /\ UNCHANGED <<file, main, reader, pos, lineBuffer, index, lines,
                     i, result, lineChannel, closed, linePool, slices, arrays>>
  BY DEF Finish, readerVars, channelVars, heapVars
<1>2. Control' /\ waitGroup' \in 0 .. 2
  BY <1>1 DEF IInv, Control, ReaderHolds, ProcessorHolds, NoMoreLines
<1> QED
  BY <1>1, <1>2, MovesOn DEF IInv, OneOwner, TypeOK, ReaderHolds

-----------------------------------------------------------------------------
(***************************************************************************)
(* The reader gets an array that is blank and that nobody else has.        *)
(***************************************************************************)
LEMMA GetsBlankArray ==
  ASSUME IInv, TypeOK', reader = "get", reader' = "read",
         UNCHANGED <<file, main, waitGroup, pos, index, processor, lines, i, result,
                     lineChannel, closed>>,
         lineBuffer' \in DOMAIN slices', linePool' \subseteq linePool,
         \A a \in DOMAIN arrays : arrays'[a] = arrays[a],
         \A s \in DOMAIN slices : s \in DOMAIN slices' /\ slices'[s] = slices[s],
         NEW rb, rb = slices'[lineBuffer'],
         arrays'[rb] = BlankArray, rb \notin Sent,
         ProcessorHolds => slices[lines] # rb,
         \A s \in linePool' : slices[s] # rb
  PROVE  IInv' /\ Absorbed' = Absorbed
<1>1. TypeOK /\ ~ ReaderHolds /\ ReaderHolds'
  BY DEF IInv, OneOwner, ReaderHolds
<1>2. /\ ProcessorHolds' <=> ProcessorHolds
      /\ ProcessorHolds => lines \in DOMAIN slices /\ slices'[lines] = slices[lines]
  BY DEF ProcessorHolds, IInv, Control
<1>3. Sent' = Sent /\ Sent \subseteq DOMAIN arrays
  BY <1>1, HeapFacts DEF Sent
<1>4. \A s \in linePool' : s \in linePool /\ s \in DOMAIN slices /\ slices'[s] = slices[s]
  BY <1>1 DEF TypeOK
<1>5. OneOwner'
  BY <1>1, <1>2, <1>3, <1>4 DEF IInv, OneOwner
<1>6. \A k \in 1 .. BatchSize : arrays'[rb][k] = Blank
  BY DEF BlankArray
<1>7. NoStaleLines'
  <2>1. \A s \in linePool' : arrays'[slices'[s]] = BlankArray
    <3>1. \A s \in linePool' : arrays[slices[s]] = BlankArray /\ slices[s] \in DOMAIN arrays
      BY <1>1, <1>4, HeapFacts DEF IInv, NoStaleLines, Strings
    <3> QED
      BY <1>4, <3>1
  <2>2. \A k \in index + 1 .. BatchSize : k \in 1 .. BatchSize
    BY <1>1, HeapFacts
  <2>3. \A k \in index + 1 .. BatchSize : arrays'[rb][k] = Blank
    BY <1>6, <2>2
  <2> QED
    BY <2>1, <2>3 DEF NoStaleLines, Strings
<1>8. index = 0 /\ index < BatchSize
  BY <1>1, HeapFacts DEF IInv, Control
<1>9. Control'
  BY <1>1, <1>2, <1>8 DEF IInv, Control, ProcessorHolds, NoMoreLines
<1>10. Owned' = Owned \cup {rb} /\ Owned \subseteq DOMAIN arrays
  <2>1. Owned = Sent \cup (IF processor = "add" THEN {slices[lines]} ELSE {})
    BY <1>1 DEF Owned
  <2>2. Owned' = Sent \cup {rb} \cup (IF processor = "add" THEN {slices[lines]} ELSE {})
    BY <1>1, <1>2, <1>3 DEF Owned, ProcessorHolds
  <2>3. processor = "add" => slices[lines] \in DOMAIN arrays
    BY <1>1, <1>2, HeapFacts DEF ProcessorHolds
  <2> QED
    BY <1>3, <2>1, <2>2, <2>3
<1>11. Batches'
  <2>1. ASSUME NEW a \in Owned', NEW b \in Owned', NEW k \in 1 .. BatchSize, NEW l \in 1 .. BatchSize,
               arrays'[a][k] # Blank, arrays'[a][k] = arrays'[b][l]
        PROVE  a = b /\ k = l
    <3>1. a \in Owned /\ b \in Owned
      BY <1>6, <1>10, <2>1
    <3>2. arrays'[a] = arrays[a] /\ arrays'[b] = arrays[b]
      BY <1>10, <3>1
    <3> QED
      BY <2>1, <3>1, <3>2 DEF IInv, Batches
  <2>2. ASSUME NEW a \in Owned', NEW k \in 1 .. BatchSize
        PROVE  arrays'[a][k] < pos
    <3>1. CASE a = rb
      BY <1>1, <1>6, <3>1, HeapFacts
    <3>2. CASE a \in Owned
      BY <1>10, <3>2 DEF IInv, Batches
    <3> QED
      BY <1>10, <3>1, <3>2
  <2>3. ASSUME NEW a \in Owned', NEW k \in 1 .. BatchSize, NEW l \in 1 .. BatchSize,
               k < l, arrays'[a][k] = Blank
        PROVE  arrays'[a][l] = Blank
    <3>1. CASE a = rb
      BY <1>6, <3>1
    <3>2. CASE a \in Owned
      BY <1>10, <2>3, <3>2 DEF IInv, Batches
    <3> QED
      BY <1>10, <3>1, <3>2
  <2>4. processor = "put" => arrays'[slices'[lines]] = BlankArray
    BY <1>1, <1>2, HeapFacts DEF IInv, Batches, ProcessorHolds
  <2>5. \A k \in 1 .. index : FALSE
    BY <1>8
  <2> QED
    BY <2>1, <2>2, <2>3, <2>4, <2>5 DEF Batches
<1>12. Absorbed' = Absorbed /\ ResultHasRows'
  <2>1. ASSUME NEW p PROVE (p \in Waiting)' <=> p \in Waiting
    <3>1. p \in Waiting <=>
            /\ p # Blank
            /\ \/ \E a \in Sent : \E k \in 1 .. BatchSize : p = arrays[a][k]
               \/ processor = "add" /\ \E k \in i + 1 .. BatchSize : p = arrays[slices[lines]][k]
      BY <1>1, WaitingFacts
    <3>2. (p \in Waiting)' <=>
            /\ p # Blank
            /\ \/ \E k \in 1 .. index : p = arrays'[rb][k]
               \/ \E a \in Sent : \E k \in 1 .. BatchSize : p = arrays'[a][k]
               \/ processor = "add" /\ \E k \in i + 1 .. BatchSize : p = arrays'[slices'[lines]][k]
      BY <1>1, <1>3 DEF Waiting, Lines
    <3>3. processor = "add" => arrays'[slices'[lines]] = arrays[slices[lines]]
      BY <1>1, <1>2, HeapFacts DEF ProcessorHolds
    <3>4. \A a \in Sent : arrays'[a] = arrays[a]
      BY <1>3
    <3>5. \A k \in 1 .. index : FALSE
      BY <1>8
    <3> QED
      BY <3>1, <3>2, <3>3, <3>4, <3>5
  <2>2. Absorbed' = Absorbed
    BY <2>1 DEF Absorbed
  <2> QED
    BY <2>2 DEF IInv, ResultHasRows, Has
<1> QED
  BY <1>5, <1>7, <1>9, <1>11, <1>12 DEF IInv

LEMMA GetPooledInvariant == IInv /\ GetPooled => IInv' /\ Absorbed' = Absorbed
<1> SUFFICES ASSUME IInv, GetPooled PROVE IInv' /\ Absorbed' = Absorbed
  OBVIOUS
<1>1. PICK s \in linePool : lineBuffer' = s /\ linePool' = linePool \ {s}
  BY DEF GetPooled
<1>2. /\ reader = "get" /\ reader' = "read"
      /\ UNCHANGED <<file, main, waitGroup, pos, index, processor, lines, i, result,
                     lineChannel, closed, slices, arrays>>
  BY DEF GetPooled, processorVars, channelVars
<1>3. TypeOK /\ s \in DOMAIN slices /\ linePool' \subseteq linePool
  BY <1>1 DEF IInv, OneOwner, TypeOK
<1>4. TypeOK'
  BY <1>1, <1>2, <1>3 DEF TypeOK
<1>5. PICK rb : rb = slices[s]
  OBVIOUS
<1>6. /\ arrays[rb] = BlankArray /\ rb \notin Sent
      /\ ProcessorHolds => slices[lines] # rb
      /\ \A t \in linePool' : slices[t] # rb
  BY <1>1, <1>5 DEF IInv, OneOwner, NoStaleLines, Strings
<1> QED
  BY <1>1, <1>2, <1>3, <1>4, <1>5, <1>6, GetsBlankArray

LEMMA GetNewInvariant == IInv /\ GetNew => IInv' /\ Absorbed' = Absorbed
<1> SUFFICES ASSUME IInv, GetNew PROVE IInv' /\ Absorbed' = Absorbed
  OBVIOUS
<1>n. PICK n, m : n = Len(arrays) /\ m = Len(slices)
  OBVIOUS
<1>1. /\ reader = "get" /\ reader' = "read"
      /\ arrays' = Append(arrays, BlankArray)
      /\ slices' = Append(slices, Len(arrays'))
      /\ lineBuffer' = Len(slices')
      /\ UNCHANGED <<file, main, waitGroup, pos, index, processor, lines, i, result,
                     lineChannel, closed, linePool>>
  BY DEF GetNew, processorVars, channelVars
<1>2. TypeOK
  BY DEF IInv, OneOwner
<1>3. /\ n \in Nat /\ m \in Nat /\ DOMAIN slices = 1 .. m /\ DOMAIN arrays = 1 .. n
      /\ arrays \in Seq([1 .. BatchSize -> file.newlines \cup {Blank}])
      /\ slices \in Seq(DOMAIN arrays) /\ lineChannel \in Seq(DOMAIN arrays)
      /\ Sent \subseteq DOMAIN arrays
      /\ \A s \in DOMAIN slices : slices[s] \in DOMAIN arrays
  BY <1>n, <1>2, HeapFacts
<1>4. BlankArray \in [1 .. BatchSize -> file.newlines \cup {Blank}]
  BY DEF BlankArray
<1>5. /\ arrays' \in Seq([1 .. BatchSize -> file.newlines \cup {Blank}])
      /\ Len(arrays') = n + 1 /\ arrays'[n + 1] = BlankArray
      /\ \A a \in 1 .. n : arrays'[a] = arrays[a]
  BY <1>n, <1>1, <1>3, <1>4, AppendProperties
<1>6. DOMAIN arrays' = 1 .. n + 1
  BY <1>5, LenProperties
<1>7. 1 .. n \subseteq 1 .. n + 1 /\ n + 1 \in 1 .. n + 1 /\ n + 1 \notin 1 .. n
  BY <1>3
<1>8. slices \in Seq(DOMAIN arrays') /\ lineChannel \in Seq(DOMAIN arrays')
  BY <1>3, <1>6, <1>7, SeqDef
<1>9. /\ slices' \in Seq(DOMAIN arrays') /\ Len(slices') = m + 1 /\ slices'[m + 1] = n + 1
      /\ \A s \in 1 .. m : slices'[s] = slices[s]
  <2>1. slices' = Append(slices, n + 1)
    BY <1>1, <1>5
  <2> QED
    BY <1>n, <1>3, <1>6, <1>7, <1>8, <2>1, AppendProperties
<1>10. DOMAIN slices' = 1 .. m + 1
  BY <1>9, LenProperties
<1>11. lineBuffer' = m + 1 /\ m + 1 \in 1 .. m + 1 /\ 1 .. m \subseteq 1 .. m + 1
  BY <1>1, <1>3, <1>9
<1>12. TypeOK'
  BY <1>1, <1>2, <1>3, <1>5, <1>8, <1>9, <1>10, <1>11 DEF TypeOK
<1>13. PICK rb : rb = n + 1
  OBVIOUS
<1>14. /\ rb \notin Sent
       /\ \A s \in DOMAIN slices : slices[s] # rb
  BY <1>3, <1>7, <1>13
<1>15. linePool \subseteq DOMAIN slices /\ (ProcessorHolds => lines \in DOMAIN slices)
  BY <1>2 DEF TypeOK, IInv, Control
<1>16. rb = slices'[lineBuffer'] /\ arrays'[rb] = BlankArray
  BY <1>5, <1>9, <1>11, <1>13
<1>17. /\ \A s \in linePool' : slices[s] # rb
       /\ ProcessorHolds => slices[lines] # rb
  BY <1>1, <1>14, <1>15
<1>18. /\ \A a \in DOMAIN arrays : arrays'[a] = arrays[a]
       /\ \A s \in DOMAIN slices : s \in DOMAIN slices' /\ slices'[s] = slices[s]
  BY <1>3, <1>5, <1>9, <1>10, <1>11
<1> QED
  BY <1>1, <1>10, <1>11, <1>12, <1>14, <1>16, <1>17, <1>18, GetsBlankArray

-----------------------------------------------------------------------------
(***************************************************************************)
(* The batches the two goroutines hold.                                    *)
(***************************************************************************)
LEMMA ReaderBatch ==
  ASSUME IInv, ReaderHolds, NEW ra, ra = slices[lineBuffer]
  PROVE  /\ ra \in Owned /\ ra \in DOMAIN arrays /\ ra \notin Sent
         /\ \A s \in linePool : slices[s] # ra
         /\ ProcessorHolds => slices[lines] # ra
         /\ \A k \in 1 .. index : arrays[ra][k] # Blank
         /\ \A k \in 1 .. BatchSize : k > index => arrays[ra][k] = Blank
<1>1. TypeOK /\ lineBuffer \in DOMAIN slices
  BY DEF IInv, OneOwner, Control
<1>2. \A k \in 1 .. BatchSize : k > index => k \in index + 1 .. BatchSize
  BY <1>1, HeapFacts
<1>3. ra \in Owned /\ ra \in DOMAIN arrays
  BY <1>1, HeapFacts DEF Owned
<1> QED
  BY <1>2, <1>3 DEF IInv, OneOwner, NoStaleLines, Strings, Batches

LEMMA OwnedArrays ==
  ASSUME IInv
  PROVE  /\ TypeOK /\ Owned \subseteq DOMAIN arrays
         /\ processor = "add" => slices[lines] \in Owned
         /\ ProcessorHolds => /\ slices[lines] \in DOMAIN arrays /\ slices[lines] \notin Sent
                              /\ \A s \in linePool : slices[s] # slices[lines]
         /\ \A s \in linePool : s \in DOMAIN slices
<1>1. TypeOK
  BY DEF IInv, OneOwner
<1>2. ReaderHolds => slices[lineBuffer] \in DOMAIN arrays
  BY <1>1, HeapFacts DEF IInv, Control
<1>3. ProcessorHolds => slices[lines] \in DOMAIN arrays
  BY <1>1, HeapFacts DEF IInv, Control
<1>4. Owned \subseteq DOMAIN arrays
  BY <1>1, <1>2, <1>3, HeapFacts DEF Owned, ProcessorHolds
<1>5. \A s \in linePool : s \in DOMAIN slices
  BY <1>1 DEF TypeOK
<1> QED
  BY <1>1, <1>3, <1>4, <1>5 DEF IInv, OneOwner, Owned, ProcessorHolds

(***************************************************************************)
(* The reader stores a line that comes after all that it has read.         *)
(***************************************************************************)
LEMMA ReadLineInvariant == IInv /\ ReadLine => IInv' /\ Absorbed' = Absorbed
<1> SUFFICES ASSUME IInv, ReadLine PROVE IInv' /\ Absorbed' = Absorbed
  OBVIOUS
<1>r. PICK ra : ra = slices[lineBuffer]
  OBVIOUS
<1>x. PICK x : x = index + 1
  OBVIOUS
<1>1. PICK newline \in file.newlines :
        /\ pos <= newline
        /\ \A p \in pos .. newline - 1 : p \notin file.newlines
        /\ arrays' = [arrays EXCEPT ![ra][x] = newline]
        /\ pos' = newline + 1
  BY <1>r, <1>x DEF ReadLine
<1>2. /\ reader = "read" /\ index' = x /\ reader' = IF x = BatchSize THEN "send" ELSE "read"
      /\ UNCHANGED <<file, main, waitGroup, lineBuffer, processor, lines, i, result,
                     lineChannel, closed, linePool, slices>>
  BY <1>x DEF ReadLine, processorVars, channelVars
<1>3. /\ TypeOK /\ ReaderHolds /\ ReaderHolds'
      /\ BatchSize \in Nat /\ index \in Nat /\ index < BatchSize /\ pos \in Nat
  BY <1>2, HeapFacts DEF IInv, OneOwner, ReaderHolds, Control
<1>4. /\ newline \in Nat /\ newline < file.size /\ file.size \in Nat /\ newline # Blank
      /\ Blank \in Int /\ Blank < 0
  BY <1>3, HeapFacts
<1>5. x \in 1 .. BatchSize /\ x \in Nat
  BY <1>x, <1>3
<1>6. /\ ra \in Owned /\ ra \in DOMAIN arrays /\ ra \notin Sent
      /\ \A s \in linePool : slices[s] # ra
      /\ ProcessorHolds => slices[lines] # ra
      /\ \A k \in 1 .. index : arrays[ra][k] # Blank
      /\ \A k \in 1 .. BatchSize : k > index => arrays[ra][k] = Blank
  BY <1>r, <1>3, ReaderBatch
<1> DEFINE new == [arrays[ra] EXCEPT ![x] = newline]
<1>7. /\ new \in [1 .. BatchSize -> file.newlines \cup {Blank}]
      /\ new[x] = newline
      /\ \A k \in 1 .. BatchSize : k # x => new[k] = arrays[ra][k]
  <2>1. arrays[ra] \in [1 .. BatchSize -> file.newlines \cup {Blank}]
    BY <1>3, <1>6, HeapFacts
  <2> QED
    BY <1>5, <2>1
<1>8. arrays' = [arrays EXCEPT ![ra] = new]
  BY <1>1
<1> HIDE DEF new
<1>9. /\ arrays' \in Seq([1 .. BatchSize -> file.newlines \cup {Blank}])
      /\ Len(arrays') = Len(arrays) /\ arrays'[ra] = new
      /\ \A a \in DOMAIN arrays : a # ra => arrays'[a] = arrays[a]
  BY <1>3, <1>6, <1>7, <1>8, HeapFacts, ExceptSeq
<1>10. DOMAIN arrays' = DOMAIN arrays
  BY <1>3, <1>9, HeapFacts, LenProperties
<1>11. TypeOK'
  <2>1. index' \in 0 .. BatchSize /\ pos' \in 0 .. file.size
    BY <1>1, <1>2, <1>4, <1>5
  <2> QED
    BY <1>2, <1>3, <1>9, <1>10, <2>1 DEF TypeOK
<1>12. Sent' = Sent /\ (ProcessorHolds' <=> ProcessorHolds) /\ Owned' = Owned
  <2>1. Sent' = Sent /\ (ProcessorHolds' <=> ProcessorHolds)
    BY <1>2 DEF Sent, ProcessorHolds
  <2> QED
    BY <1>2, <1>3, <2>1 DEF Owned
<1>13. OneOwner'
  BY <1>2, <1>3, <1>11, <1>12 DEF IInv, OneOwner
<1>14. NoStaleLines'
  <2>1. \A s \in linePool : arrays'[slices[s]] = BlankArray
    <3>1. \A s \in linePool : /\ slices[s] \in DOMAIN arrays /\ slices[s] # ra
                              /\ arrays[slices[s]] = BlankArray
      BY <1>3, <1>6, OwnedArrays, HeapFacts DEF IInv, NoStaleLines, Strings
    <3> QED
      BY <1>9, <3>1
  <2>2. \A k \in x + 1 .. BatchSize : arrays'[ra][k] = Blank
    <3>1. \A k \in x + 1 .. BatchSize : k \in 1 .. BatchSize /\ k > index /\ k # x
      BY <1>x, <1>3, <1>5
    <3> QED
      BY <1>6, <1>7, <1>9, <3>1
  <2> QED
    BY <1>r, <1>2, <2>1, <2>2 DEF NoStaleLines, Strings
<1>15. Control'
  <2>1. reader' = "read" => x < BatchSize
    <3>1. CASE x = BatchSize
      BY <1>2, <3>1
    <3>2. CASE x # BatchSize
      BY <1>3, <1>5, <3>2
    <3> QED
      BY <3>1, <3>2
  <2>2. ~ closed /\ processor # "done"
    BY <1>2 DEF IInv, Control
  <2> QED
    BY <1>2, <1>12, <2>1, <2>2 DEF IInv, Control, ReaderHolds, ProcessorHolds
<1>16. ASSUME NEW a \in Owned, NEW k \in 1 .. BatchSize
       PROVE  /\ a = ra /\ k = x => arrays'[a][k] = newline
              /\ ~ (a = ra /\ k = x) => arrays'[a][k] = arrays[a][k]
              /\ arrays[a][k] < pos /\ arrays[a][k] \in Int
  <2>1. a \in DOMAIN arrays
    BY OwnedArrays
  <2>2. arrays[a] \in [1 .. BatchSize -> file.newlines \cup {Blank}]
    BY <1>3, <2>1, HeapFacts
  <2>3. arrays[a][k] \in Int
    BY <1>3, <1>4, <2>2, HeapFacts
  <2>4. arrays[a][k] < pos
    BY DEF IInv, Batches
  <2> QED
    BY <1>7, <1>9, <2>1, <2>3, <2>4
<1>17. Batches'
  <2>1. ASSUME NEW a \in Owned, NEW b \in Owned, NEW k \in 1 .. BatchSize, NEW l \in 1 .. BatchSize,
               arrays'[a][k] # Blank, arrays'[a][k] = arrays'[b][l]
        PROVE  a = b /\ k = l
    <3>1. CASE a = ra /\ k = x
      <4>1. arrays'[b][l] = newline
        BY <1>16, <2>1, <3>1
      <4>2. b = ra /\ l = x
        BY <1>1, <1>3, <1>4, <1>16, <4>1
      <4> QED
        BY <3>1, <4>2
    <3>2. CASE b = ra /\ l = x
      <4>1. arrays'[a][k] = newline
        BY <1>16, <2>1, <3>2
      <4>2. a = ra /\ k = x
        BY <1>1, <1>3, <1>4, <1>16, <4>1
      <4> QED
        BY <3>2, <4>2
    <3>3. CASE ~ (a = ra /\ k = x) /\ ~ (b = ra /\ l = x)
      <4>1. arrays'[a][k] = arrays[a][k] /\ arrays'[b][l] = arrays[b][l]
        BY <1>16, <3>3
      <4>2. \A c, d \in Owned : \A j, m \in 1 .. BatchSize :
              arrays[c][j] # Blank /\ arrays[c][j] = arrays[d][m] => c = d /\ j = m
        BY DEF IInv, Batches
      <4>3. arrays[a][k] # Blank /\ arrays[a][k] = arrays[b][l]
        BY <2>1, <4>1
      <4> QED
        BY <2>1, <4>2, <4>3
    <3> QED
      BY <3>1, <3>2, <3>3
  <2>2. ASSUME NEW a \in Owned, NEW k \in 1 .. BatchSize
        PROVE  arrays'[a][k] < pos'
    BY <1>1, <1>3, <1>4, <1>16
  <2>3. ASSUME NEW a \in Owned, NEW k \in 1 .. BatchSize, NEW l \in 1 .. BatchSize,
               k < l, arrays'[a][k] = Blank
        PROVE  arrays'[a][l] = Blank
    <3>1. ~ (a = ra /\ k = x) /\ arrays[a][k] = Blank
      BY <1>4, <1>16, <2>3
    <3>2. arrays[a][l] = Blank
      BY <2>3, <3>1 DEF IInv, Batches
    <3>3. ~ (a = ra /\ l = x)
      <4>1. SUFFICES ASSUME a = ra, l = x PROVE FALSE
        OBVIOUS
      <4>2. k \in 1 .. index
        BY <1>x, <1>3, <2>3, <4>1
      <4> QED
        BY <1>6, <3>1, <4>1, <4>2
    <3> QED
      BY <1>16, <3>2, <3>3
  <2>4. ASSUME NEW k \in 1 .. x PROVE arrays'[ra][k] # Blank
    <3>1. k \in 1 .. BatchSize /\ (k = x \/ k \in 1 .. index)
      BY <1>x, <1>3
    <3> QED
      BY <1>4, <1>6, <1>16, <3>1
  <2>5. processor = "put" => arrays'[slices[lines]] = BlankArray
    BY <1>6, <1>9, OwnedArrays DEF IInv, Batches, ProcessorHolds
  <2> QED
    BY <1>r, <1>2, <1>12, <2>1, <2>2, <2>3, <2>4, <2>5 DEF Batches
<1>18. Absorbed' = Absorbed /\ ResultHasRows'
  <2>1. ASSUME NEW p \in file.newlines
        PROVE  (p \in Waiting)' <=> p \in Waiting \/ p = newline
    <3>1. p \in Waiting <=>
            \/ \E k \in 1 .. index : p = arrays[ra][k]
            \/ \E a \in Sent : \E k \in 1 .. BatchSize : p = arrays[a][k]
            \/ processor = "add" /\ \E k \in i + 1 .. BatchSize : p = arrays[slices[lines]][k]
      BY <1>r, <1>3, WaitingFacts, HeapFacts
    <3>2. (p \in Waiting)' <=>
            /\ p # Blank
            /\ \/ \E k \in 1 .. x : p = arrays'[ra][k]
               \/ \E a \in Sent : \E k \in 1 .. BatchSize : p = arrays'[a][k]
               \/ processor = "add" /\ \E k \in i + 1 .. BatchSize : p = arrays'[slices[lines]][k]
      BY <1>r, <1>2, <1>3, <1>12 DEF Waiting, Lines
    <3>3. (\E k \in 1 .. x : p = arrays'[ra][k]) <=>
            (\E k \in 1 .. index : p = arrays[ra][k]) \/ p = newline
      <4>1. \A k \in 1 .. index : k \in 1 .. x /\ k \in 1 .. BatchSize /\ k # x
        BY <1>x, <1>3
      <4>2. \A k \in 1 .. x : k \in 1 .. index \/ k = x
        BY <1>x, <1>3
      <4>3. x \in 1 .. x
        BY <1>5
      <4> QED
        BY <1>7, <1>9, <4>1, <4>2, <4>3
    <3>4. processor = "add" => arrays'[slices[lines]] = arrays[slices[lines]]
      BY <1>6, <1>9, OwnedArrays DEF ProcessorHolds
    <3>5. \A a \in Sent : arrays'[a] = arrays[a]
      BY <1>3, <1>6, <1>9, HeapFacts
    <3>6. p # Blank
      BY <1>3, HeapFacts
    <3> QED
      BY <3>1, <3>2, <3>3, <3>4, <3>5, <3>6
  <2>2. ASSUME NEW p \in file.newlines
        PROVE  p < newline + 1 /\ p # newline <=> p < pos
    <3>1. p \in Nat /\ p \notin pos .. newline - 1
      BY <1>1, <1>3, HeapFacts
    <3> QED
      BY <1>1, <1>3, <1>4, <3>1
  <2>3. Absorbed' = Absorbed
    BY <1>1, <1>2, <2>1, <2>2 DEF Absorbed
  <2> QED
    BY <1>2, <2>3 DEF IInv, ResultHasRows, Has
<1> QED
  BY <1>13, <1>14, <1>15, <1>17, <1>18 DEF IInv

(***************************************************************************)
(* The reader's batch goes into the channel.                               *)
(***************************************************************************)
LEMMA SendInvariant == IInv /\ Send => IInv' /\ Absorbed' = Absorbed
<1> SUFFICES ASSUME IInv, Send PROVE IInv' /\ Absorbed' = Absorbed
  OBVIOUS
<1>r. PICK ra : ra = slices[lineBuffer]
  OBVIOUS
<1>n. PICK n : n = Len(lineChannel)
  OBVIOUS
<1>1. /\ reader \in {"send", "flush"} /\ n < ChannelSize
      /\ lineChannel' = Append(lineChannel, ra) /\ index' = 0
      /\ reader' = IF reader = "send" THEN "get" ELSE "close"
      /\ UNCHANGED <<file, main, waitGroup, pos, lineBuffer, processor, lines, i, result,
                     closed, linePool, slices, arrays>>
  BY <1>r, <1>n DEF Send, processorVars, heapVars
<1>2. TypeOK /\ ReaderHolds /\ ~ ReaderHolds' /\ (ProcessorHolds' <=> ProcessorHolds)
  BY <1>1 DEF IInv, OneOwner, ReaderHolds, ProcessorHolds
<1>3. /\ ra \in Owned /\ ra \in DOMAIN arrays /\ ra \notin Sent
      /\ \A s \in linePool : slices[s] # ra
      /\ ProcessorHolds => slices[lines] # ra
      /\ \A k \in 1 .. index : arrays[ra][k] # Blank
      /\ \A k \in 1 .. BatchSize : k > index => arrays[ra][k] = Blank
  BY <1>r, <1>2, ReaderBatch
<1>4. /\ n \in Nat /\ ChannelSize \in Nat /\ DOMAIN lineChannel = 1 .. n
      /\ lineChannel \in Seq(DOMAIN arrays)
      /\ BatchSize \in Nat /\ index \in Nat
  BY <1>n, <1>2, HeapFacts
<1>5. /\ lineChannel' \in Seq(DOMAIN arrays) /\ Len(lineChannel') = n + 1
      /\ lineChannel'[n + 1] = ra
      /\ \A k \in 1 .. n : lineChannel'[k] = lineChannel[k]
  BY <1>n, <1>1, <1>3, <1>4, AppendProperties
<1>6. DOMAIN lineChannel' = 1 .. n + 1
  BY <1>5, LenProperties
<1>7. n + 1 \in 1 .. n + 1 /\ \A k \in 1 .. n + 1 : k \in 1 .. n \/ k = n + 1
  BY <1>4
<1>8. Sent' = Sent \cup {ra}
  <2>1. 1 .. n \subseteq 1 .. n + 1
    BY <1>4
  <2> QED
    BY <1>4, <1>5, <1>6, <1>7, <2>1 DEF Sent
<1>9. TypeOK'
  <2>1. Len(lineChannel') <= ChannelSize /\ index' \in 0 .. BatchSize
    BY <1>1, <1>4, <1>5
  <2> QED
    BY <1>1, <1>2, <1>5, <2>1 DEF TypeOK
<1>10. OneOwner'
  <2>1. ASSUME NEW k \in 1 .. n + 1, NEW l \in 1 .. n + 1, lineChannel'[k] = lineChannel'[l]
        PROVE  k = l
    <3>1. \A j \in 1 .. n : lineChannel[j] \in Sent
      BY <1>4 DEF Sent
    <3>2. \A j1, j2 \in 1 .. n : lineChannel[j1] = lineChannel[j2] => j1 = j2
      BY <1>4 DEF IInv, OneOwner
    <3> QED
      BY <1>3, <1>5, <1>7, <2>1, <3>1, <3>2
  <2>2. \A s \in linePool : /\ slices[s] \notin Sent /\ slices[s] # ra
                            /\ ProcessorHolds => slices[lines] # slices[s]
                            /\ \A t \in linePool : slices[t] = slices[s] => t = s
    BY <1>3 DEF IInv, OneOwner
  <2>3. ProcessorHolds => slices[lines] \notin Sent /\ slices[lines] # ra
    BY <1>3 DEF IInv, OneOwner
  <2> QED
    BY <1>1, <1>2, <1>6, <1>8, <1>9, <2>1, <2>2, <2>3 DEF OneOwner
<1>11. NoStaleLines'
  BY <1>1, <1>2 DEF IInv, NoStaleLines, Strings
<1>12. Control'
  BY <1>1, <1>2 DEF IInv, Control, ReaderHolds, ProcessorHolds, NoMoreLines
<1>13. Owned' = Owned
  BY <1>r, <1>1, <1>2, <1>8 DEF Owned
<1>14. Batches'
  BY <1>1, <1>2, <1>13 DEF IInv, Batches
<1>15. Absorbed' = Absorbed /\ ResultHasRows'
  <2>1. ASSUME NEW p \in file.newlines PROVE (p \in Waiting)' <=> p \in Waiting
    <3>1. p \in Waiting <=>
            \/ \E k \in 1 .. index : p = arrays[ra][k]
            \/ \E a \in Sent : \E k \in 1 .. BatchSize : p = arrays[a][k]
            \/ processor = "add" /\ \E k \in i + 1 .. BatchSize : p = arrays[slices[lines]][k]
      BY <1>r, <1>2, WaitingFacts, HeapFacts
    <3>2. (p \in Waiting)' <=>
            /\ p # Blank
            /\ \/ \E a \in Sent \cup {ra} : \E k \in 1 .. BatchSize : p = arrays[a][k]
               \/ processor = "add" /\ \E k \in i + 1 .. BatchSize : p = arrays[slices[lines]][k]
      BY <1>1, <1>2, <1>8 DEF Waiting, Lines
    <3>3. p # Blank
      BY <1>2, HeapFacts
    <3>4. (\E k \in 1 .. BatchSize : p = arrays[ra][k]) <=> (\E k \in 1 .. index : p = arrays[ra][k])
      <4>1. \A k \in 1 .. BatchSize : k \in 1 .. index \/ k > index
        BY <1>4
      <4>2. \A k \in 1 .. index : k \in 1 .. BatchSize
        BY <1>2, <1>4 DEF TypeOK
      <4> QED
        BY <1>3, <3>3, <4>1, <4>2
    <3> QED
      BY <3>1, <3>2, <3>3, <3>4
  <2>2. Absorbed' = Absorbed
    BY <1>1, <2>1 DEF Absorbed
  <2> QED
    BY <1>1, <2>2 DEF IInv, ResultHasRows, Has
<1> QED
  BY <1>10, <1>11, <1>12, <1>14, <1>15 DEF IInv

(***************************************************************************)
(* The processor takes the first batch of the channel.                     *)
(***************************************************************************)
LEMMA ReceiveInvariant == IInv /\ Receive => IInv' /\ Absorbed' = Absorbed
<1> SUFFICES ASSUME IInv, Receive PROVE IInv' /\ Absorbed' = Absorbed
  OBVIOUS
<1>n. PICK n, m, h : n = Len(lineChannel) /\ m = Len(slices) /\ h = Head(lineChannel)
  OBVIOUS
<1>1. /\ processor = "receive" /\ processor' = "add" /\ lineChannel # <<>>
      /\ lines' = m + 1
      /\ slices' = [s \in 1 .. Max({m, m + 1}) |-> IF s = m + 1 THEN h ELSE slices[s]]
      /\ lineChannel' = Tail(lineChannel) /\ i' = 0
      /\ UNCHANGED <<file, main, waitGroup, reader, pos, lineBuffer, index, result,
                     closed, linePool, arrays>>
  BY <1>n DEF Receive, LoopVariable, readerVars
<1>2. TypeOK /\ ~ ProcessorHolds /\ ProcessorHolds' /\ (ReaderHolds' <=> ReaderHolds)
  BY <1>1 DEF IInv, OneOwner, ReaderHolds, ProcessorHolds
<1>3. /\ n \in Nat /\ m \in Nat /\ DOMAIN lineChannel = 1 .. n /\ DOMAIN slices = 1 .. m
      /\ lineChannel \in Seq(DOMAIN arrays) /\ slices \in Seq(DOMAIN arrays)
      /\ BatchSize \in Nat
  BY <1>n, <1>2, HeapFacts
<1>4. /\ h = lineChannel[1] /\ h \in DOMAIN arrays
      /\ lineChannel' \in Seq(DOMAIN arrays) /\ Len(lineChannel') = n - 1 /\ n # 0
      /\ \A k \in 1 .. n - 1 : lineChannel'[k] = lineChannel[k + 1]
  <2>1. n # 0
    BY <1>n, <1>1, <1>3, EmptySeq
  <2> QED
    BY <1>n, <1>1, <1>3, <2>1, HeadTailProperties
<1>5. DOMAIN lineChannel' = 1 .. n - 1
  BY <1>4, LenProperties
<1>6. Sent = Sent' \cup {h} /\ h \notin Sent' /\ h \in Sent
  <2>1. \A k, l \in 1 .. n : lineChannel[k] = lineChannel[l] => k = l
    BY <1>3 DEF IInv, OneOwner
  <2>2. \A k \in 1 .. n - 1 : k + 1 \in 1 .. n /\ k + 1 # 1
    BY <1>3
  <2>3. 1 \in 1 .. n
    BY <1>3, <1>4
  <2>4. \A k \in 1 .. n : k = 1 \/ (k - 1 \in 1 .. n - 1 /\ (k - 1) + 1 = k)
    BY <1>3
  <2>5. Sent = {lineChannel[k] : k \in 1 .. n} /\ Sent' = {lineChannel'[k] : k \in 1 .. n - 1}
    BY <1>3, <1>5 DEF Sent
  <2>6. h \notin Sent'
    BY <1>4, <2>1, <2>2, <2>3, <2>5
  <2>7. \A a \in Sent' : a \in Sent
    BY <1>4, <2>2, <2>5
  <2>8. ASSUME NEW k \in 1 .. n PROVE lineChannel[k] \in Sent' \cup {h}
    <3>1. CASE k = 1
      BY <1>4, <3>1
    <3>2. CASE k # 1
      <4>1. k - 1 \in 1 .. n - 1 /\ lineChannel'[k - 1] = lineChannel[k]
        BY <1>4, <2>4, <3>2
      <4> QED
        BY <2>5, <4>1
    <3> QED
      BY <3>1, <3>2
  <2>9. h \in Sent
    BY <1>4, <2>3, <2>5
  <2> QED
    BY <2>5, <2>6, <2>7, <2>8, <2>9
<1>7. /\ slices' \in Seq(DOMAIN arrays) /\ DOMAIN slices' = 1 .. m + 1 /\ slices'[m + 1] = h
      /\ \A s \in 1 .. m : slices'[s] = slices[s]
  <2>1. Max({m, m + 1}) = m + 1
    BY <1>3 DEF Max
  <2>2. slices' = [s \in 1 .. m + 1 |-> IF s = m + 1 THEN h ELSE slices[s]]
    BY <1>1, <2>1
  <2>3. \A s \in 1 .. m + 1 : s = m + 1 \/ s \in 1 .. m
    BY <1>3
  <2>4. \A s \in 1 .. m : slices[s] \in DOMAIN arrays
    BY <1>2, <1>3, HeapFacts
  <2>5. slices' \in [1 .. m + 1 -> DOMAIN arrays]
    BY <1>4, <2>2, <2>3, <2>4
  <2>6. m + 1 \in Nat /\ m + 1 \in 1 .. m + 1 /\ \A s \in 1 .. m : s \in 1 .. m + 1 /\ s # m + 1
    BY <1>3
  <2>7. slices' \in Seq(DOMAIN arrays)
    BY <2>5, <2>6, SeqDef
  <2> QED
    BY <2>2, <2>6, <2>7
<1>8. /\ \A s \in linePool : s \in 1 .. m /\ slices'[s] = slices[s]
      /\ ReaderHolds => lineBuffer \in 1 .. m /\ slices'[lineBuffer] = slices[lineBuffer]
  BY <1>2, <1>3, <1>7 DEF TypeOK, IInv, Control
<1>h. /\ slices'[lines'] = h
      /\ ReaderHolds => slices'[lineBuffer'] = slices[lineBuffer]
  BY <1>1, <1>7, <1>8
<1>9. TypeOK'
  <2>1. /\ \A s \in 1 .. m : s \in 1 .. m + 1
        /\ m + 1 \in 1 .. m + 1 /\ 0 \in 0 .. BatchSize
        /\ Len(lineChannel') <= ChannelSize
    BY SMTT(30), <1>n, <1>2, <1>3, <1>4, HeapFacts DEF TypeOK
  <2> QED
    BY <1>1, <1>2, <1>3, <1>4, <1>7, <2>1 DEF TypeOK
<1>10. OneOwner'
  <2>1. \A k, l \in 1 .. n - 1 : lineChannel'[k] = lineChannel'[l] => k = l
    <3>1. \A k \in 1 .. n - 1 : k + 1 \in 1 .. n
      BY <1>3
    <3>2. \A k, l \in 1 .. n - 1 : k + 1 = l + 1 => k = l
      BY <1>3
    <3>3. \A k, l \in 1 .. n : lineChannel[k] = lineChannel[l] => k = l
      BY <1>3 DEF IInv, OneOwner
    <3> QED
      BY <1>4, <3>1, <3>2, <3>3
  <2>2. \A s \in linePool : /\ slices[s] \notin Sent' /\ slices[s] # h
                            /\ ReaderHolds => slices[lineBuffer] # slices[s]
                            /\ \A t \in linePool : slices[t] = slices[s] => t = s
    BY <1>6 DEF IInv, OneOwner
  <2>3. ReaderHolds => slices[lineBuffer] \notin Sent' /\ slices[lineBuffer] # h
    BY <1>6 DEF IInv, OneOwner
  <2>4. ASSUME NEW s \in linePool
        PROVE  /\ slices'[s] \notin Sent'
               /\ ReaderHolds => slices'[lineBuffer'] # slices'[s]
               /\ slices'[lines'] # slices'[s]
               /\ \A t \in linePool : slices'[t] = slices'[s] => t = s
    BY <1>h, <1>8, <2>2
  <2>5. /\ ReaderHolds => slices'[lineBuffer'] \notin Sent' /\ slices'[lineBuffer'] # h
        /\ slices'[lines'] \notin Sent'
    BY <1>h, <1>6, <2>3
  <2>6. \A k, l \in DOMAIN lineChannel' : lineChannel'[k] = lineChannel'[l] => k = l
    BY <1>5, <2>1
  <2>7. linePool' = linePool
    BY <1>1
  <2> QED
    BY <1>2, <1>9, <1>h, <2>4, <2>5, <2>6, <2>7 DEF OneOwner
<1>11. NoStaleLines'
  BY <1>1, <1>2, <1>8 DEF IInv, NoStaleLines, Strings
<1>12. Control'
  <2>1. m + 1 \in 1 .. m + 1 /\ \A s \in 1 .. m : s \in 1 .. m + 1
    BY <1>3
  <2> QED
    BY <1>1, <1>2, <1>7, <1>8, <2>1 DEF IInv, Control, NoMoreLines
<1>13. Owned' = Owned
  <2>1. Owned = Sent \cup (IF ReaderHolds THEN {slices[lineBuffer]} ELSE {})
    BY <1>1 DEF Owned
  <2>2. Owned' = Sent' \cup (IF ReaderHolds THEN {slices[lineBuffer]} ELSE {}) \cup {h}
    BY <1>1, <1>2, <1>7, <1>8 DEF Owned
  <2> QED
    BY <1>6, <2>1, <2>2
<1>14. Batches'
  <2>1. arrays' = arrays /\ pos' = pos /\ index' = index /\ processor' # "put"
    BY <1>1
  <2>2. /\ \A a, b \in Owned : \A k, l \in 1 .. BatchSize :
             arrays[a][k] # Blank /\ arrays[a][k] = arrays[b][l] => a = b /\ k = l
        /\ \A a \in Owned : \A k \in 1 .. BatchSize : arrays[a][k] < pos
        /\ \A a \in Owned : \A k, l \in 1 .. BatchSize :
             k < l /\ arrays[a][k] = Blank => arrays[a][l] = Blank
    BY DEF IInv, Batches
  <2>3. ReaderHolds => \A k \in 1 .. index : arrays[slices'[lineBuffer']][k] # Blank
    BY <1>h DEF IInv, Batches
  <2> QED
    BY <1>2, <1>13, <2>1, <2>2, <2>3 DEF Batches
<1>15. Absorbed' = Absorbed /\ ResultHasRows'
  <2>1. ASSUME NEW p \in file.newlines PROVE (p \in Waiting)' <=> p \in Waiting
    <3>1. p \in Waiting <=>
            \/ ReaderHolds /\ \E k \in 1 .. index : p = arrays[slices[lineBuffer]][k]
            \/ \E a \in Sent : \E k \in 1 .. BatchSize : p = arrays[a][k]
      BY <1>1, <1>2, WaitingFacts, HeapFacts
    <3>a. /\ processor' = "add" /\ i' = 0 /\ index' = index /\ arrays' = arrays
          /\ ReaderHolds' <=> ReaderHolds
      BY <1>1, <1>2
    <3>b. (p \in Waiting)' <=>
            /\ p # Blank
            /\ \/ ReaderHolds /\ \E k \in 1 .. index : p = arrays[slices'[lineBuffer']][k]
               \/ \E a \in Sent' : \E k \in 1 .. BatchSize : p = arrays[a][k]
               \/ \E k \in 0 + 1 .. BatchSize : p = arrays[slices'[lines']][k]
      BY <3>a DEF Waiting, Lines
    <3>2. (p \in Waiting)' <=>
            /\ p # Blank
            /\ \/ ReaderHolds /\ \E k \in 1 .. index : p = arrays[slices[lineBuffer]][k]
               \/ \E a \in Sent' : \E k \in 1 .. BatchSize : p = arrays[a][k]
               \/ \E k \in 0 + 1 .. BatchSize : p = arrays[h][k]
      BY <1>h, <3>b
    <3>3. p # Blank /\ 0 + 1 = 1
      BY <1>2, HeapFacts
    <3> QED
      BY <1>6, <3>1, <3>2, <3>3
  <2>2. Absorbed' = Absorbed
    BY <1>1, <2>1 DEF Absorbed
  <2> QED
    BY <1>1, <2>2 DEF IInv, ResultHasRows, Has
<1> QED
  BY <1>10, <1>11, <1>12, <1>14, <1>15 DEF IInv

(***************************************************************************)
(* The processor adds a line: one that waited, and waits no more.          *)
(***************************************************************************)
LEMMA AddsWaitingLine ==
  ASSUME IInv, AddLine
  PROVE  \E p \in file.newlines :
           /\ p = Strings(lines)[i + 1]
           /\ p \notin Absorbed /\ Absorbed' = Absorbed \cup {p}
           /\ result' = Has(Absorbed \cup {p})
<1>a. PICK pa, x, p : pa = slices[lines] /\ x = i + 1 /\ p = arrays[pa][x]
  OBVIOUS
<1>1. /\ processor = "add" /\ i < BatchSize /\ p # Blank
      /\ result' = AddRow(result, file.row[p]) /\ i' = x
      /\ UNCHANGED <<file, main, waitGroup, reader, pos, lineBuffer, index, processor, lines,
                     lineChannel, closed, linePool, slices, arrays>>
  BY <1>a DEF AddLine, LinesLeft, Strings, readerVars, channelVars, heapVars
<1>2. TypeOK /\ pa \in Owned /\ pa \in DOMAIN arrays /\ pa \notin Sent
      /\ (ReaderHolds => slices[lineBuffer] # pa)
  BY <1>a, <1>1, OwnedArrays DEF IInv, OneOwner, ProcessorHolds
<1>3. /\ BatchSize \in Nat /\ i \in Nat /\ x \in 1 .. BatchSize /\ x \in Nat
  BY <1>a, <1>1, <1>2, HeapFacts DEF TypeOK
<1>4. p \in file.newlines /\ p < pos
  <2>1. arrays[pa] \in [1 .. BatchSize -> file.newlines \cup {Blank}]
    BY <1>2, HeapFacts
  <2>2. p < pos
    BY <1>a, <1>2, <1>3 DEF IInv, Batches
  <2> QED
    BY <1>a, <1>1, <1>3, <2>1, <2>2
<1>5. \A b \in Owned : \A k \in 1 .. BatchSize : arrays[b][k] = p => b = pa /\ k = x
  BY <1>a, <1>1, <1>2, <1>3 DEF IInv, Batches
<1>6. Sent \subseteq Owned /\ (ReaderHolds => slices[lineBuffer] \in Owned)
  BY DEF Owned
<1>7. ASSUME NEW q \in file.newlines
      PROVE  /\ q \in Waiting <=>
                  \/ ReaderHolds /\ \E k \in 1 .. index : q = arrays[slices[lineBuffer]][k]
                  \/ \E a \in Sent : \E k \in 1 .. BatchSize : q = arrays[a][k]
                  \/ \E k \in x .. BatchSize : q = arrays[pa][k]
             /\ (q \in Waiting)' <=>
                  \/ ReaderHolds /\ \E k \in 1 .. index : q = arrays[slices[lineBuffer]][k]
                  \/ \E a \in Sent : \E k \in 1 .. BatchSize : q = arrays[a][k]
                  \/ \E k \in x + 1 .. BatchSize : q = arrays[pa][k]
  <2>1. q # Blank
    BY <1>2, HeapFacts
  <2>2. q \in Waiting <=>
                  \/ ReaderHolds /\ \E k \in 1 .. index : q = arrays[slices[lineBuffer]][k]
                  \/ \E a \in Sent : \E k \in 1 .. BatchSize : q = arrays[a][k]
                  \/ \E k \in x .. BatchSize : q = arrays[pa][k]
    BY <1>a, <1>1, <2>1, WaitingFacts
  <2>3. /\ ReaderHolds' <=> ReaderHolds
        /\ Sent' = Sent
    BY <1>1 DEF ReaderHolds, Sent
  <2>4. (q \in Waiting)' <=>
            /\ q # Blank
            /\ \/ ReaderHolds /\ \E k \in 1 .. index : q = arrays[slices[lineBuffer]][k]
               \/ \E a \in Sent : \E k \in 1 .. BatchSize : q = arrays[a][k]
               \/ \E k \in x + 1 .. BatchSize : q = arrays[pa][k]
    BY <1>a, <1>1, <2>3 DEF Waiting, Lines
  <2> QED
    BY <2>1, <2>2, <2>4
<1>8. p \in Waiting /\ ~ (p \in Waiting)'
  <2>1. x \in x .. BatchSize
    BY <1>3
  <2>2. p \in Waiting
    BY <1>a, <1>4, <1>7, <2>1
  <2>3. ~ \E a \in Sent : \E k \in 1 .. BatchSize : p = arrays[a][k]
    BY <1>2, <1>5, <1>6
  <2>4. ~ (ReaderHolds /\ \E k \in 1 .. index : p = arrays[slices[lineBuffer]][k])
    <3>1. \A k \in 1 .. index : k \in 1 .. BatchSize
      BY <1>2, <1>3, HeapFacts DEF TypeOK
    <3> QED
      BY <1>2, <1>5, <1>6, <3>1
  <2>5. ~ \E k \in x + 1 .. BatchSize : p = arrays[pa][k]
    <3>1. \A k \in x + 1 .. BatchSize : k \in 1 .. BatchSize /\ k # x
      BY <1>3
    <3> QED
      BY <1>2, <1>5, <3>1
  <2> QED
    BY <1>4, <1>7, <2>2, <2>3, <2>4, <2>5
<1>9. ASSUME NEW q \in file.newlines, q # p
      PROVE  (q \in Waiting)' <=> q \in Waiting
  <2>1. \A k \in x .. BatchSize : k = x \/ k \in x + 1 .. BatchSize
    BY <1>3
  <2>2. \A k \in x + 1 .. BatchSize : k \in x .. BatchSize
    BY <1>3
  <2> QED
    BY <1>a, <1>7, <1>9, <2>1, <2>2
<1>10. p \notin Absorbed /\ Absorbed' = Absorbed \cup {p}
  <2>1. ASSUME NEW q \in file.newlines
        PROVE  (q \in Absorbed)' <=> q \in Absorbed \/ q = p
    BY <1>1, <1>4, <1>8, <1>9 DEF Absorbed
  <2>2. (\A q \in Absorbed' : q \in file.newlines) /\ (\A q \in Absorbed : q \in file.newlines)
    BY <1>1 DEF Absorbed
  <2> QED
    BY <1>4, <1>8, <2>1, <2>2 DEF Absorbed
<1>11. result' = Has(Absorbed \cup {p})
  <2> DEFINE R == Absorbed
  <2>1. R \in SUBSET file.newlines /\ result = Has(R) /\ IsFile(file) /\ Absent \notin Stat
    BY <1>2, HeapFacts DEF IInv, ResultHasRows, TypeOK, Absorbed
  <2> HIDE DEF R
  <2>2. AddRow(Has(R), file.row[p]) = Has(R \cup {p})
    BY <1>4, <1>10, <2>1, AddRowHas DEF R
  <2> QED
    BY <1>1, <2>1, <2>2 DEF R
<1> QED
  BY <1>a, <1>4, <1>10, <1>11 DEF Strings

LEMMA AddLineInvariant == IInv /\ AddLine => IInv'
<1> SUFFICES ASSUME IInv, AddLine PROVE IInv'
  OBVIOUS
<1>1. /\ processor = "add" /\ i < BatchSize /\ i' = i + 1
      /\ UNCHANGED <<file, main, waitGroup, reader, pos, lineBuffer, index, processor, lines,
                     lineChannel, closed, linePool, slices, arrays>>
  BY DEF AddLine, LinesLeft, readerVars, channelVars, heapVars
<1>2. PICK p \in file.newlines :
        Absorbed' = Absorbed \cup {p} /\ result' = Has(Absorbed \cup {p})
  BY AddsWaitingLine
<1>3. TypeOK
  BY DEF IInv, OneOwner
<1>4. result' \in Tables
  <2> DEFINE R == Absorbed \cup {p}
  <2>1. R \in SUBSET file.newlines /\ IsFile(file)
    BY <1>3 DEF TypeOK, Absorbed
  <2> HIDE DEF R
  <2>2. Has(R) \in Tables
    BY <2>1, HasType
  <2> QED
    BY <1>2, <2>2 DEF R
<1>5. TypeOK'
  <2>1. i' \in 0 .. BatchSize
    BY <1>1, <1>3, HeapFacts DEF TypeOK
  <2> QED
    BY <1>1, <1>3, <1>4, <2>1 DEF TypeOK
<1>6. /\ Sent' = Sent /\ Owned' = Owned
      /\ (ReaderHolds' <=> ReaderHolds) /\ (ProcessorHolds' <=> ProcessorHolds)
  BY <1>1 DEF Sent, Owned, ReaderHolds, ProcessorHolds
<1>7. OneOwner'
  BY <1>1, <1>5, <1>6 DEF IInv, OneOwner
<1>8. NoStaleLines'
  BY <1>1, <1>6 DEF IInv, NoStaleLines, Strings
<1>9. Control'
  BY <1>1, <1>6 DEF IInv, Control, NoMoreLines
<1>10. Batches'
  BY <1>1, <1>6 DEF IInv, Batches
<1>11. ResultHasRows'
  BY <1>1, <1>2 DEF ResultHasRows, Has
<1> QED
  BY <1>7, <1>8, <1>9, <1>10, <1>11 DEF IInv

(***************************************************************************)
(* The processor blanks a batch that has no lines left.                    *)
(***************************************************************************)
LEMMA ClearLineBufferInvariant == IInv /\ ClearLineBuffer => IInv' /\ Absorbed' = Absorbed
<1> SUFFICES ASSUME IInv, ClearLineBuffer PROVE IInv' /\ Absorbed' = Absorbed
  OBVIOUS
<1>a. PICK pa : pa = slices[lines]
  OBVIOUS
<1>1. /\ processor = "add" /\ processor' = "put"
      /\ ~ (i < BatchSize /\ arrays[pa][i + 1] # Blank)
      /\ arrays' = [arrays EXCEPT ![pa] = ClearedLines(arrays[pa])]
      /\ UNCHANGED <<file, main, waitGroup, reader, pos, lineBuffer, index, lines, i, result,
                     lineChannel, closed, linePool, slices>>
  BY <1>a DEF ClearLineBuffer, LinesLeft, Strings, readerVars, channelVars
<1>2. /\ TypeOK /\ ProcessorHolds /\ ProcessorHolds' /\ (ReaderHolds' <=> ReaderHolds)
      /\ pa \in Owned /\ pa \in DOMAIN arrays /\ pa \notin Sent
      /\ (ReaderHolds => slices[lineBuffer] # pa)
      /\ \A s \in linePool : slices[s] # pa
  BY <1>a, <1>1, OwnedArrays DEF IInv, OneOwner, ProcessorHolds, ReaderHolds
<1>3. ClearedLines(arrays[pa]) = BlankArray
  <2>1. DOMAIN arrays[pa] = 1 .. BatchSize
    BY <1>2, HeapFacts
  <2> QED
    BY <2>1 DEF ClearedLines, BlankArray
<1>4. BlankArray \in [1 .. BatchSize -> file.newlines \cup {Blank}]
  BY DEF BlankArray
<1>5. /\ arrays' \in Seq([1 .. BatchSize -> file.newlines \cup {Blank}])
      /\ Len(arrays') = Len(arrays) /\ arrays'[pa] = BlankArray
      /\ \A a \in DOMAIN arrays : a # pa => arrays'[a] = arrays[a]
  BY <1>1, <1>2, <1>3, <1>4, HeapFacts, ExceptSeq
<1>6. DOMAIN arrays' = DOMAIN arrays
  BY <1>2, <1>5, HeapFacts, LenProperties
<1>7. TypeOK'
  BY <1>1, <1>2, <1>5, <1>6 DEF TypeOK
<1>8. Sent' = Sent /\ Sent \subseteq DOMAIN arrays
  BY <1>1, <1>2, HeapFacts DEF Sent
<1>9. OneOwner'
  BY <1>1, <1>2, <1>7, <1>8 DEF IInv, OneOwner
<1>10. \A s \in DOMAIN slices : slices[s] # pa => arrays'[slices[s]] = arrays[slices[s]]
  BY <1>2, <1>5, HeapFacts
<1>11. \A s \in linePool : s \in DOMAIN slices
  BY <1>2 DEF TypeOK
<1>12. ReaderHolds => arrays'[slices[lineBuffer]] = arrays[slices[lineBuffer]]
  BY <1>2, <1>10 DEF IInv, Control
<1>13. NoStaleLines'
  BY <1>1, <1>2, <1>10, <1>11, <1>12 DEF IInv, NoStaleLines, Strings
<1>14. Control'
  BY <1>1, <1>2 DEF IInv, Control, NoMoreLines
<1>15. Owned' = Sent \cup (IF ReaderHolds THEN {slices[lineBuffer]} ELSE {})
  BY <1>1, <1>2, <1>8 DEF Owned
<1>16. \A a \in Owned' : a \in Owned /\ arrays'[a] = arrays[a]
  <2>1. \A a \in Sent : a # pa /\ a \in DOMAIN arrays
    BY <1>2, <1>8
  <2> QED
    BY <1>5, <1>12, <1>15, <2>1 DEF Owned
<1>17. Batches'
  <2>1. ASSUME NEW a \in Owned', NEW b \in Owned', NEW k \in 1 .. BatchSize, NEW l \in 1 .. BatchSize,
               arrays'[a][k] # Blank, arrays'[a][k] = arrays'[b][l]
        PROVE  a = b /\ k = l
    BY <1>16, <2>1 DEF IInv, Batches
  <2>2. \A a \in Owned' : \A k \in 1 .. BatchSize : arrays'[a][k] < pos
    BY <1>16 DEF IInv, Batches
  <2>3. ASSUME NEW a \in Owned', NEW k \in 1 .. BatchSize, NEW l \in 1 .. BatchSize,
               k < l, arrays'[a][k] = Blank
        PROVE  arrays'[a][l] = Blank
    BY <1>16, <2>3 DEF IInv, Batches
  <2>4. ReaderHolds => \A k \in 1 .. index : arrays'[slices[lineBuffer]][k] # Blank
    BY <1>12 DEF IInv, Batches
  <2> QED
    BY <1>a, <1>1, <1>2, <1>5, <2>1, <2>2, <2>3, <2>4 DEF Batches
<1>18. Absorbed' = Absorbed /\ ResultHasRows'
  <2>1. ASSUME NEW k \in i + 1 .. BatchSize PROVE arrays[pa][k] = Blank
    <3>1. i \in Nat /\ BatchSize \in Nat /\ k \in 1 .. BatchSize /\ i < BatchSize
          /\ i + 1 \in 1 .. BatchSize /\ (k = i + 1 \/ i + 1 < k)
      BY SMTT(30), <1>2, <2>1, HeapFacts DEF TypeOK
    <3>2. arrays[pa][i + 1] = Blank
      BY <1>1, <3>1
    <3> QED
      BY <1>2, <3>1, <3>2 DEF IInv, Batches
  <2>2. ASSUME NEW p \in file.newlines PROVE (p \in Waiting)' <=> p \in Waiting
    <3>1. p \in Waiting <=>
            \/ ReaderHolds /\ \E k \in 1 .. index : p = arrays[slices[lineBuffer]][k]
            \/ \E a \in Sent : \E k \in 1 .. BatchSize : p = arrays[a][k]
            \/ \E k \in i + 1 .. BatchSize : p = arrays[pa][k]
      BY <1>a, <1>1, <1>2, WaitingFacts, HeapFacts
    <3>2. (p \in Waiting)' <=>
            /\ p # Blank
            /\ \/ ReaderHolds /\ \E k \in 1 .. index : p = arrays'[slices[lineBuffer]][k]
               \/ \E a \in Sent : \E k \in 1 .. BatchSize : p = arrays'[a][k]
      BY <1>1, <1>2, <1>8 DEF Waiting, Lines
    <3>3. p # Blank
      BY <1>2, HeapFacts
    <3>4. \A a \in Sent : arrays'[a] = arrays[a]
      BY <1>15, <1>16
    <3> QED
      BY <1>12, <2>1, <3>1, <3>2, <3>3, <3>4
  <2>3. Absorbed' = Absorbed
    BY <1>1, <2>2 DEF Absorbed
  <2> QED
    BY <1>1, <2>3 DEF IInv, ResultHasRows, Has
<1> QED
  BY <1>9, <1>13, <1>14, <1>17, <1>18 DEF IInv

LEMMA PutInvariant == IInv /\ Put => IInv' /\ Absorbed' = Absorbed
<1> SUFFICES ASSUME IInv, Put PROVE IInv' /\ Absorbed' = Absorbed
  OBVIOUS
<1>1. /\ processor = "put" /\ processor' = "receive" /\ linePool' = linePool \cup {lines}
      /\ UNCHANGED <<file, main, waitGroup, reader, pos, lineBuffer, index, lines, i, result,
                     lineChannel, closed, slices, arrays>>
  BY DEF Put, readerVars, channelVars
<1>2. /\ TypeOK /\ ProcessorHolds /\ ~ ProcessorHolds' /\ (ReaderHolds' <=> ReaderHolds)
      /\ lines \in DOMAIN slices /\ arrays[slices[lines]] = BlankArray
      /\ Sent' = Sent
  BY <1>1 DEF IInv, OneOwner, Control, Batches, ProcessorHolds, ReaderHolds, Sent
<1>3. TypeOK'
  BY <1>1, <1>2 DEF TypeOK
<1>4. OneOwner'
  <2>1. /\ slices[lines] \notin Sent
        /\ ReaderHolds => slices[lineBuffer] # slices[lines]
        /\ \A s \in linePool : slices[lines] # slices[s]
    BY <1>2 DEF IInv, OneOwner
  <2> QED
    BY <1>1, <1>2, <1>3, <2>1 DEF IInv, OneOwner
<1>5. NoStaleLines'
  BY <1>1, <1>2 DEF IInv, NoStaleLines, Strings
<1>6. Control'
  BY <1>1, <1>2 DEF IInv, Control, NoMoreLines
<1>7. Owned' = Owned
  BY <1>1, <1>2 DEF Owned
<1>8. Batches'
  BY <1>1, <1>2, <1>7 DEF IInv, Batches
<1>9. Absorbed' = Absorbed /\ ResultHasRows'
  <2>1. Waiting' = Waiting
    BY <1>1, <1>2 DEF Waiting, Lines
  <2>2. Absorbed' = Absorbed
    BY <1>1, <2>1 DEF Absorbed
  <2> QED
    BY <1>1, <2>2 DEF IInv, ResultHasRows, Has
<1> QED
  BY <1>4, <1>5, <1>6, <1>8, <1>9 DEF IInv

-----------------------------------------------------------------------------
LEMMA NextInvariant == IInv /\ [Next]_vars => IInv'
  BY StutterInvariant, OpenInvariant, MainInvariant, GetPooledInvariant, GetNewInvariant,
     ReadLineInvariant, EndOfFileInvariant, SendInvariant, CloseInvariant, ReceiveInvariant,
     FinishInvariant, AddLineInvariant, ClearLineBufferInvariant, PutInvariant
     DEF Next, FileReader, FileProcessor

(***************************************************************************)
(* The inductive invariant holds throughout.                               *)
(***************************************************************************)
THEOREM Invariance == Spec => []IInv
  BY InitInvariant, NextInvariant, PTL DEF Spec

(***************************************************************************)
(* Every batch has one owner, the reader, the channel, the processor or    *)
(* the pool, whatever the sizes of batch and channel and however the two   *)
(* goroutines interleave; and the variables keep their types.              *)
(***************************************************************************)
THEOREM EveryBatchHasOneOwner == Spec => []OneOwner
<1>1. IInv => OneOwner
  BY DEF IInv
<1> QED
  BY <1>1, Invariance, PTL

(***************************************************************************)
(* The pool's batches are blank, and the reader's is blank beyond what it  *)
(* has stored: no line is added again when a batch is used again.          *)
(***************************************************************************)
THEOREM BatchesAreBlank == Spec => []NoStaleLines
<1>1. IInv => NoStaleLines
  BY DEF IInv
<1> QED
  BY <1>1, Invariance, PTL
-----------------------------------------------------------------------------
(***************************************************************************)
(* The program implements Brc, but for Brc's promise to come to an end.    *)
(***************************************************************************)
LEMMA PromiseTally ==
  ASSUME NEW f, NEW R
  PROVE  Promise!Tally(f, R) = Tally(f, R)
<1>1. \A S : Promise!Min(S) = Min(S) /\ Promise!Max(S) = Max(S)
  BY DEF Promise!Min, Min, Promise!Max, Max
<1>2. \A S : Promise!Cardinality(S) = Cardinality(S)
  BY DEF Promise!Cardinality, Cardinality
<1>3. \A S : Promise!MapThenSumSet(LAMBDA p : f.row[p].temp, S) =
             MapThenSumSet(LAMBDA p : f.row[p].temp, S)
  BY DEF Promise!MapThenSumSet, MapThenSumSet, Promise!MapThenFoldSet, MapThenFoldSet
<1>4. \A S : Promise!Summary(f, S) = Summary(f, S)
  BY <1>1, <1>2, <1>3 DEF Promise!Summary, Summary
<1>5. \A n : Promise!RowsOf(f, R, n) = RowsOf(f, R, n)
  BY DEF Promise!RowsOf, RowsOf
<1> QED
  BY <1>4, <1>5 DEF Promise!Tally, Tally

LEMMA PromiseRows == IsFile(file) => Promise!Rows(Readable(file)) = file.newlines
<1>1. Promise!Rows(Readable(file)) = Rows(Readable(file))
  BY DEF Promise!Rows, Rows, Promise!Terminated, Terminated
<1> QED
  BY <1>1, ReadableFacts

LEMMA PromiseInit == Init => Promise!Init
<1> SUFFICES ASSUME Init PROVE Promise!Init
  OBVIOUS
<1>1. file \in Files /\ main = "waiting" /\ result = Empty /\ pos = 0 /\ TypeOK
  BY InitInvariant DEF Init, IInv, OneOwner
<1>2. IsFile(file)
  BY <1>1, FilesAssumption
<1>3. Absorbed = {}
  <2>1. \A p \in file.newlines : ~ p < pos
    BY <1>1, HeapFacts
  <2> QED
    BY <2>1 DEF Absorbed
<1>4. result = Promise!Tally(Readable(file), {})
  <2>1. Has({}) = Tally(Readable(file), {})
    BY <1>2, HasIsTally
  <2> QED
    BY <1>1, <2>1, HasNothing, PromiseTally
<1> QED
  BY <1>1, <1>3, <1>4 DEF Promise!Init, Absorbed

LEMMA PromiseAbsorb == IInv /\ AddLine => Promise!Next
<1> SUFFICES ASSUME IInv, AddLine PROVE Promise!Next
  OBVIOUS
<1>1. PICK p \in file.newlines :
        /\ p \notin Absorbed /\ Absorbed' = Absorbed \cup {p}
        /\ result' = Has(Absorbed \cup {p})
  BY AddsWaitingLine
<1>2. main = "waiting" /\ main' = "waiting" /\ file' = file
  BY DEF AddLine, Running
<1>3. IsFile(file)
  BY DEF IInv, OneOwner, TypeOK
<1>4. result' = Promise!Tally(Readable(file), Absorbed')
  <2> DEFINE R == Absorbed \cup {p}
  <2>1. R \in SUBSET file.newlines
    BY DEF Absorbed
  <2> HIDE DEF R
  <2>2. Has(R) = Promise!Tally(Readable(file), R)
    BY <1>3, <2>1, HasIsTally, PromiseTally
  <2> QED
    BY <1>1, <2>2 DEF R
<1>5. Promise!Absorb({p})
  BY <1>1, <1>2, <1>4 DEF Promise!Absorb, Absorbed
<1>6. {p} \in SUBSET (Promise!Rows(Readable(file)) \ Absorbed)
  BY <1>1, <1>3, PromiseRows
<1> QED
  BY <1>5, <1>6 DEF Promise!Next, Absorbed

(***************************************************************************)
(* When both goroutines are done no line waits anywhere.                   *)
(***************************************************************************)
LEMMA PromisePrint == IInv /\ PrintResult => Promise!Next
<1> SUFFICES ASSUME IInv, PrintResult PROVE Promise!Next
  OBVIOUS
<1>1. /\ main = "waiting" /\ main' = "printed" /\ waitGroup = 0
      /\ file' = file /\ result' = result
  BY DEF PrintResult, Running, processorVars
<1>2. /\ processor = "done" /\ closed /\ lineChannel = <<>>
      /\ reader = "done" /\ NoMoreLines
  BY <1>1 DEF IInv, Control
<1>3. Absorbed = file.newlines
  <2>1. Sent = {} /\ ~ ReaderHolds
    BY <1>2 DEF Sent, ReaderHolds
  <2>2. \A p : p \notin Waiting
    BY <1>2, <2>1, WaitingFacts
  <2> QED
    BY <1>2, <2>2 DEF Absorbed, NoMoreLines
<1>4. Absorbed = Promise!Rows(Readable(file))
  BY <1>3, PromiseRows DEF IInv, OneOwner, TypeOK
<1>5. Absorbed' = Absorbed
  BY MainInvariant
<1>6. Promise!PrintAnswer
  BY <1>1, <1>4, <1>5 DEF Promise!PrintAnswer, Absorbed
<1> QED
  BY <1>6 DEF Promise!Next

LEMMA PromiseNext == IInv /\ [Next]_vars => [Promise!Next]_(Promise!vars)
<1> SUFFICES ASSUME IInv, [Next]_vars PROVE [Promise!Next]_(Promise!vars)
  OBVIOUS
<1>1. CASE AddLine
  BY <1>1, PromiseAbsorb
<1>2. CASE PrintResult
  BY <1>2, PromisePrint
<1>3. CASE OpenFails
  <2>1. main = "waiting" /\ main' = "panicked" /\ file' = file /\ result' = result
    BY <1>3 DEF OpenFails, Running, processorVars
  <2>2. Absorbed' = Absorbed
    BY <1>3, MainInvariant
  <2>3. Promise!Abort
    BY <2>1, <2>2 DEF Promise!Abort, Absorbed
  <2> QED
    BY <2>3 DEF Promise!Next
<1>4. CASE \/ Open \/ GetPooled \/ GetNew \/ ReadLine \/ EndOfFile \/ Send \/ Close
           \/ Receive \/ Finish \/ ClearLineBuffer \/ Put \/ UNCHANGED vars
  <2>1. main' = main /\ file' = file /\ result' = result
    BY <1>4 DEF Open, GetPooled, GetNew, ReadLine, EndOfFile, Send, Close,
                Receive, Finish, ClearLineBuffer, Put, vars, processorVars
  <2>2. Absorbed' = Absorbed
    BY <1>4, StutterInvariant, OpenInvariant, GetPooledInvariant, GetNewInvariant,
       ReadLineInvariant, EndOfFileInvariant, SendInvariant, CloseInvariant, ReceiveInvariant,
       FinishInvariant, ClearLineBufferInvariant, PutInvariant
  <2> QED
    BY <2>1, <2>2 DEF Promise!vars, Absorbed
<1> QED
  BY <1>1, <1>2, <1>3, <1>4 DEF Next, FileReader, FileProcessor

(***************************************************************************)
(* Every step of the program is a step of Brc or leaves its state alone:   *)
(* a line is added once, whatever batches it goes through, and when both   *)
(* goroutines are done all lines are: what is printed are the statistics   *)
(* of all rows that end with a newline.                                    *)
(***************************************************************************)
THEOREM Refinement == Spec => Promise!Init /\ [][Promise!Next]_(Promise!vars)
  BY PromiseInit, PromiseNext, Invariance, PTL DEF Spec

-----------------------------------------------------------------------------
(***************************************************************************)
(* The program comes to an end.  What is left to do, as a number: a line   *)
(* that is not read may cost the reader a batch, and a batch costs the     *)
(* processor the steps to receive it, to add its lines, to blank it and to *)
(* put it back.                                                            *)
(***************************************************************************)
PerBatch == BatchSize + 3

Unread == Cardinality({p \in file.newlines : pos <= p})

ReaderLeft ==
  CASE reader = "open"  -> PerBatch + 5
    [] reader = "get"   -> PerBatch + 4
    [] reader = "read"  -> PerBatch + 3
    [] reader = "flush" -> PerBatch + 2
    [] reader = "send"  -> 2 * PerBatch + 5
    [] reader = "close" -> 1
    [] OTHER            -> 0

ProcessorLeft ==
  CASE processor = "receive" -> 1
    [] processor = "add"     -> BatchSize - i + 3
    [] processor = "put"     -> 2
    [] OTHER                 -> 0

MainLeft == IF main = "waiting" THEN 1 ELSE 0

Left ==
  (PerBatch + 3) * Unread + PerBatch * Len(lineChannel)
    + ReaderLeft + ProcessorLeft + MainLeft

(***************************************************************************)
(* What each goroutine, and main, waits for; a goroutine that is done      *)
(* waits for nothing that will ever come.                                  *)
(***************************************************************************)
ReaderCanStep ==
  \/ reader \in {"open", "get", "close"}
  \/ reader = "read" /\ NoMoreLines
  \/ reader = "read" /\ \E newline \in file.newlines :
                          /\ pos <= newline
                          /\ \A p \in pos .. newline - 1 : p \notin file.newlines
  \/ reader \in {"send", "flush"} /\ Len(lineChannel) < ChannelSize

ProcessorCanStep ==
  \/ processor \in {"add", "put"}
  \/ processor = "receive" /\ (lineChannel # <<>> \/ closed)

NeverAllWait == main = "waiting" => ReaderCanStep \/ ProcessorCanStep \/ waitGroup = 0

LEMMA UnreadFacts ==
  ASSUME TypeOK, NEW p \in Nat
  PROVE  /\ IsFiniteSet({q \in file.newlines : p <= q})
         /\ Cardinality({q \in file.newlines : p <= q}) \in Nat
<1>1. {q \in file.newlines : p <= q} \subseteq 0 .. file.size - 1
  BY HeapFacts
<1>2. IsFiniteSet(0 .. file.size - 1)
  <2>1. file.size \in Nat
    BY HeapFacts
  <2> QED
    BY <2>1, FS_Interval
<1>3. IsFiniteSet({q \in file.newlines : p <= q})
  BY <1>1, <1>2, FS_Subset
<1> QED
  BY <1>3, FS_CardinalityType

LEMMA UnreadFalls ==
  ASSUME TypeOK, ReadLine
  PROVE  Unread' \in Nat /\ Unread' < Unread
<1>1. PICK newline \in file.newlines : pos <= newline /\ pos' = newline + 1 /\ file' = file
  BY DEF ReadLine
<1>2. pos \in Nat /\ newline \in Nat
  BY <1>1, HeapFacts
<1>3. PICK A, B : /\ A = {q \in file.newlines : pos <= q}
                  /\ B = {q \in file.newlines : newline + 1 <= q}
  OBVIOUS
<1>4. IsFiniteSet(A) /\ IsFiniteSet(B) /\ Cardinality(A) \in Nat /\ Cardinality(B) \in Nat
  BY <1>2, <1>3, UnreadFacts
<1>5. B \subseteq A /\ B # A
  <2>1. newline \in A /\ newline \notin B
    BY <1>1, <1>2, <1>3
  <2>2. ASSUME NEW q \in B PROVE q \in A
    <3>1. q \in file.newlines /\ q \in Nat /\ newline + 1 <= q
      BY <1>3, HeapFacts
    <3> QED
      BY <1>1, <1>2, <1>3, <3>1
  <2> QED
    BY <2>1, <2>2
<1>6. Cardinality(B) < Cardinality(A)
  BY <1>4, <1>5, FS_Subset
<1> QED
  BY <1>1, <1>3, <1>4, <1>6 DEF Unread

LEMMA LeftFacts ==
  ASSUME IInv
  PROVE  /\ PerBatch \in Nat /\ PerBatch = BatchSize + 3 /\ Unread \in Nat
         /\ Len(lineChannel) \in Nat
         /\ ReaderLeft \in Nat /\ ProcessorLeft \in Nat /\ MainLeft \in Nat
<1>1. TypeOK
  BY DEF IInv, OneOwner
<1>2. /\ BatchSize \in Nat \ {0} /\ Len(lineChannel) \in Nat /\ pos \in Nat
      /\ i \in 0 .. BatchSize
  BY <1>1, HeapFacts DEF TypeOK
<1>3. PerBatch \in Nat /\ PerBatch = BatchSize + 3
  BY <1>2 DEF PerBatch
<1>4. Unread \in Nat
  BY <1>1, <1>2, UnreadFacts DEF Unread
<1>5. ReaderLeft \in Nat
  BY <1>3 DEF ReaderLeft
<1>6. ProcessorLeft \in Nat
  BY <1>2 DEF ProcessorLeft
<1>7. MainLeft \in Nat
  BY DEF MainLeft
<1> QED
  BY <1>2, <1>3, <1>4, <1>5, <1>6, <1>7

LEMMA PartsStayNatural ==
  ASSUME IInv'
  PROVE  ReaderLeft' \in Nat /\ ProcessorLeft' \in Nat /\ MainLeft' \in Nat
<1>1. i' \in 0 .. BatchSize /\ BatchSize \in Nat
  BY GoAssumption DEF IInv, OneOwner, TypeOK
<1>2. ReaderLeft' \in Nat
  BY <1>1 DEF ReaderLeft, PerBatch
<1>3. ProcessorLeft' \in Nat
  BY <1>1 DEF ProcessorLeft
<1>4. MainLeft' \in Nat
  BY DEF MainLeft
<1> QED
  BY <1>2, <1>3, <1>4

LEMMA ProductsAreNatural ==
  ASSUME NEW k \in Nat, NEW u \in Nat, NEW c \in Nat
  PROVE  (k + 3) * u \in Nat /\ k * c \in Nat
  OBVIOUS

LEMMA LeftIsNatural == ASSUME IInv PROVE Left \in Nat
<1>1. PICK k, u, c, r, p, m :
        /\ k = PerBatch /\ u = Unread /\ c = Len(lineChannel)
        /\ r = ReaderLeft /\ p = ProcessorLeft /\ m = MainLeft
  OBVIOUS
<1>2. k \in Nat /\ u \in Nat /\ c \in Nat /\ r \in Nat /\ p \in Nat /\ m \in Nat
  BY <1>1, LeftFacts
<1>3. (k + 3) * u \in Nat /\ k * c \in Nat
  BY <1>2, ProductsAreNatural
<1>4. (k + 3) * u + k * c + r + p + m \in Nat
  BY <1>2, <1>3
<1> QED
  BY <1>1, <1>4 DEF Left

(***************************************************************************)
(* A step that reads no line, sends no batch and receives none.            *)
(***************************************************************************)
LEMMA SmallStep ==
  ASSUME IInv, IInv', Unread' = Unread, UNCHANGED lineChannel,
         ReaderLeft' + ProcessorLeft' + MainLeft' < ReaderLeft + ProcessorLeft + MainLeft
  PROVE  Left' < Left
<1>1. PICK k, u, c, r, p, m :
        /\ k = PerBatch /\ u = Unread /\ c = Len(lineChannel)
        /\ r = ReaderLeft /\ p = ProcessorLeft /\ m = MainLeft
  OBVIOUS
<1>2. PICK s, q, n : s = ReaderLeft' /\ q = ProcessorLeft' /\ n = MainLeft'
  OBVIOUS
<1>3. /\ k \in Nat /\ u \in Nat /\ c \in Nat /\ r \in Nat /\ p \in Nat /\ m \in Nat
      /\ s \in Nat /\ q \in Nat /\ n \in Nat
  BY <1>1, <1>2, LeftFacts, PartsStayNatural
<1>4. PICK a, b : a = (k + 3) * u /\ b = k * c
  OBVIOUS
<1>5. a \in Nat /\ b \in Nat
  BY <1>3, <1>4, ProductsAreNatural
<1>6. Left = a + b + r + p + m
  BY <1>1, <1>4 DEF Left
<1>7. Left' = a + b + s + q + n
  BY <1>1, <1>2, <1>4 DEF Left, PerBatch
<1>8. s + q + n < r + p + m
  BY <1>1, <1>2
<1>9. a + b + s + q + n < a + b + r + p + m
  BY <1>3, <1>5, <1>8
<1> QED
  BY <1>6, <1>7, <1>9

LEMMA ReadLineFalls == ASSUME IInv, IInv', ReadLine PROVE Left' < Left
<1>1. PICK k, u, v, c, r, p, m :
        /\ k = PerBatch /\ u = Unread /\ v = Unread' /\ c = Len(lineChannel)
        /\ r = ReaderLeft' /\ p = ProcessorLeft /\ m = MainLeft
  OBVIOUS
<1>2. /\ reader = "read" /\ reader' \in {"read", "send"}
      /\ UNCHANGED <<lineChannel, processor, i, main>>
  BY DEF ReadLine, processorVars, channelVars
<1>3. /\ k \in Nat /\ u \in Nat /\ v \in Nat /\ c \in Nat /\ p \in Nat /\ m \in Nat
      /\ ReaderLeft = k + 3
  <2>1. v \in Nat
    BY <1>1, UnreadFalls DEF IInv, OneOwner
  <2>2. ReaderLeft = PerBatch + 3
    BY <1>2 DEF ReaderLeft
  <2> QED
    BY <1>1, <2>1, <2>2, LeftFacts
<1>4. r \in Nat /\ r <= 2 * k + 5
  BY <1>1, <1>2, <1>3 DEF ReaderLeft, PerBatch
<1>5. v < u
  BY <1>1, UnreadFalls DEF IInv, OneOwner
<1>6. (k + 3) * v + (k + 3) <= (k + 3) * u /\ (k + 3) * v \in Nat
  <2>1. (v + 1) * (k + 3) = v * (k + 3) + (k + 3) /\ v * (k + 3) \in Nat
    BY <1>3, OneMoreTimes
  <2>2. (v + 1) * (k + 3) <= u * (k + 3)
    BY <1>3, <1>5, TimesMonotonic
  <2>3. v * (k + 3) = (k + 3) * v /\ u * (k + 3) = (k + 3) * u
    BY <1>3
  <2> QED
    BY <2>1, <2>2, <2>3
<1>7. PICK a, b, d : a = (k + 3) * v /\ b = k * c /\ d = (k + 3) * u
  OBVIOUS
<1>8. a \in Nat /\ b \in Nat /\ d \in Nat /\ a + (k + 3) <= d
  BY <1>3, <1>6, <1>7, ProductsAreNatural
<1>9. Left = d + b + (k + 3) + p + m
  BY <1>1, <1>3, <1>7 DEF Left
<1>10. Left' = a + b + r + p + m
  BY <1>1, <1>2, <1>7 DEF Left, PerBatch, ProcessorLeft, MainLeft
<1>11. a + b + r + p + m < d + b + (k + 3) + p + m
  BY <1>3, <1>4, <1>8
<1> QED
  BY <1>9, <1>10, <1>11

LEMMA SendFalls == ASSUME IInv, IInv', Send PROVE Left' < Left
<1>1. PICK k, u, c, p, m :
        /\ k = PerBatch /\ u = Unread /\ c = Len(lineChannel)
        /\ p = ProcessorLeft /\ m = MainLeft
  OBVIOUS
<1>2. /\ UNCHANGED <<file, pos, processor, i, main>>
      /\ \/ reader = "send" /\ reader' = "get"
         \/ reader = "flush" /\ reader' = "close"
      /\ lineChannel' = Append(lineChannel, slices[lineBuffer])
  BY DEF Send, processorVars
<1>3. k \in Nat /\ u \in Nat /\ c \in Nat /\ p \in Nat /\ m \in Nat
  BY <1>1, LeftFacts
<1>4. Len(lineChannel') = c + 1
  <2>1. lineChannel \in Seq(DOMAIN arrays)
    BY DEF IInv, OneOwner, TypeOK
  <2> QED
    BY <1>1, <1>2, <2>1
<1>5. PICK r, s : r = ReaderLeft /\ s = ReaderLeft'
  OBVIOUS
<1>6. r \in Nat /\ s \in Nat /\ s + k < r
  BY SMTT(30), <1>1, <1>2, <1>3, <1>5 DEF ReaderLeft, PerBatch
<1>7. PICK a, b : a = (k + 3) * u /\ b = k * c
  OBVIOUS
<1>8. a \in Nat /\ b \in Nat /\ k * (c + 1) = b + k
  BY <1>3, <1>7, ProductsAreNatural
<1>9. Left = a + b + r + p + m
  BY <1>1, <1>5, <1>7 DEF Left
<1>10. Left' = a + (b + k) + s + p + m
  <2>1. Unread' = u
    BY <1>1, <1>2 DEF Unread
  <2>2. PerBatch' = k /\ ProcessorLeft' = p /\ MainLeft' = m
    BY <1>1, <1>2 DEF PerBatch, ProcessorLeft, MainLeft
  <2> QED
    BY <1>4, <1>5, <1>7, <1>8, <2>1, <2>2 DEF Left
<1>11. a + (b + k) + s + p + m < a + b + r + p + m
  BY <1>3, <1>6, <1>8
<1> QED
  BY <1>9, <1>10, <1>11

LEMMA ReceiveFalls == ASSUME IInv, IInv', Receive PROVE Left' < Left
<1>1. PICK k, u, c, r, m :
        /\ k = PerBatch /\ u = Unread /\ c = Len(lineChannel')
        /\ r = ReaderLeft /\ m = MainLeft
  OBVIOUS
<1>2. /\ UNCHANGED <<file, pos, reader, main>>
      /\ processor = "receive" /\ processor' = "add" /\ i' = 0
      /\ lineChannel # <<>> /\ lineChannel' = Tail(lineChannel)
  BY DEF Receive, readerVars
<1>3. lineChannel \in Seq(DOMAIN arrays)
  BY DEF IInv, OneOwner, TypeOK
<1>4. /\ k \in Nat /\ k = BatchSize + 3 /\ u \in Nat /\ c \in Nat /\ r \in Nat /\ m \in Nat
      /\ BatchSize \in Nat
  <2>1. BatchSize \in Nat
    BY GoAssumption
  <2> QED
    BY <1>1, <2>1, LeftFacts
<1>5. Len(lineChannel) = c + 1
  BY <1>1, <1>2, <1>3
<1>6. ProcessorLeft = 1 /\ ProcessorLeft' = k
  BY <1>2, <1>4 DEF ProcessorLeft
<1>7. PICK a, b : a = (k + 3) * u /\ b = k * c
  OBVIOUS
<1>8. a \in Nat /\ b \in Nat /\ k * (c + 1) = b + k
  BY <1>4, <1>7, ProductsAreNatural
<1>9. Left = a + (b + k) + r + 1 + m
  BY <1>1, <1>5, <1>6, <1>7, <1>8 DEF Left
<1>10. Left' = a + b + r + k + m
  <2>1. Unread' = u
    BY <1>1, <1>2 DEF Unread
  <2>2. PerBatch' = k /\ ReaderLeft' = r /\ MainLeft' = m
    BY <1>1, <1>2 DEF PerBatch, ReaderLeft, MainLeft
  <2> QED
    BY <1>1, <1>6, <1>7, <2>1, <2>2 DEF Left
<1>11. a + b + r + k + m < a + (b + k) + r + 1 + m
  BY <1>4, <1>8
<1> QED
  BY <1>9, <1>10, <1>11

LEMMA OneFalls ==
  ASSUME NEW r \in Nat, NEW p \in Nat, NEW m \in Nat,
         NEW s \in Nat, NEW q \in Nat, NEW n \in Nat,
         \/ s < r /\ q = p /\ n = m
         \/ s = r /\ q < p /\ n = m
         \/ s = r /\ q = p /\ n < m
  PROVE  s + q + n < r + p + m
  OBVIOUS

LEMMA OthersFall ==
  ASSUME IInv, IInv',
         \/ Open \/ OpenFails \/ GetPooled \/ GetNew \/ EndOfFile \/ Close
         \/ Finish \/ AddLine \/ ClearLineBuffer \/ Put \/ PrintResult
  PROVE  Left' < Left
<1>1. UNCHANGED <<file, pos, lineChannel>>
  BY DEF Open, OpenFails, GetPooled, GetNew, EndOfFile, Close, Finish, AddLine,
         ClearLineBuffer, Put, PrintResult, readerVars, processorVars, channelVars
<1>2. Unread' = Unread
  BY <1>1 DEF Unread
<1>3. /\ ReaderLeft \in Nat /\ ProcessorLeft \in Nat /\ MainLeft \in Nat
      /\ ReaderLeft' \in Nat /\ ProcessorLeft' \in Nat /\ MainLeft' \in Nat
      /\ PerBatch \in Nat
  BY LeftFacts, PartsStayNatural
<1>4. CASE Open \/ GetPooled \/ GetNew \/ EndOfFile \/ Close
  <2>1. /\ UNCHANGED <<main, processor, i>>
        /\ \/ reader = "open" /\ reader' = "get"
           \/ reader = "get" /\ reader' = "read"
           \/ reader = "read" /\ reader' = "flush"
           \/ reader = "close" /\ reader' = "done"
    BY <1>4 DEF Open, GetPooled, GetNew, EndOfFile, Close, processorVars
  <2>2. ReaderLeft' < ReaderLeft
    BY <1>3, <2>1 DEF ReaderLeft, PerBatch
  <2>3. ProcessorLeft' = ProcessorLeft /\ MainLeft' = MainLeft
    BY <2>1 DEF ProcessorLeft, MainLeft
  <2>4. ReaderLeft' + ProcessorLeft' + MainLeft' < ReaderLeft + ProcessorLeft + MainLeft
    BY <1>3, <2>2, <2>3, OneFalls
  <2> QED
    BY <1>1, <1>2, <2>4, SmallStep
<1>5. CASE Finish \/ AddLine \/ ClearLineBuffer \/ Put
  <2>1. i \in 0 .. BatchSize /\ BatchSize \in Nat
    BY GoAssumption DEF IInv, OneOwner, TypeOK
  <2>2. /\ UNCHANGED <<main, reader>>
        /\ \/ processor = "receive" /\ processor' = "done"
           \/ processor = "add" /\ processor' = "add" /\ i' = i + 1
           \/ processor = "add" /\ processor' = "put"
           \/ processor = "put" /\ processor' = "receive"
    BY <1>5 DEF Finish, AddLine, ClearLineBuffer, Put, readerVars
  <2>3. ProcessorLeft' < ProcessorLeft
    BY <2>1, <2>2 DEF ProcessorLeft
  <2>4. ReaderLeft' = ReaderLeft /\ MainLeft' = MainLeft
    BY <2>2 DEF ReaderLeft, PerBatch, MainLeft
  <2>5. ReaderLeft' + ProcessorLeft' + MainLeft' < ReaderLeft + ProcessorLeft + MainLeft
    BY <1>3, <2>3, <2>4, OneFalls
  <2> QED
    BY <1>1, <1>2, <2>5, SmallStep
<1>6. CASE OpenFails \/ PrintResult
  <2>1. /\ UNCHANGED <<reader, processor, i>>
        /\ main = "waiting" /\ main' \in {"panicked", "printed"}
    BY <1>6 DEF OpenFails, PrintResult, Running, readerVars, processorVars
  <2>2. MainLeft' < MainLeft
    BY <2>1 DEF MainLeft
  <2>3. ReaderLeft' = ReaderLeft /\ ProcessorLeft' = ProcessorLeft
    BY <2>1 DEF ReaderLeft, ProcessorLeft, PerBatch
  <2>4. ReaderLeft' + ProcessorLeft' + MainLeft' < ReaderLeft + ProcessorLeft + MainLeft
    BY <1>3, <2>2, <2>3, OneFalls
  <2> QED
    BY <1>1, <1>2, <2>4, SmallStep
<1> QED
  BY <1>4, <1>5, <1>6

(***************************************************************************)
(* No run goes on for ever: each step leaves less to do, whatever the      *)
(* goroutines do and however they interleave, batches that come back from  *)
(* the pool included.                                                      *)
(***************************************************************************)
THEOREM EveryStepLeavesLess == Spec => [](Left \in Nat) /\ [][Left' < Left]_vars
<1>1. IInv => Left \in Nat
  BY LeftIsNatural
<1>2. IInv /\ IInv' /\ [Next]_vars => [Left' < Left]_vars
  BY ReadLineFalls, SendFalls, ReceiveFalls, OthersFall DEF Next, FileReader, FileProcessor
<1> QED
  BY <1>1, <1>2, Invariance, PTL DEF Spec

(***************************************************************************)
(* A reader that is done has closed the channel.                           *)
(***************************************************************************)
ClosedWhenDone == reader = "done" => closed

(***************************************************************************)
(* Until the program ends somebody can go on: the reader never waits for   *)
(* room while the processor waits for a batch, and when neither goroutine  *)
(* has anything more to do both have told main.                            *)
(***************************************************************************)
THEOREM NobodyWaitsForEver == Spec => []NeverAllWait
<1>1. Init => ClosedWhenDone
  BY DEF Init, ClosedWhenDone
<1>2. ClosedWhenDone /\ [Next]_vars => ClosedWhenDone'
  BY DEF ClosedWhenDone, Next, vars, FileReader, FileProcessor, Open, OpenFails, GetPooled,
         GetNew, ReadLine, EndOfFile, Send, Close, Receive, Finish, AddLine, ClearLineBuffer,
         Put, PrintResult, readerVars, processorVars, channelVars
<1>3. ASSUME IInv, ClosedWhenDone PROVE NeverAllWait
  <2> SUFFICES ASSUME ~ ReaderCanStep, ~ ProcessorCanStep PROVE waitGroup = 0
    BY DEF NeverAllWait
  <2>1. TypeOK /\ Control
    BY <1>3 DEF IInv, OneOwner
  <2>2. /\ reader \in {"open", "get", "read", "send", "flush", "close", "done"}
        /\ processor \in {"receive", "add", "put", "done"}
    BY <2>1 DEF TypeOK
  <2>3. reader # "read"
    <3> SUFFICES ASSUME reader = "read" PROVE FALSE
      OBVIOUS
    <3> DEFINE N == {q \in file.newlines : ~ (q < pos)}
    <3>1. N # {} /\ N \in SUBSET Nat
      BY <2>1, HeapFacts DEF ReaderCanStep, NoMoreLines
    <3>2. PICK q \in N : \A p \in N : q <= p
      BY <3>1, LeastNatural
    <3>3. pos \in Nat /\ q \in Nat /\ \A p \in file.newlines : p \in Nat
      BY <2>1, <3>1, HeapFacts
    <3>4. pos <= q /\ \A p \in pos .. q - 1 : p \notin file.newlines
      BY <3>2, <3>3
    <3> QED
      BY <3>4 DEF ReaderCanStep
  <2>4. reader = "done"
    <3> SUFFICES ASSUME reader # "done" PROVE FALSE
      OBVIOUS
    <3>1. reader \in {"send", "flush"} /\ ~ (Len(lineChannel) < ChannelSize)
      BY <2>2, <2>3 DEF ReaderCanStep
    <3>2. ChannelSize \in Nat \ {0}
      BY GoAssumption
    <3>3. lineChannel # <<>>
      BY <3>1, <3>2
    <3>4. processor # "done"
      BY <2>1, <3>3 DEF Control
    <3> QED
      BY <2>2, <3>3, <3>4 DEF ProcessorCanStep
  <2>5. processor = "done"
    BY <1>3, <2>2, <2>4 DEF ProcessorCanStep, ClosedWhenDone
  <2> QED
    BY <2>1, <2>4, <2>5 DEF Control
<1> QED
  BY <1>1, <1>2, <1>3, Invariance, PTL DEF Spec
====
