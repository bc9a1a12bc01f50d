---------------------------- MODULE JavaBrc_proofs ---------------------------
(***************************************************************************)
(* Proofs about the Java program, for every file, every number of cores,   *)
(* every size of buffer and every longest mapping: JavaBrc, and at the end *)
(* JavaLines, its threads byte by byte.                                    *)
(***************************************************************************)
EXTENDS JavaBrc, JavaLines, BrcLemmas, SequenceTheorems

-----------------------------------------------------------------------------
(***************************************************************************)
(* A chunk is no longer than the file, and as many chunks as cores, each   *)
(* with a newline, are longer: rounding loses less than the newlines add.  *)
(***************************************************************************)
LEMMA BytesPerChunkBounds ==
  ASSUME NEW size \in Nat, NEW n \in Nat \ {0}
  PROVE  /\ BytesPerChunk(size, n) \in 0 .. size
         /\ size < n * (BytesPerChunk(size, n) + 1)
<1> DEFINE q == (2 * size + n) \div (2 * n)
<1>1. BytesPerChunk(size, n) = q
  BY DEF BytesPerChunk
<1>2. 2 * size + n \in Nat /\ 2 * n \in Nat \ {0}
  OBVIOUS
<1>3. q \in Nat /\ (2 * n) * q <= 2 * size + n /\ 2 * size + n < (2 * n) * q + 2 * n
  BY <1>2, DivBounds
<1> HIDE DEF q
<1>4. n * q \in Nat /\ (2 * n) * q = 2 * (n * q) /\ n * (q + 1) = n * q + n
  BY <1>3
<1>5. size < n * (q + 1)
  BY <1>3, <1>4
<1>6. q <= size
  <2>1. SUFFICES ASSUME q >= size + 1 PROVE FALSE
    BY <1>3
  <2>2. n * q >= n * (size + 1)
    BY <2>1, <1>3
  <2>3. n * (size + 1) = n * size + n /\ n * size >= size /\ n * size \in Nat
    OBVIOUS
  <2> QED
    BY <1>3, <1>4, <2>2, <2>3
<1> QED
  BY <1>1, <1>3, <1>5, <1>6

LEMMA RoomForOneMore ==
  ASSUME NEW size \in Nat, NEW n \in Nat \ {0}, NEW k \in Nat,
         k * (BytesPerChunk(size, n) + 1) <= size
  PROVE  k < n
<1> DEFINE b == BytesPerChunk(size, n)
<1>1. b \in Nat /\ size < n * (b + 1) /\ k * (b + 1) <= size
  BY BytesPerChunkBounds
<1> HIDE DEF b
<1>2. SUFFICES ASSUME n <= k PROVE FALSE
  OBVIOUS
<1>3. /\ n * (b + 1) <= k * (b + 1)
      /\ n * (b + 1) \in Nat /\ k * (b + 1) \in Nat
  <2>1. b + 1 \in Nat
    BY <1>1
  <2> QED
    BY <1>2, <2>1, TimesMonotonic
<1> QED
  BY <1>1, <1>3

-----------------------------------------------------------------------------
(***************************************************************************)
(* What a map of the program holds when the rows R are in it.              *)
(***************************************************************************)
Has(R) == Held(file, R, 100000, -100000)

LEMMA HasType ==
  ASSUME NEW R, IsRowSet(file, R)
  PROVE  Has(R) \in Tables
<1> DEFINE hi == -100000
<1>1. hi \in Int
  OBVIOUS
<1> HIDE DEF hi
<1>2. Held(file, R, 100000, hi) \in
        [Names -> [min : Int, max : Int, sum : Int, count : Nat] \cup {Absent}]
  BY <1>1, HeldType
<1> QED
  BY <1>2 DEF Has, Tables, Stat, hi

LEMMA HasNothing == Has({}) = Empty
  BY HeldNothing DEF Has, Empty

(***************************************************************************)
(* AddRow takes in one row, MergeMap a disjoint set of rows.               *)
(***************************************************************************)
LEMMA AddRowHas ==
  ASSUME NEW R, NEW p, IsRowSet(file, R \cup {p}), p \notin R
  PROVE  AddRow(Has(R), file.row[p]) = Has(R \cup {p})
<1> DEFINE lo == 100000
           hi == -100000
           n == file.row[p].name
           t == file.row[p].temp
           h == Held(file, R, lo, hi)
           a == Holding(file, RowsOf(file, R, n), lo, hi)
<1>1. IsRowSet(file, R)
  <2> DEFINE RP == R \cup {p}
  <2>1. IsRowSet(file, RP) /\ R \in SUBSET RP
    OBVIOUS
  <2> HIDE DEF RP
  <2> QED
    BY <2>1, RowSetFacts
<1>2. lo \in Int /\ hi \in Int /\ n \in Names
  BY DEF IsRowSet, Row
<1>3. Absent \notin [min : Int, max : Int, sum : Int, count : Nat]
  BY JavaAssumption DEF Stat
<1> HIDE DEF lo, hi, n
<1>4. /\ h[n] = Absent => a = [min |-> lo, max |-> hi, sum |-> 0, count |-> 0]
      /\ h[n] # Absent => a = h[n]
  BY <1>1, <1>2, <1>3, HeldEntry
<1>h. /\ h = Held(file, R, lo, hi) /\ n = file.row[p].name
      /\ a = Holding(file, RowsOf(file, R, n), lo, hi)
  BY DEF n
<1> HIDE DEF h, a
<1>5. Held(file, R \cup {p}, lo, hi) =
        [h EXCEPT ![n] = [min   |-> IF t < a.min THEN t ELSE a.min,
                          max   |-> IF t > a.max THEN t ELSE a.max,
                          sum   |-> a.sum + t,
                          count |-> a.count + 1]]
  BY <1>2, <1>h, HeldRow
<1>6. Entry(h, n) = a
  BY <1>4 DEF Entry, New, lo, hi
<1>7. AddRow(h, file.row[p]) = [h EXCEPT ![n] = Add(a, t)]
  BY <1>6 DEF AddRow, n
<1>8. AddRow(h, file.row[p]) = Held(file, R \cup {p}, lo, hi)
  BY <1>5, <1>7 DEF Add, Lesser, Greater
<1> QED
  BY <1>8 DEF Has, h, lo, hi

LEMMA MergeMapHas ==
  ASSUME NEW R, NEW T, IsRowSet(file, R), IsRowSet(file, T), R \cap T = {}
  PROVE  MergeMap(Has(R), Has(T)) = Has(R \cup T)
<1> DEFINE lo == 100000
           hi == -100000
           g == Held(file, R, lo, hi)
           m == Held(file, T, lo, hi)
           u == Held(file, R \cup T, lo, hi)
<1>1. lo \in Int /\ hi \in Int /\ Absent \notin [min : Int, max : Int, sum : Int, count : Nat]
  BY JavaAssumption DEF Stat
<1> HIDE DEF lo, hi
<1>2. ASSUME NEW n \in Names
      PROVE  u[n] = IF m[n] = Absent THEN g[n]
                    ELSE IF g[n] = Absent THEN m[n] ELSE Merge(g[n], m[n])
  <2> DEFINE a == Holding(file, RowsOf(file, R, n), lo, hi)
             b == Holding(file, RowsOf(file, T, n), lo, hi)
  <2>1. /\ g[n] = Absent <=> RowsOf(file, R, n) = {}
        /\ g[n] # Absent => a = g[n]
        /\ m[n] = Absent <=> RowsOf(file, T, n) = {}
        /\ m[n] # Absent => b = m[n]
    BY <1>1, HeldEntry
  <2>2. /\ RowsOf(file, T, n) = {} => u[n] = g[n]
        /\ RowsOf(file, R, n) = {} => u[n] = m[n]
        /\ RowsOf(file, T, n) # {} => u[n] = Both(a, b)
    BY <1>1, HeldUnion
  <2> HIDE DEF a, b, g, m, u
  <2> QED
    BY <2>1, <2>2 DEF Both, Merge, Lesser, Greater
<1>3. u = [n \in Names |-> u[n]]
  BY DEF Held
<1> HIDE DEF g, m, u
<1>4. MergeMap(g, m) = u
  BY <1>2, <1>3 DEF MergeMap
<1> QED
  BY <1>4 DEF Has, g, m, u, lo, hi

(***************************************************************************)
(* The fold of a thread over its rows, in whatever order, takes in each.   *)
(***************************************************************************)
AddAll(R) == FoldSet(LAMBDA p, map : AddRow(map, file.row[p]), Empty, R)

MapTo(maps, s) ==
  IF s = {} THEN Empty ELSE AddRow(maps[s \ {First(s)}], file.row[First(s)])

SubsetMaps(R) == CHOOSE maps : maps = [s \in SUBSET R |-> MapTo(maps, s)]

LEMMA AddAllIsSubsetMap ==
  ASSUME NEW R
  PROVE  AddAll(R) = SubsetMaps(R)[R]
  BY DEF AddAll, FoldSet, MapThenFoldSet, SubsetMaps, MapTo, First

LEMMA AddAllHas ==
  ASSUME NEW R, IsRowSet(file, R)
  PROVE  AddAll(R) = Has(R)
<1> DEFINE h == [s \in SUBSET R |-> Has(s)]
           maps == SubsetMaps(R)
           Good == {s \in SUBSET R : maps[s] = Has(s)}
<1>1. IsFiniteSet(R) /\ \A s \in SUBSET R : IsRowSet(file, s)
  BY RowSetFacts
<1>2. \A s \in SUBSET R : s # {} => First(s) \in s
  BY DEF First
<1>3. ASSUME NEW s \in SUBSET R, s # {}
      PROVE  AddRow(Has(s \ {First(s)}), file.row[First(s)]) = Has(s)
  <2> DEFINE p == First(s)
             Q == s \ {p}
  <2>1. p \notin Q /\ Q \cup {p} = s
    BY <1>2, <1>3
  <2> HIDE DEF p, Q
  <2>2. IsRowSet(file, Q \cup {p})
    BY <1>1, <2>1
  <2>3. AddRow(Has(Q), file.row[p]) = Has(Q \cup {p})
    BY <2>1, <2>2, AddRowHas
  <2> QED
    BY <2>1, <2>3 DEF p, Q
<1>4. ASSUME NEW s \in SUBSET R PROVE h[s] = MapTo(h, s)
  <2>1. CASE s = {}
    BY <2>1, HasNothing DEF MapTo
  <2>2. CASE s # {}
    <3>1. s \ {First(s)} \in SUBSET R
      OBVIOUS
    <3> QED
      BY <1>3, <2>2, <3>1 DEF MapTo
  <2> QED
    BY <2>1, <2>2
<1>5. h = [s \in SUBSET R |-> MapTo(h, s)]
  BY <1>4
<1> HIDE DEF h
<1>6. maps = [s \in SUBSET R |-> MapTo(maps, s)]
  BY <1>5 DEF SubsetMaps
<1> HIDE DEF maps
<1>7. \A s \in SUBSET R : maps[s] = MapTo(maps, s)
  BY <1>6
<1>8. ASSUME NEW s \in SUBSET R, \A t \in SUBSET s : t # s => t \in Good
      PROVE  s \in Good
  <2>1. CASE s = {}
    BY <1>7, <2>1, HasNothing DEF MapTo
  <2>2. CASE s # {}
    <3>1. s \ {First(s)} \in Good
      BY <1>2, <1>8, <2>2
    <3>2. maps[s] = AddRow(Has(s \ {First(s)}), file.row[First(s)])
      BY <1>7, <2>2, <3>1 DEF MapTo
    <3> QED
      BY <1>3, <2>2, <3>2
  <2> QED
    BY <2>1, <2>2
<1> HIDE DEF Good
<1>9. R \in Good
  BY <1>1, <1>8, SubsetInduction
<1> QED
  BY <1>9, AddAllIsSubsetMap DEF Good, maps

-----------------------------------------------------------------------------
(***************************************************************************)
(* The inductive invariant.                                                *)
(***************************************************************************)

(***************************************************************************)
(* While main cuts chunks, each takes at least bytesPerChunk bytes and a   *)
(* newline, and chunkLength is what the file has left for the next.        *)
(***************************************************************************)
Cutting ==
  /\ pc = "open" => fileChunks = <<>> /\ filePtr = 0
  /\ pc = "split" =>
       /\ filePtr = IF fileChunks = <<>> THEN 0 ELSE ChunkEnd(Len(fileChunks)) + 1
       /\ Len(fileChunks) * (bytesPerChunk + 1) <= filePtr
       /\ chunkLength = IF filePtr + bytesPerChunk > file.size
                        THEN file.size - filePtr ELSE bytesPerChunk
       /\ \A k \in DOMAIN fileChunks :
            ChunkEnd(k) \in file.newlines /\ ChunkEnd(k) < filePtr
  /\ pc \in {"start", "join", "printed"} => fileChunks # <<>>

(***************************************************************************)
(* A chunk begins behind all that come before it.                          *)
(***************************************************************************)
InOrder ==
  \A k, l \in DOMAIN fileChunks : k < l => ChunkEnd(k) < fileChunks[l].start

(***************************************************************************)
(* There is a thread for each chunk once main joins them, and main joins   *)
(* only threads that have ended.                                           *)
(***************************************************************************)
ThreadsMatchChunks ==
  /\ Len(threads) <= Len(fileChunks)
  /\ pc \in {"join", "printed"} => Len(threads) = Len(fileChunks)
  /\ pc \in {"open", "split", "failed"} => threads = <<>>
  /\ pc = "printed" => joined = Len(threads)
  /\ \A i \in 1 .. joined : threads[i] # "running"

(***************************************************************************)
(* A thread that is done has added the rows of its chunk, all of them, and *)
(* main's map holds the rows of the chunks it has merged, if no thread has *)
(* failed.                                                                 *)
(***************************************************************************)
RowsIn(k) == {p \in file.newlines : fileChunks[k].start <= p /\ p < ChunkEnd(k)}

RowsJoined == {p \in file.newlines : \E k \in 1 .. joined : p \in RowsIn(k)}

DoneHasRows ==
  \A i \in DOMAIN threads :
    threads[i] = "done" => fileChunks[i].fileChunkResult = Has(RowsIn(i))

ResultHasRows ==
  (\A i \in 1 .. joined : threads[i] = "done") => result = Has(RowsJoined)

IInv == /\ ChunksFollow /\ OneThreadPerCore /\ Cutting /\ InOrder
        /\ ThreadsMatchChunks /\ DoneHasRows /\ ResultHasRows

-----------------------------------------------------------------------------
LEMMA InitInvariant == Init => IInv
<1> SUFFICES ASSUME Init PROVE IInv
  OBVIOUS
<1> USE DEF Init
<1>1. IsFile(file)
  BY FilesAssumption
<1>2. TypeOK
  <2>1. Empty \in Tables
    BY DEF Empty, Tables
  <2> QED
    BY <1>1, <2>1, JavaAssumption DEF TypeOK, IsFile
<1>3. ChunksFollow /\ OneThreadPerCore
  BY <1>2 DEF ChunksFollow, OneThreadPerCore
<1>4. Cutting /\ InOrder /\ ThreadsMatchChunks /\ DoneHasRows
  BY DEF Cutting, InOrder, ThreadsMatchChunks, DoneHasRows
<1>5. RowsJoined = {}
  BY DEF RowsJoined
<1>6. ResultHasRows
  BY <1>5, HasNothing DEF ResultHasRows
<1> QED
  BY <1>3, <1>4, <1>6 DEF IInv

(***************************************************************************)
(* The rows of a chunk, and those of the chunks joined, are rows of the    *)
(* file.                                                                   *)
(***************************************************************************)
LEMMA RowsInAreRows ==
  ASSUME IsFile(file)
  PROVE  /\ \A k : IsRowSet(file, RowsIn(k))
         /\ IsRowSet(file, RowsJoined)
         /\ \A R \in SUBSET file.newlines : IsRowSet(file, R)
<1>1. file.newlines \in SUBSET Rows(file)
  BY DEF Rows
<1>2. \A R \in SUBSET file.newlines : IsRowSet(file, R)
  BY <1>1, RowsAreRows
<1>3. \A k : RowsIn(k) \in SUBSET file.newlines
  BY DEF RowsIn
<1>4. RowsJoined \in SUBSET file.newlines
  BY DEF RowsJoined
<1> QED
  BY <1>2, <1>3, <1>4

LEMMA StutterInvariant == IInv /\ UNCHANGED vars => IInv'
<1> SUFFICES ASSUME IInv, UNCHANGED vars PROVE IInv'
  OBVIOUS
<1> USE DEF IInv, vars, splitVars
<1>1. ChunksFollow' /\ OneThreadPerCore'
  BY DEF ChunksFollow, OneThreadPerCore, TypeOK, ChunkEnd
<1>2. Cutting' /\ InOrder' /\ ThreadsMatchChunks'
  BY DEF Cutting, InOrder, ThreadsMatchChunks, ChunkEnd, bytesPerChunk
<1>3. DoneHasRows' /\ ResultHasRows'
  BY DEF DoneHasRows, ResultHasRows, RowsIn, RowsJoined, ChunkEnd, Has
<1> QED
  BY <1>1, <1>2, <1>3

LEMMA OpenFileInvariant == IInv /\ OpenFile => IInv'
<1> SUFFICES ASSUME IInv, OpenFile PROVE IInv'
  OBVIOUS
<1> USE DEF IInv
<1>1. /\ pc = "open" /\ pc' = "split"
      /\ cores' \in 1 .. MaxCores
      /\ chunkLength' = BytesPerChunk(file.size, cores')
      /\ UNCHANGED <<file, filePtr, fileChunks, threads, joined, result>>
  BY JavaAssumption DEF OpenFile
<1>2. fileChunks = <<>> /\ filePtr = 0 /\ threads = <<>>
  BY <1>1 DEF Cutting, ThreadsMatchChunks
<1>3. TypeOK /\ file.size \in Nat
  BY DEF ChunksFollow, TypeOK, IsFile
<1>4. chunkLength' \in 0 .. file.size
  <2>1. cores' \in Nat \ {0}
    BY <1>1
  <2> QED
    BY <1>1, <1>3, <2>1, BytesPerChunkBounds
<1>5. TypeOK'
  BY <1>1, <1>3, <1>4 DEF TypeOK
<1>6. ChunksFollow' /\ OneThreadPerCore'
  BY <1>1, <1>2, <1>5 DEF ChunksFollow, OneThreadPerCore
<1>7. Cutting'
  BY <1>1, <1>2, <1>3, <1>4 DEF Cutting, bytesPerChunk
<1>8. InOrder' /\ ThreadsMatchChunks' /\ DoneHasRows'
  BY <1>1, <1>2 DEF InOrder, ThreadsMatchChunks, DoneHasRows
<1>9. ResultHasRows'
  BY <1>1 DEF ResultHasRows, RowsIn, RowsJoined, ChunkEnd, Has
<1> QED
  BY <1>6, <1>7, <1>8, <1>9

(***************************************************************************)
(* Steps that move main on and leave chunks, threads and result alone.     *)
(***************************************************************************)
LEMMA MovesOn ==
  ASSUME IInv,
         UNCHANGED <<file, cores, filePtr, chunkLength, fileChunks, threads, joined, result>>,
         \/ pc \in {"open", "split"} /\ pc' = "failed"
         \/ pc = "start" /\ pc' = "join" /\ Len(threads) = Len(fileChunks)
         \/ pc = "join" /\ pc' = "printed" /\ joined = Len(threads)
  PROVE  IInv'
<1> USE DEF IInv
<1>1. ChunksFollow'
  BY DEF ChunksFollow, TypeOK, ChunkEnd
<1>2. OneThreadPerCore' /\ Cutting' /\ InOrder'
  BY DEF OneThreadPerCore, Cutting, InOrder, ChunkEnd
<1>3. ThreadsMatchChunks'
  BY DEF ThreadsMatchChunks
<1>4. DoneHasRows' /\ ResultHasRows'
  BY SMTT(30) DEF DoneHasRows, ResultHasRows, RowsIn, RowsJoined, ChunkEnd, Has
<1> QED
  BY <1>1, <1>2, <1>3, <1>4

LEMMA FileFailsInvariant == IInv /\ FileFails => IInv'
  BY MovesOn DEF FileFails, splitVars

LEMMA AllStartedInvariant == IInv /\ AllStarted => IInv'
  BY MovesOn DEF AllStarted, splitVars

LEMMA PrintResultInvariant == IInv /\ PrintResult => IInv'
  BY MovesOn DEF PrintResult, splitVars

(***************************************************************************)
(* What is so while main cuts chunks.                                      *)
(***************************************************************************)
LEMMA SplitFacts ==
  ASSUME IInv, pc = "split"
  PROVE  /\ file.size \in Nat /\ filePtr \in Nat /\ filePtr <= file.size
         /\ (\A p \in file.newlines : p \in Nat /\ p < file.size)
         /\ cores \in Nat \ {0}
         /\ bytesPerChunk \in 0 .. file.size
         /\ Len(fileChunks) \in Nat /\ Len(fileChunks) < cores
         /\ DOMAIN fileChunks = 1 .. Len(fileChunks)
         /\ fileChunks \in Seq(Chunk)
         /\ threads = <<>> /\ joined = 0
<1>1. /\ file.size \in Nat /\ filePtr \in Nat /\ filePtr <= file.size
      /\ (\A p \in file.newlines : p \in Nat /\ p < file.size)
      /\ cores \in Nat \ {0} /\ fileChunks \in Seq(Chunk)
      /\ joined \in 0 .. Len(threads)
  BY JavaAssumption DEF IInv, ChunksFollow, TypeOK, IsFile
<1>2. Len(fileChunks) \in Nat /\ DOMAIN fileChunks = 1 .. Len(fileChunks)
  BY <1>1, LenProperties
<1>3. bytesPerChunk \in 0 .. file.size
  BY <1>1, BytesPerChunkBounds DEF bytesPerChunk
<1>4. Len(fileChunks) * (bytesPerChunk + 1) <= file.size
  <2>1. Len(fileChunks) * (bytesPerChunk + 1) <= filePtr
    BY DEF IInv, Cutting
  <2>2. Len(fileChunks) * (bytesPerChunk + 1) \in Nat
    BY <1>2, <1>3
  <2> QED
    BY <1>1, <2>1, <2>2
<1>5. Len(fileChunks) < cores
  BY <1>1, <1>2, <1>4, RoomForOneMore DEF bytesPerChunk
<1>6. threads = <<>>
  BY DEF IInv, ThreadsMatchChunks
<1> QED
  BY <1>1, <1>2, <1>3, <1>5, <1>6

(***************************************************************************)
(* A chunk of any length, added at filePtr, follows the others.            *)
(***************************************************************************)
LEMMA ChunkAdded ==
  ASSUME IInv, pc = "split", NEW length \in Nat, AddChunk(length),
         UNCHANGED <<file, cores, threads, joined, result>>,
         NEW n, n = Len(fileChunks)
  PROVE  /\ fileChunks' \in Seq(Chunk) /\ Len(fileChunks') = n + 1
         /\ DOMAIN fileChunks' = 1 .. n + 1
         /\ \A k \in 1 .. n : ChunkEnd(k)' \in file.newlines /\ ChunkEnd(k)' < filePtr
         /\ fileChunks'[n + 1].start = filePtr
         /\ ChunkEnd(n + 1)' = filePtr + length
         /\ \A k \in 1 .. n + 1 :
              fileChunks'[k].start = IF k = 1 THEN 0 ELSE ChunkEnd(k - 1)' + 1
         /\ OneThreadPerCore' /\ InOrder' /\ DoneHasRows' /\ ResultHasRows'
<1> DEFINE new == [start |-> filePtr, length |-> length, fileChunkResult |-> Empty]
<1>1. /\ filePtr \in Nat /\ n \in Nat /\ n < cores /\ cores \in Nat
      /\ DOMAIN fileChunks = 1 .. n /\ fileChunks \in Seq(Chunk)
      /\ threads = <<>> /\ joined = 0
  BY SplitFacts
<1>2. new \in Chunk /\ new.start = filePtr /\ new.length = length
  <2>1. Empty \in Tables
    BY DEF Empty, Tables
  <2> QED
    BY <1>1, <2>1 DEF Chunk
<1>3. fileChunks' = Append(fileChunks, new)
  BY DEF AddChunk
<1> HIDE DEF new
<1>4. /\ fileChunks' \in Seq(Chunk) /\ Len(fileChunks') = n + 1
      /\ \A k \in 1 .. n : fileChunks'[k] = fileChunks[k]
      /\ fileChunks'[n + 1] = new
  BY <1>1, <1>2, <1>3, AppendProperties
<1>5. DOMAIN fileChunks' = 1 .. n + 1
  BY <1>4, LenProperties
<1>6. /\ \A k \in 1 .. n : ChunkEnd(k)' = ChunkEnd(k) /\ fileChunks'[k].start = fileChunks[k].start
      /\ ChunkEnd(n + 1)' = filePtr + length
      /\ fileChunks'[n + 1].start = filePtr
  <2>1. ASSUME NEW k \in 1 .. n
        PROVE  ChunkEnd(k)' = ChunkEnd(k) /\ fileChunks'[k].start = fileChunks[k].start
    <3>1. fileChunks'[k] = fileChunks[k]
      BY <1>4
    <3> QED
      BY <3>1 DEF ChunkEnd
  <2>2. ChunkEnd(n + 1)' = fileChunks'[n + 1].start + fileChunks'[n + 1].length
    BY DEF ChunkEnd
  <2> QED
    BY <1>2, <1>4, <2>1, <2>2
<1>7. \A k \in 1 .. n : ChunkEnd(k) \in file.newlines /\ ChunkEnd(k) < filePtr
  BY <1>1 DEF IInv, Cutting
<1>8. filePtr = IF n = 0 THEN 0 ELSE ChunkEnd(n) + 1
  <2>1. n = 0 <=> fileChunks = <<>>
    BY <1>1, EmptySeq
  <2> QED
    BY <2>1 DEF IInv, Cutting
<1>9. ASSUME NEW k \in 1 .. n + 1
      PROVE  fileChunks'[k].start = IF k = 1 THEN 0 ELSE ChunkEnd(k - 1)' + 1
  <2>1. CASE k \in 1 .. n
    <3>1. fileChunks[k].start = IF k = 1 THEN 0 ELSE ChunkEnd(k - 1) + 1
      BY <1>1, <2>1 DEF IInv, ChunksFollow
    <3>2. k # 1 => k - 1 \in 1 .. n
      BY <1>1, <2>1
    <3> QED
      BY <1>6, <2>1, <3>1, <3>2
  <2>2. CASE k = n + 1
    <3>1. n # 0 => n \in 1 .. n
      BY <1>1
    <3>2. (n + 1) - 1 = n /\ (n + 1 = 1 <=> n = 0)
      BY <1>1
    <3> QED
      BY <1>6, <1>8, <2>2, <3>1, <3>2
  <2> QED
    BY <1>1, <2>1, <2>2
<1>10. OneThreadPerCore'
  BY <1>1, <1>4 DEF OneThreadPerCore
<1>11. InOrder'
  <2>1. SUFFICES ASSUME NEW k \in 1 .. n + 1, NEW l \in 1 .. n + 1, k < l
                 PROVE  ChunkEnd(k)' < fileChunks'[l].start
    BY <1>5 DEF InOrder
  <2>2. k \in 1 .. n
    BY <1>1, <2>1
  <2>3. CASE l \in 1 .. n
    BY <1>1, <1>6, <2>1, <2>2, <2>3 DEF IInv, InOrder
  <2>4. CASE l = n + 1
    BY <1>6, <1>7, <2>2, <2>4
  <2> QED
    BY <1>1, <2>3, <2>4
<1>12. DoneHasRows'
  BY <1>1 DEF DoneHasRows
<1>13. ResultHasRows'
  <2>1. RowsJoined = {} /\ RowsJoined' = {}
    BY <1>1 DEF RowsJoined
  <2>2. result = Has(RowsJoined)
    BY <1>1 DEF IInv, ResultHasRows
  <2> QED
    BY <2>1, <2>2 DEF ResultHasRows, Has
<1> QED
  BY <1>4, <1>5, <1>6, <1>7, <1>9, <1>10, <1>11, <1>12, <1>13

LEMMA CutChunkInvariant == IInv /\ CutChunk => IInv'
<1> SUFFICES ASSUME IInv, CutChunk PROVE IInv'
  OBVIOUS
<1>n. PICK n : n = Len(fileChunks)
  OBVIOUS
<1> DEFINE b == bytesPerChunk
           size == file.size
<1>1. /\ size \in Nat /\ filePtr \in Nat /\ cores \in Nat \ {0}
      /\ (\A p \in file.newlines : p \in Nat /\ p < size)
      /\ b \in Nat /\ b <= size /\ n \in Nat
      /\ threads = <<>> /\ joined = 0
      /\ pc = "split" /\ UNCHANGED <<file, pc, cores, threads, joined, result>>
  BY <1>n, SplitFacts DEF CutChunk
<1>2. PICK newline \in file.newlines :
        LET length == chunkLength + (newline - (filePtr + b))
        IN  /\ filePtr + b <= newline
            /\ AddChunk(length)
            /\ filePtr' = NextPtr(filePtr, length)
            /\ chunkLength' = Shrink(filePtr', b, size)
  BY DEF CutChunk
<1> DEFINE length == newline - filePtr
<1>3. n * (b + 1) <= filePtr /\ chunkLength = IF filePtr + b > size THEN size - filePtr ELSE b
  BY <1>n, <1>1 DEF IInv, Cutting
<1> HIDE DEF b, size
<1>4. chunkLength + (newline - (filePtr + b)) = length /\ length \in Nat /\ b <= length
  BY <1>1, <1>2, <1>3
<1>5. /\ AddChunk(length) /\ filePtr' = newline + 1
      /\ chunkLength' = Shrink(newline + 1, b, size)
  BY <1>1, <1>2, <1>4 DEF NextPtr
<1> HIDE DEF length
<1>6. /\ fileChunks' \in Seq(Chunk) /\ Len(fileChunks') = n + 1
      /\ DOMAIN fileChunks' = 1 .. n + 1
      /\ (\A k \in 1 .. n : ChunkEnd(k)' \in file.newlines /\ ChunkEnd(k)' < filePtr)
      /\ ChunkEnd(n + 1)' = newline
      /\ (\A k \in 1 .. n + 1 :
             fileChunks'[k].start = IF k = 1 THEN 0 ELSE ChunkEnd(k - 1)' + 1)
      /\ OneThreadPerCore' /\ InOrder' /\ DoneHasRows' /\ ResultHasRows'
  <2>1. filePtr + length = newline
    BY <1>1 DEF length
  <2> QED
    BY <1>1, <1>4, <1>5, <2>1, <1>n, ChunkAdded
<1>7. ASSUME NEW k \in 1 .. n + 1
      PROVE  ChunkEnd(k)' \in file.newlines /\ ChunkEnd(k)' < filePtr'
  <2>1. newline \in Nat /\ filePtr + b <= newline
    BY <1>1, <1>2
  <2>2. CASE k = n + 1
    BY <1>5, <1>6, <2>1, <2>2
  <2>3. CASE k \in 1 .. n
    <3>1. ChunkEnd(k)' \in file.newlines /\ ChunkEnd(k)' < filePtr
      BY <1>6, <2>3
    <3>2. ChunkEnd(k)' \in Nat
      BY <1>1, <3>1
    <3> QED
      BY <1>1, <1>5, <2>1, <3>1, <3>2
  <2> QED
    BY <1>1, <2>2, <2>3
<1>8. /\ filePtr' \in 0 .. size /\ chunkLength' \in 0 .. size
      /\ chunkLength' = IF filePtr' + b > size THEN size - filePtr' ELSE b
  BY SMTT(30), <1>1, <1>2, <1>5 DEF Shrink
<1>9. (n + 1) * (b + 1) <= filePtr'
  <2>1. (n + 1) * (b + 1) = n * (b + 1) + (b + 1) /\ n * (b + 1) \in Nat
    <3>1. b + 1 \in Nat
      BY <1>1
    <3> QED
      BY <1>1, <3>1, OneMoreTimes
  <2>2. filePtr + b + 1 <= filePtr'
    BY <1>1, <1>2, <1>5
  <2> QED
    BY <1>1, <1>3, <1>5, <2>1, <2>2
<1>10. TypeOK'
  BY <1>1, <1>6, <1>8 DEF IInv, ChunksFollow, TypeOK, size
<1>11. ChunksFollow'
  BY <1>1, <1>6, <1>7, <1>10 DEF ChunksFollow
<1>12. Cutting'
  <2>1. bytesPerChunk' = b /\ file'.size = size
    BY <1>1 DEF bytesPerChunk, b, size
  <2>2. fileChunks' # <<>>
    BY <1>1, <1>6
  <2>3. filePtr' = ChunkEnd(n + 1)' + 1
    BY <1>5, <1>6
  <2> QED
    BY <1>1, <1>6, <1>7, <1>8, <1>9, <2>1, <2>2, <2>3 DEF Cutting
<1>13. ThreadsMatchChunks'
  BY <1>1, <1>6 DEF ThreadsMatchChunks
<1> QED
  BY <1>6, <1>11, <1>12, <1>13 DEF IInv

LEMMA LastChunkInvariant == IInv /\ LastChunk => IInv'
<1> SUFFICES ASSUME IInv, LastChunk PROVE IInv'
  OBVIOUS
<1>n. PICK n : n = Len(fileChunks)
  OBVIOUS
<1> DEFINE b == bytesPerChunk
           size == file.size
           length == size - filePtr
<1>1. /\ size \in Nat /\ filePtr \in Nat /\ filePtr <= size /\ cores \in Nat \ {0}
      /\ b \in Nat /\ n \in Nat
      /\ threads = <<>> /\ joined = 0
      /\ pc = "split" /\ pc' = "start"
      /\ UNCHANGED <<file, cores, filePtr, chunkLength, threads, joined, result>>
  BY <1>n, SplitFacts DEF LastChunk, splitVars
<1>2. chunkLength = IF filePtr + b > size THEN size - filePtr ELSE b
  BY <1>1 DEF IInv, Cutting
<1>3. AddChunk(chunkLength + Max({0, size - (filePtr + b)}))
  BY DEF LastChunk
<1> HIDE DEF b, size
<1>4. AddChunk(length) /\ length \in Nat
  <2> DEFINE d == size - (filePtr + b)
  <2>1. d \in Int
    BY <1>1
  <2> HIDE DEF d
  <2>2. Max({0, d}) = IF d > 0 THEN d ELSE 0
    BY <2>1 DEF Max
  <2>3. chunkLength + Max({0, d}) = length
    BY <1>1, <1>2, <2>2 DEF d
  <2> QED
    BY <1>1, <1>3, <2>3 DEF d
<1> HIDE DEF length
<1>5. /\ fileChunks' \in Seq(Chunk) /\ Len(fileChunks') = n + 1
      /\ DOMAIN fileChunks' = 1 .. n + 1
      /\ (\A k \in 1 .. n : ChunkEnd(k)' \in file.newlines)
      /\ ChunkEnd(n + 1)' = size
      /\ (\A k \in 1 .. n + 1 :
             fileChunks'[k].start = IF k = 1 THEN 0 ELSE ChunkEnd(k - 1)' + 1)
      /\ OneThreadPerCore' /\ InOrder' /\ DoneHasRows' /\ ResultHasRows'
  <2>1. filePtr + length = size
    BY <1>1 DEF length
  <2> QED
    BY <1>1, <1>4, <2>1, <1>n, ChunkAdded
<1>6. TypeOK'
  BY <1>1, <1>5 DEF IInv, ChunksFollow, TypeOK
<1>7. ASSUME NEW k \in 1 .. n + 1, k < n + 1 PROVE ChunkEnd(k)' \in file.newlines
  BY <1>1, <1>5, <1>7
<1>8. ChunksFollow'
  BY <1>1, <1>5, <1>6, <1>7 DEF ChunksFollow, size
<1>9. Cutting'
  <2>1. fileChunks' # <<>>
    BY <1>1, <1>5
  <2> QED
    BY <1>1, <2>1 DEF Cutting
<1>10. ThreadsMatchChunks'
  BY <1>1, <1>5 DEF ThreadsMatchChunks
<1> QED
  BY <1>5, <1>8, <1>9, <1>10 DEF IInv

(***************************************************************************)
(* Steps that leave the place of the chunks alone, once they are cut.      *)
(***************************************************************************)
LEMMA SameChunks ==
  ASSUME IInv, Alive, TypeOK',
         UNCHANGED <<file, pc, cores, filePtr, chunkLength>>,
         Len(fileChunks') = Len(fileChunks),
         \A k \in DOMAIN fileChunks : /\ fileChunks'[k].start = fileChunks[k].start
                                      /\ fileChunks'[k].length = fileChunks[k].length
  PROVE  /\ ChunksFollow' /\ OneThreadPerCore' /\ Cutting' /\ InOrder'
         /\ \A k \in 1 .. Len(fileChunks) : RowsIn(k)' = RowsIn(k)
<1>n. PICK n : n = Len(fileChunks)
  OBVIOUS
<1>1. n \in Nat /\ DOMAIN fileChunks = 1 .. n /\ DOMAIN fileChunks' = 1 .. n
  BY <1>n, LenProperties DEF TypeOK, IInv, ChunksFollow
<1>2. \A k \in 1 .. n : ChunkEnd(k)' = ChunkEnd(k)
  BY <1>1 DEF ChunkEnd
<1>3. pc \in {"start", "join"} /\ n # 0
  <2>1. fileChunks # <<>>
    BY DEF Alive, IInv, Cutting
  <2> QED
    BY <1>n, <2>1, EmptySeq DEF TypeOK, IInv, ChunksFollow, Alive
<1>4. \A k \in 1 .. n : fileChunks[k].start = IF k = 1 THEN 0 ELSE ChunkEnd(k - 1) + 1
  BY <1>1 DEF IInv, ChunksFollow
<1>5. \A k \in 1 .. n : fileChunks'[k].start = IF k = 1 THEN 0 ELSE ChunkEnd(k - 1)' + 1
  <2>1. \A k \in 1 .. n : k # 1 => k - 1 \in 1 .. n
    BY <1>1
  <2> QED
    BY <1>1, <1>2, <1>4, <2>1
<1>6. \A k \in 1 .. n : k < n => ChunkEnd(k)' \in file.newlines
  BY <1>n, <1>1, <1>2 DEF IInv, ChunksFollow
<1>7. ChunkEnd(n)' = file.size
  <2>1. ChunkEnd(n) = file.size
    BY <1>n, <1>3 DEF IInv, ChunksFollow
  <2> QED
    BY <1>1, <1>2, <1>3, <2>1
<1>8. ChunksFollow'
  BY <1>n, <1>1, <1>5, <1>6, <1>7 DEF ChunksFollow
<1>9. OneThreadPerCore'
  BY DEF IInv, OneThreadPerCore
<1>10. Cutting'
  <2>1. fileChunks' # <<>>
    BY <1>n, <1>3
  <2> QED
    BY <1>3, <2>1 DEF Cutting
<1>11. InOrder'
  BY <1>1, <1>2 DEF IInv, InOrder
<1>12. \A k \in 1 .. n : RowsIn(k)' = RowsIn(k)
  BY <1>1, <1>2 DEF RowsIn
<1> QED
  BY <1>n, <1>8, <1>9, <1>10, <1>11, <1>12

(***************************************************************************)
(* What is so once the chunks are cut.                                     *)
(***************************************************************************)
LEMMA AliveFacts ==
  ASSUME IInv
  PROVE  /\ Len(threads) \in Nat /\ DOMAIN threads = 1 .. Len(threads)
         /\ Len(fileChunks) \in Nat /\ DOMAIN fileChunks = 1 .. Len(fileChunks)
         /\ Len(threads) <= Len(fileChunks)
         /\ joined \in Nat /\ joined <= Len(threads)
         /\ threads \in Seq({"running", "done", "failed"})
         /\ fileChunks \in Seq(Chunk)
         /\ \A k \in 1 .. Len(fileChunks) :
              fileChunks[k] \in Chunk /\ fileChunks[k].start \in Nat /\ ChunkEnd(k) \in Nat
<1>1. /\ threads \in Seq({"running", "done", "failed"}) /\ fileChunks \in Seq(Chunk)
      /\ joined \in 0 .. Len(threads)
      /\ Len(threads) <= Len(fileChunks)
  BY DEF IInv, ChunksFollow, TypeOK, ThreadsMatchChunks
<1>2. /\ Len(threads) \in Nat /\ DOMAIN threads = 1 .. Len(threads)
      /\ Len(fileChunks) \in Nat /\ DOMAIN fileChunks = 1 .. Len(fileChunks)
  BY <1>1, LenProperties
<1>3. \A k \in 1 .. Len(fileChunks) : fileChunks[k] \in Chunk
  BY <1>1, ElementOfSeq
<1>4. \A k \in 1 .. Len(fileChunks) : fileChunks[k].start \in Nat /\ ChunkEnd(k) \in Nat
  BY <1>3 DEF Chunk, ChunkEnd
<1> QED
  BY <1>1, <1>2, <1>3, <1>4

LEMMA StartThreadInvariant == IInv /\ StartThread => IInv'
<1> SUFFICES ASSUME IInv, StartThread PROVE IInv'
  OBVIOUS
<1>n. PICK n : n = Len(threads)
  OBVIOUS
<1>1. /\ pc = "start" /\ n < Len(fileChunks) /\ threads' = Append(threads, "running")
      /\ UNCHANGED <<file, pc, cores, filePtr, chunkLength, fileChunks, joined, result>>
  BY <1>n DEF StartThread, splitVars
<1>2. /\ n \in Nat /\ DOMAIN threads = 1 .. n /\ Len(fileChunks) \in Nat
      /\ joined \in Nat /\ joined <= n
      /\ threads \in Seq({"running", "done", "failed"})
  BY <1>n, AliveFacts
<1>3. /\ threads' \in Seq({"running", "done", "failed"}) /\ Len(threads') = n + 1
      /\ threads'[n + 1] = "running" /\ \A i \in 1 .. n : threads'[i] = threads[i]
  BY <1>n, <1>1, <1>2, AppendProperties
<1>4. DOMAIN threads' = 1 .. n + 1
  BY <1>3, LenProperties
<1>5. TypeOK'
  <2>1. joined' \in 0 .. Len(threads')
    BY <1>1, <1>2, <1>3
  <2> QED
    BY <1>1, <1>3, <2>1 DEF IInv, ChunksFollow, TypeOK
<1>6. ChunksFollow' /\ OneThreadPerCore' /\ Cutting' /\ InOrder'
      /\ \A k \in 1 .. Len(fileChunks) : RowsIn(k)' = RowsIn(k)
  BY <1>1, <1>5, SameChunks DEF Alive
<1>7. ThreadsMatchChunks'
  <2>1. \A i \in 1 .. joined : i \in 1 .. n /\ threads[i] # "running"
    BY <1>2 DEF IInv, ThreadsMatchChunks
  <2> QED
    BY <1>1, <1>2, <1>3, <2>1 DEF ThreadsMatchChunks
<1>8. DoneHasRows'
  <2>1. SUFFICES ASSUME NEW i \in 1 .. n + 1, threads'[i] = "done"
                 PROVE  fileChunks[i].fileChunkResult = Has(RowsIn(i))'
    BY <1>1, <1>4 DEF DoneHasRows
  <2>2. i \in 1 .. n
    BY <1>2, <1>3, <2>1
  <2>3. fileChunks[i].fileChunkResult = Has(RowsIn(i))
    BY <1>2, <1>3, <2>1, <2>2 DEF IInv, DoneHasRows
  <2>4. RowsIn(i)' = RowsIn(i)
    BY <1>1, <1>2, <1>6, <2>2
  <2> QED
    BY <1>1, <2>3, <2>4 DEF Has
<1>9. ResultHasRows'
  <2>1. \A i \in 1 .. joined : i \in 1 .. n
    BY <1>2
  <2>2. RowsJoined' = RowsJoined
    BY <1>1 DEF RowsJoined, RowsIn, ChunkEnd
  <2>3. \A i \in 1 .. joined : threads'[i] = threads[i]
    BY <1>3, <2>1
  <2>4. ResultHasRows
    BY DEF IInv
  <2>5. SUFFICES ASSUME \A i \in 1 .. joined : threads[i] = "done"
                 PROVE  result' = Has(RowsJoined)'
    BY <1>1, <2>3 DEF ResultHasRows
  <2>6. result = Has(RowsJoined)
    BY <2>4, <2>5 DEF ResultHasRows
  <2> QED
    BY <1>1, <2>2, <2>6 DEF Has
<1> QED
  BY <1>6, <1>7, <1>8, <1>9 DEF IInv

(***************************************************************************)
(* The end of a thread, done or failed, with its map.                      *)
(***************************************************************************)
LEMMA RunInvariant ==
  ASSUME NEW i \in DOMAIN threads, IInv, Run(i)
  PROVE  IInv'
<1> DEFINE chunk == fileChunks[i]
           map == AddAll(RowsAdded(chunk))
           new == [chunk EXCEPT !.fileChunkResult = map]
<1>n. PICK n : n = Len(fileChunks)
  OBVIOUS
<1>m. PICK m : m = Len(threads)
  OBVIOUS
<1>1. /\ n \in Nat /\ DOMAIN fileChunks = 1 .. n /\ m \in Nat /\ DOMAIN threads = 1 .. m
      /\ m <= n /\ joined \in Nat /\ joined <= m /\ i \in 1 .. n /\ i \in 1 .. m
      /\ threads \in Seq({"running", "done", "failed"}) /\ fileChunks \in Seq(Chunk)
      /\ chunk \in Chunk
  BY <1>n, <1>m, AliveFacts
<1>2. /\ Alive /\ threads[i] = "running"
      /\ fileChunks' = [fileChunks EXCEPT ![i] = new]
      /\ threads' = [threads EXCEPT ![i] = IF Overflows(chunk) = {} THEN "done" ELSE "failed"]
      /\ UNCHANGED <<file, pc, cores, filePtr, chunkLength, joined, result>>
  BY DEF Run, AddAll, splitVars
<1>3. IsFile(file)
  BY DEF IInv, ChunksFollow, TypeOK
<1>4. map = Has(RowsAdded(chunk)) /\ map \in Tables
  <2>1. IsRowSet(file, RowsAdded(chunk))
    <3>1. RowsAdded(chunk) \in SUBSET file.newlines
      BY DEF RowsAdded
    <3> QED
      BY <1>3, <3>1, RowsInAreRows
  <2> QED
    BY <2>1, AddAllHas, HasType
<1>5. Overflows(chunk) = {} => RowsAdded(chunk) = RowsIn(i)
  BY DEF RowsAdded, RowsIn, ChunkEnd
<1> HIDE DEF map
<1>6. new \in Chunk /\ new.start = chunk.start /\ new.length = chunk.length
      /\ new.fileChunkResult = map
  BY <1>1, <1>4 DEF Chunk
<1> HIDE DEF new
<1>7. /\ fileChunks' \in Seq(Chunk) /\ Len(fileChunks') = n /\ fileChunks'[i] = new
      /\ \A k \in 1 .. n : k # i => fileChunks'[k] = fileChunks[k]
  BY <1>n, <1>1, <1>2, <1>6, ExceptSeq
<1>8. /\ threads' \in Seq({"running", "done", "failed"}) /\ Len(threads') = m
      /\ threads'[i] = IF Overflows(chunk) = {} THEN "done" ELSE "failed"
      /\ \A k \in 1 .. m : k # i => threads'[k] = threads[k]
  <2> DEFINE end == IF Overflows(chunk) = {} THEN "done" ELSE "failed"
  <2>1. end \in {"running", "done", "failed"}
    OBVIOUS
  <2> HIDE DEF end
  <2>2. /\ threads' \in Seq({"running", "done", "failed"}) /\ Len(threads') = m
        /\ threads'[i] = end
        /\ \A k \in 1 .. m : k # i => threads'[k] = threads[k]
    BY <1>m, <1>1, <1>2, <2>1, ExceptSeq DEF end
  <2> QED
    BY <2>2 DEF end
<1>9. DOMAIN threads' = 1 .. m /\ DOMAIN fileChunks' = 1 .. n
  BY <1>7, <1>8, LenProperties
<1>10. TypeOK'
  BY <1>m, <1>2, <1>7, <1>8 DEF IInv, ChunksFollow, TypeOK
<1>11. \A k \in 1 .. n : /\ fileChunks'[k].start = fileChunks[k].start
                         /\ fileChunks'[k].length = fileChunks[k].length
  BY <1>6, <1>7
<1>12. ChunksFollow' /\ OneThreadPerCore' /\ Cutting' /\ InOrder'
       /\ \A k \in 1 .. n : RowsIn(k)' = RowsIn(k)
  BY <1>n, <1>1, <1>2, <1>7, <1>10, <1>11, SameChunks
<1>13. \A k \in 1 .. joined : k \in 1 .. m /\ k \in 1 .. n /\ k # i /\ threads'[k] = threads[k]
  <2>1. \A k \in 1 .. joined : k \in 1 .. m /\ k \in 1 .. n /\ k # i
    BY <1>1, <1>2 DEF IInv, ThreadsMatchChunks
  <2> QED
    BY <1>8, <2>1
<1>14. ThreadsMatchChunks'
  BY <1>n, <1>m, <1>1, <1>2, <1>7, <1>8, <1>13 DEF IInv, ThreadsMatchChunks, Alive
<1>15. DoneHasRows'
  <2>1. SUFFICES ASSUME NEW k \in 1 .. m, threads'[k] = "done"
                 PROVE  fileChunks'[k].fileChunkResult = Has(RowsIn(k))'
    BY <1>9 DEF DoneHasRows
  <2>2. k \in 1 .. n
    BY <1>1
  <2>3. RowsIn(k)' = RowsIn(k)
    BY <1>12, <2>2
  <2>4. CASE k = i
    <3>1. RowsAdded(chunk) = RowsIn(i)
      BY <1>5, <1>8, <2>1, <2>4
    <3>2. fileChunks'[i].fileChunkResult = Has(RowsIn(i))
      BY <1>4, <1>6, <1>7, <3>1
    <3> QED
      BY <1>2, <2>3, <2>4, <3>2 DEF Has
  <2>5. CASE k # i
    <3>1. fileChunks[k].fileChunkResult = Has(RowsIn(k))
      BY <1>1, <1>8, <2>1, <2>5 DEF IInv, DoneHasRows
    <3>2. fileChunks'[k] = fileChunks[k]
      BY <1>7, <2>2, <2>5
    <3> QED
      BY <1>2, <2>3, <3>1, <3>2 DEF Has
  <2> QED
    BY <2>4, <2>5
<1>16. ResultHasRows'
  <2>1. RowsJoined' = RowsJoined
    BY <1>2, <1>12, <1>13 DEF RowsJoined
  <2> QED
    BY <1>2, <1>13, <2>1 DEF IInv, ResultHasRows, Has
<1> QED
  BY <1>12, <1>14, <1>15, <1>16 DEF IInv

LEMMA MapFailsInvariant ==
  ASSUME NEW i \in DOMAIN threads, IInv, MapFails(i)
  PROVE  IInv'
<1>m. PICK m : m = Len(threads)
  OBVIOUS
<1>1. /\ DOMAIN fileChunks = 1 .. Len(fileChunks) /\ Len(fileChunks) \in Nat
      /\ m \in Nat /\ DOMAIN threads = 1 .. m /\ m <= Len(fileChunks)
      /\ joined \in Nat /\ joined <= m /\ i \in 1 .. m
      /\ threads \in Seq({"running", "done", "failed"})
  BY <1>m, AliveFacts
<1>2. /\ Alive /\ threads[i] = "running"
      /\ threads' = [threads EXCEPT ![i] = "failed"]
      /\ UNCHANGED <<file, pc, cores, filePtr, chunkLength, fileChunks, joined, result>>
  BY DEF MapFails, splitVars
<1>3. /\ threads' \in Seq({"running", "done", "failed"}) /\ Len(threads') = m
      /\ threads'[i] = "failed"
      /\ \A k \in 1 .. m : k # i => threads'[k] = threads[k]
  BY <1>m, <1>1, <1>2, ExceptSeq
<1>4. DOMAIN threads' = 1 .. m
  BY <1>3, LenProperties
<1>5. TypeOK'
  BY <1>m, <1>2, <1>3 DEF IInv, ChunksFollow, TypeOK
<1>6. ChunksFollow' /\ OneThreadPerCore' /\ Cutting' /\ InOrder'
  BY <1>2, <1>5, SameChunks
<1>7. \A k \in 1 .. joined : k # i /\ threads'[k] = threads[k]
  <2>1. \A k \in 1 .. joined : k \in 1 .. m /\ k # i
    BY <1>1, <1>2 DEF IInv, ThreadsMatchChunks
  <2> QED
    BY <1>3, <2>1
<1>8. ThreadsMatchChunks'
  BY <1>m, <1>1, <1>2, <1>3, <1>7 DEF IInv, ThreadsMatchChunks, Alive
<1>9. DoneHasRows'
  <2>1. SUFFICES ASSUME NEW k \in 1 .. m, threads'[k] = "done"
                 PROVE  fileChunks'[k].fileChunkResult = Has(RowsIn(k))'
    BY <1>4 DEF DoneHasRows
  <2>2. fileChunks[k].fileChunkResult = Has(RowsIn(k))
    BY <1>1, <1>3, <2>1 DEF IInv, DoneHasRows
  <2> QED
    BY <1>2, <2>2 DEF Has, RowsIn, ChunkEnd
<1>10. ResultHasRows'
  <2>1. RowsJoined' = RowsJoined
    BY <1>2 DEF RowsJoined, RowsIn, ChunkEnd
  <2> QED
    BY <1>2, <1>7, <2>1 DEF IInv, ResultHasRows, Has
<1> QED
  BY <1>6, <1>8, <1>9, <1>10 DEF IInv

(***************************************************************************)
(* main merges the map of the thread it has joined.                        *)
(***************************************************************************)
LEMMA MergeType ==
  ASSUME NEW a \in Stat, NEW b \in Stat
  PROVE  Merge(a, b) \in Stat
  BY DEF Stat, Merge, Lesser, Greater

LEMMA MergeMapType ==
  ASSUME NEW g \in Tables, NEW m \in Tables
  PROVE  MergeMap(g, m) \in Tables
  BY MergeType DEF MergeMap, Tables

LEMMA JoinAndMergeInvariant == IInv /\ JoinAndMerge => IInv'
<1> SUFFICES ASSUME IInv, JoinAndMerge PROVE IInv'
  OBVIOUS
<1>j. PICK j : j = joined + 1
  OBVIOUS
<1>n. PICK n : n = Len(fileChunks)
  OBVIOUS
<1>1. /\ pc = "join" /\ joined < Len(threads) /\ threads[j] # "running"
      /\ result' = MergeMap(result, fileChunks[j].fileChunkResult)
      /\ joined' = j
      /\ UNCHANGED <<file, pc, cores, filePtr, chunkLength, fileChunks, threads>>
  BY <1>j DEF JoinAndMerge, Ended, splitVars
<1>2. /\ joined \in Nat /\ Len(threads) \in Nat /\ n \in Nat /\ Len(threads) <= n
      /\ DOMAIN threads = 1 .. Len(threads) /\ DOMAIN fileChunks = 1 .. n
      /\ \A k \in 1 .. n :
           fileChunks[k] \in Chunk /\ fileChunks[k].start \in Nat /\ ChunkEnd(k) \in Nat
  BY <1>n, AliveFacts
<1>3. j \in 1 .. Len(threads) /\ j \in 1 .. n /\ j \in Nat
  BY <1>j, <1>1, <1>2
<1>4. fileChunks[j].fileChunkResult \in Tables /\ result \in Tables
  BY <1>2, <1>3 DEF Chunk, IInv, ChunksFollow, TypeOK
<1>5. TypeOK'
  <2>1. result' \in Tables
    BY <1>1, <1>4, MergeMapType
  <2>2. joined' \in 0 .. Len(threads')
    BY <1>1, <1>2, <1>3
  <2> QED
    BY <1>1, <2>1, <2>2 DEF IInv, ChunksFollow, TypeOK
<1>6. ChunksFollow' /\ OneThreadPerCore' /\ Cutting' /\ InOrder'
  BY <1>1, <1>5, SameChunks DEF Alive
<1>7. \A k \in 1 .. j : k \in 1 .. joined \/ k = j
  BY <1>2, <1>j
<1>8. ThreadsMatchChunks'
  <2>1. \A k \in 1 .. j : threads[k] # "running"
    BY <1>1, <1>7 DEF IInv, ThreadsMatchChunks
  <2> QED
    BY <1>1, <2>1 DEF IInv, ThreadsMatchChunks
<1>9. DoneHasRows'
  <2>1. DoneHasRows
    BY DEF IInv
  <2>2. \A i : RowsIn(i)' = RowsIn(i)
    BY <1>1 DEF RowsIn, ChunkEnd
  <2> QED
    BY <1>1, <2>1, <2>2 DEF DoneHasRows, Has
<1>10. ResultHasRows'
  <2>1. SUFFICES ASSUME \A k \in 1 .. j : threads[k] = "done"
                 PROVE  result' = Has(RowsJoined)'
    BY <1>1 DEF ResultHasRows
  <2>2. \A k \in 1 .. joined : k \in 1 .. j
    BY <1>2, <1>j
  <2>3. j \in 1 .. j
    BY <1>3
  <2>4. result = Has(RowsJoined) /\ fileChunks[j].fileChunkResult = Has(RowsIn(j))
    BY <1>2, <1>3, <2>1, <2>2, <2>3 DEF IInv, ResultHasRows, DoneHasRows
  <2>5. RowsJoined' = RowsJoined \cup RowsIn(j)
    <3>1. \A k : RowsIn(k)' = RowsIn(k)
      BY <1>1 DEF RowsIn, ChunkEnd
    <3>2. RowsJoined' = {p \in file.newlines : \E k \in 1 .. j : p \in RowsIn(k)}
      BY <1>1, <3>1 DEF RowsJoined
    <3>3. RowsIn(j) \in SUBSET file.newlines
      BY DEF RowsIn
    <3> QED
      BY <1>7, <2>2, <2>3, <3>2, <3>3 DEF RowsJoined
  <2>6. RowsJoined \cap RowsIn(j) = {}
    <3>1. SUFFICES ASSUME NEW p \in file.newlines, NEW k \in 1 .. joined,
                          p \in RowsIn(k), p \in RowsIn(j)
                   PROVE  FALSE
      BY DEF RowsJoined
    <3>2. k \in 1 .. n /\ k < j
      BY <1>2, <1>3, <1>j
    <3>3. ChunkEnd(k) < fileChunks[j].start
      BY <1>2, <1>3, <3>2 DEF IInv, InOrder
    <3>4. p < ChunkEnd(k) /\ fileChunks[j].start <= p /\ p \in Nat
      BY <3>1 DEF RowsIn, IInv, ChunksFollow, TypeOK, IsFile
    <3>5. ChunkEnd(k) \in Nat /\ fileChunks[j].start \in Nat
      BY <1>2, <1>3, <3>2
    <3> QED
      BY <3>3, <3>4, <3>5
  <2>7. result' = Has(RowsJoined \cup RowsIn(j))
    <3>1. IsRowSet(file, RowsJoined) /\ IsRowSet(file, RowsIn(j))
      BY RowsInAreRows DEF IInv, ChunksFollow, TypeOK
    <3> QED
      BY <1>1, <2>4, <2>6, <3>1, MergeMapHas
  <2> QED
    BY <1>1, <2>5, <2>7 DEF Has
<1> QED
  BY <1>6, <1>8, <1>9, <1>10 DEF IInv

-----------------------------------------------------------------------------
LEMMA NextInvariant == IInv /\ [Next]_vars => IInv'
<1> SUFFICES ASSUME IInv, [Next]_vars PROVE IInv'
  OBVIOUS
<1>1. CASE Main
  BY <1>1, OpenFileInvariant, FileFailsInvariant, CutChunkInvariant, LastChunkInvariant,
     StartThreadInvariant, AllStartedInvariant, JoinAndMergeInvariant, PrintResultInvariant
     DEF Main
<1>2. CASE \E i \in DOMAIN threads : Thread(i)
  BY <1>2, RunInvariant, MapFailsInvariant DEF Thread
<1>3. CASE UNCHANGED vars
  BY <1>3, StutterInvariant
<1> QED
  BY <1>1, <1>2, <1>3 DEF Next

(***************************************************************************)
(* The inductive invariant holds throughout.                               *)
(***************************************************************************)
THEOREM Invariance == Spec => []IInv
  BY InitInvariant, NextInvariant, PTL DEF Spec

(***************************************************************************)
(* The chunks follow one another with one newline between them and the     *)
(* last ends with the file, whatever the file, the number of cores and the *)
(* rounding of the chunk length; and the variables keep their types.       *)
(***************************************************************************)
THEOREM ChunksFollowOneAnother == Spec => []ChunksFollow
<1>1. IInv => ChunksFollow
  BY DEF IInv
<1> QED
  BY <1>1, Invariance, PTL

(***************************************************************************)
(* There are never more chunks than cores.                                 *)
(***************************************************************************)
THEOREM AtMostOneThreadPerCore == Spec => []OneThreadPerCore
<1>1. IInv => OneThreadPerCore
  BY DEF IInv
<1> QED
  BY <1>1, Invariance, PTL

(***************************************************************************)
(* The rows of the chunks are the rows that have a newline, except those   *)
(* whose newline ends a chunk.                                             *)
(***************************************************************************)
LEMMA JoinedAllButLost ==
  ASSUME IInv, pc = "printed"
  PROVE  RowsJoined = file.newlines \ LostRows
<1>n. PICK n : n = Len(fileChunks)
  OBVIOUS
<1>1. /\ n \in Nat /\ DOMAIN fileChunks = 1 .. n /\ joined = n
      /\ \A k \in 1 .. n : fileChunks[k].start \in Nat /\ ChunkEnd(k) \in Nat
  BY <1>n, AliveFacts DEF IInv, ThreadsMatchChunks
<1>2. /\ \A p \in file.newlines : p \in Nat /\ p < file.size
      /\ file.size \in Nat
  BY DEF IInv, ChunksFollow, TypeOK, IsFile
<1>3. n # 0 /\ ChunkEnd(n) = file.size
  <2>1. fileChunks # <<>>
    BY DEF IInv, Cutting
  <2> QED
    BY <1>n, <2>1, EmptySeq DEF IInv, ChunksFollow, TypeOK
<1>4. \A k, l \in 1 .. n : k < l => ChunkEnd(k) < fileChunks[l].start
  BY <1>1 DEF IInv, InOrder
<1>5. \A k \in 1 .. n : fileChunks[k].start <= ChunkEnd(k)
  <2>1. \A k \in 1 .. n : fileChunks[k].start \in Nat /\ fileChunks[k].length \in Nat
    <3>1. \A k \in 1 .. n : fileChunks[k] \in Chunk
      BY <1>n, AliveFacts
    <3> QED
      BY <3>1 DEF Chunk
  <2> QED
    BY <2>1 DEF ChunkEnd
<1>6. ASSUME NEW p \in RowsJoined PROVE p \in file.newlines \ LostRows
  <2>1. PICK k \in 1 .. n : p \in RowsIn(k)
    BY <1>1, <1>6 DEF RowsJoined
  <2>2. p \in file.newlines /\ fileChunks[k].start <= p /\ p < ChunkEnd(k)
    BY <2>1 DEF RowsIn
  <2>3. SUFFICES ASSUME p \in LostRows PROVE FALSE
    BY <2>2
  <2>4. PICK l \in 1 .. n - 1 : p = ChunkEnd(l)
    BY <1>n, <2>3 DEF LostRows
  <2>5. l \in 1 .. n
    BY <1>1
  <2>6. CASE l < k
    <3>1. ChunkEnd(l) < fileChunks[k].start
      BY <1>4, <2>5, <2>6
    <3> QED
      BY <1>1, <2>2, <2>4, <2>5, <3>1
  <2>7. CASE k < l
    <3>1. ChunkEnd(k) < fileChunks[l].start /\ fileChunks[l].start <= ChunkEnd(l)
      BY <1>4, <1>5, <2>5, <2>7
    <3> QED
      BY <1>1, <2>2, <2>4, <2>5, <3>1
  <2>8. CASE k = l
    BY <1>1, <2>2, <2>4, <2>5, <2>8
  <2> QED
    BY <1>1, <2>5, <2>6, <2>7, <2>8
<1>7. ASSUME NEW p \in file.newlines, p \notin LostRows PROVE p \in RowsJoined
  <2> DEFINE start == [k \in 1 .. n |-> fileChunks[k].start]
             end == [k \in 1 .. n |-> ChunkEnd(k)]
  <2>1. \A k \in 1 .. n : /\ start[k] \in Int /\ end[k] \in Int
                          /\ start[k] = IF k = 1 THEN 0 ELSE end[k - 1] + 1
    <3>1. ASSUME NEW k \in 1 .. n
          PROVE  start[k] = IF k = 1 THEN 0 ELSE end[k - 1] + 1
      <4>1. fileChunks[k].start = IF k = 1 THEN 0 ELSE ChunkEnd(k - 1) + 1
        BY <1>1 DEF IInv, ChunksFollow
      <4>2. k # 1 => k - 1 \in 1 .. n
        BY <1>1
      <4> QED
        BY <4>1, <4>2
    <3> QED
      BY <1>1, <3>1
  <2>2. p \in Nat /\ p < file.size /\ end[n] = file.size
    BY <1>1, <1>2, <1>3
  <2> HIDE DEF start, end
  <2>3. p <= end[n]
    BY <1>2, <2>2
  <2>4. PICK k \in 1 .. n : start[k] <= p /\ p <= end[k]
    BY <1>1, <1>3, <2>1, <2>2, <2>3, ChunkOfByte
  <2>5. fileChunks[k].start <= p /\ p <= ChunkEnd(k)
    BY <2>4 DEF start, end
  <2>6. p # ChunkEnd(k)
    <3>1. CASE k = n
      BY <1>2, <1>3, <2>2, <3>1
    <3>2. CASE k # n
      <4>1. k \in 1 .. n - 1
        BY <1>1, <3>2
      <4> QED
        BY <1>n, <1>7, <4>1 DEF LostRows
    <3> QED
      BY <3>1, <3>2
  <2>7. p < ChunkEnd(k)
    BY <1>1, <2>2, <2>5, <2>6
  <2> QED
    BY <1>1, <2>5, <2>7 DEF RowsJoined, RowsIn
<1>8. RowsJoined \in SUBSET file.newlines
  BY DEF RowsJoined
<1> QED
  BY <1>6, <1>7, <1>8

(***************************************************************************)
(* If no thread fails, what is printed is the statistics of all the rows   *)
(* that end with a newline but the last row of every chunk but the last:   *)
(* those rows, and no others, are lost, for every file and every number of *)
(* cores, however the threads interleave.                                  *)
(***************************************************************************)
THEOREM PrintsAllRowsButLostOnes == Spec => []PrintsAllButLostRows
<1>1. IInv => PrintsAllButLostRows
  <2>1. SUFFICES ASSUME IInv, pc = "printed", AllDone
                 PROVE  result = Tally(file, file.newlines \ LostRows)
    BY DEF PrintsAllButLostRows
  <2>2. result = Has(RowsJoined)
    <3>1. \A i \in 1 .. joined : threads[i] = "done"
      <4>1. joined = Len(threads) /\ DOMAIN threads = 1 .. Len(threads)
        BY <2>1, AliveFacts DEF IInv, ThreadsMatchChunks
      <4> QED
        BY <2>1, <4>1 DEF AllDone
    <3> QED
      BY <2>1, <3>1 DEF IInv, ResultHasRows
  <2>3. Has(RowsJoined) = Tally(file, RowsJoined)
    <3> DEFINE hi == -100000
    <3>1. hi \in Int /\ hi <= -999 /\ 100000 \in Int /\ 999 <= 100000
      OBVIOUS
    <3>2. IsRowSet(file, RowsJoined)
      BY <2>1, RowsInAreRows DEF IInv, ChunksFollow, TypeOK
    <3> HIDE DEF hi
    <3>3. Held(file, RowsJoined, 100000, hi) = Tally(file, RowsJoined)
      BY <3>1, <3>2, HeldIsTally
    <3> QED
      BY <3>3 DEF Has, hi
  <2> QED
    BY <2>1, <2>2, <2>3, JoinedAllButLost
<1> QED
  BY <1>1, Invariance, PTL

-----------------------------------------------------------------------------
(***************************************************************************)
(* The program comes to an end.  What is left to do, as a number: a byte   *)
(* that is not cut may cost the start of a thread, its run and its join,   *)
(* and there is one more chunk, the last, which may have no byte.          *)
(***************************************************************************)
EndedThreads == {i \in DOMAIN threads : threads[i] # "running"}

BytesLeft == IF pc \in {"open", "split"} THEN 4 * (file.size - filePtr) ELSE 0

MainLeft ==
  CASE pc = "open"  -> 7
    [] pc = "split" -> 6
    [] pc = "start" -> 2
    [] pc = "join"  -> 1
    [] OTHER        -> 0

ChunksLeft ==
  (Len(fileChunks) - Len(threads)) + (Len(fileChunks) - Cardinality(EndedThreads))
    + (Len(fileChunks) - joined)

Left == BytesLeft + MainLeft + ChunksLeft

LEMMA EndedFacts ==
  ASSUME IInv
  PROVE  /\ IsFiniteSet(EndedThreads) /\ Cardinality(EndedThreads) \in Nat
         /\ Cardinality(EndedThreads) <= Len(threads)
<1>1. PICK n : n = Len(threads)
  OBVIOUS
<1>2. n \in Nat /\ EndedThreads \in SUBSET (1 .. n)
  BY <1>1, AliveFacts DEF EndedThreads
<1>3. IsFiniteSet(1 .. n) /\ Cardinality(1 .. n) = n
  BY <1>2, FS_Interval
<1>4. IsFiniteSet(EndedThreads) /\ Cardinality(EndedThreads) <= n
  BY <1>2, <1>3, FS_Subset
<1> QED
  BY <1>1, <1>4, FS_CardinalityType

LEMMA LeftFacts ==
  ASSUME IInv
  PROVE  BytesLeft \in Nat /\ MainLeft \in Nat /\ ChunksLeft \in Nat
<1>1. BytesLeft \in Nat
  <2>1. PICK s, p : s = file.size /\ p = filePtr
    OBVIOUS
  <2>2. s \in Nat /\ p \in 0 .. s
    BY <2>1 DEF IInv, ChunksFollow, TypeOK, IsFile
  <2>3. 4 * (s - p) \in Nat
    BY <2>2
  <2> QED
    BY <2>1, <2>3 DEF BytesLeft
<1>2. MainLeft \in Nat
  BY DEF MainLeft
<1>3. ChunksLeft \in Nat
  <2>1. PICK n, t, e, j : /\ n = Len(fileChunks) /\ t = Len(threads)
                          /\ e = Cardinality(EndedThreads) /\ j = joined
    OBVIOUS
  <2>2. /\ n \in Nat /\ t \in Nat /\ e \in Nat /\ j \in Nat
        /\ t <= n /\ e <= t /\ j <= t
    BY <2>1, AliveFacts, EndedFacts
  <2>3. (n - t) + (n - e) + (n - j) \in Nat
    BY <2>2
  <2> QED
    BY <2>1, <2>3 DEF ChunksLeft
<1> QED
  BY <1>1, <1>2, <1>3

(***************************************************************************)
(* A chunk more is the start of a thread, its run and its join more.       *)
(***************************************************************************)
LEMMA ChunkCosts ==
  ASSUME IInv, pc = "split", UNCHANGED <<file, threads, joined>>,
         NEW new, fileChunks' = Append(fileChunks, new)
  PROVE  ChunksLeft' = ChunksLeft + 3
<1>1. threads = <<>> /\ threads' = <<>> /\ Len(fileChunks) \in Nat /\ joined \in Nat
  BY SplitFacts
<1>2. EndedThreads = {} /\ EndedThreads' = {}
  BY <1>1 DEF EndedThreads
<1>3. PICK n : n = Len(fileChunks)
  OBVIOUS
<1>4. n \in Nat /\ Len(fileChunks') = n + 1
  BY <1>1, <1>3, SplitFacts
<1>5. ChunksLeft = (n - 0) + (n - 0) + (n - joined)
  BY <1>1, <1>2, <1>3, FS_EmptySet DEF ChunksLeft
<1>6. ChunksLeft' = ((n + 1) - 0) + ((n + 1) - 0) + ((n + 1) - joined)
  BY <1>1, <1>2, <1>4, FS_EmptySet DEF ChunksLeft
<1> QED
  BY <1>1, <1>4, <1>5, <1>6

LEMMA CuttingFalls ==
  ASSUME IInv, CutChunk \/ LastChunk
  PROVE  Left' < Left
<1>1. PICK s, at, b, c : s = file.size /\ at = filePtr /\ b = bytesPerChunk /\ c = ChunksLeft
  OBVIOUS
<1>2. pc = "split" /\ UNCHANGED <<file, threads, joined>>
  BY DEF CutChunk, LastChunk
<1>3. s \in Nat /\ at \in Nat /\ b \in Nat /\ at <= s /\ c \in Nat
  BY <1>1, <1>2, SplitFacts, LeftFacts
<1>4. \E new : fileChunks' = Append(fileChunks, new)
  BY DEF CutChunk, LastChunk, AddChunk
<1>5. ChunksLeft' = c + 3
  BY <1>1, <1>2, <1>4, ChunkCosts
<1>6. Left = 4 * (s - at) + 6 + c
  BY <1>1, <1>2 DEF Left, BytesLeft, MainLeft
<1>7. CASE CutChunk
  <2>1. PICK newline \in file.newlines :
          /\ filePtr + bytesPerChunk <= newline
          /\ filePtr' = NextPtr(filePtr, chunkLength + (newline - (filePtr + bytesPerChunk)))
    BY <1>7 DEF CutChunk
  <2>2. newline \in Nat /\ newline < s /\ at + b <= newline
    BY <1>1, <1>2, <2>1, SplitFacts
  <2>3. chunkLength = b
    BY <1>1, <1>2, <1>3, <2>2 DEF IInv, Cutting
  <2>4. filePtr' = newline + 1
    BY <1>1, <1>3, <2>1, <2>2, <2>3 DEF NextPtr
  <2>5. Left' = 4 * (s - (newline + 1)) + 6 + (c + 3)
    <3>1. UNCHANGED <<file, pc>>
      BY <1>7 DEF CutChunk
    <3> QED
      BY <1>1, <1>2, <1>5, <2>4, <3>1 DEF Left, BytesLeft, MainLeft
  <2> QED
    BY <1>3, <1>6, <2>2, <2>5
<1>8. CASE LastChunk
  <2>1. pc' = "start"
    BY <1>8 DEF LastChunk
  <2>2. Left' = 0 + 2 + (c + 3)
    BY <1>5, <2>1 DEF Left, BytesLeft, MainLeft
  <2> QED
    BY <1>3, <1>6, <2>2
<1> QED
  BY <1>7, <1>8

LEMMA MainFalls ==
  ASSUME IInv, Main
  PROVE  Left' < Left
<1>1. PICK a, b, m, t, e, j :
        /\ a = BytesLeft /\ b = MainLeft /\ m = Len(fileChunks) /\ t = Len(threads)
        /\ e = Cardinality(EndedThreads) /\ j = joined
  OBVIOUS
<1>2. /\ a \in Nat /\ b \in Nat /\ m \in Nat /\ t \in Nat /\ e \in Nat /\ j \in Nat
      /\ t <= m /\ e <= t /\ j <= t
  BY <1>1, LeftFacts, AliveFacts, EndedFacts
<1>3. Left = a + b + ((m - t) + (m - e) + (m - j))
  BY <1>1 DEF Left, ChunksLeft
<1>4. CASE CutChunk \/ LastChunk
  BY <1>4, CuttingFalls
<1>5. CASE OpenFile \/ FileFails \/ AllStarted \/ PrintResult
  <2>1. UNCHANGED <<file, filePtr, fileChunks, threads, joined>>
    BY <1>5 DEF OpenFile, FileFails, AllStarted, PrintResult, splitVars
  <2>2. ChunksLeft' = (m - t) + (m - e) + (m - j)
    BY <1>1, <2>1 DEF ChunksLeft, EndedThreads
  <2>3. \/ pc = "open" /\ pc' = "split"
        \/ pc \in {"open", "split"} /\ pc' = "failed"
        \/ pc = "start" /\ pc' = "join"
        \/ pc = "join" /\ pc' = "printed"
    BY <1>5 DEF OpenFile, FileFails, AllStarted, PrintResult
  <2>4. BytesLeft' = a \/ BytesLeft' = 0
    BY <1>1, <2>1, <2>3 DEF BytesLeft
  <2>5. MainLeft' \in Nat /\ MainLeft' < b
    BY <1>1, <2>3 DEF MainLeft
  <2>6. PICK x, y : x = BytesLeft' /\ y = MainLeft'
    OBVIOUS
  <2>7. Left' = x + y + ((m - t) + (m - e) + (m - j))
    BY <2>2, <2>6 DEF Left
  <2> QED
    BY <1>2, <1>3, <2>4, <2>5, <2>6, <2>7
<1>6. CASE StartThread
  <2>1. /\ threads' = Append(threads, "running")
        /\ UNCHANGED <<file, pc, filePtr, fileChunks, joined>>
    BY <1>6 DEF StartThread, splitVars
  <2>2. /\ Len(threads') = t + 1 /\ DOMAIN threads' = DOMAIN threads \cup {t + 1}
        /\ threads'[t + 1] = "running"
        /\ \A i \in DOMAIN threads : threads'[i] = threads[i]
    BY <1>1, <1>2, <2>1, AliveFacts
  <2>3. EndedThreads' = EndedThreads
    BY <2>2 DEF EndedThreads
  <2>4. ChunksLeft' = (m - (t + 1)) + (m - e) + (m - j)
    BY <1>1, <2>1, <2>2, <2>3 DEF ChunksLeft
  <2>5. BytesLeft' = a /\ MainLeft' = b
    BY <1>1, <2>1 DEF BytesLeft, MainLeft
  <2>6. Left' = a + b + ((m - (t + 1)) + (m - e) + (m - j))
    BY <2>4, <2>5 DEF Left
  <2> QED
    BY <1>2, <1>3, <2>6
<1>7. CASE JoinAndMerge
  <2>1. joined' = joined + 1 /\ UNCHANGED <<file, pc, filePtr, fileChunks, threads>>
    BY <1>7 DEF JoinAndMerge, splitVars
  <2>2. ChunksLeft' = (m - t) + (m - e) + (m - (j + 1))
    BY <1>1, <2>1 DEF ChunksLeft, EndedThreads
  <2>3. BytesLeft' = a /\ MainLeft' = b
    BY <1>1, <2>1 DEF BytesLeft, MainLeft
  <2>4. Left' = a + b + ((m - t) + (m - e) + (m - (j + 1)))
    BY <2>2, <2>3 DEF Left
  <2> QED
    BY <1>2, <1>3, <2>4
<1> QED
  BY <1>4, <1>5, <1>6, <1>7 DEF Main

LEMMA ThreadFalls ==
  ASSUME IInv, NEW i \in DOMAIN threads, Thread(i)
  PROVE  Left' < Left
<1>1. /\ threads[i] = "running" /\ UNCHANGED <<file, pc, filePtr, joined>>
      /\ threads' = [threads EXCEPT ![i] = threads'[i]] /\ threads'[i] \in {"done", "failed"}
      /\ Len(fileChunks') = Len(fileChunks)
  <2>1. threads \in Seq({"running", "done", "failed"}) /\ i \in 1 .. Len(threads)
    BY AliveFacts
  <2>2. CASE MapFails(i)
    BY <2>1, <2>2 DEF MapFails, splitVars
  <2>3. CASE Run(i)
    <3>1. /\ threads[i] = "running" /\ UNCHANGED <<file, pc, filePtr, joined>>
          /\ threads' = [threads EXCEPT ![i] =
               IF Overflows(fileChunks[i]) = {} THEN "done" ELSE "failed"]
      BY <2>3 DEF Run, splitVars
    <3>2. PICK map : fileChunks' = [fileChunks EXCEPT ![i].fileChunkResult = map]
      BY <2>3 DEF Run
    <3>3. Len(fileChunks') = Len(fileChunks)
      <4> DEFINE new == [fileChunks[i] EXCEPT !.fileChunkResult = map]
      <4>1. fileChunks' = [fileChunks EXCEPT ![i] = new]
        BY <3>2
      <4> HIDE DEF new
      <4>2. PICK S : S = Chunk \cup {new}
        OBVIOUS
      <4>3. fileChunks \in Seq(S) /\ new \in S
        BY <4>2, AliveFacts
      <4> QED
        BY <4>1, <4>3
    <3> QED
      BY <2>1, <3>1, <3>3
  <2> QED
    BY <2>2, <2>3 DEF Thread
<1>2. /\ Len(threads') = Len(threads) /\ DOMAIN threads' = DOMAIN threads
      /\ \A k \in DOMAIN threads : k # i => threads'[k] = threads[k]
  <2>1. PICK end : end = threads'[i]
    OBVIOUS
  <2>2. threads' = [threads EXCEPT ![i] = end] /\ end \in {"running", "done", "failed"}
    BY <1>1, <2>1
  <2>3. threads \in Seq({"running", "done", "failed"})
    BY AliveFacts
  <2> QED
    BY <2>2, <2>3
<1>3. EndedThreads' = EndedThreads \cup {i} /\ i \notin EndedThreads
  BY <1>1, <1>2 DEF EndedThreads
<1>4. Cardinality(EndedThreads') = Cardinality(EndedThreads) + 1
  BY <1>3, EndedFacts, FS_AddElement
<1>5. PICK a, b, m, t, e, j :
        /\ a = BytesLeft /\ b = MainLeft /\ m = Len(fileChunks) /\ t = Len(threads)
        /\ e = Cardinality(EndedThreads) /\ j = joined
  OBVIOUS
<1>6. a \in Nat /\ b \in Nat /\ m \in Nat /\ t \in Nat /\ e \in Nat /\ j \in Nat
  BY <1>5, LeftFacts, AliveFacts, EndedFacts
<1>7. Left = a + b + ((m - t) + (m - e) + (m - j))
  BY <1>5 DEF Left, ChunksLeft
<1>8. Left' = a + b + ((m - t) + (m - (e + 1)) + (m - j))
  <2>1. BytesLeft' = a /\ MainLeft' = b
    BY <1>1, <1>5 DEF BytesLeft, MainLeft
  <2>2. ChunksLeft' = (m - t) + (m - (e + 1)) + (m - j)
    BY <1>1, <1>2, <1>4, <1>5 DEF ChunksLeft
  <2> QED
    BY <2>1, <2>2 DEF Left
<1> QED
  BY <1>6, <1>7, <1>8

(***************************************************************************)
(* No run goes on for ever: each step leaves less to do, whatever fails    *)
(* and however the threads interleave.  The scan of a chunk begins at or   *)
(* behind its start, so that a chunk with a newline takes at least a byte. *)
(***************************************************************************)
THEOREM EveryStepLeavesLess == Spec => [](Left \in Nat) /\ [][Left' < Left]_vars
<1>1. IInv => Left \in Nat
  <2> SUFFICES ASSUME IInv PROVE Left \in Nat
    OBVIOUS
  <2>1. PICK a, b, c : a = BytesLeft /\ b = MainLeft /\ c = ChunksLeft
    OBVIOUS
  <2>2. a \in Nat /\ b \in Nat /\ c \in Nat
    BY <2>1, LeftFacts
  <2>3. a + b + c \in Nat
    BY <2>2
  <2> QED
    BY <2>1, <2>3 DEF Left
<1>2. IInv /\ [Next]_vars => [Left' < Left]_vars
  BY MainFalls, ThreadFalls DEF Next
<1> QED
  BY <1>1, <1>2, Invariance, PTL DEF Spec

-----------------------------------------------------------------------------
(***************************************************************************)
(* The thread of JavaLines, which reads its chunk byte by byte.            *)
(*                                                                         *)
(* JavaLines' operators on texts are those of BrcLemmas.                   *)
(***************************************************************************)
LEMMA SameBytes ==
  /\ Zero = RowBytes!Zero /\ Newline = RowBytes!Newline
  /\ Semicolon = RowBytes!Semicolon
  /\ Measured = RowBytes!Measured
  BY DEF Zero, RowBytes!Zero, Newline, RowBytes!Newline,
         Semicolon, RowBytes!Semicolon, Measured, RowBytes!Measured,
         NameByte, RowBytes!NameByte

LEMMA SameText ==
  \A row : Text(row) = RowBytes!Text(row)
  BY DEF Text, RowBytes!Text, Decimal, RowBytes!Decimal,
         Magnitude, RowBytes!Magnitude, Semicolon, RowBytes!Semicolon,
         Newline, RowBytes!Newline, Minus, RowBytes!Minus,
         Dot, RowBytes!Dot

LEMMA SameFlattened ==
  \A seqs : FlattenSeq(seqs) = RowBytes!FlattenSeq(seqs)
  BY DEF FlattenSeq, RowBytes!FlattenSeq

LEMMA SameNumber ==
  \A c, i : customFloatParse(c, i) = RowBytes!customFloatParse(c, i)
  BY DEF customFloatParse, RowBytes!customFloatParse, Minus,
         RowBytes!Minus, Dot, RowBytes!Dot

LEMMA SameDelimiter ==
  \A q : indexOfDelimiter(q) <=>
           RowBytes!FirstAt(lineBuffer, 0, RowBytes!Semicolon, q)
  BY DEF indexOfDelimiter, FirstAt, RowBytes!FirstAt,
         Semicolon, RowBytes!Semicolon

(***************************************************************************)
(* A line ends with its newline and has no other.                          *)
(***************************************************************************)
LEMMA LineShape ==
  ASSUME NEW x \in {<<>>} \cup RowBytes!Measured, NEW s, s = Line(x)
  PROVE  /\ s \in Seq(Int) /\ Len(s) \in Nat \ {0}
         /\ \A k \in 1 .. Len(s) : s[k] = RowBytes!Newline <=> k = Len(s)
         /\ x = <<>> => Len(s) = 1
         /\ x # <<>> => x \in RowBytes!Measured /\ s = RowBytes!Text(x)
<1>1. CASE x = <<>>
  <2>1. s = <<RowBytes!Newline>>
    BY <1>1, SameBytes DEF Line
  <2>2. s \in Seq(Int) /\ Len(s) = 1 /\ s[1] = RowBytes!Newline
    BY <2>1 DEF RowBytes!Newline
  <2> QED
    BY <1>1, <2>2
<1>2. CASE x # <<>>
  <2>1. x \in RowBytes!Measured /\ s = RowBytes!Text(x)
    BY <1>2, SameText DEF Line
  <2>2. PICK l, m : SoughtAt(s, l, m)
    BY <2>1, SoughtInText
  <2>3. s \in Seq(Int) /\ l \in Nat /\ m \in 3 .. 5 /\ Len(s) = l + m + 2
        /\ \A k \in 1 .. l + m + 2 : s[k] = RowBytes!Newline <=> k = l + m + 2
    BY <2>2 DEF SoughtAt
  <2>4. l + m + 2 \in Nat \ {0}
    BY <2>3
  <2> QED
    BY <1>2, <2>1, <2>3, <2>4
<1> QED
  BY <1>1, <1>2

(***************************************************************************)
(* Where the lines of the chunk lie in its bytes.                          *)
(***************************************************************************)
LinesOf(r) == [i \in 1 .. Len(r) |-> Line(r[i])]

LinesLie(r, e, T) ==
  /\ e \in [0 .. Len(r) -> Nat] /\ e[0] = 0
  /\ Len(T) = e[Len(r)]
  /\ \A i \in 1 .. Len(r) : e[i] = e[i - 1] + Len(Line(r[i]))
  /\ \A i \in 1 .. Len(r) : \A k \in 1 .. Len(Line(r[i])) :
       T[e[i - 1] + k] = Line(r[i])[k]

LEMMA LinesHaveEnds ==
  ASSUME lineList \in Seq({<<>>} \cup RowBytes!Measured)
  PROVE  \E e : LinesLie(lineList, e, Bytes)
<1>1. PICK n : n = Len(lineList)
  OBVIOUS
<1>2. n \in Nat /\ \A i \in 1 .. n : lineList[i] \in {<<>>} \cup RowBytes!Measured
  BY <1>1
<1>3. \A i \in 1 .. n : Line(lineList[i]) \in Seq(Int)
  BY <1>2, LineShape
<1>4. PICK seqs : seqs = LinesOf(lineList)
  OBVIOUS
<1>5. seqs \in [1 .. n -> Seq(Int)] /\ \A i \in 1 .. n : seqs[i] = Line(lineList[i])
  BY <1>1, <1>3, <1>4 DEF LinesOf
<1>6. PICK e : IsLayout(seqs, n, e)
  BY <1>2, <1>5, TextLayout
<1>7. /\ AreEnds(e, n, seqs)
      /\ \A m \in 0 .. n : Len(RowBytes!FlattenSeq(FirstOf(seqs, m))) = e[m]
      /\ \A i \in 1 .. n : \A k \in 1 .. Len(seqs[i]) :
           RowBytes!FlattenSeq(seqs)[e[i - 1] + k] = seqs[i][k]
  BY <1>6 DEF IsLayout
<1>8. Bytes = RowBytes!FlattenSeq(seqs)
  BY <1>4, SameFlattened DEF Bytes, LinesOf
<1>9. Len(Bytes) = e[n]
  <2>1. FirstOf(seqs, n) = seqs /\ n \in 0 .. n
    BY <1>2, <1>5 DEF FirstOf
  <2> QED
    BY <1>7, <1>8, <2>1
<1> QED
  BY SMTT(30), <1>1, <1>5, <1>7, <1>8, <1>9 DEF LinesLie, AreEnds

(***************************************************************************)
(* The rows of the lines grow with each line that has one.                 *)
(***************************************************************************)
LEMMA RowsOfLinesGrow ==
  ASSUME lineList \in Seq({<<>>} \cup RowBytes!Measured),
         NEW m \in 0 .. Len(lineList) - 1, NEW x, x = lineList[m + 1]
  PROVE  RowsOfLines(m + 1) =
           IF x = <<>> THEN RowsOfLines(m)
           ELSE Append(RowsOfLines(m), x)
<1>1. PICK n : n = Len(lineList)
  OBVIOUS
<1>2. /\ n \in Nat /\ m \in 0 .. n - 1
      /\ \A i \in 1 .. n : lineList[i] \in {<<>>} \cup RowBytes!Measured
  BY <1>1
<1>3. PICK seqs : seqs = [i \in 1 .. n |-> IF lineList[i] = <<>> THEN <<>> ELSE <<lineList[i]>>]
  OBVIOUS
<1>4. seqs \in [1 .. n -> Seq(RowBytes!Measured)]
  BY <1>2, <1>3
<1>5. \A k \in 0 .. n : RowsOfLines(k) = RowBytes!FlattenSeq(FirstOf(seqs, k))
  <2> SUFFICES ASSUME NEW k \in 0 .. n
               PROVE  RowsOfLines(k) = RowBytes!FlattenSeq(FirstOf(seqs, k))
    OBVIOUS
  <2>1. \A i \in 1 .. k : i \in 1 .. n
    BY <1>2
  <2>2. FirstOf(seqs, k) = [i \in 1 .. k |-> IF lineList[i] = <<>> THEN <<>> ELSE <<lineList[i]>>]
    BY <1>3, <2>1 DEF FirstOf
  <2> QED
    BY <2>2, SameFlattened DEF RowsOfLines
<1>6. PICK t : t = RowsOfLines(m)
  OBVIOUS
<1>7. m \in 0 .. n /\ m + 1 \in 0 .. n /\ m + 1 \in 1 .. n
  BY <1>2
<1>8. t \in Seq(RowBytes!Measured) /\ RowsOfLines(m + 1) = t \o seqs[m + 1]
  <2>1. /\ RowBytes!FlattenSeq(FirstOf(seqs, m)) \in Seq(RowBytes!Measured)
        /\ RowBytes!FlattenSeq(FirstOf(seqs, m + 1))
             = RowBytes!FlattenSeq(FirstOf(seqs, m)) \o seqs[m + 1]
    <3>1. PICK S : S = RowBytes!Measured
      OBVIOUS
    <3>2. seqs \in [1 .. n -> Seq(S)]
      BY <1>4, <3>1
    <3>3. /\ RowBytes!FlattenSeq(FirstOf(seqs, m)) \in Seq(S)
          /\ RowBytes!FlattenSeq(FirstOf(seqs, m + 1))
               = RowBytes!FlattenSeq(FirstOf(seqs, m)) \o seqs[m + 1]
      BY ZenonT(30), <1>2, <3>2, FlattenedGrows
    <3> QED
      BY <3>1, <3>3
  <2>2. /\ RowsOfLines(m) = RowBytes!FlattenSeq(FirstOf(seqs, m))
        /\ RowsOfLines(m + 1) = RowBytes!FlattenSeq(FirstOf(seqs, m + 1))
    BY <1>5, <1>7
  <2> QED
    BY <1>6, <2>1, <2>2
<1>9. seqs[m + 1] = IF x = <<>> THEN <<>> ELSE <<x>>
  BY <1>3, <1>7
<1>10. t \o <<>> = t /\ t \o <<x>> = Append(t, x)
  BY <1>8
<1> QED
  BY <1>6, <1>8, <1>9, <1>10

LEMMA NewlineCounted ==
  ASSUME NEW p \in Nat, bytesRead = p, bytesRead' = p + 1, UNCHANGED lineList
  PROVE  /\ NewlinesRead \in Nat
         /\ NewlinesRead' = IF Byte = RowBytes!Newline
                                    THEN NewlinesRead + 1 ELSE NewlinesRead
<1> DEFINE Read(k) == {i \in 1 .. k : Bytes[i] = RowBytes!Newline}
<1>1. IsFiniteSet(Read(p)) /\ Cardinality(Read(p)) \in Nat
  <2>1. IsFiniteSet(1 .. p)
    BY FS_Interval
  <2>2. IsFiniteSet(Read(p))
    BY <2>1, FS_Subset
  <2> QED
    BY <2>2, FS_CardinalityType
<1>2. Bytes' = Bytes
  BY DEF Bytes, Line, Newline, Text, Decimal,
         Magnitude, Semicolon, Minus, Dot
<1>3. NewlinesRead = Cardinality(Read(p))
  BY SameBytes DEF NewlinesRead
<1>4. NewlinesRead' = Cardinality(Read(p + 1))
  <2>1. {i \in 1 .. bytesRead' : Bytes'[i] = Newline} = Read(p + 1)
    BY <1>2, SameBytes
  <2>2. NewlinesRead' = Cardinality(Read(p + 1))
    BY <1>2, <2>1 DEF NewlinesRead, Newline
  <2> QED
    BY <2>2
<1>5. Byte = Bytes[p + 1]
  BY DEF Byte
<1>6. CASE Byte = RowBytes!Newline
  <2>1. 1 .. p + 1 = (1 .. p) \cup {p + 1} /\ p + 1 \notin 1 .. p
    OBVIOUS
  <2>2. Read(p + 1) = Read(p) \cup {p + 1} /\ p + 1 \notin Read(p)
    BY <1>5, <1>6, <2>1
  <2> QED
    BY <1>1, <1>3, <1>4, <1>6, <2>2, FS_AddElement
<1>7. CASE Byte # RowBytes!Newline
  <2>1. Read(p + 1) = Read(p)
    BY <1>5, <1>7
  <2> QED
    BY <1>1, <1>3, <1>4, <1>7, <2>1
<1> QED
  BY <1>1, <1>3, <1>6, <1>7

(***************************************************************************)
(* The thread has ended m lines and added their rows, and the buffer has   *)
(* what it has read of the next one; what else the buffer has is left from *)
(* lines before, but its first byte is zero when a line begins.            *)
(***************************************************************************)
HasCollected(e, m) ==
  /\ m \in 0 .. Len(lineList)
  /\ NewlinesRead = m
  /\ bytesRead = e[m] + bufferPos
  /\ bufferPos \in 0 .. BUFFER_SIZE
  /\ IF m = Len(lineList) THEN bufferPos = 0
     ELSE bufferPos < Len(Line(lineList[m + 1]))
  /\ lineBuffer \in [0 .. BUFFER_SIZE - 1 -> Int]
  /\ \A k \in 1 .. bufferPos : lineBuffer[k - 1] = Line(lineList[m + 1])[k]
  /\ bufferPos = 0 => lineBuffer[0] = RowBytes!Zero
  /\ rowsAdded = RowsOfLines(m)

FailsForLongLine ==
  threadFailed =>
    \E i \in 1 .. Len(lineList) : Len(Line(lineList[i])) - 1 > BUFFER_SIZE

CollectingInv(e) ==
  /\ lineList \in Seq({<<>>} \cup RowBytes!Measured)
  /\ LinesLie(lineList, e, Bytes)
  /\ \E m : HasCollected(e, m)
  /\ FailsForLongLine

LinesInv == \E e : CollectingInv(e)

LEMMA LinesInit ==
  ASSUME RunInit
  PROVE  LinesInv
<1>1. lineList \in Seq({<<>>} \cup RowBytes!Measured)
  BY LineListsAssumption, SameBytes DEF RunInit
<1>2. PICK e : LinesLie(lineList, e, Bytes)
  BY <1>1, LinesHaveEnds
<1>3. /\ bytesRead = 0 /\ bufferPos = 0 /\ rowsAdded = <<>> /\ threadFailed = FALSE
      /\ lineBuffer = [i \in 0 .. BUFFER_SIZE - 1 |-> RowBytes!Zero]
  BY SameBytes DEF RunInit
<1>4. BUFFER_SIZE \in Nat \ {0}
  BY BufferAssumption
<1>5. PICK n : n = Len(lineList)
  OBVIOUS
<1>6. n \in Nat /\ \A i \in 1 .. n : lineList[i] \in {<<>>} \cup RowBytes!Measured
  BY <1>1, <1>5
<1>7. n # 0 => 0 < Len(Line(lineList[0 + 1]))
  <2> SUFFICES ASSUME n # 0 PROVE 0 < Len(Line(lineList[1]))
    OBVIOUS
  <2>1. PICK x, l : x = lineList[1] /\ l = Len(Line(x))
    OBVIOUS
  <2>2. 1 \in 1 .. n
    BY <1>6
  <2>3. x \in {<<>>} \cup RowBytes!Measured
    BY <1>6, <2>1, <2>2
  <2>4. l \in Nat \ {0}
    BY <2>1, <2>3, LineShape
  <2> QED
    BY <2>1, <2>4
<1>8. NewlinesRead = 0
  <2>1. {i \in 1 .. bytesRead : Bytes[i] = Newline} = {}
    BY <1>3
  <2>2. Cardinality({}) = 0
    BY FS_EmptySet
  <2> QED
    BY <2>1, <2>2 DEF NewlinesRead
<1>9. RowsOfLines(0) = <<>>
  <2>1. [i \in 1 .. 0 |-> IF lineList[i] = <<>> THEN <<>> ELSE <<lineList[i]>>] = <<>>
    OBVIOUS
  <2> QED
    BY <2>1 DEF RowsOfLines, FlattenSeq
<1>10. lineBuffer \in [0 .. BUFFER_SIZE - 1 -> Int] /\ lineBuffer[0] = RowBytes!Zero
  BY <1>3, <1>4 DEF RowBytes!Zero
<1>11. HasCollected(e, 0)
  <2>1. e[0] = 0
    BY <1>2 DEF LinesLie
  <2> QED
    BY <1>3, <1>4, <1>5, <1>6, <1>7, <1>8, <1>9, <1>10, <2>1 DEF HasCollected
<1>12. FailsForLongLine
  BY <1>3 DEF FailsForLongLine
<1> QED
  BY <1>1, <1>2, <1>11, <1>12 DEF LinesInv, CollectingInv

(***************************************************************************)
(* A byte the thread reads is the next one of the line it is in: the last  *)
(* one exactly if it is a newline.                                         *)
(***************************************************************************)
LEMMA ByteOfLine ==
  ASSUME NEW e, CollectingInv(e), NEW m, HasCollected(e, m), Running,
         NEW s, s = Line(lineList[m + 1])
  PROVE  /\ m \in 0 .. Len(lineList) - 1
         /\ lineList[m + 1] \in {<<>>} \cup RowBytes!Measured
         /\ s \in Seq(Int) /\ Len(s) \in Nat \ {0}
         /\ bytesRead \in Nat /\ bufferPos \in 0 .. Len(s) - 1
         /\ bytesRead + 1 = e[m] + (bufferPos + 1)
         /\ e[m + 1] = e[m] + Len(s) /\ e[m] \in Nat
         /\ Byte = s[bufferPos + 1] /\ Byte \in Int
         /\ Byte = RowBytes!Newline <=> bufferPos + 1 = Len(s)
<1>1. PICK n : n = Len(lineList)
  OBVIOUS
<1>2. /\ n \in Nat /\ \A i \in 1 .. n : lineList[i] \in {<<>>} \cup RowBytes!Measured
      /\ LinesLie(lineList, e, Bytes)
  BY <1>1 DEF CollectingInv
<1>3. /\ e \in [0 .. n -> Nat]
      /\ Len(Bytes) = e[n]
      /\ \A i \in 1 .. n : e[i] = e[i - 1] + Len(Line(lineList[i]))
      /\ \A i \in 1 .. n : \A k \in 1 .. Len(Line(lineList[i])) :
           Bytes[e[i - 1] + k] = Line(lineList[i])[k]
  BY <1>1, <1>2 DEF LinesLie
<1>4. /\ m \in 0 .. n /\ bytesRead = e[m] + bufferPos /\ bufferPos \in 0 .. BUFFER_SIZE
      /\ IF m = n THEN bufferPos = 0 ELSE bufferPos < Len(s)
  BY <1>1 DEF HasCollected
<1>5. bytesRead < Len(Bytes)
  BY DEF Running
<1>6. m # n
  <2> SUFFICES ASSUME m = n PROVE FALSE
    OBVIOUS
  <2>1. e[n] \in Nat /\ bytesRead = e[n] + 0
    BY <1>2, <1>3, <1>4
  <2> QED
    BY <1>3, <1>5, <2>1
<1>7. PICK i : i = m + 1
  OBVIOUS
<1>8. i \in 1 .. n /\ i - 1 = m /\ m \in 0 .. n - 1
  BY <1>2, <1>4, <1>6, <1>7
<1>9. PICK x : x = lineList[i]
  OBVIOUS
<1>10. x \in {<<>>} \cup RowBytes!Measured /\ s = Line(x)
  BY <1>2, <1>7, <1>8, <1>9
<1>11. /\ s \in Seq(Int) /\ Len(s) \in Nat \ {0}
       /\ \A k \in 1 .. Len(s) : s[k] = RowBytes!Newline <=> k = Len(s)
  BY <1>10, LineShape
<1>12. PICK j, a, l : j = bufferPos /\ a = e[m] /\ l = Len(s)
  OBVIOUS
<1>13. a \in Nat /\ l \in Nat \ {0} /\ j \in Nat /\ j < l /\ bytesRead = a + j
  <2>1. e[m] \in Nat
    BY <1>3, <1>4
  <2>2. BUFFER_SIZE \in Nat
    BY BufferAssumption
  <2>3. bufferPos \in Nat
    BY <1>4, <2>2
  <2> QED
    BY <1>4, <1>6, <1>11, <1>12, <2>1, <2>3
<1>14. /\ j + 1 \in 1 .. l /\ j \in 0 .. l - 1 /\ a + j \in Nat
       /\ (a + j) + 1 = a + (j + 1)
  BY <1>13
<1>15. Byte = s[j + 1]
  <2>1. Bytes[e[i - 1] + (j + 1)] = s[j + 1]
    BY SMTT(30), <1>3, <1>8, <1>9, <1>10, <1>12, <1>14
  <2> QED
    BY <1>8, <1>12, <1>13, <1>14, <2>1 DEF Byte
<1>16. s[j + 1] \in Int
  BY <1>11, <1>12, <1>14
<1>17. e[m + 1] = e[m] + Len(s)
  BY <1>3, <1>7, <1>8, <1>9, <1>10
<1> QED
  BY <1>1, <1>7, <1>8, <1>9, <1>10, <1>11, <1>12, <1>13, <1>14, <1>15, <1>16, <1>17

(***************************************************************************)
(* At the newline of a line the buffer gives back its row, whatever is     *)
(* left behind it, or a zero if the line is blank.                         *)
(***************************************************************************)
LEMMA LineGivesRow ==
  ASSUME NEW x \in {<<>>} \cup RowBytes!Measured, NEW s, s = Line(x),
         bufferPos + 1 = Len(s), bufferPos \in 0 .. BUFFER_SIZE,
         lineBuffer \in [0 .. BUFFER_SIZE - 1 -> Int],
         \A k \in 1 .. bufferPos : lineBuffer[k - 1] = s[k],
         bufferPos = 0 => lineBuffer[0] = RowBytes!Zero,
         procLine
  PROVE  rowsAdded' = IF x = <<>> THEN rowsAdded ELSE Append(rowsAdded, x)
<1>1. BUFFER_SIZE \in Nat \ {0} /\ bufferPos \in Nat
  BY BufferAssumption
<1>2. CASE x = <<>>
  <2>1. Len(s) = 1
    BY <1>2, LineShape
  <2>2. bufferPos = 0
    BY <1>1, <2>1
  <2>3. lineBuffer[0] = Zero
    BY <2>2, SameBytes
  <2> QED
    BY <1>2, <2>3 DEF procLine
<1>3. CASE x # <<>>
  <2>1. x \in RowBytes!Measured /\ s = RowBytes!Text(x)
    BY <1>3, LineShape
  <2>2. StandsAt(lineBuffer, 0, x)
    <3> SUFFICES ASSUME NEW k \in 1 .. Len(s) - 1
                 PROVE  /\ 0 + k - 1 \in DOMAIN lineBuffer
                        /\ lineBuffer[0 + k - 1] = s[k]
      BY <2>1 DEF StandsAt
    <3>1. PICK l : l = Len(s)
      OBVIOUS
    <3>2. bufferPos + 1 = l /\ k \in 1 .. l - 1
      BY <3>1
    <3>3. k \in 1 .. bufferPos /\ 0 + k - 1 = k - 1 /\ k - 1 \in 0 .. BUFFER_SIZE - 1
      BY <1>1, <3>2
    <3> QED
      BY <3>3
  <2>3. PICK d \in Nat :
          /\ 0 <= d
          /\ lineBuffer[0] # RowBytes!Zero
          /\ RowBytes!FirstAt(lineBuffer, 0, RowBytes!Semicolon, d)
          /\ x = [name |-> RowBytes!Between(lineBuffer, 0, d),
                  tenths |-> RowBytes!customFloatParse(lineBuffer, d + 1)]
    BY <2>1, <2>2, RowFound
  <2>4. PICK q \in DOMAIN lineBuffer :
          /\ indexOfDelimiter(q)
          /\ rowsAdded' = Append(rowsAdded,
               [name |-> Between(lineBuffer, 0, q),
                tenths |-> customFloatParse(lineBuffer, q + 1)])
    BY <2>3, SameBytes DEF procLine
  <2>5. q = d
    <3>1. q \in Int /\ RowBytes!FirstAt(lineBuffer, 0, RowBytes!Semicolon, q)
      BY <1>1, <2>4, SameDelimiter
    <3> QED
      BY <2>3, <3>1, FirstIsOne
  <2>6. x = [name |-> Between(lineBuffer, 0, d),
             tenths |-> customFloatParse(lineBuffer, d + 1)]
    BY <2>3, SameNumber DEF Between, RowBytes!Between
  <2> QED
    BY <1>3, <2>4, <2>5, <2>6
<1> QED
  BY <1>2, <1>3

LEMMA LinesNext ==
  ASSUME LinesInv, [RunNext]_runVars
  PROVE  LinesInv'
<1>1. PICK e : CollectingInv(e)
  BY DEF LinesInv
<1>2. PICK m : HasCollected(e, m)
  BY <1>1 DEF CollectingInv
<1>3. PICK n : n = Len(lineList)
  OBVIOUS
<1>4. UNCHANGED lineList
  BY DEF RunNext, runVars, EndOfLine, Collect, BufferFull
<1>5. Bytes' = Bytes
  BY <1>4 DEF Bytes, Line, Newline, Text,
     Decimal, Magnitude, Semicolon, Minus, Dot
<1>6. SUFFICES (\E k : HasCollected(e, k))' /\ FailsForLongLine'
  BY <1>1, <1>4, <1>5 DEF LinesInv, CollectingInv, LinesLie
<1>7. /\ m \in 0 .. n
      /\ NewlinesRead = m
      /\ bytesRead = e[m] + bufferPos
      /\ bufferPos \in 0 .. BUFFER_SIZE
      /\ IF m = n THEN bufferPos = 0 ELSE bufferPos < Len(Line(lineList[m + 1]))
      /\ lineBuffer \in [0 .. BUFFER_SIZE - 1 -> Int]
      /\ \A k \in 1 .. bufferPos : lineBuffer[k - 1] = Line(lineList[m + 1])[k]
      /\ bufferPos = 0 => lineBuffer[0] = RowBytes!Zero
      /\ rowsAdded = RowsOfLines(m)
  BY <1>2, <1>3 DEF HasCollected
<1>8. FailsForLongLine /\ lineList \in Seq({<<>>} \cup RowBytes!Measured)
  BY <1>1 DEF CollectingInv
<1>9. BUFFER_SIZE \in Nat \ {0} /\ bufferPos \in Nat /\ n \in Nat /\ m \in Nat
  BY <1>3, <1>7, <1>8, BufferAssumption
<1>10. PICK s : s = Line(lineList[m + 1])
  OBVIOUS
<1>11. ASSUME Running
       PROVE  /\ m \in 0 .. n - 1
              /\ lineList[m + 1] \in {<<>>} \cup RowBytes!Measured
              /\ s \in Seq(Int) /\ Len(s) \in Nat \ {0}
              /\ bytesRead \in Nat /\ bufferPos \in 0 .. Len(s) - 1
              /\ bytesRead + 1 = e[m] + (bufferPos + 1)
              /\ e[m + 1] = e[m] + Len(s) /\ e[m] \in Nat
              /\ Byte = s[bufferPos + 1] /\ Byte \in Int
              /\ Byte = RowBytes!Newline <=> bufferPos + 1 = Len(s)
  <2>1. /\ m \in 0 .. Len(lineList) - 1
        /\ lineList[m + 1] \in {<<>>} \cup RowBytes!Measured
        /\ s \in Seq(Int) /\ Len(s) \in Nat \ {0}
        /\ bytesRead \in Nat /\ bufferPos \in 0 .. Len(s) - 1
        /\ bytesRead + 1 = e[m] + (bufferPos + 1)
        /\ e[m + 1] = e[m] + Len(s) /\ e[m] \in Nat
        /\ Byte = s[bufferPos + 1] /\ Byte \in Int
        /\ Byte = RowBytes!Newline <=> bufferPos + 1 = Len(s)
    BY SMTT(30), <1>1, <1>2, <1>10, <1>11, ByteOfLine
  <2> QED
    BY <1>3, <2>1
<1>12. \A k : RowsOfLines(k)' = RowsOfLines(k)
  BY <1>4 DEF RowsOfLines
<1>13. \A i : Line(lineList[i])' = Line(lineList[i])
  BY <1>4 DEF Line, Newline, Text, Decimal,
     Magnitude, Semicolon, Minus, Dot
<1>14. CASE UNCHANGED runVars
  <2>1. NewlinesRead' = NewlinesRead
    BY <1>5, <1>14 DEF NewlinesRead, runVars, Newline
  <2>2. HasCollected(e, m)'
    BY <1>2, <1>12, <1>13, <1>14, <2>1 DEF HasCollected, runVars
  <2>3. FailsForLongLine'
    BY <1>8, <1>13, <1>14 DEF FailsForLongLine, runVars
  <2> QED
    BY <2>2, <2>3
<1>15. CASE EndOfLine
  <2>1. /\ Running /\ Byte = RowBytes!Newline /\ procLine
        /\ lineBuffer' = [lineBuffer EXCEPT ![0] = RowBytes!Zero]
        /\ bufferPos' = 0 /\ bytesRead' = bytesRead + 1 /\ threadFailed' = threadFailed
    BY <1>15, SameBytes DEF EndOfLine, ClearedBuffer
  <2>2. PICK x : x = lineList[m + 1]
    OBVIOUS
  <2>3. /\ m \in 0 .. n - 1 /\ x \in {<<>>} \cup RowBytes!Measured
        /\ s = Line(x) /\ bufferPos + 1 = Len(s)
        /\ bytesRead \in Nat /\ bytesRead + 1 = e[m] + (bufferPos + 1)
        /\ e[m + 1] = e[m] + Len(s) /\ e[m] \in Nat
    BY <1>10, <1>11, <2>1, <2>2
  <2>4. rowsAdded' = IF x = <<>> THEN rowsAdded ELSE Append(rowsAdded, x)
    BY <1>7, <1>10, <2>1, <2>3, LineGivesRow
  <2>5. rowsAdded' = RowsOfLines(m + 1)
    BY <1>3, <1>7, <1>8, <2>2, <2>3, <2>4, RowsOfLinesGrow
  <2>6. NewlinesRead' = m + 1
    BY <1>4, <1>7, <2>1, <2>3, NewlineCounted
  <2>7. bytesRead' = e[m + 1] + 0
    BY <2>1, <2>3
  <2>8. PICK i : i = m + 1
    OBVIOUS
  <2>9. /\ i \in 0 .. n
        /\ i # n => i + 1 \in 1 .. n
    BY <1>9, <2>3, <2>8
  <2>10. i # n => 0 < Len(Line(lineList[i + 1]))
    <3> SUFFICES ASSUME i # n PROVE 0 < Len(Line(lineList[i + 1]))
      OBVIOUS
    <3>1. PICK y, l : y = lineList[i + 1] /\ l = Len(Line(y))
      OBVIOUS
    <3>2. y \in {<<>>} \cup RowBytes!Measured
      BY <1>3, <1>8, <2>3, <2>8, <2>9, <3>1
    <3>3. l \in Nat \ {0}
      BY <3>1, <3>2, LineShape
    <3> QED
      BY <3>1, <3>3
  <2>11. lineBuffer' \in [0 .. BUFFER_SIZE - 1 -> Int] /\ lineBuffer'[0] = RowBytes!Zero
    BY <1>7, <1>9, <2>1 DEF RowBytes!Zero
  <2>12. HasCollected(e, i)'
    BY <1>3, <1>4, <1>9, <1>12, <1>13, <2>1, <2>5, <2>6, <2>7, <2>8, <2>9, <2>10, <2>11
       DEF HasCollected
  <2>13. FailsForLongLine'
    BY <1>4, <1>8, <1>13, <2>1 DEF FailsForLongLine
  <2> QED
    BY <2>12, <2>13
<1>16. CASE Collect
  <2>1. /\ Running /\ Byte # RowBytes!Newline /\ bufferPos < BUFFER_SIZE
        /\ lineBuffer' = [lineBuffer EXCEPT ![bufferPos] = Byte]
        /\ bufferPos' = bufferPos + 1 /\ bytesRead' = bytesRead + 1
        /\ rowsAdded' = rowsAdded /\ threadFailed' = threadFailed
    BY <1>16, SameBytes DEF Collect
  <2>2. /\ m \in 0 .. n - 1 /\ Len(s) \in Nat /\ bytesRead \in Nat
        /\ bufferPos \in 0 .. Len(s) - 1 /\ bufferPos + 1 # Len(s)
        /\ bytesRead + 1 = e[m] + (bufferPos + 1)
        /\ Byte = s[bufferPos + 1] /\ Byte \in Int
    BY <1>11, <2>1
  <2>3. bufferPos + 1 < Len(s) /\ bufferPos + 1 \in 0 .. BUFFER_SIZE /\ bufferPos + 1 # 0
        /\ m # n /\ bufferPos \in 0 .. BUFFER_SIZE - 1
    BY <1>9, <2>1, <2>2
  <2>4. NewlinesRead' = m
    BY <1>4, <1>7, <2>1, <2>2, NewlineCounted
  <2>5. lineBuffer' \in [0 .. BUFFER_SIZE - 1 -> Int]
    BY <1>7, <2>1, <2>2
  <2>6. ASSUME NEW k \in 1 .. bufferPos + 1
        PROVE  lineBuffer'[k - 1] = s[k]
    <3>1. CASE k = bufferPos + 1
      BY <1>7, <1>9, <2>1, <2>2, <2>3, <3>1
    <3>2. CASE k # bufferPos + 1
      <4>1. k \in 1 .. bufferPos /\ k - 1 # bufferPos /\ k - 1 \in 0 .. BUFFER_SIZE - 1
        BY <1>9, <2>3, <3>2
      <4> QED
        BY <1>7, <1>10, <2>1, <4>1
    <3> QED
      BY <3>1, <3>2
  <2>7. HasCollected(e, m)'
    BY <1>3, <1>4, <1>7, <1>10, <1>12, <1>13, <2>1, <2>2, <2>3, <2>4, <2>5, <2>6
       DEF HasCollected
  <2>8. FailsForLongLine'
    BY <1>4, <1>8, <1>13, <2>1 DEF FailsForLongLine
  <2> QED
    BY <2>7, <2>8
<1>17. CASE BufferFull
  <2>1. /\ Running /\ Byte # RowBytes!Newline /\ bufferPos = BUFFER_SIZE
        /\ UNCHANGED <<lineList, bytesRead, lineBuffer, bufferPos, rowsAdded>>
    BY <1>17, SameBytes DEF BufferFull
  <2>2. NewlinesRead' = NewlinesRead
    BY <1>5, <2>1 DEF NewlinesRead, Newline
  <2>3. HasCollected(e, m)'
    BY <1>2, <1>12, <1>13, <2>1, <2>2 DEF HasCollected
  <2>4. FailsForLongLine'
    <3>1. /\ m \in 0 .. n - 1 /\ Len(s) \in Nat
          /\ bufferPos \in 0 .. Len(s) - 1 /\ bufferPos + 1 # Len(s)
      BY <1>11, <2>1
    <3>2. m + 1 \in 1 .. n /\ Len(s) - 1 > BUFFER_SIZE
      BY <1>9, <2>1, <3>1
    <3> QED
      BY <1>3, <1>4, <1>10, <1>13, <3>2 DEF FailsForLongLine
  <2> QED
    BY <2>3, <2>4
<1> QED
  BY <1>14, <1>15, <1>16, <1>17 DEF RunNext

(***************************************************************************)
(* What was added are the rows of the lines that ended, and no others: a   *)
(* line is never read from the rest of a longer one before it, and a blank *)
(* line does not bring the row before it back.  Only a row with more bytes *)
(* than the buffer ends the run.  This holds for a buffer of any size and  *)
(* for lines with any names and any temperatures of the data set.          *)
(***************************************************************************)
THEOREM BufferGivesRowsOfLines == RunSpec => []AddsRowsOfLines
<1>1. RunInit => LinesInv
  BY LinesInit
<1>2. LinesInv /\ [RunNext]_runVars => LinesInv'
  BY LinesNext
<1>3. ASSUME LinesInv PROVE AddsRowsOfLines
  <2>1. PICK e, m : HasCollected(e, m) /\ FailsForLongLine
    BY <1>3 DEF LinesInv, CollectingInv
  <2> QED
    BY <2>1 DEF HasCollected, FailsForLongLine, AddsRowsOfLines
<1> QED
  BY <1>1, <1>2, <1>3, PTL DEF RunSpec
=============================================================================
