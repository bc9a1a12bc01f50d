---------------------------- MODULE CppBrc_proofs ----------------------------
(***************************************************************************)
(* Proofs about the C++ program, for every file, every number of cores and *)
(* every size of page: CppBrc, and at the end CppRows, its threads byte by *)
(* byte.                                                                   *)
(***************************************************************************)
EXTENDS CppBrc, CppRows, BrcLemmas, SequenceTheorems

-----------------------------------------------------------------------------
(***************************************************************************)
(* The mapping of a file, in whole pages, holds the file.                  *)
(***************************************************************************)
LEMMA MappedEndHoldsFile ==
  ASSUME NEW f, f.size \in Nat
  PROVE  MappedEnd(f) \in Nat /\ f.size <= MappedEnd(f)
<1> DEFINE a == f.size + PageSize - 1
           q == a \div PageSize
<1>1. PageSize \in Nat \ {0} /\ a \in Nat
  BY PageAssumption
<1>2. q \in Nat /\ a < PageSize * q + PageSize
  BY <1>1, DivBounds
<1>3. PageSize * q = q * PageSize /\ PageSize * q \in Nat
  BY <1>1, <1>2
<1> HIDE DEF q
<1>4. f.size <= q * PageSize
  BY <1>1, <1>2, <1>3
<1> QED
  BY <1>3, <1>4 DEF MappedEnd, q

(***************************************************************************)
(* A chunk is no larger than the file, and n chunks with their newlines    *)
(* are larger: rounding to the nearest loses less than the newlines add.   *)
(***************************************************************************)
LEMMA ChunkSizeBounds ==
  ASSUME NEW size \in Nat \ {0}, NEW n \in Nat, n > 1
  PROVE  /\ ChunkSize(size, n) \in 0 .. size
         /\ size < n * (ChunkSize(size, n) + 1)
<1> DEFINE q == (2 * size + n) \div (2 * n)
<1>1. ChunkSize(size, n) = q
  BY DEF ChunkSize
<1>2. 2 * size + n \in Nat /\ 2 * n \in Nat \ {0}
  OBVIOUS
<1>3. q \in Nat /\ (2 * n) * q <= 2 * size + n /\ 2 * size + n < (2 * n) * q + 2 * n
  BY <1>2, DivBounds
<1> HIDE DEF q
<1>4. n * q \in Nat /\ (2 * n) * q = 2 * (n * q) /\ n * (q + 1) = n * q + n
  BY <1>3
<1>5. size < n * (q + 1)
  BY <1>3, <1>4
<1>6. q <= size
  <2>1. SUFFICES ASSUME q >= size + 1 PROVE FALSE
    BY <1>3
  <2>2. n * q >= n * (size + 1)
    BY <2>1, <1>3
  <2>3. n * (size + 1) = n * size + n /\ n * size >= size /\ n * size \in Nat
    OBVIOUS
  <2> QED
    BY <1>3, <1>4, <2>2, <2>3
<1> QED
  BY <1>1, <1>3, <1>5, <1>6

LEMMA ChunkSizeType ==
  ASSUME NEW size \in Nat \ {0}, NEW n \in Nat
  PROVE  ChunkSize(size, n) \in 0 .. size
<1>1. CASE n > 1
  BY <1>1, ChunkSizeBounds
<1>2. CASE ~ (n > 1)
  BY <1>2 DEF ChunkSize
<1> QED
  BY <1>1, <1>2

(***************************************************************************)
(* The number of chunks splitFile may make.                                *)
(***************************************************************************)
Limit == IF cores > 1 THEN cores ELSE 1

(***************************************************************************)
(* While the chunks cut so far, each at least chunkSize + 1 bytes with its *)
(* newline, fit into the file, there is room for one more.                 *)
(***************************************************************************)
LEMMA RoomForOneMore ==
  ASSUME NEW size \in Nat \ {0}, cores \in Nat, NEW k \in Nat,
         k * (ChunkSize(size, cores) + 1) <= size
  PROVE  k < Limit
<1> DEFINE c == ChunkSize(size, cores)
<1>1. CASE cores > 1
  <2>1. c \in Nat /\ size < cores * (c + 1)
    BY <1>1, ChunkSizeBounds
  <2> HIDE DEF c
  <2>2. SUFFICES ASSUME k >= cores PROVE FALSE
    BY <1>1 DEF Limit
  <2>3. k * (c + 1) >= cores * (c + 1)
    BY <2>1, <2>2
  <2>4. k * (c + 1) <= size
    BY DEF c
  <2>5. k * (c + 1) \in Nat /\ cores * (c + 1) \in Nat
    BY <2>1
  <2> QED
    BY <2>1, <2>3, <2>4, <2>5
<1>2. CASE ~ (cores > 1)
  <2>1. k * (size + 1) <= size
    BY <1>2 DEF ChunkSize
  <2>2. SUFFICES ASSUME k >= 1 PROVE FALSE
    BY <1>2 DEF Limit
  <2>3. k * (size + 1) >= size + 1
    BY <2>2
  <2> QED
    BY <2>1, <2>3
<1> QED
  BY <1>1, <1>2

-----------------------------------------------------------------------------
(***************************************************************************)
(* The tables stay tables.                                                 *)
(***************************************************************************)
LEMMA EntryType ==
  ASSUME NEW map \in Tables, NEW n \in Names
  PROVE  Entry(map, n) \in Stat
  BY DEF Tables, Entry, New, Stat

LEMMA MergeType ==
  ASSUME NEW s \in Stat, NEW t \in Stat
  PROVE  Merge(s, t) \in Stat
  BY DEF Merge, Stat, Lesser, Greater

LEMMA AddType ==
  ASSUME NEW s \in Stat, NEW temp \in Int
  PROVE  Add(s, temp) \in Stat
  BY DEF Add, Stat, Lesser, Greater

LEMMA AddRowType ==
  ASSUME NEW map \in Tables, NEW row \in Row
  PROVE  AddRow(map, row) \in Tables
<1>1. row.name \in Names /\ row.temp \in Temps
  BY DEF Row
<1>2. row.temp \in Int
  BY <1>1, TempsAssumption
<1>3. Add(Entry(map, row.name), row.temp) \in Stat
  BY <1>1, <1>2, EntryType, AddType
<1> QED
  BY <1>3 DEF AddRow, Tables

LEMMA MergeTableType ==
  ASSUME NEW global \in Tables, NEW map \in Tables
  PROVE  MergeTable(global, map) \in Tables
<1>1. ASSUME NEW n \in Names
      PROVE  (IF map[n] = Absent THEN global[n] ELSE Merge(Entry(global, n), map[n]))
               \in Stat \cup {Absent}
  <2>1. CASE map[n] = Absent
    BY <2>1 DEF Tables
  <2>2. CASE map[n] # Absent
    <3>1. map[n] \in Stat
      BY <2>2 DEF Tables
    <3> QED
      BY <2>2, <3>1, EntryType, MergeType
  <2> QED
    BY <2>1, <2>2
<1> QED
  BY <1>1 DEF MergeTable, Tables

(***************************************************************************)
(* What a newline of a file is.                                            *)
(***************************************************************************)
LEMMA NewlineOfFile ==
  ASSUME NEW f, IsFile(f), NEW p \in f.newlines
  PROVE  p \in 0 .. f.size - 1 /\ p \in Nat /\ f.row[p] \in Row
  BY DEF IsFile, Rows

-----------------------------------------------------------------------------
(***************************************************************************)
(* The inductive invariant.                                                *)
(***************************************************************************)

(***************************************************************************)
(* Before splitFile there are no chunks, and before main starts threads    *)
(* none of these.                                                          *)
(***************************************************************************)
Begun ==
  /\ pc = "map" => /\ fileChunks = <<>>
                   /\ iter = 0 /\ filePos = 0 /\ currentChunkSize = 0
  /\ pc \in {"map", "split"} => threads = <<>>

(***************************************************************************)
(* In splitFile, filePos lags behind iter by the newline of each chunk,    *)
(* currentChunkSize never reaches past the end of the file when counted    *)
(* from filePos, and once it was cut down it reaches exactly there.        *)
(***************************************************************************)
Splitting ==
  pc = "split" =>
    /\ file.size > 0
    /\ iter = filePos + Len(fileChunks)
    /\ Len(fileChunks) * (ChunkSize(file.size, cores) + 1) <= iter
    /\ iter <= file.size
    /\ filePos + currentChunkSize <= file.size
    /\ \/ currentChunkSize = ChunkSize(file.size, cores)
       \/ filePos + currentChunkSize = file.size
    /\ IF fileChunks = <<>>
       THEN iter = 0
       ELSE iter = fileChunks[Len(fileChunks)].end + 1

(***************************************************************************)
(* The chunks cut while splitFile goes on all end at newlines.             *)
(***************************************************************************)
EndsAtNewlines ==
  pc = "split" => \A k \in DOMAIN fileChunks : fileChunks[k].end \in file.newlines

(***************************************************************************)
(* No chunk reaches past the mapping.                                      *)
(***************************************************************************)
ChunksMapped == \A k \in DOMAIN fileChunks : fileChunks[k].end < MappedEnd(file)

(***************************************************************************)
(* There is a thread for each chunk once main joins them; a thread that    *)
(* has ended left its map, and main joined only such threads.              *)
(***************************************************************************)
ThreadsMatchChunks ==
  /\ Len(threads) <= Len(fileChunks)
  /\ pc \in {"join", "printed"} => Len(threads) = Len(fileChunks)
  /\ \A i \in DOMAIN threads :
       ~ threads[i].running => fileChunks[i].chunkResult # {}
  /\ joined <= Len(threads)
  /\ \A i \in 1 .. joined : ~ threads[i].running

Safe == /\ TypeOK /\ ChunksTile /\ OneThreadPerCore /\ NoSizeWrap
        /\ UndefinedOnlyAtPageEdge /\ NoThreadOutlivesMapping

IInv == /\ Safe /\ Begun /\ Splitting /\ EndsAtNewlines
        /\ ChunksMapped /\ ThreadsMatchChunks

-----------------------------------------------------------------------------
LEMMA InitInvariant == Init => IInv
<1> SUFFICES ASSUME Init PROVE IInv
  OBVIOUS
<1> USE DEF Init
<1>1. TypeOK
  <2>1. IsFile(file)
    BY FilesAssumption
  <2>2. result \in Tables
    BY DEF Empty, Tables
  <2> QED
    BY <2>1, <2>2 DEF TypeOK
<1>2. ChunksTile /\ OneThreadPerCore /\ NoSizeWrap
  BY DEF ChunksTile, OneThreadPerCore, NoSizeWrap
<1>3. UndefinedOnlyAtPageEdge /\ NoThreadOutlivesMapping
  BY DEF UndefinedOnlyAtPageEdge, NoThreadOutlivesMapping
<1>4. Begun /\ Splitting /\ EndsAtNewlines /\ ChunksMapped /\ ThreadsMatchChunks
  BY DEF Begun, Splitting, EndsAtNewlines, ChunksMapped, ThreadsMatchChunks
<1> QED
  BY <1>1, <1>2, <1>3, <1>4 DEF IInv, Safe

LEMMA StutterInvariant == IInv /\ UNCHANGED vars => IInv'
  BY DEF IInv, Safe, TypeOK, ChunksTile, OneThreadPerCore, NoSizeWrap,
         UndefinedOnlyAtPageEdge, NoThreadOutlivesMapping, Begun, Splitting,
         EndsAtNewlines, ChunksMapped, ThreadsMatchChunks, vars, splitVars

(***************************************************************************)
(* The first chunk size fits into the file.                                *)
(***************************************************************************)
LEMMA MapFileInvariant == IInv /\ MapFile => IInv'
<1> SUFFICES ASSUME IInv, MapFile PROVE IInv'
  OBVIOUS
<1> USE DEF IInv, Safe
<1>1. /\ pc = "map" /\ pc' = "split" /\ file.size \in Nat \ {0}
      /\ cores' \in Nat
      /\ currentChunkSize' = ChunkSize(file.size, cores')
      /\ UNCHANGED <<file, iter, filePos, fileChunks, threads, joined, result>>
  BY CppAssumption DEF MapFile, TypeOK, IsFile
<1>2. fileChunks = <<>> /\ iter = 0 /\ filePos = 0 /\ threads = <<>>
  BY <1>1 DEF Begun
<1>3. ChunkSize(file.size, cores') \in 0 .. file.size
  BY <1>1, ChunkSizeType
<1>4. TypeOK'
  BY <1>1, <1>3 DEF TypeOK
<1>5. ChunksTile' /\ OneThreadPerCore' /\ NoSizeWrap'
  BY <1>1, <1>2, <1>3 DEF ChunksTile, OneThreadPerCore, NoSizeWrap
<1>6. UndefinedOnlyAtPageEdge' /\ NoThreadOutlivesMapping'
  BY <1>1 DEF UndefinedOnlyAtPageEdge, NoThreadOutlivesMapping
<1>7. Begun' /\ EndsAtNewlines' /\ ChunksMapped' /\ ThreadsMatchChunks'
  BY <1>1, <1>2 DEF Begun, EndsAtNewlines, ChunksMapped, ThreadsMatchChunks
<1>8. Splitting'
  BY <1>1, <1>2, <1>3 DEF Splitting
<1> QED
  BY <1>4, <1>5, <1>6, <1>7, <1>8

LEMMA MapFailsInvariant == IInv /\ MapFails => IInv'
<1> SUFFICES ASSUME IInv, MapFails PROVE IInv'
  OBVIOUS
<1> USE DEF IInv, Safe, MapFails, splitVars
<1>1. TypeOK'
  BY DEF TypeOK
<1>2. ChunksTile' /\ OneThreadPerCore'
  BY DEF ChunksTile, OneThreadPerCore
<1>3. NoSizeWrap' /\ UndefinedOnlyAtPageEdge' /\ NoThreadOutlivesMapping'
  BY DEF NoSizeWrap, UndefinedOnlyAtPageEdge, NoThreadOutlivesMapping, Begun, TypeOK, IsFile
<1>4. Begun' /\ Splitting' /\ EndsAtNewlines' /\ ChunksMapped' /\ ThreadsMatchChunks'
  BY DEF Begun, Splitting, EndsAtNewlines, ChunksMapped, ThreadsMatchChunks
<1> QED
  BY <1>1, <1>2, <1>3, <1>4

(***************************************************************************)
(* A turn of splitFile: there is room for one more chunk; the turn after a *)
(* cut of the chunk size is the last one, so that a chunk that ends at a   *)
(* newline has the full size.                                              *)
(***************************************************************************)
LEMMA CutChunkInvariant == IInv /\ CutChunk => IInv'
<1> SUFFICES ASSUME IInv, CutChunk PROVE IInv'
  OBVIOUS
<1> USE DEF IInv, Safe
<1> DEFINE n == Len(fileChunks)
           size == file.size
           c == ChunkSize(size, cores)
<1>1. PICK chunkEnd \in iter + currentChunkSize .. MappedEnd(file) - 1 :
        /\ IsStop(file, chunkEnd)
        /\ fileChunks' = Append(fileChunks,
             [start |-> iter, end |-> chunkEnd, chunkResult |-> {}])
        /\ filePos' = filePos + (chunkEnd - iter)
        /\ IF IsZero(file, chunkEnd)
           THEN /\ pc' = "spawn"
                /\ UNCHANGED <<iter, currentChunkSize>>
           ELSE /\ iter' = NextStart(chunkEnd)
                /\ currentChunkSize' = Shrink(filePos', currentChunkSize, file.size)
                /\ UNCHANGED pc
  BY DEF CutChunk, StopsAt
<1> DEFINE new == [start |-> iter, end |-> chunkEnd, chunkResult |-> {}]
<1>2. /\ pc = "split" /\ iter # size
      /\ UNCHANGED <<file, cores, threads, joined, result>>
  BY DEF CutChunk
<1>3. /\ size \in Nat \ {0} /\ iter \in Nat /\ currentChunkSize \in Nat /\ cores \in Nat
      /\ filePos \in Nat /\ fileChunks \in Seq(Chunk) /\ n \in Nat
      /\ \A p \in file.newlines : p \in 0 .. size - 1
  <2>1. /\ size \in Nat /\ iter \in Nat /\ currentChunkSize \in Nat /\ cores \in Nat
        /\ filePos \in Nat /\ fileChunks \in Seq(Chunk)
        /\ file.newlines \in SUBSET (0 .. size - 1)
    BY DEF TypeOK, IsFile
  <2>2. size > 0
    BY <1>2 DEF Splitting
  <2>3. n \in Nat
    BY <2>1, LenProperties
  <2> QED
    BY <2>1, <2>2, <2>3
<1>4. MappedEnd(file) \in Nat /\ size <= MappedEnd(file)
  BY <1>3, MappedEndHoldsFile
<1>5. chunkEnd \in Nat /\ iter + currentChunkSize <= chunkEnd /\ chunkEnd < MappedEnd(file)
  BY <1>1, <1>3, <1>4
<1>6. new \in Chunk
  BY <1>3, <1>5 DEF Chunk
<1>7. /\ fileChunks' \in Seq(Chunk) /\ Len(fileChunks') = n + 1
      /\ DOMAIN fileChunks = 1 .. n /\ DOMAIN fileChunks' = 1 .. n + 1
      /\ \A k \in 1 .. n : fileChunks'[k] = fileChunks[k]
      /\ fileChunks'[n + 1] = new
  BY <1>1, <1>3, <1>6, AppendProperties, LenProperties
<1>8. /\ iter = filePos + n /\ n * (c + 1) <= iter /\ iter < size
      /\ filePos + currentChunkSize <= size
      /\ currentChunkSize = c \/ filePos + currentChunkSize = size
      /\ IF n = 0 THEN iter = 0 ELSE iter = fileChunks[n].end + 1
      /\ \A k \in 1 .. n : fileChunks[k].end \in file.newlines
  BY SMTT(30), <1>2, <1>3, <1>7, EmptySeq DEF Splitting, EndsAtNewlines
<1>9. c \in 0 .. size
  BY <1>3, ChunkSizeType
<1>10. n < Limit
  <2>1. n * (c + 1) <= size
    BY <1>3, <1>8, <1>9
  <2> QED
    BY <2>1, <1>3, RoomForOneMore
<1> HIDE DEF c, n, new
<1>11. OneThreadPerCore'
  BY <1>2, <1>3, <1>7, <1>10 DEF OneThreadPerCore, Limit
<1>12. filePos' \in Nat
  BY <1>1, <1>3, <1>5
<1>13. new.start = iter /\ new.end = chunkEnd /\ new.chunkResult = {}
  BY DEF new
<1>14. ChunksMapped'
  <2>1. file' = file /\ MappedEnd(file)' = MappedEnd(file)
    BY <1>2 DEF MappedEnd
  <2>2. ASSUME NEW k \in 1 .. n + 1 PROVE fileChunks'[k].end < MappedEnd(file)
    <3>1. CASE k = n + 1
      BY <3>1, <1>5, <1>7, <1>13
    <3>2. CASE k \in 1 .. n
      BY <3>2, <1>7 DEF ChunksMapped
    <3> QED
      BY <3>1, <3>2, <1>3
  <2> QED
    BY <2>1, <2>2, <1>7 DEF ChunksMapped
<1>15. \A k \in 1 .. n + 1 :
         /\ fileChunks'[k].start = IF k = 1 THEN 0 ELSE fileChunks'[k-1].end + 1
         /\ fileChunks'[k].start < size
  <2>1. ASSUME NEW k \in 1 .. n
        PROVE  /\ fileChunks'[k].start = IF k = 1 THEN 0 ELSE fileChunks'[k-1].end + 1
               /\ fileChunks'[k].start < size
    <3>1. /\ fileChunks[k].start = IF k = 1 THEN 0 ELSE fileChunks[k-1].end + 1
          /\ fileChunks[k].start < size
      BY <1>7 DEF ChunksTile
    <3>2. fileChunks'[k] = fileChunks[k] /\ (k # 1 => fileChunks'[k-1] = fileChunks[k-1])
      BY <1>3, <1>7
    <3> QED
      BY <3>1, <3>2
  <2>2. /\ fileChunks'[n+1].start = IF n + 1 = 1 THEN 0 ELSE fileChunks'[n].end + 1
        /\ fileChunks'[n+1].start < size
    BY SMTT(30), <1>3, <1>7, <1>8, <1>13
  <2> QED
    BY <2>1, <2>2, <1>3
<1>16. ThreadsMatchChunks' /\ NoThreadOutlivesMapping' /\ UndefinedOnlyAtPageEdge'
  <2>1. threads = <<>> /\ threads' = <<>>
    BY <1>2 DEF Begun
  <2>2. pc' \in {"split", "spawn"}
    BY <1>1, <1>2
  <2>3. joined = 0 /\ joined' = joined
    BY <1>2, <2>1 DEF ThreadsMatchChunks, TypeOK
  <2> QED
    BY <1>3, <1>7, <2>1, <2>2, <2>3
       DEF ThreadsMatchChunks, NoThreadOutlivesMapping, UndefinedOnlyAtPageEdge
<1>17. CASE IsZero(file, chunkEnd)
  <2>1. pc' = "spawn" /\ iter' = iter /\ currentChunkSize' = currentChunkSize
    BY <1>1, <1>17
  <2>2. size <= chunkEnd
    BY <1>17 DEF IsZero
  <2>3. TypeOK'
    BY <1>2, <1>7, <1>12, <2>1 DEF TypeOK
  <2>4. \A k \in 1 .. n + 1 :
          fileChunks'[k].end \notin file.newlines =>
            k = n + 1 /\ fileChunks'[k].end >= size
    BY <1>3, <1>5, <1>7, <1>8, <1>13, <2>2
  <2>5. fileChunks' # <<>> /\ fileChunks'[n + 1].end >= size - 1
    BY <1>3, <1>5, <1>7, <1>13, <2>2
  <2>6. ChunksTile'
    BY <1>2, <1>7, <1>15, <2>1, <2>4, <2>5 DEF ChunksTile
  <2>7. NoSizeWrap' /\ Begun' /\ Splitting' /\ EndsAtNewlines'
    BY <1>2, <2>1 DEF NoSizeWrap, Begun, Splitting, EndsAtNewlines
  <2> QED
    BY <1>11, <1>14, <1>16, <2>3, <2>6, <2>7
<1>18. CASE ~ IsZero(file, chunkEnd)
  <2>1. /\ pc' = "split" /\ iter' = chunkEnd + 1
        /\ currentChunkSize' = Shrink(filePos', currentChunkSize, size)
    BY <1>1, <1>2, <1>18 DEF NextStart
  <2>2. chunkEnd \in file.newlines /\ chunkEnd < size
    BY <1>1, <1>3, <1>18 DEF IsStop
  <2>3. currentChunkSize = c
    BY <1>3, <1>5, <1>8, <2>2
  <2>4. (n + 1) * (c + 1) = n * (c + 1) + c + 1 /\ n * (c + 1) \in Nat
    <3>1. n \in Nat /\ c + 1 \in Nat /\ c \in Nat
      BY <1>3, <1>9
    <3>2. (n + 1) * (c + 1) = n * (c + 1) + (c + 1) /\ n * (c + 1) \in Nat
      BY <3>1, OneMoreTimes
    <3> QED
      BY <3>1, <3>2
  <2>5. (n + 1) * (c + 1) <= iter'
    BY <1>3, <1>5, <1>8, <1>9, <2>1, <2>3, <2>4
  <2>6. iter' = filePos' + (n + 1) /\ iter' <= size
    BY <1>1, <1>3, <1>5, <1>8, <2>1, <2>2
  <2>7. /\ currentChunkSize' \in 0 .. size
        /\ filePos' + currentChunkSize' <= size
        /\ currentChunkSize' = c \/ filePos' + currentChunkSize' = size
    <3>1. CASE filePos' + c > size
      <4>1. currentChunkSize' = c - (filePos' + c - size)
        BY <2>1, <2>3, <3>1 DEF Shrink
      <4> QED
        BY SMTT(30), <4>1, <3>1, <1>3, <1>9, <1>12, <2>6
    <3>2. CASE ~ (filePos' + c > size)
      <4>1. currentChunkSize' = c
        BY <2>1, <2>3, <3>2 DEF Shrink
      <4> QED
        BY <4>1, <3>2, <1>3, <1>9, <1>12
    <3> QED
      BY <3>1, <3>2
  <2>8. TypeOK'
    BY SMTT(30), <1>2, <1>5, <1>7, <1>12, <2>1, <2>7 DEF TypeOK
  <2>9. ASSUME NEW k \in 1 .. n + 1
        PROVE  fileChunks'[k].end \in file.newlines
    <3>1. CASE k \in 1 .. n
      BY <3>1, <1>7, <1>8
    <3>2. CASE k = n + 1
      BY <3>2, <1>7, <1>13, <2>2
    <3> QED
      BY <3>1, <3>2, <1>3
  <2>10. ChunksTile'
    BY <1>2, <1>7, <1>15, <2>1, <2>9 DEF ChunksTile
  <2>11. NoSizeWrap' /\ Begun'
    BY <1>2, <2>1, <2>7 DEF NoSizeWrap, Begun
  <2>12. Splitting'
    BY <1>2, <1>3, <1>7, <1>13, <2>1, <2>5, <2>6, <2>7, EmptySeq DEF Splitting, c
  <2>13. EndsAtNewlines'
    BY <1>2, <1>7, <2>9 DEF EndsAtNewlines
  <2> QED
    BY <1>11, <1>14, <1>16, <2>8, <2>10, <2>11, <2>12, <2>13
<1> QED
  BY <1>17, <1>18

(***************************************************************************)
(* A scan begins at most one byte per chunk beyond the end of the file, so *)
(* it runs off only where the last page has no more than that to spare.    *)
(***************************************************************************)
LEMMA ScanRunsOffInvariant == IInv /\ ScanRunsOff => IInv'
<1> SUFFICES ASSUME IInv, ScanRunsOff PROVE IInv'
  OBVIOUS
<1> USE DEF IInv, Safe
<1> DEFINE n == Len(fileChunks)
           size == file.size
           c == ChunkSize(size, cores)
           p == iter + currentChunkSize
<1>1. /\ pc = "split" /\ pc' = "undefined"
      /\ RunsOff(file, p)
      /\ UNCHANGED <<file, cores, splitVars, fileChunks, threads, joined, result>>
  BY DEF ScanRunsOff
<1>2. /\ size \in Nat \ {0} /\ iter \in Nat /\ currentChunkSize \in Nat /\ cores \in Nat
      /\ filePos \in Nat /\ n \in Nat
  <2>1. /\ size \in Nat /\ iter \in Nat /\ currentChunkSize \in Nat /\ cores \in Nat
        /\ filePos \in Nat /\ fileChunks \in Seq(Chunk)
    BY DEF TypeOK, IsFile
  <2>2. size > 0
    BY <1>1 DEF Splitting
  <2>3. n \in Nat
    BY <2>1, LenProperties
  <2> QED
    BY <2>1, <2>2, <2>3
<1>3. n < Limit
  <2>1. c \in Nat
    <3>1. c \in 0 .. size
      BY <1>2, ChunkSizeType
    <3> QED
      BY <3>1, <1>2
  <2>2. n * (c + 1) <= iter /\ iter <= size
    BY <1>1 DEF Splitting
  <2>3. n * (c + 1) \in Nat
    BY <2>1, <1>2
  <2> HIDE DEF c
  <2>4. n * (c + 1) <= size
    BY <1>2, <2>2, <2>3
  <2> QED
    BY <2>4, <1>2, RoomForOneMore DEF c
<1>4. p < size + Limit
  <2>1. iter = filePos + n /\ filePos + currentChunkSize <= size
    BY <1>1 DEF Splitting
  <2>2. p <= size + n
    BY <1>2, <2>1
  <2>3. Limit \in Nat
    BY <1>2 DEF Limit
  <2> QED
    BY <1>2, <1>3, <2>2, <2>3
<1>5. MappedEnd(file) - size < Limit
  <2>1. SUFFICES ASSUME MappedEnd(file) - size >= Limit PROVE FALSE
    BY <1>2, MappedEndHoldsFile DEF Limit
  <2> DEFINE q == IF p < size THEN size ELSE p
  <2>2. MappedEnd(file) \in Nat /\ Limit \in Nat \ {0}
    BY <1>2, MappedEndHoldsFile DEF Limit
  <2>3. p \in Nat
    BY <1>2
  <2> HIDE DEF p
  <2>4. q \in p .. MappedEnd(file) - 1 /\ size <= q
    BY <1>2, <1>4, <2>1, <2>2, <2>3
  <2>5. IsStop(file, q)
    BY <1>2, <2>2, <2>4 DEF IsStop, IsZero
  <2> QED
    BY <1>1, <2>4, <2>5 DEF RunsOff
<1>6. UndefinedOnlyAtPageEdge'
  <2>1. (MappedEnd(file) - file.size < IF cores > 1 THEN cores ELSE 1)'
    BY <1>1, <1>5 DEF Limit, MappedEnd
  <2> QED
    BY <2>1 DEF UndefinedOnlyAtPageEdge
<1>7. TypeOK'
  BY <1>1 DEF TypeOK, splitVars
<1>8. ChunksTile' /\ OneThreadPerCore' /\ NoSizeWrap' /\ NoThreadOutlivesMapping'
  BY <1>1 DEF ChunksTile, OneThreadPerCore, NoSizeWrap, NoThreadOutlivesMapping, splitVars
<1>9. Begun' /\ Splitting' /\ EndsAtNewlines' /\ ThreadsMatchChunks'
  BY <1>1 DEF Begun, Splitting, EndsAtNewlines, ThreadsMatchChunks, splitVars
<1>10. ChunksMapped'
  BY <1>1 DEF ChunksMapped, MappedEnd
<1> QED
  BY <1>6, <1>7, <1>8, <1>9, <1>10

LEMMA SplitDoneInvariant == IInv /\ SplitDone => IInv'
<1> SUFFICES ASSUME IInv, SplitDone PROVE IInv'
  OBVIOUS
<1> USE DEF IInv, Safe
<1>1. /\ pc = "split" /\ pc' = "spawn" /\ iter = file.size
      /\ UNCHANGED <<file, cores, iter, filePos, currentChunkSize,
                     fileChunks, threads, joined, result>>
  BY DEF SplitDone, splitVars
<1>2. fileChunks # <<>> /\ iter = fileChunks[Len(fileChunks)].end + 1
  BY <1>1 DEF Splitting, TypeOK, IsFile
<1>3. fileChunks[Len(fileChunks)].end \in Nat
  <2>1. Len(fileChunks) \in 1 .. Len(fileChunks)
    BY <1>2, EmptySeq DEF TypeOK
  <2>2. fileChunks[Len(fileChunks)] \in Chunk
    BY <2>1, ElementOfSeq DEF TypeOK
  <2> QED
    BY <2>2 DEF Chunk
<1>4. ChunksTile'
  BY <1>1, <1>2, <1>3 DEF ChunksTile
<1>5. TypeOK'
  BY <1>1 DEF TypeOK
<1>6. OneThreadPerCore' /\ NoSizeWrap' /\ UndefinedOnlyAtPageEdge' /\ NoThreadOutlivesMapping'
  BY <1>1 DEF OneThreadPerCore, NoSizeWrap, UndefinedOnlyAtPageEdge, NoThreadOutlivesMapping
<1>7. Begun' /\ Splitting' /\ EndsAtNewlines'
  BY <1>1 DEF Begun, Splitting, EndsAtNewlines
<1>8. ChunksMapped' /\ ThreadsMatchChunks'
  BY <1>1 DEF ChunksMapped, ThreadsMatchChunks, MappedEnd
<1> QED
  BY <1>4, <1>5, <1>6, <1>7, <1>8

LEMMA AllStartedInvariant == IInv /\ AllStarted => IInv'
<1> SUFFICES ASSUME IInv, AllStarted PROVE IInv'
  OBVIOUS
<1> USE DEF IInv, Safe
<1>1. /\ pc = "spawn" /\ pc' = "join" /\ Len(threads) = Len(fileChunks)
      /\ UNCHANGED <<file, cores, iter, filePos, currentChunkSize,
                     fileChunks, threads, joined, result>>
  BY DEF AllStarted, splitVars
<1>2. TypeOK'
  BY <1>1 DEF TypeOK
<1>3. ChunksTile' /\ OneThreadPerCore' /\ NoSizeWrap'
  BY <1>1 DEF ChunksTile, OneThreadPerCore, NoSizeWrap
<1>4. UndefinedOnlyAtPageEdge' /\ NoThreadOutlivesMapping'
  BY <1>1 DEF UndefinedOnlyAtPageEdge, NoThreadOutlivesMapping
<1>5. Begun' /\ Splitting' /\ EndsAtNewlines'
  BY <1>1 DEF Begun, Splitting, EndsAtNewlines
<1>6. ChunksMapped' /\ ThreadsMatchChunks'
  BY <1>1 DEF ChunksMapped, ThreadsMatchChunks, MappedEnd
<1> QED
  BY <1>2, <1>3, <1>4, <1>5, <1>6

(***************************************************************************)
(* Main prints when it has joined as many threads as there are, each of    *)
(* which has ended.                                                        *)
(***************************************************************************)
LEMMA UnmapAndPrintInvariant == IInv /\ UnmapAndPrint => IInv'
<1> SUFFICES ASSUME IInv, UnmapAndPrint PROVE IInv'
  OBVIOUS
<1> USE DEF IInv, Safe
<1>1. /\ pc = "join" /\ pc' = "printed" /\ joined = Len(threads)
      /\ UNCHANGED <<file, cores, iter, filePos, currentChunkSize,
                     fileChunks, threads, joined, result>>
  BY DEF UnmapAndPrint, AllJoined, splitVars
<1>2. TypeOK'
  BY <1>1 DEF TypeOK
<1>3. ChunksTile' /\ OneThreadPerCore' /\ NoSizeWrap'
  BY <1>1 DEF ChunksTile, OneThreadPerCore, NoSizeWrap
<1>4. UndefinedOnlyAtPageEdge'
  BY <1>1 DEF UndefinedOnlyAtPageEdge
<1>5. NoThreadOutlivesMapping'
  <2>1. DOMAIN threads = 1 .. joined
    BY <1>1, LenProperties DEF TypeOK
  <2> QED
    BY <1>1, <2>1 DEF ThreadsMatchChunks, NoThreadOutlivesMapping
<1>6. Begun' /\ Splitting' /\ EndsAtNewlines'
  BY <1>1 DEF Begun, Splitting, EndsAtNewlines
<1>7. ChunksMapped' /\ ThreadsMatchChunks'
  BY <1>1 DEF ChunksMapped, ThreadsMatchChunks, MappedEnd
<1> QED
  BY <1>2, <1>3, <1>4, <1>5, <1>6, <1>7

-----------------------------------------------------------------------------
(***************************************************************************)
(* The threads.                                                            *)
(***************************************************************************)
LEMMA StartThreadInvariant == IInv /\ StartThread => IInv'
<1> SUFFICES ASSUME IInv, StartThread PROVE IInv'
  OBVIOUS
<1> USE DEF IInv, Safe
<1> DEFINE t == Len(threads)
           new == [iter |-> fileChunks[t + 1].start, map |-> Empty, running |-> TRUE]
<1>1. /\ pc = "spawn" /\ t < Len(fileChunks)
      /\ threads' = Append(threads, new)
      /\ UNCHANGED <<file, pc, cores, iter, filePos, currentChunkSize,
                     fileChunks, joined, result>>
  BY DEF StartThread, splitVars
<1>2. threads \in Seq(ThreadState) /\ fileChunks \in Seq(Chunk) /\ joined \in Nat
  BY DEF TypeOK
<1>3. t \in Nat /\ Len(fileChunks) \in Nat
  BY <1>2, LenProperties
<1>4. new \in ThreadState
  <2>1. fileChunks[t + 1] \in Chunk
    BY <1>1, <1>2, <1>3, ElementOfSeq
  <2>2. Empty \in Tables
    BY DEF Empty, Tables
  <2> QED
    BY <2>1, <2>2 DEF Chunk, ThreadState
<1>5. /\ threads' \in Seq(ThreadState) /\ Len(threads') = t + 1
      /\ DOMAIN threads = 1 .. t /\ DOMAIN threads' = 1 .. t + 1
      /\ \A i \in 1 .. t : threads'[i] = threads[i]
      /\ threads'[t + 1] = new
  BY <1>1, <1>2, <1>4, AppendProperties, LenProperties
<1>6. TypeOK'
  BY <1>1, <1>5 DEF TypeOK
<1>7. ChunksTile' /\ OneThreadPerCore' /\ NoSizeWrap'
  BY <1>1 DEF ChunksTile, OneThreadPerCore, NoSizeWrap
<1>8. UndefinedOnlyAtPageEdge' /\ NoThreadOutlivesMapping'
  BY <1>1 DEF UndefinedOnlyAtPageEdge, NoThreadOutlivesMapping
<1>9. Begun' /\ Splitting' /\ EndsAtNewlines'
  BY <1>1 DEF Begun, Splitting, EndsAtNewlines
<1>10. ChunksMapped'
  BY <1>1 DEF ChunksMapped, MappedEnd
<1>11. ThreadsMatchChunks'
  <2>1. new.running = TRUE
    OBVIOUS
  <2> HIDE DEF new
  <2>2. ASSUME NEW i \in 1 .. t + 1, ~ threads'[i].running
        PROVE  fileChunks'[i].chunkResult # {}
    <3>1. i \in 1 .. t
      BY <1>3, <1>5, <2>1, <2>2
    <3> QED
      BY <1>1, <1>5, <2>2, <3>1 DEF ThreadsMatchChunks
  <2>3. joined <= t /\ \A i \in 1 .. joined : ~ threads[i].running
    BY DEF ThreadsMatchChunks
  <2>4. \A i \in 1 .. joined : ~ threads'[i].running
    BY <1>2, <1>3, <1>5, <2>3
  <2>5. Len(threads') <= Len(fileChunks) /\ joined <= Len(threads')
    BY <1>1, <1>2, <1>3, <1>5, <2>3
  <2> QED
    BY <1>1, <1>5, <2>2, <2>4, <2>5 DEF ThreadsMatchChunks
<1> QED
  BY <1>6, <1>7, <1>8, <1>9, <1>10, <1>11

(***************************************************************************)
(* What is known of a thread that runs.                                    *)
(***************************************************************************)
LEMMA ThreadFacts ==
  ASSUME IInv, NEW i \in DOMAIN threads
  PROVE  /\ threads[i] \in ThreadState /\ fileChunks[i] \in Chunk
         /\ threads \in Seq(ThreadState) /\ fileChunks \in Seq(Chunk)
         /\ i \in 1 .. Len(threads) /\ i \in 1 .. Len(fileChunks)
         /\ DOMAIN threads = 1 .. Len(threads)
         /\ DOMAIN fileChunks = 1 .. Len(fileChunks)
         /\ joined <= Len(threads) /\ joined \in Nat
         /\ Len(threads) \in Nat /\ Len(fileChunks) \in Nat
<1>1. threads \in Seq(ThreadState) /\ fileChunks \in Seq(Chunk) /\ joined \in Nat
  BY DEF IInv, Safe, TypeOK
<1>2. /\ DOMAIN threads = 1 .. Len(threads) /\ Len(threads) \in Nat
      /\ DOMAIN fileChunks = 1 .. Len(fileChunks) /\ Len(fileChunks) \in Nat
  BY <1>1, LenProperties
<1>3. Len(threads) <= Len(fileChunks) /\ joined <= Len(threads)
  BY DEF IInv, ThreadsMatchChunks
<1>4. i \in 1 .. Len(fileChunks)
  BY <1>2, <1>3
<1> QED
  BY <1>1, <1>2, <1>3, <1>4, ElementOfSeq

(***************************************************************************)
(* The records of a thread that read a row, of one that ended and of its   *)
(* chunk.                                                                  *)
(***************************************************************************)
LEMMA ThreadReadOn ==
  ASSUME NEW t \in ThreadState, NEW m \in Tables, NEW p \in Nat
  PROVE  /\ [t EXCEPT !.map = m, !.iter = p] \in ThreadState
         /\ [t EXCEPT !.map = m, !.iter = p].running = t.running
  BY DEF ThreadState

LEMMA ThreadEnded ==
  ASSUME NEW t \in ThreadState
  PROVE  /\ [t EXCEPT !.running = FALSE] \in ThreadState
         /\ [t EXCEPT !.running = FALSE].running = FALSE
  BY DEF ThreadState

LEMMA ChunkDone ==
  ASSUME NEW c \in Chunk, NEW m \in Tables
  PROVE  LET d == [c EXCEPT !.chunkResult = {m}]
         IN  /\ d \in Chunk /\ d.chunkResult # {}
             /\ d.start = c.start /\ d.end = c.end
  BY DEF Chunk

LEMMA ReadRowInvariant ==
  ASSUME IInv, NEW i \in DOMAIN threads, ReadRow(i)
  PROVE  IInv'
<1> USE DEF IInv, Safe
<1>1. PICK newline \in threads[i].iter .. file.size - 1 :
        /\ newline \in file.newlines
        /\ threads' = [threads EXCEPT
             ![i].map  = AddRow(@, file.row[newline]),
             ![i].iter = newline + 1]
  BY DEF ReadRow, RowEndsAt
<1>2. /\ pc \in {"spawn", "join"} /\ threads[i].running
      /\ UNCHANGED <<file, pc, cores, iter, filePos, currentChunkSize,
                     fileChunks, joined, result>>
  BY DEF ReadRow, Alive, splitVars
<1> DEFINE new == [threads[i] EXCEPT !.map  = AddRow(threads[i].map, file.row[newline]),
                                     !.iter = newline + 1]
<1>3. threads' = [threads EXCEPT ![i] = new]
  BY <1>1
<1>4. new \in ThreadState /\ new.running = threads[i].running
  <2>1. threads[i] \in ThreadState
    BY ThreadFacts
  <2>2. newline + 1 \in Nat /\ file.row[newline] \in Row
    BY <1>1, NewlineOfFile DEF TypeOK
  <2>3. AddRow(threads[i].map, file.row[newline]) \in Tables
    BY <2>1, <2>2, AddRowType DEF ThreadState
  <2> QED
    BY <2>1, <2>2, <2>3, ThreadReadOn
<1> HIDE DEF new
<1>5. /\ threads' \in Seq(ThreadState) /\ Len(threads') = Len(threads)
      /\ DOMAIN threads' = DOMAIN threads
      /\ \A j \in DOMAIN threads : threads'[j].running = threads[j].running
  BY <1>3, <1>4, ThreadFacts, ExceptSeq
<1>6. TypeOK'
  BY <1>2, <1>5 DEF TypeOK
<1>7. ChunksTile' /\ OneThreadPerCore' /\ NoSizeWrap'
  BY <1>2 DEF ChunksTile, OneThreadPerCore, NoSizeWrap
<1>8. UndefinedOnlyAtPageEdge' /\ NoThreadOutlivesMapping'
  BY <1>2 DEF UndefinedOnlyAtPageEdge, NoThreadOutlivesMapping
<1>9. Begun' /\ Splitting' /\ EndsAtNewlines'
  BY <1>2 DEF Begun, Splitting, EndsAtNewlines
<1>10. ChunksMapped'
  BY <1>2 DEF ChunksMapped, MappedEnd
<1>11. ThreadsMatchChunks'
  BY SMTT(30), <1>2, <1>5, ThreadFacts DEF ThreadsMatchChunks
<1> QED
  BY <1>6, <1>7, <1>8, <1>9, <1>10, <1>11

(***************************************************************************)
(* A thread's search for the end of a row fails only on a last row without *)
(* a newline: it does not begin beyond the mapping.                        *)
(***************************************************************************)
LEMMA RowRunsOffInvariant ==
  ASSUME IInv, NEW i \in DOMAIN threads, RowRunsOff(i)
  PROVE  IInv'
<1> USE DEF IInv, Safe
<1>1. /\ pc \in {"spawn", "join"} /\ pc' = "undefined"
      /\ ~ AtEnd(i)
      /\ \A p \in threads[i].iter .. file.size - 1 : p \notin file.newlines
      /\ UNCHANGED <<file, cores, iter, filePos, currentChunkSize,
                     fileChunks, threads, joined, result>>
  BY DEF RowRunsOff, Alive, splitVars
<1>2. threads[i].iter \in Nat /\ fileChunks[i].end \in Nat /\ file.size \in Nat
  BY ThreadFacts DEF TypeOK, IsFile, ThreadState, Chunk
<1>3. threads[i].iter < file.size
  <2>1. threads[i].iter < fileChunks[i].end /\ ~ IsZero(file, threads[i].iter)
    BY <1>1, <1>2 DEF AtEnd
  <2>2. fileChunks[i].end < MappedEnd(file)
    BY ThreadFacts DEF ChunksMapped
  <2>3. MappedEnd(file) \in Nat
    BY <1>2, MappedEndHoldsFile
  <2> QED
    BY <1>2, <2>1, <2>2, <2>3 DEF IsZero
<1>4. ~ Terminated(file)
  <2>1. file.size - 1 \in threads[i].iter .. file.size - 1
    BY <1>2, <1>3
  <2> QED
    BY <1>1, <2>1 DEF Terminated
<1>5. TypeOK'
  BY <1>1 DEF TypeOK
<1>6. ChunksTile' /\ OneThreadPerCore' /\ NoSizeWrap'
  BY <1>1 DEF ChunksTile, OneThreadPerCore, NoSizeWrap
<1>7. UndefinedOnlyAtPageEdge' /\ NoThreadOutlivesMapping'
  BY <1>1, <1>4 DEF UndefinedOnlyAtPageEdge, NoThreadOutlivesMapping, Terminated
<1>8. Begun' /\ Splitting' /\ EndsAtNewlines'
  BY <1>1 DEF Begun, Splitting, EndsAtNewlines
<1>9. ChunksMapped' /\ ThreadsMatchChunks'
  BY <1>1 DEF ChunksMapped, ThreadsMatchChunks, MappedEnd
<1> QED
  BY <1>5, <1>6, <1>7, <1>8, <1>9

LEMMA PublishInvariant ==
  ASSUME IInv, NEW i \in DOMAIN threads, Publish(i)
  PROVE  IInv'
<1> USE DEF IInv, Safe
<1> DEFINE ended == [threads[i] EXCEPT !.running = FALSE]
           done  == [fileChunks[i] EXCEPT !.chunkResult = {threads[i].map}]
<1>1. /\ pc \in {"spawn", "join"} /\ threads[i].running
      /\ threads' = [threads EXCEPT ![i] = ended]
      /\ fileChunks' = [fileChunks EXCEPT ![i] = done]
      /\ UNCHANGED <<file, pc, cores, iter, filePos, currentChunkSize, joined, result>>
  BY DEF Publish, Alive, splitVars
<1>2. /\ ended \in ThreadState /\ ended.running = FALSE
      /\ done \in Chunk /\ done.chunkResult # {}
      /\ done.start = fileChunks[i].start /\ done.end = fileChunks[i].end
  <2>1. threads[i] \in ThreadState /\ fileChunks[i] \in Chunk
    BY ThreadFacts
  <2>2. threads[i].map \in Tables
    BY <2>1 DEF ThreadState
  <2> QED
    BY <2>1, <2>2, ThreadEnded, ChunkDone
<1> HIDE DEF ended, done
<1>3. /\ threads' \in Seq(ThreadState) /\ Len(threads') = Len(threads)
      /\ DOMAIN threads' = DOMAIN threads
      /\ \A j \in DOMAIN threads : threads'[j] = IF j = i THEN ended ELSE threads[j]
  BY <1>1, <1>2, ThreadFacts, ExceptSeq
<1>4. /\ fileChunks' \in Seq(Chunk) /\ Len(fileChunks') = Len(fileChunks)
      /\ DOMAIN fileChunks' = DOMAIN fileChunks
      /\ \A k \in DOMAIN fileChunks :
           fileChunks'[k] = IF k = i THEN done ELSE fileChunks[k]
  BY <1>1, <1>2, ThreadFacts, ExceptSeq
<1>5. /\ DOMAIN threads = 1 .. Len(threads) /\ Len(threads) \in Nat
      /\ DOMAIN fileChunks = 1 .. Len(fileChunks) /\ Len(fileChunks) \in Nat
      /\ Len(threads) <= Len(fileChunks) /\ joined <= Len(threads) /\ joined \in Nat
  BY ThreadFacts DEF ThreadsMatchChunks
<1>6. \A k \in DOMAIN fileChunks :
        /\ fileChunks'[k].start = fileChunks[k].start
        /\ fileChunks'[k].end = fileChunks[k].end
  BY <1>2, <1>4
<1>7. TypeOK'
  BY <1>1, <1>3, <1>4 DEF TypeOK
<1>8. ChunksTile'
  <2>1. ASSUME NEW k \in 1 .. Len(fileChunks)
        PROVE  /\ fileChunks'[k].start = IF k = 1 THEN 0 ELSE fileChunks'[k-1].end + 1
               /\ fileChunks'[k].start < file.size
               /\ fileChunks'[k].end \notin file.newlines =>
                    k = Len(fileChunks) /\ fileChunks'[k].end >= file.size
    <3>1. /\ fileChunks[k].start = IF k = 1 THEN 0 ELSE fileChunks[k-1].end + 1
          /\ fileChunks[k].start < file.size
          /\ fileChunks[k].end \notin file.newlines =>
               k = Len(fileChunks) /\ fileChunks[k].end >= file.size
      BY <1>5 DEF ChunksTile
    <3>2. k # 1 => k - 1 \in 1 .. Len(fileChunks)
      BY <1>5
    <3> QED
      BY <1>5, <1>6, <3>1, <3>2
  <2>2. pc' \in {"spawn", "join", "printed"} =>
          fileChunks' # <<>> /\ fileChunks'[Len(fileChunks)].end >= file.size - 1
    <3>1. Len(fileChunks) \in DOMAIN fileChunks
      BY <1>5
    <3> QED
      BY <1>1, <1>4, <1>6, <3>1 DEF ChunksTile
  <2> QED
    BY <1>1, <1>4, <1>5, <2>1, <2>2 DEF ChunksTile
<1>9. OneThreadPerCore' /\ NoSizeWrap' /\ UndefinedOnlyAtPageEdge' /\ NoThreadOutlivesMapping'
  BY <1>1, <1>4 DEF OneThreadPerCore, NoSizeWrap, UndefinedOnlyAtPageEdge,
                    NoThreadOutlivesMapping
<1>10. Begun' /\ Splitting' /\ EndsAtNewlines'
  BY <1>1 DEF Begun, Splitting, EndsAtNewlines
<1>11. ChunksMapped'
  <2>1. MappedEnd(file)' = MappedEnd(file)
    BY <1>1 DEF MappedEnd
  <2> QED
    BY <1>4, <1>6, <2>1 DEF ChunksMapped
<1>12. ThreadsMatchChunks'
  <2>1. ASSUME NEW j \in DOMAIN threads, ~ threads'[j].running
        PROVE  fileChunks'[j].chunkResult # {}
    <3>1. j \in DOMAIN fileChunks
      BY <1>5
    <3>2. CASE j = i
      BY <1>2, <1>4, <3>1, <3>2
    <3>3. CASE j # i
      BY <1>3, <1>4, <2>1, <3>1, <3>3 DEF ThreadsMatchChunks
    <3> QED
      BY <3>2, <3>3
  <2>2. ASSUME NEW j \in 1 .. joined PROVE ~ threads'[j].running
    <3>1. j \in DOMAIN threads
      BY <1>5
    <3>2. ~ threads[j].running
      BY DEF ThreadsMatchChunks
    <3> QED
      BY <1>1, <1>3, <3>1, <3>2
  <2> QED
    BY <1>1, <1>3, <1>4, <1>5, <2>1, <2>2 DEF ThreadsMatchChunks
<1> QED
  BY <1>7, <1>8, <1>9, <1>10, <1>11, <1>12

(***************************************************************************)
(* The thread main has joined left its map: the second disjunct of         *)
(* JoinAndMerge never happens.                                             *)
(***************************************************************************)
LEMMA JoinAndMergeInvariant == IInv /\ JoinAndMerge => IInv'
<1> SUFFICES ASSUME IInv, JoinAndMerge PROVE IInv'
  OBVIOUS
<1> USE DEF IInv, Safe
<1>1. /\ pc = "join" /\ joined < Len(threads) /\ ~ threads[joined + 1].running
      /\ UNCHANGED <<file, cores, iter, filePos, currentChunkSize, fileChunks, threads>>
  BY DEF JoinAndMerge, splitVars
<1>2. joined \in Nat /\ Len(threads) \in Nat /\ DOMAIN threads = 1 .. Len(threads)
  BY LenProperties DEF TypeOK
<1>3. joined + 1 \in DOMAIN threads
  BY <1>1, <1>2
<1>4. fileChunks[joined + 1].chunkResult # {}
  BY <1>1, <1>3 DEF ThreadsMatchChunks
<1>5. PICK map \in fileChunks[joined + 1].chunkResult :
        /\ result' = MergeTable(result, map)
        /\ joined' = joined + 1
        /\ pc' = pc
  BY <1>4 DEF JoinAndMerge
<1>6. result' \in Tables
  <2>1. map \in Tables
    BY <1>3, <1>5, ThreadFacts DEF Chunk
  <2> QED
    BY <1>5, <2>1, MergeTableType DEF TypeOK
<1>7. TypeOK'
  BY <1>1, <1>2, <1>5, <1>6 DEF TypeOK
<1>8. ChunksTile' /\ OneThreadPerCore' /\ NoSizeWrap'
  BY <1>1, <1>5 DEF ChunksTile, OneThreadPerCore, NoSizeWrap
<1>9. UndefinedOnlyAtPageEdge' /\ NoThreadOutlivesMapping'
  BY <1>1, <1>5 DEF UndefinedOnlyAtPageEdge, NoThreadOutlivesMapping
<1>10. Begun' /\ Splitting' /\ EndsAtNewlines'
  BY <1>1, <1>5 DEF Begun, Splitting, EndsAtNewlines
<1>11. ChunksMapped'
  BY <1>1 DEF ChunksMapped, MappedEnd
<1>12. ThreadsMatchChunks'
  BY <1>1, <1>2, <1>5 DEF ThreadsMatchChunks
<1> QED
  BY <1>7, <1>8, <1>9, <1>10, <1>11, <1>12

-----------------------------------------------------------------------------
LEMMA NextInvariant == IInv /\ [Next]_vars => IInv'
<1> SUFFICES ASSUME IInv, [Next]_vars PROVE IInv'
  OBVIOUS
<1>1. CASE Main
  BY <1>1, MapFileInvariant, MapFailsInvariant, CutChunkInvariant, ScanRunsOffInvariant,
     SplitDoneInvariant, StartThreadInvariant, AllStartedInvariant,
     JoinAndMergeInvariant, UnmapAndPrintInvariant DEF Main
<1>2. ASSUME NEW i \in DOMAIN threads, Thread(i) PROVE IInv'
  BY <1>2, ReadRowInvariant, RowRunsOffInvariant, PublishInvariant DEF Thread
<1>3. CASE UNCHANGED vars
  BY <1>3, StutterInvariant
<1> QED
  BY <1>1, <1>2, <1>3 DEF Next

(***************************************************************************)
(* The inductive invariant holds in every state of every run.              *)
(***************************************************************************)
THEOREM Invariance == Spec => []IInv
  BY InitInvariant, NextInvariant, PTL DEF Spec

(***************************************************************************)
(* The variables keep their types: in particular splitFile's size_t        *)
(* variables are natural numbers.                                          *)
(***************************************************************************)
THEOREM TypeCorrect == Spec => []TypeOK
<1>1. IInv => TypeOK
  BY DEF IInv, Safe
<1> QED
  BY <1>1, Invariance, PTL

(***************************************************************************)
(* The chunks of splitFile tile the file, whatever its rows, for every     *)
(* number of cores.                                                        *)
(***************************************************************************)
THEOREM Tiling == Spec => []ChunksTile
<1>1. IInv => ChunksTile
  BY DEF IInv, Safe
<1> QED
  BY <1>1, Invariance, PTL

(***************************************************************************)
(* splitFile makes no more chunks than there are cores.                    *)
(***************************************************************************)
THEOREM AtMostOneThreadPerCore == Spec => []OneThreadPerCore
<1>1. IInv => OneThreadPerCore
  BY DEF IInv, Safe
<1> QED
  BY <1>1, Invariance, PTL

(***************************************************************************)
(* The subtraction of splitFile does not wrap.                             *)
(***************************************************************************)
THEOREM SizeDoesNotWrap == Spec => []NoSizeWrap
<1>1. IInv => NoSizeWrap
  BY DEF IInv, Safe
<1> QED
  BY <1>1, Invariance, PTL

(***************************************************************************)
(* A file whose last row has its newline and whose last page has at least  *)
(* as many bytes to spare as there are cores is read within its mapping.   *)
(***************************************************************************)
THEOREM StaysInMapping == Spec => []UndefinedOnlyAtPageEdge
<1>1. IInv => UndefinedOnlyAtPageEdge
  BY DEF IInv, Safe
<1> QED
  BY <1>1, Invariance, PTL

(***************************************************************************)
(* The file is unmapped when no thread reads it any more.                  *)
(***************************************************************************)
THEOREM MappingOutlivesThreads == Spec => []NoThreadOutlivesMapping
<1>1. IInv => NoThreadOutlivesMapping
  BY DEF IInv, Safe
<1> QED
  BY <1>1, Invariance, PTL

-----------------------------------------------------------------------------
(***************************************************************************)
(* What a map of the program holds when the rows R are in it.  AddRow      *)
(* takes in one row, MergeTable a disjoint set of rows.                    *)
(***************************************************************************)
Has(R) == Held(file, R, 10000, -10000)

LEMMA HasIsTally ==
  ASSUME NEW R, IsRowSet(file, R)
  PROVE  Has(R) = Tally(file, R) /\ Has(R) \in Tables
<1> DEFINE hi == -10000
<1>1. hi \in Int /\ hi <= -999 /\ 10000 \in Int /\ 999 <= 10000
  OBVIOUS
<1> HIDE DEF hi
<1>2. /\ Held(file, R, 10000, hi) = Tally(file, R)
      /\ Held(file, R, 10000, hi) \in
           [Names -> [min : Int, max : Int, sum : Int, count : Nat] \cup {Absent}]
  BY <1>1, HeldIsTally, HeldType
<1> QED
  BY <1>2 DEF Has, Tables, Stat, hi

LEMMA HasNothing == Has({}) = Empty
  BY HeldNothing DEF Has, Empty

LEMMA AddRowHas ==
  ASSUME NEW R, NEW p, IsRowSet(file, R \cup {p}), p \notin R
  PROVE  AddRow(Has(R), file.row[p]) = Has(R \cup {p})
<1> DEFINE lo == 10000
           hi == -10000
           n == file.row[p].name
           t == file.row[p].temp
           h == Held(file, R, lo, hi)
           a == Holding(file, RowsOf(file, R, n), lo, hi)
<1>1. IsRowSet(file, R)
  <2> DEFINE RP == R \cup {p}
  <2>1. IsRowSet(file, RP) /\ R \in SUBSET RP
    OBVIOUS
  <2> HIDE DEF RP
  <2> QED
    BY <2>1, RowSetFacts
<1>2. lo \in Int /\ hi \in Int /\ n \in Names
  BY DEF IsRowSet, Row
<1>3. Absent \notin [min : Int, max : Int, sum : Int, count : Nat]
  BY CppAssumption DEF Stat
<1> HIDE DEF lo, hi, n
<1>4. /\ h[n] = Absent => a = [min |-> lo, max |-> hi, sum |-> 0, count |-> 0]
      /\ h[n] # Absent => a = h[n]
  BY <1>1, <1>2, <1>3, HeldEntry
<1>h. /\ h = Held(file, R, lo, hi) /\ n = file.row[p].name
      /\ a = Holding(file, RowsOf(file, R, n), lo, hi)
  BY DEF n
<1> HIDE DEF h, a
<1>5. Held(file, R \cup {p}, lo, hi) =
        [h EXCEPT ![n] = [min   |-> IF t < a.min THEN t ELSE a.min,
                          max   |-> IF t > a.max THEN t ELSE a.max,
                          sum   |-> a.sum + t,
                          count |-> a.count + 1]]
  BY <1>2, <1>h, HeldRow
<1>6. Entry(h, n) = a
  BY <1>4 DEF Entry, New, lo, hi
<1>7. AddRow(h, file.row[p]) = [h EXCEPT ![n] = Add(a, t)]
  BY <1>6 DEF AddRow, n
<1>8. AddRow(h, file.row[p]) = Held(file, R \cup {p}, lo, hi)
  BY <1>5, <1>7 DEF Add, Lesser, Greater
<1> QED
  BY <1>8 DEF Has, h, lo, hi

LEMMA MergeTableHas ==
  ASSUME NEW R, NEW T, IsRowSet(file, R), IsRowSet(file, T), R \cap T = {}
  PROVE  MergeTable(Has(R), Has(T)) = Has(R \cup T)
<1> DEFINE lo == 10000
           hi == -10000
           g == Held(file, R, lo, hi)
           m == Held(file, T, lo, hi)
           u == Held(file, R \cup T, lo, hi)
<1>1. lo \in Int /\ hi \in Int /\ Absent \notin [min : Int, max : Int, sum : Int, count : Nat]
  BY CppAssumption DEF Stat
<1>2. New = [min |-> lo, max |-> hi, sum |-> 0, count |-> 0]
  BY DEF New
<1> HIDE DEF lo, hi
<1>3. ASSUME NEW n \in Names
      PROVE  u[n] = IF m[n] = Absent THEN g[n] ELSE Merge(Entry(g, n), m[n])
  <2> DEFINE a == Holding(file, RowsOf(file, R, n), lo, hi)
             b == Holding(file, RowsOf(file, T, n), lo, hi)
  <2>1. /\ g[n] = Absent => a = [min |-> lo, max |-> hi, sum |-> 0, count |-> 0]
        /\ g[n] # Absent => a = g[n]
        /\ m[n] = Absent <=> RowsOf(file, T, n) = {}
        /\ m[n] # Absent => b = m[n]
    BY <1>1, HeldEntry
  <2>2. /\ RowsOf(file, T, n) = {} => u[n] = g[n]
        /\ RowsOf(file, R, n) = {} => u[n] = m[n]
        /\ RowsOf(file, T, n) # {} => u[n] = Both(a, b)
    BY <1>1, HeldUnion
  <2> HIDE DEF a, b, g, m, u
  <2>3. Entry(g, n) = a
    BY <1>2, <2>1 DEF Entry
  <2> QED
    BY <2>1, <2>2, <2>3 DEF Both, Merge, Lesser, Greater
<1>4. u = [n \in Names |-> u[n]]
  BY DEF Held
<1> HIDE DEF g, m, u
<1>5. MergeTable(g, m) = u
  BY <1>3, <1>4 DEF MergeTable
<1> QED
  BY <1>5 DEF Has, g, m, u, lo, hi

-----------------------------------------------------------------------------
(***************************************************************************)
(* What the maps hold, on top of the inductive invariant.  A thread has    *)
(* the rows of its chunk that end before its iter, and is at the start of  *)
(* the next; once it has ended its chunk has the map of all its rows; and  *)
(* main's map has the rows of the chunks it has joined.                    *)
(***************************************************************************)
ChunksForward == \A k \in DOMAIN fileChunks : fileChunks[k].start <= fileChunks[k].end

ReadBy(i) == {p \in file.newlines : fileChunks[i].start <= p /\ p < threads[i].iter}

ThreadHolds(i) ==
  /\ fileChunks[i].start <= threads[i].iter
  /\ threads[i].iter <= file.size
  /\ threads[i].iter <= fileChunks[i].end + 1
  /\ IsRowStart(file, threads[i].iter)
  /\ threads[i].map = Has(ReadBy(i))
  /\ ~ threads[i].running => fileChunks[i].chunkResult = {Has(ChunkRows(i))}

MergedRows == UNION {ChunkRows(k) : k \in 1 .. joined}

Holds == /\ ChunksForward
         /\ \A i \in DOMAIN threads : ThreadHolds(i)
         /\ result = Has(MergedRows)

LEMMA RowFacts ==
  ASSUME IInv
  PROVE  /\ IsFile(file) /\ file.size \in Nat
         /\ \A p \in file.newlines : p \in Nat /\ p < file.size /\ ~ IsRowStart(file, p)
         /\ file.newlines \in SUBSET Rows(file)
         /\ \A p \in Rows(file) : p \in Nat
         /\ \A p \in Rows(file) : p \in file.newlines \/ (p = file.size /\ ~ Terminated(file))
         /\ \A R \in SUBSET Rows(file) : IsRowSet(file, R)
<1>1. IsFile(file)
  BY DEF IInv, Safe, TypeOK
<1>2. /\ file.size \in Nat
      /\ \A p \in file.newlines : p \in Nat /\ p < file.size /\ ~ IsRowStart(file, p)
  BY <1>1 DEF IsFile
<1>3. /\ file.newlines \in SUBSET Rows(file)
      /\ \A p \in Rows(file) : p \in file.newlines \/ (p = file.size /\ ~ Terminated(file))
  BY DEF Rows
<1>4. \A p \in Rows(file) : p \in Nat
  BY <1>2, <1>3
<1>5. \A R \in SUBSET Rows(file) : IsRowSet(file, R)
  BY <1>1, RowsAreRows
<1> QED
  BY <1>1, <1>2, <1>3, <1>4, <1>5

LEMMA ChunkFacts ==
  ASSUME IInv
  PROVE  /\ fileChunks \in Seq(Chunk) /\ Len(fileChunks) \in Nat
         /\ DOMAIN fileChunks = 1 .. Len(fileChunks)
         /\ threads \in Seq(ThreadState) /\ Len(threads) \in Nat
         /\ DOMAIN threads = 1 .. Len(threads)
         /\ Len(threads) <= Len(fileChunks) /\ joined <= Len(threads) /\ joined \in Nat
         /\ \A k \in DOMAIN fileChunks :
              /\ fileChunks[k].start \in Nat /\ fileChunks[k].end \in Nat
              /\ fileChunks[k].start = IF k = 1 THEN 0 ELSE fileChunks[k-1].end + 1
              /\ fileChunks[k].start < file.size
              /\ fileChunks[k].end \notin file.newlines =>
                   k = Len(fileChunks) /\ fileChunks[k].end >= file.size
<1>1. fileChunks \in Seq(Chunk) /\ threads \in Seq(ThreadState) /\ joined \in Nat
  BY DEF IInv, Safe, TypeOK
<1>2. /\ Len(fileChunks) \in Nat /\ DOMAIN fileChunks = 1 .. Len(fileChunks)
      /\ Len(threads) \in Nat /\ DOMAIN threads = 1 .. Len(threads)
  BY <1>1, LenProperties
<1>3. Len(threads) <= Len(fileChunks) /\ joined <= Len(threads)
  BY DEF IInv, ThreadsMatchChunks
<1>4. ASSUME NEW k \in DOMAIN fileChunks
      PROVE  fileChunks[k].start \in Nat /\ fileChunks[k].end \in Nat
  <2>1. fileChunks[k] \in Chunk
    BY <1>1, <1>2, ElementOfSeq
  <2> QED
    BY <2>1 DEF Chunk
<1>5. ASSUME NEW k \in DOMAIN fileChunks
      PROVE  /\ fileChunks[k].start = IF k = 1 THEN 0 ELSE fileChunks[k-1].end + 1
             /\ fileChunks[k].start < file.size
             /\ fileChunks[k].end \notin file.newlines =>
                  k = Len(fileChunks) /\ fileChunks[k].end >= file.size
  BY DEF IInv, Safe, ChunksTile
<1> QED
  BY <1>1, <1>2, <1>3, <1>4, <1>5

(***************************************************************************)
(* No row is in two chunks.                                                *)
(***************************************************************************)
LEMMA ChunksApart ==
  ASSUME IInv, ChunksForward, NEW j \in DOMAIN fileChunks, NEW k \in DOMAIN fileChunks, j < k
  PROVE  fileChunks[j].end < fileChunks[k].start
<1> DEFINE T == {m \in DOMAIN fileChunks : j < m /\ ~ (fileChunks[j].end < fileChunks[m].start)}
<1> SUFFICES ASSUME k \in T PROVE FALSE
  OBVIOUS
<1>1. DOMAIN fileChunks = 1 .. Len(fileChunks) /\ Len(fileChunks) \in Nat
  BY ChunkFacts
<1>2. T \in SUBSET Nat /\ T # {}
  BY <1>1
<1> HIDE DEF T
<1>3. PICK m \in T : \A q \in T : m <= q
  BY <1>2, LeastNatural
<1>4. m \in 1 .. Len(fileChunks) /\ j \in 1 .. Len(fileChunks) /\ j < m
  BY <1>1 DEF T
<1>5. ~ (fileChunks[j].end < fileChunks[m].start)
  BY DEF T
<1>6. /\ fileChunks[j].end \in Nat
      /\ fileChunks[m].start = fileChunks[m - 1].end + 1
  <2>1. j \in DOMAIN fileChunks /\ m \in DOMAIN fileChunks /\ m # 1
    BY <1>1, <1>4
  <2>2. fileChunks[m].start = IF m = 1 THEN 0 ELSE fileChunks[m-1].end + 1
    BY <2>1, ChunkFacts
  <2>3. fileChunks[j].end \in Nat
    BY <2>1, ChunkFacts
  <2> QED
    BY <2>1, <2>2, <2>3
<1>7. CASE m = j + 1
  <2>1. m - 1 = j
    BY <1>4, <1>7
  <2> QED
    BY <1>5, <1>6, <2>1
<1>8. CASE m # j + 1
  <2>1. m - 1 \in DOMAIN fileChunks /\ j < m - 1 /\ m - 1 < m /\ m - 1 \in Nat /\ m \in Nat
    BY <1>1, <1>4, <1>8
  <2>2. m - 1 \notin T
    BY <1>3, <2>1
  <2>3. fileChunks[j].end < fileChunks[m - 1].start
    BY <2>1, <2>2 DEF T
  <2>4. /\ fileChunks[m - 1].start \in Nat /\ fileChunks[m - 1].end \in Nat
        /\ fileChunks[m - 1].start <= fileChunks[m - 1].end
    BY <2>1, ChunkFacts DEF ChunksForward
  <2> QED
    BY <1>5, <1>6, <2>3, <2>4
<1> QED
  BY <1>7, <1>8

(***************************************************************************)
(* A thread at the end of its chunk has read all of the chunk's rows: no   *)
(* row is blank, and the chunk that ends behind the file has rows up to    *)
(* its end only.                                                           *)
(***************************************************************************)
LEMMA EndedReadAll ==
  ASSUME IInv, NEW i \in DOMAIN threads, ThreadHolds(i), AtEnd(i)
  PROVE  ReadBy(i) = ChunkRows(i)
<1> DEFINE c == fileChunks[i]
           at == threads[i].iter
<1>1. /\ c.start \in Nat /\ c.end \in Nat /\ at \in Nat
      /\ c.end \notin file.newlines => c.end >= file.size
      /\ c.start < file.size
  <2>1. i \in DOMAIN fileChunks
    BY ThreadFacts
  <2>2. threads[i] \in ThreadState
    BY ThreadFacts
  <2> QED
    BY <2>1, <2>2, ChunkFacts DEF ThreadState
<1>2. /\ c.start <= at /\ at <= file.size /\ at <= c.end + 1 /\ IsRowStart(file, at)
      /\ at >= c.end \/ file.size <= at
  BY DEF ThreadHolds, AtEnd, IsZero
<1>3. file.size \in Nat
  BY RowFacts
<1>4. CASE c.end \in file.newlines
  <2>1. c.end < file.size /\ ~ IsRowStart(file, c.end)
    BY <1>4, RowFacts
  <2>2. at # c.end
    BY <1>2, <2>1
  <2>3. at = c.end + 1
    BY <1>1, <1>2, <1>3, <2>1, <2>2
  <2>4. \A p \in Rows(file) : p <= c.end => p \in file.newlines
    BY <1>1, <1>3, <2>1, RowFacts
  <2>5. \A p \in Rows(file) : p <= c.end <=> p < at
    BY <1>1, <2>3, RowFacts
  <2>6. file.newlines \in SUBSET Rows(file)
    BY RowFacts
  <2> HIDE DEF c, at
  <2>7. {p \in file.newlines : c.start <= p /\ p < at} =
          {p \in Rows(file) : c.start <= p /\ p <= c.end}
    BY <2>4, <2>5, <2>6
  <2> QED
    BY <2>7 DEF ReadBy, ChunkRows, c, at
<1>5. CASE c.end \notin file.newlines
  <2>1. c.end >= file.size /\ at = file.size /\ at # 0
    BY <1>1, <1>2, <1>3, <1>5
  <2>2. Terminated(file)
    BY <1>2, <2>1 DEF IsRowStart, Terminated
  <2>3. Rows(file) = file.newlines
    BY <2>2 DEF Rows
  <2>4. \A p \in file.newlines : p < at /\ p <= c.end
    BY <1>1, <1>3, <2>1, RowFacts
  <2> HIDE DEF c, at
  <2>5. {p \in file.newlines : c.start <= p /\ p < at} =
          {p \in Rows(file) : c.start <= p /\ p <= c.end}
    BY <2>3, <2>4
  <2> QED
    BY <2>5 DEF ReadBy, ChunkRows, c, at
<1> QED
  BY <1>4, <1>5

-----------------------------------------------------------------------------
LEMMA InitHolds == Init => Holds
<1> SUFFICES ASSUME Init PROVE Holds
  OBVIOUS
<1>1. fileChunks = <<>> /\ threads = <<>> /\ joined = 0 /\ result = Empty
  BY DEF Init
<1>2. MergedRows = {}
  BY <1>1 DEF MergedRows
<1> QED
  BY <1>1, <1>2, HasNothing DEF Holds, ChunksForward

(***************************************************************************)
(* A step that leaves a thread and its chunk alone.                        *)
(***************************************************************************)
LEMMA OtherHolds ==
  ASSUME NEW i, ThreadHolds(i), file' = file, threads'[i] = threads[i],
         fileChunks'[i] = fileChunks[i]
  PROVE  ThreadHolds(i)'
<1>1. ChunkRows(i)' = ChunkRows(i) /\ ReadBy(i)' = ReadBy(i)
  BY DEF ChunkRows, ReadBy
<1>2. Has(ReadBy(i))' = Has(ReadBy(i)) /\ Has(ChunkRows(i))' = Has(ChunkRows(i))
  BY <1>1 DEF Has
<1>3. IsRowStart(file, threads[i].iter)' = IsRowStart(file, threads[i].iter)
  BY DEF IsRowStart
<1> HIDE DEF Has
<1> QED
  BY <1>2, <1>3 DEF ThreadHolds

(***************************************************************************)
(* The steps that leave chunks, threads and maps alone.                    *)
(***************************************************************************)
LEMMA KeptHolds ==
  ASSUME Holds, UNCHANGED <<file, fileChunks, threads, joined, result>>
  PROVE  Holds' /\ MergedRows' = MergedRows
<1>1. \A k : ChunkRows(k)' = ChunkRows(k) /\ ReadBy(k)' = ReadBy(k)
  BY DEF ChunkRows, ReadBy
<1>2. MergedRows' = MergedRows
  BY <1>1 DEF MergedRows
<1>3. \A i : Has(ReadBy(i))' = Has(ReadBy(i)) /\ Has(ChunkRows(i))' = Has(ChunkRows(i))
  BY <1>1 DEF Has
<1>4. Has(MergedRows)' = Has(MergedRows)
  BY <1>2 DEF Has
<1>5. \A i \in DOMAIN threads : ThreadHolds(i)'
  BY <1>3 DEF Holds, ThreadHolds, IsRowStart
<1> QED
  BY <1>2, <1>4, <1>5 DEF Holds, ChunksForward

LEMMA CutChunkHolds ==
  ASSUME IInv, Holds, CutChunk
  PROVE  Holds' /\ MergedRows' = MergedRows
<1>1. PICK chunkEnd \in iter + currentChunkSize .. MappedEnd(file) - 1 :
        fileChunks' = Append(fileChunks, [start |-> iter, end |-> chunkEnd, chunkResult |-> {}])
  BY DEF CutChunk
<1>2. pc = "split" /\ UNCHANGED <<file, threads, joined, result>>
  BY DEF CutChunk
<1>3. threads = <<>> /\ joined = 0
  <2>1. threads = <<>>
    BY <1>2 DEF IInv, Begun
  <2> QED
    BY <2>1, ChunkFacts
<1>4. iter <= chunkEnd
  BY <1>1 DEF IInv, Safe, TypeOK
<1>5. ChunksForward'
  <2> DEFINE new == [start |-> iter, end |-> chunkEnd, chunkResult |-> {}]
  <2>1. new.start = iter /\ new.end = chunkEnd
    OBVIOUS
  <2>2. fileChunks' = Append(fileChunks, new)
    BY <1>1
  <2> HIDE DEF new
  <2>3. DOMAIN fileChunks = 1 .. Len(fileChunks) /\ Len(fileChunks) \in Nat /\ fileChunks \in Seq(Chunk)
    BY ChunkFacts
  <2>4. /\ DOMAIN fileChunks' = 1 .. Len(fileChunks) + 1
        /\ \A k \in 1 .. Len(fileChunks) + 1 :
             fileChunks'[k] = IF k = Len(fileChunks) + 1 THEN new ELSE fileChunks[k]
    BY <2>2, <2>3
  <2> QED
    BY <1>4, <2>1, <2>3, <2>4 DEF Holds, ChunksForward
<1>6. MergedRows = {} /\ MergedRows' = {}
  BY <1>2, <1>3 DEF MergedRows
<1>7. result' = Has(MergedRows)'
  BY <1>2, <1>6 DEF Holds, Has
<1> QED
  BY <1>2, <1>3, <1>5, <1>6, <1>7 DEF Holds

(***************************************************************************)
(* A thread starts at the start of a row, with none of its chunk's.        *)
(***************************************************************************)
LEMMA StartThreadHolds ==
  ASSUME IInv, Holds, StartThread
  PROVE  Holds' /\ MergedRows' = MergedRows
<1>0. PICK n : n = Len(threads) + 1
  OBVIOUS
<1> DEFINE new == [iter |-> fileChunks[n].start, map |-> Empty, running |-> TRUE]
<1>1. /\ threads' = Append(threads, new) /\ Len(threads) < Len(fileChunks)
      /\ UNCHANGED <<file, fileChunks, joined, result>>
  BY <1>0 DEF StartThread
<1>2. new.iter = fileChunks[n].start /\ new.map = Empty /\ new.running = TRUE
  OBVIOUS
<1> HIDE DEF new
<1>3. /\ Len(threads) \in Nat /\ DOMAIN threads = 1 .. Len(threads) /\ threads \in Seq(ThreadState)
      /\ DOMAIN fileChunks = 1 .. Len(fileChunks) /\ Len(fileChunks) \in Nat
  BY ChunkFacts
<1>4. /\ DOMAIN threads' = 1 .. n /\ threads'[n] = new
      /\ \A i \in DOMAIN threads : i # n /\ threads'[i] = threads[i]
  BY <1>0, <1>1, <1>3
<1>5. n \in DOMAIN fileChunks /\ n \in Nat /\ n - 1 < Len(fileChunks)
  BY <1>0, <1>1, <1>3
<1>6. IsRowStart(file, fileChunks[n].start)
  <2>1. /\ fileChunks[n].start = IF n = 1 THEN 0 ELSE fileChunks[n-1].end + 1
        /\ fileChunks[n].start < file.size
    BY <1>5, ChunkFacts
  <2>2. CASE n = 1
    BY <2>1, <2>2 DEF IsRowStart
  <2>3. CASE n # 1
    <3>1. n - 1 \in DOMAIN fileChunks /\ n - 1 # Len(fileChunks)
      BY <1>3, <1>5, <2>3
    <3>2. fileChunks[n-1].end \in file.newlines /\ fileChunks[n-1].end \in Nat
      BY <3>1, ChunkFacts
    <3> QED
      BY <2>1, <2>3, <3>2 DEF IsRowStart
  <2> QED
    BY <2>2, <2>3
<1>7. /\ fileChunks[n].start \in Nat /\ fileChunks[n].end \in Nat
      /\ fileChunks[n].start < file.size /\ fileChunks[n].start <= fileChunks[n].end
      /\ file.size \in Nat
  BY <1>5, ChunkFacts, RowFacts DEF Holds, ChunksForward
<1>8. \A k : ChunkRows(k)' = ChunkRows(k)
  BY <1>1 DEF ChunkRows
<1>9. ReadBy(n)' = {}
  <2>1. \A p \in file.newlines : ~ (fileChunks[n].start <= p /\ p < fileChunks[n].start)
    BY <1>7, RowFacts
  <2>2. ReadBy(n)' = {p \in file.newlines : fileChunks[n].start <= p /\ p < fileChunks[n].start}
    BY <1>1, <1>2, <1>4 DEF ReadBy
  <2> QED
    BY <2>1, <2>2
<1>10. ThreadHolds(n)'
  <2>1. Has(ReadBy(n))' = Empty
    BY <1>1, <1>9, HasNothing DEF Has
  <2>2. threads'[n].iter = fileChunks[n].start /\ threads'[n].map = Empty /\ threads'[n].running = TRUE
    BY <1>2, <1>4
  <2>3. /\ fileChunks[n].start <= fileChunks[n].start
        /\ fileChunks[n].start <= file.size
        /\ fileChunks[n].start <= fileChunks[n].end + 1
    BY <1>7
  <2>4. IsRowStart(file, threads[n].iter)'
    BY <1>1, <1>6, <2>2 DEF IsRowStart
  <2> QED
    BY <1>1, <2>1, <2>2, <2>3, <2>4 DEF ThreadHolds
<1>11. ASSUME NEW i \in DOMAIN threads PROVE ThreadHolds(i)'
  BY <1>1, <1>4, OtherHolds DEF Holds
<1>12. \A i \in DOMAIN threads' : ThreadHolds(i)'
  <2> SUFFICES ASSUME NEW i \in DOMAIN threads' PROVE ThreadHolds(i)'
    OBVIOUS
  <2>1. i = n \/ i \in DOMAIN threads
    BY <1>0, <1>3, <1>4
  <2> QED
    BY <1>10, <1>11, <2>1
<1>13. MergedRows' = MergedRows
  BY <1>1, <1>8 DEF MergedRows
<1>14. Has(MergedRows)' = Has(MergedRows)
  BY <1>1, <1>13 DEF Has
<1> QED
  BY <1>1, <1>12, <1>13, <1>14 DEF Holds, ChunksForward

(***************************************************************************)
(* A thread takes in the row at its iter, which lies in its chunk, and is  *)
(* then at the start of the next.                                          *)
(***************************************************************************)
LEMMA ReadRowHolds ==
  ASSUME IInv, Holds, NEW i \in DOMAIN threads, ReadRow(i)
  PROVE  Holds' /\ MergedRows' = MergedRows
<1>1. PICK q \in threads[i].iter .. file.size - 1 :
        /\ RowEndsAt(file, threads[i].iter, q)
        /\ threads' = [threads EXCEPT ![i].map  = AddRow(@, file.row[q]),
                                      ![i].iter = q + 1]
  BY DEF ReadRow
<1>2. /\ UNCHANGED <<file, fileChunks, joined, result>>
      /\ threads[i].running /\ ~ AtEnd(i)
  BY DEF ReadRow
<1>3. PICK at : at = threads[i].iter
  OBVIOUS
<1>4. /\ q \in file.newlines /\ q \in Nat /\ at \in Nat /\ at <= q /\ q < file.size
      /\ \A k \in at .. q - 1 : k \notin file.newlines
      /\ threads[i] \in ThreadState
  <2>1. threads[i] \in ThreadState
    BY ThreadFacts
  <2>2. at \in Nat /\ file.size \in Nat
    BY <1>3, <2>1, RowFacts DEF ThreadState
  <2> QED
    BY <1>1, <1>3, <2>1, <2>2 DEF RowEndsAt
<1>5. /\ i \in DOMAIN fileChunks
      /\ fileChunks[i].start \in Nat /\ fileChunks[i].end \in Nat
      /\ fileChunks[i].end \notin file.newlines => fileChunks[i].end >= file.size
  <2>1. i \in DOMAIN fileChunks
    BY ThreadFacts
  <2> QED
    BY <2>1, ChunkFacts
<1>6. /\ threads'[i].map = AddRow(threads[i].map, file.row[q])
      /\ threads'[i].iter = q + 1 /\ threads'[i].running = TRUE
      /\ DOMAIN threads' = DOMAIN threads
      /\ \A j \in DOMAIN threads : j # i => threads'[j] = threads[j]
  <2> DEFINE new == [threads[i] EXCEPT !.map = AddRow(threads[i].map, file.row[q]),
                                       !.iter = q + 1]
  <2>1. threads' = [threads EXCEPT ![i] = new]
    BY <1>1
  <2>2. /\ new.map = AddRow(threads[i].map, file.row[q]) /\ new.iter = q + 1
        /\ new.running = TRUE
    BY <1>2, <1>4 DEF ThreadState
  <2> HIDE DEF new
  <2> QED
    BY <2>1, <2>2
<1>7. fileChunks[i].start <= at /\ at < fileChunks[i].end /\ threads[i].map = Has(ReadBy(i))
  <2>1. ThreadHolds(i)
    BY DEF Holds
  <2> QED
    BY <1>2, <1>3, <1>4, <1>5, <2>1 DEF ThreadHolds, AtEnd
<1>8. q + 1 <= fileChunks[i].end + 1
  <2>1. CASE fileChunks[i].end \in file.newlines
    <3>1. fileChunks[i].end \notin at .. q - 1
      BY <1>4, <2>1
    <3> QED
      BY <1>4, <1>5, <1>7, <3>1
  <2>2. CASE fileChunks[i].end \notin file.newlines
    <3>1. file.size \in Nat
      BY RowFacts
    <3> QED
      BY <1>4, <1>5, <2>2, <3>1
  <2> QED
    BY <2>1, <2>2
<1>9. q \notin ReadBy(i) /\ ReadBy(i)' = ReadBy(i) \cup {q}
  <2>1. q \notin ReadBy(i)
    BY <1>3, <1>4 DEF ReadBy
  <2>2. \A p \in file.newlines : p \in Nat
    BY RowFacts
  <2>3. \A p \in file.newlines : p < q + 1 <=> p < at \/ p = q
    <3> SUFFICES ASSUME NEW p \in file.newlines, p < q + 1, ~ (p < at), p # q PROVE FALSE
      BY <1>4, <2>2
    <3>1. p \in at .. q - 1
      BY <1>4, <2>2
    <3> QED
      BY <1>4, <3>1
  <2>4. fileChunks[i].start <= q
    BY <1>4, <1>5, <1>7
  <2>5. ReadBy(i)' = {p \in file.newlines : fileChunks[i].start <= p /\ p < q + 1}
    BY <1>2, <1>6 DEF ReadBy
  <2> QED
    BY <1>3, <1>4, <2>1, <2>3, <2>4, <2>5 DEF ReadBy
<1>10. threads'[i].map = Has(ReadBy(i))'
  <2> DEFINE R == ReadBy(i)
  <2>1. R \cup {q} \in SUBSET Rows(file)
    BY <1>4, RowFacts DEF ReadBy
  <2> HIDE DEF R
  <2>2. IsRowSet(file, R \cup {q})
    BY <2>1, RowFacts
  <2>3. q \notin R
    BY <1>9 DEF R
  <2>4. AddRow(Has(R), file.row[q]) = Has(R \cup {q})
    BY <2>2, <2>3, AddRowHas
  <2>5. threads'[i].map = Has(R \cup {q})
    BY <1>6, <1>7, <2>4 DEF R
  <2> QED
    BY <1>2, <1>9, <2>5 DEF R, Has
<1>11. ThreadHolds(i)'
  <2>1. fileChunks[i].start <= q + 1 /\ q + 1 <= file.size
    <3>1. file.size \in Nat
      BY RowFacts
    <3> QED
      BY <1>4, <1>5, <1>7, <3>1
  <2>2. IsRowStart(file, threads[i].iter)'
    BY <1>2, <1>4, <1>6 DEF IsRowStart
  <2> QED
    BY <1>2, <1>6, <1>8, <1>10, <2>1, <2>2 DEF ThreadHolds
<1>12. ASSUME NEW j \in DOMAIN threads, j # i PROVE ThreadHolds(j)'
  BY <1>2, <1>6, <1>12, OtherHolds DEF Holds
<1>13. \A k : ChunkRows(k)' = ChunkRows(k)
  BY <1>2 DEF ChunkRows
<1>14. MergedRows' = MergedRows
  BY <1>2, <1>13 DEF MergedRows
<1>15. Has(MergedRows)' = Has(MergedRows)
  BY <1>2, <1>14 DEF Has
<1> QED
  BY <1>2, <1>6, <1>11, <1>12, <1>14, <1>15 DEF Holds, ChunksForward

(***************************************************************************)
(* The map a thread leaves is that of all rows of its chunk.               *)
(***************************************************************************)
LEMMA PublishHolds ==
  ASSUME IInv, Holds, NEW i \in DOMAIN threads, Publish(i)
  PROVE  Holds' /\ MergedRows' = MergedRows
<1>1. /\ threads' = [threads EXCEPT ![i].running = FALSE]
      /\ fileChunks' = [fileChunks EXCEPT ![i].chunkResult = {threads[i].map}]
      /\ UNCHANGED <<file, joined, result>>
      /\ AtEnd(i)
  BY DEF Publish
<1>2. i \in DOMAIN fileChunks /\ threads[i] \in ThreadState /\ fileChunks[i] \in Chunk
  BY ThreadFacts
<1>3. /\ threads'[i].iter = threads[i].iter /\ threads'[i].map = threads[i].map
      /\ DOMAIN threads' = DOMAIN threads
      /\ \A j \in DOMAIN threads : j # i => threads'[j] = threads[j]
  <2>1. \A t \in ThreadState : /\ [t EXCEPT !.running = FALSE].iter = t.iter
                               /\ [t EXCEPT !.running = FALSE].map = t.map
    BY DEF ThreadState
  <2> QED
    BY <1>1, <1>2, <2>1
<1>4. /\ fileChunks'[i].start = fileChunks[i].start /\ fileChunks'[i].end = fileChunks[i].end
      /\ fileChunks'[i].chunkResult = {threads[i].map}
      /\ DOMAIN fileChunks' = DOMAIN fileChunks
      /\ \A k \in DOMAIN fileChunks : k # i => fileChunks'[k] = fileChunks[k]
  <2>1. \A c \in Chunk : \A m :
          /\ [c EXCEPT !.chunkResult = {m}].start = c.start
          /\ [c EXCEPT !.chunkResult = {m}].end = c.end
          /\ [c EXCEPT !.chunkResult = {m}].chunkResult = {m}
    BY DEF Chunk
  <2>2. \A k \in DOMAIN fileChunks : k # i => fileChunks'[k] = fileChunks[k]
    BY <1>1
  <2> QED
    BY <1>1, <1>2, <2>1, <2>2
<1>5. \A k \in DOMAIN fileChunks : ChunkRows(k)' = ChunkRows(k)
  BY <1>1, <1>4 DEF ChunkRows
<1>6. ThreadHolds(i)
  BY DEF Holds
<1>7. ThreadHolds(i)'
  <2>1. ReadBy(i)' = ReadBy(i)
    BY <1>1, <1>3, <1>4 DEF ReadBy
  <2>2. Has(ReadBy(i))' = Has(ReadBy(i))
    BY <1>1, <2>1 DEF Has
  <2>3. ReadBy(i) = ChunkRows(i)
    BY <1>1, <1>6, EndedReadAll
  <2>4. Has(ChunkRows(i))' = Has(ReadBy(i))
    BY <1>1, <1>2, <1>5, <2>3 DEF Has
  <2>5. IsRowStart(file, threads[i].iter)'
    BY <1>1, <1>3, <1>6 DEF IsRowStart, ThreadHolds
  <2>6. fileChunks'[i].chunkResult = {Has(ChunkRows(i))'}
    BY <1>4, <1>6, <2>4 DEF ThreadHolds
  <2> QED
    BY <1>1, <1>3, <1>4, <1>6, <2>2, <2>5, <2>6 DEF ThreadHolds
<1>8. ASSUME NEW j \in DOMAIN threads, j # i PROVE ThreadHolds(j)'
  <2>1. j \in DOMAIN fileChunks
    BY ThreadFacts
  <2> QED
    BY <1>1, <1>3, <1>4, <1>8,   <2>1, OtherHolds DEF Holds
<1>9. ChunksForward'
  BY <1>4 DEF Holds, ChunksForward
<1>10. MergedRows' = MergedRows
  <2>1. \A k \in 1 .. joined : k \in DOMAIN fileChunks
    BY ChunkFacts
  <2> QED
    BY <1>1, <1>5, <2>1 DEF MergedRows
<1>11. Has(MergedRows)' = Has(MergedRows)
  BY <1>1, <1>10 DEF Has
<1> QED
  BY <1>1, <1>3, <1>7, <1>8, <1>9, <1>10, <1>11 DEF Holds

(***************************************************************************)
(* main takes in the rows of the next chunk, none of which it has.         *)
(***************************************************************************)
LEMMA MergedFacts ==
  ASSUME IInv, ChunksForward, joined < Len(threads)
  PROVE  /\ IsRowSet(file, MergedRows) /\ IsRowSet(file, ChunkRows(joined + 1))
         /\ MergedRows \in SUBSET Rows(file) /\ ChunkRows(joined + 1) \in SUBSET Rows(file)
         /\ MergedRows \cap ChunkRows(joined + 1) = {}
<1>1. MergedRows \in SUBSET Rows(file) /\ ChunkRows(joined + 1) \in SUBSET Rows(file)
  BY DEF MergedRows, ChunkRows
<1>2. ASSUME NEW k \in 1 .. joined, NEW p \in Rows(file),
             p \in ChunkRows(k), p \in ChunkRows(joined + 1)
      PROVE  FALSE
  <2>1. PICK j : j = joined + 1
    OBVIOUS
  <2>2. k \in DOMAIN fileChunks /\ j \in DOMAIN fileChunks /\ k < j
    BY <2>1, ChunkFacts
  <2>3. fileChunks[k].end < fileChunks[j].start
    BY <2>2, ChunksApart
  <2>4. p <= fileChunks[k].end /\ fileChunks[j].start <= p
    BY <1>2, <2>1 DEF ChunkRows
  <2>5. fileChunks[k].end \in Nat /\ fileChunks[j].start \in Nat /\ p \in Nat
    BY <2>2, ChunkFacts, RowFacts
  <2> QED
    BY <2>3, <2>4, <2>5
<1>3. MergedRows \cap ChunkRows(joined + 1) = {}
  BY <1>1, <1>2 DEF MergedRows
<1> QED
  BY <1>1, <1>3, RowFacts

LEMMA JoinAndMergeHolds ==
  ASSUME IInv, Holds, JoinAndMerge
  PROVE  /\ Holds'
         /\ MergedRows' = MergedRows \cup ChunkRows(joined + 1)
         /\ joined < Len(threads) /\ pc = "join" /\ pc' = pc /\ file' = file
<1>1. /\ pc = "join" /\ joined < Len(threads) /\ ~ threads[joined + 1].running
      /\ UNCHANGED <<file, fileChunks, threads>>
  BY DEF JoinAndMerge
<1>2. PICK j : j = joined + 1
  OBVIOUS
<1>3. joined \in Nat /\ j \in DOMAIN threads
  BY <1>1, <1>2, ChunkFacts
<1>4. fileChunks[j].chunkResult = {Has(ChunkRows(j))}
  <2>1. ThreadHolds(j)
    BY <1>3 DEF Holds
  <2> QED
    BY <1>1, <1>2, <2>1 DEF ThreadHolds
<1>5. /\ result' = MergeTable(result, Has(ChunkRows(j)))
      /\ joined' = j /\ pc' = pc
  BY <1>2, <1>4 DEF JoinAndMerge
<1>6. \A k : ChunkRows(k)' = ChunkRows(k)
  BY <1>1 DEF ChunkRows
<1>7. MergedRows' = MergedRows \cup ChunkRows(j)
  <2>1. 1 .. j = (1 .. joined) \cup {j}
    BY <1>2, <1>3
  <2>2. MergedRows' = UNION {ChunkRows(k) : k \in 1 .. j}
    BY <1>5, <1>6 DEF MergedRows
  <2> QED
    BY <2>1, <2>2 DEF MergedRows
<1>8. result' = Has(MergedRows)'
  <2> DEFINE R == MergedRows
             T == ChunkRows(j)
  <2>1. IsRowSet(file, R) /\ IsRowSet(file, T) /\ R \cap T = {}
    BY <1>1, <1>2, MergedFacts DEF Holds
  <2>2. result = Has(R)
    BY DEF Holds
  <2>3. Has(MergedRows)' = Has(R \cup T)
    BY <1>1, <1>7 DEF Has
  <2> HIDE DEF R, T
  <2>4. MergeTable(Has(R), Has(T)) = Has(R \cup T)
    BY <2>1, MergeTableHas
  <2> QED
    BY <1>5, <2>2, <2>3, <2>4 DEF T
<1>9. \A i \in DOMAIN threads : ThreadHolds(i)'
  BY <1>1, OtherHolds DEF Holds
<1> QED
  BY <1>1, <1>2, <1>5, <1>7, <1>8, <1>9 DEF Holds, ChunksForward

LEMMA NextHolds == IInv /\ Holds /\ [Next]_vars => Holds'
<1> SUFFICES ASSUME IInv, Holds, [Next]_vars PROVE Holds'
  OBVIOUS
<1>1. CASE MapFile \/ MapFails \/ ScanRunsOff \/ SplitDone \/ AllStarted \/ UnmapAndPrint
           \/ UNCHANGED vars
  <2>1. UNCHANGED <<file, fileChunks, threads, joined, result>>
    BY <1>1 DEF MapFile, MapFails, ScanRunsOff, SplitDone, AllStarted, UnmapAndPrint, vars
  <2> QED
    BY <2>1, KeptHolds
<1>2. CASE CutChunk \/ StartThread \/ JoinAndMerge
  BY <1>2, CutChunkHolds, StartThreadHolds, JoinAndMergeHolds
<1>3. ASSUME NEW i \in DOMAIN threads, Thread(i) PROVE Holds'
  <2>1. CASE RowRunsOff(i)
    <3>1. UNCHANGED <<file, fileChunks, threads, joined, result>>
      BY <2>1 DEF RowRunsOff
    <3> QED
      BY <3>1, KeptHolds
  <2>2. CASE ReadRow(i) \/ Publish(i)
    BY <2>2, ReadRowHolds, PublishHolds
  <2> QED
    BY <1>3, <2>1, <2>2 DEF Thread
<1> QED
  BY <1>1, <1>2, <1>3 DEF Next, Main

(***************************************************************************)
(* In every state each thread's map is that of the rows it has passed, and *)
(* main's that of the chunks it has joined: the rows of a chunk are in one *)
(* map, and none is lost between a thread and main.                        *)
(***************************************************************************)
THEOREM MapsHoldTheirRows == Spec => []Holds
<1>1. IInv /\ Holds /\ [Next]_vars => Holds'
  BY NextHolds
<1> QED
  BY <1>1, InitHolds, Invariance, PTL DEF Spec

-----------------------------------------------------------------------------
(***************************************************************************)
(* The program implements Brc, but for Brc's promise to come to an end.    *)
(***************************************************************************)
LEMMA PromiseTally == \A R : Promise!Tally(file, R) = Tally(file, R)
<1>1. \A S : Promise!Min(S) = Min(S) /\ Promise!Max(S) = Max(S)
  BY DEF Promise!Min, Min, Promise!Max, Max
<1>2. \A S : Promise!Cardinality(S) = Cardinality(S)
  BY DEF Promise!Cardinality, Cardinality
<1>3. \A S : Promise!MapThenSumSet(LAMBDA p : file.row[p].temp, S) =
             MapThenSumSet(LAMBDA p : file.row[p].temp, S)
  BY DEF Promise!MapThenSumSet, MapThenSumSet, Promise!MapThenFoldSet, MapThenFoldSet
<1>4. \A S : Promise!Summary(file, S) = Summary(file, S)
  BY <1>1, <1>2, <1>3 DEF Promise!Summary, Summary
<1>5. \A R, n : Promise!RowsOf(file, R, n) = RowsOf(file, R, n)
  BY DEF Promise!RowsOf, RowsOf
<1> QED
  BY <1>4, <1>5 DEF Promise!Tally, Tally

LEMMA PromiseRows == Promise!Rows(file) = Rows(file)
  BY DEF Promise!Rows, Rows, Promise!Terminated, Terminated

LEMMA PromiseInit == Init => Promise!Init
<1> SUFFICES ASSUME Init PROVE Promise!Init
  OBVIOUS
<1>1. file \in Files /\ pc = "map" /\ joined = 0 /\ result = Empty
  BY DEF Init
<1>2. MergedRows = {}
  BY <1>1 DEF MergedRows
<1>3. result = Tally(file, {})
  <2>1. IsRowSet(file, {})
    BY InitInvariant, RowFacts
  <2> QED
    BY <1>1, <2>1, HasNothing, HasIsTally
<1> QED
  BY <1>1, <1>2, <1>3, PromiseTally DEF Promise!Init, MergedRows

(***************************************************************************)
(* When main has joined all threads it has all rows of the file: a newline *)
(* is in a chunk, and so is the end of a last row without one.             *)
(***************************************************************************)
LEMMA AllMerged ==
  ASSUME IInv, pc = "join", joined = Len(threads)
  PROVE  MergedRows = Rows(file)
<1> DEFINE n == Len(fileChunks)
<1>1. /\ joined = n /\ n \in Nat /\ n # 0 /\ DOMAIN fileChunks = 1 .. n
      /\ fileChunks[n].end >= file.size - 1
  <2>1. Len(threads) = Len(fileChunks)
    BY DEF IInv, ThreadsMatchChunks
  <2>2. fileChunks # <<>> /\ fileChunks[n].end >= file.size - 1
    BY DEF IInv, Safe, ChunksTile
  <2>3. fileChunks \in Seq(Chunk) /\ n \in Nat /\ DOMAIN fileChunks = 1 .. n
    BY ChunkFacts
  <2>4. n # 0
    BY <2>2, <2>3
  <2> QED
    BY <2>1, <2>2, <2>3, <2>4
<1> HIDE DEF n
<1> DEFINE start == [k \in 1 .. n |-> fileChunks[k].start]
           end == [k \in 1 .. n |-> fileChunks[k].end]
<1>2. \A k \in 1 .. n : /\ start[k] \in Int /\ end[k] \in Int
                        /\ start[k] = IF k = 1 THEN 0 ELSE end[k - 1] + 1
  <2> SUFFICES ASSUME NEW k \in 1 .. n
               PROVE  /\ start[k] \in Int /\ end[k] \in Int
                      /\ start[k] = IF k = 1 THEN 0 ELSE end[k - 1] + 1
    OBVIOUS
  <2>1. fileChunks[k].start \in Nat /\ fileChunks[k].end \in Nat
    BY <1>1, ChunkFacts
  <2>2. fileChunks[k].start = IF k = 1 THEN 0 ELSE fileChunks[k-1].end + 1
    BY <1>1, ChunkFacts
  <2>3. k # 1 => k - 1 \in 1 .. n
    BY <1>1
  <2> QED
    BY <2>1, <2>2, <2>3
<1>3. ASSUME NEW p \in Rows(file) PROVE p <= fileChunks[n].end /\ p \in Nat
  <2>1. /\ p \in Nat /\ file.size \in Nat
        /\ p \in file.newlines \/ (p = file.size /\ ~ Terminated(file))
    BY RowFacts
  <2>2. n \in DOMAIN fileChunks
    BY <1>1
  <2>3. /\ fileChunks[n].end \in Nat
        /\ fileChunks[n].end \notin file.newlines => fileChunks[n].end >= file.size
    BY <2>2, ChunkFacts
  <2>4. CASE p \in file.newlines
    <3>1. p < file.size
      BY <2>4, RowFacts
    <3> QED
      BY <1>1, <2>1, <2>3, <3>1
  <2>5. CASE p = file.size /\ ~ Terminated(file)
    <3>1. CASE fileChunks[n].end = file.size - 1
      <4>1. fileChunks[n].end \notin file.newlines
        BY <2>5, <3>1 DEF Terminated
      <4> QED
        BY <2>1, <2>3, <2>5, <4>1
    <3> QED
      BY <1>1, <2>1, <2>3, <2>5, <3>1
  <2> QED
    BY <2>1, <2>4, <2>5
<1>4. ASSUME NEW p \in Rows(file) PROVE \E k \in 1 .. n : p \in ChunkRows(k)
  <2>1. p \in Nat /\ p <= end[n]
    BY <1>1, <1>3
  <2> HIDE DEF start, end
  <2>2. PICK k \in 1 .. n : start[k] <= p /\ p <= end[k]
    BY <1>1, <1>2, <2>1, ChunkOfByte
  <2> QED
    BY <2>2 DEF ChunkRows, start, end
<1>5. \A k : ChunkRows(k) \in SUBSET Rows(file)
  BY DEF ChunkRows
<1>6. MergedRows = UNION {ChunkRows(k) : k \in 1 .. n}
  BY <1>1 DEF MergedRows
<1> QED
  BY <1>4, <1>5, <1>6

(***************************************************************************)
(* What the status of Brc is, before and after a step.                     *)
(***************************************************************************)
Status(p) == CASE p = "printed" -> "printed"
               [] p \in {"unmapped", "undefined"} -> "aborted"
               [] OTHER -> "running"

LEMMA PromiseNext ==
  IInv /\ Holds /\ [Next]_vars => [Promise!Next]_(Promise!vars)
<1> SUFFICES ASSUME IInv, Holds, [Next]_vars PROVE [Promise!Next]_(Promise!vars)
  OBVIOUS
<1>1. CASE JoinAndMerge
  <2>1. /\ Holds' /\ MergedRows' = MergedRows \cup ChunkRows(joined + 1)
        /\ joined < Len(threads) /\ pc = "join" /\ pc' = pc /\ file' = file
    BY <1>1, JoinAndMergeHolds
  <2>2. PICK R : R = ChunkRows(joined + 1)
    OBVIOUS
  <2>3. /\ R \in SUBSET Rows(file) /\ MergedRows \in SUBSET Rows(file)
        /\ MergedRows \cap R = {}
    BY <2>1, <2>2, MergedFacts DEF Holds
  <2>4. result' = Tally(file, MergedRows')
    <3> DEFINE M == MergedRows'
    <3>1. result' = Has(M)
      BY <2>1 DEF Holds, Has
    <3>2. M \in SUBSET Rows(file)
      BY <2>1, <2>2, <2>3
    <3> HIDE DEF M
    <3>3. IsRowSet(file, M)
      BY <3>2, RowFacts
    <3>4. result' = Tally(file, M)
      BY <3>1, <3>3, HasIsTally
    <3> QED
      BY <3>4 DEF M
  <2>5. R \in SUBSET (Promise!Rows(file) \ MergedRows)
    BY <2>3, PromiseRows
  <2>6. Promise!Absorb(R)
    BY <2>1, <2>2, <2>4, PromiseTally DEF Promise!Absorb, MergedRows
  <2> QED
    BY <2>5, <2>6 DEF Promise!Next, MergedRows
<1>2. CASE UnmapAndPrint
  <2>1. /\ pc = "join" /\ pc' = "printed" /\ joined = Len(threads)
        /\ UNCHANGED <<file, fileChunks, threads, joined, result>>
    BY <1>2 DEF UnmapAndPrint, AllJoined
  <2>2. MergedRows = Rows(file) /\ MergedRows' = MergedRows
    BY <2>1, AllMerged, KeptHolds
  <2>3. Promise!PrintAnswer
    BY <2>1, <2>2, PromiseRows DEF Promise!PrintAnswer, MergedRows
  <2> QED
    BY <2>3 DEF Promise!Next
<1>3. ASSUME pc \in {"map", "split", "spawn", "join"}, pc' \in {"unmapped", "undefined"},
             UNCHANGED <<file, fileChunks, threads, joined, result>>
      PROVE  Promise!Next
  <2>1. MergedRows' = MergedRows
    BY <1>3, KeptHolds
  <2>2. Promise!Abort
    BY <1>3, <2>1 DEF Promise!Abort, MergedRows
  <2> QED
    BY <2>2 DEF Promise!Next
<1>4. CASE MapFails \/ ScanRunsOff
  BY <1>3, <1>4 DEF MapFails, ScanRunsOff
<1>5. ASSUME Status(pc') = Status(pc), MergedRows' = MergedRows, UNCHANGED <<file, result>>
      PROVE  UNCHANGED Promise!vars
  BY <1>5 DEF Promise!vars, MergedRows, Status
<1>6. CASE MapFile \/ SplitDone \/ AllStarted \/ UNCHANGED vars
  <2>1. /\ Status(pc') = Status(pc)
        /\ UNCHANGED <<file, fileChunks, threads, joined, result>>
    BY <1>6 DEF MapFile, SplitDone, AllStarted, vars, Status
  <2>2. MergedRows' = MergedRows
    BY <2>1, KeptHolds
  <2> QED
    BY <1>5, <2>1, <2>2
<1>7. CASE CutChunk \/ StartThread
  <2>1. Status(pc') = Status(pc) /\ UNCHANGED <<file, result>>
    BY <1>7 DEF CutChunk, StartThread, Status
  <2>2. MergedRows' = MergedRows
    BY <1>7, CutChunkHolds, StartThreadHolds
  <2> QED
    BY <1>5, <2>1, <2>2
<1>8. ASSUME NEW i \in DOMAIN threads, Thread(i) PROVE [Promise!Next]_(Promise!vars)
  <2>1. CASE RowRunsOff(i)
    BY <1>3, <2>1 DEF RowRunsOff, Alive
  <2>2. CASE ReadRow(i) \/ Publish(i)
    <3>1. Status(pc') = Status(pc) /\ UNCHANGED <<file, result>>
      BY <2>2 DEF ReadRow, Publish, Status
    <3>2. MergedRows' = MergedRows
      BY <2>2, ReadRowHolds, PublishHolds
    <3> QED
      BY <1>5, <3>1, <3>2
  <2> QED
    BY <1>8, <2>1, <2>2 DEF Thread
<1> QED
  BY <1>1, <1>2, <1>4, <1>6, <1>7, <1>8 DEF Next, Main

(***************************************************************************)
(* Every step of the program is a step of Brc or leaves its state alone:   *)
(* each join takes in the rows of one chunk, none twice, and when the map  *)
(* is printed it has all rows of the file and their statistics, whatever   *)
(* order the threads ran in.                                               *)
(***************************************************************************)
THEOREM Refinement == Spec => Promise!Init /\ [][Promise!Next]_(Promise!vars)
<1>1. Init => Promise!Init
  BY PromiseInit
<1>2. IInv /\ Holds /\ [Next]_vars => [Promise!Next]_(Promise!vars)
  BY PromiseNext
<1> QED
  BY <1>1, <1>2, Invariance, MapsHoldTheirRows, PTL DEF Spec

-----------------------------------------------------------------------------
(***************************************************************************)
(* The program comes to an end.  What is left to do, as a number: a byte   *)
(* that is not cut may cost the start of a thread, the store of its map    *)
(* and its join, and a row is read by one thread only.                     *)
(***************************************************************************)
UnreadRows == {p \in file.newlines : \A i \in DOMAIN threads : p \notin ReadBy(i)}

EndedThreads == {i \in DOMAIN threads : ~ threads[i].running}

BytesLeft == IF pc \in {"map", "split"} THEN 4 * (file.size - iter) ELSE 0

MainLeft ==
  CASE pc = "map"   -> 4
    [] pc = "split" -> 3
    [] pc = "spawn" -> 2
    [] pc = "join"  -> 1
    [] OTHER        -> 0

ChunksLeft ==
  (Len(fileChunks) - Len(threads)) + (Len(fileChunks) - Cardinality(EndedThreads))
    + (Len(fileChunks) - joined)

Left == BytesLeft + MainLeft + ChunksLeft + Cardinality(UnreadRows)

LEMMA ThreadSetFacts ==
  ASSUME IInv
  PROVE  /\ IsFiniteSet(EndedThreads) /\ Cardinality(EndedThreads) \in Nat
         /\ Cardinality(EndedThreads) <= Len(threads)
<1>1. PICK n : n = Len(threads)
  OBVIOUS
<1>2. n \in Nat /\ EndedThreads \in SUBSET (1 .. n)
  BY <1>1, ChunkFacts DEF EndedThreads
<1>3. IsFiniteSet(1 .. n) /\ Cardinality(1 .. n) = n
  BY <1>2, FS_Interval
<1>4. IsFiniteSet(EndedThreads) /\ Cardinality(EndedThreads) <= n
  BY <1>2, <1>3, FS_Subset
<1> QED
  BY <1>1, <1>4, FS_CardinalityType

LEMMA UnreadFacts ==
  ASSUME IInv
  PROVE  IsFiniteSet(UnreadRows) /\ Cardinality(UnreadRows) \in Nat
<1>1. PICK s : s = file.size
  OBVIOUS
<1>2. s \in Nat /\ UnreadRows \in SUBSET (0 .. s - 1)
  BY <1>1, RowFacts DEF UnreadRows
<1>3. IsFiniteSet(0 .. s - 1)
  BY <1>2, FS_Interval
<1>4. IsFiniteSet(UnreadRows)
  BY <1>2, <1>3, FS_Subset
<1> QED
  BY <1>4, FS_CardinalityType

LEMMA LeftFacts ==
  ASSUME IInv
  PROVE  /\ BytesLeft \in Nat /\ MainLeft \in Nat /\ ChunksLeft \in Nat
         /\ Cardinality(UnreadRows) \in Nat
<1>1. PICK s, c : s = file.size /\ c = iter
  OBVIOUS
<1>2. pc \in {"map", "split"} => s \in Nat /\ c \in Nat /\ c <= s
  BY <1>1, RowFacts DEF IInv, Begun, Splitting, Safe, TypeOK
<1>3. BytesLeft \in Nat
  <2>1. pc \in {"map", "split"} => 4 * (s - c) \in Nat
    BY <1>2
  <2> QED
    BY <1>1, <2>1 DEF BytesLeft
<1>4. MainLeft \in Nat
  BY DEF MainLeft
<1>5. ChunksLeft \in Nat
  <2>1. PICK n, t, e, j : /\ n = Len(fileChunks) /\ t = Len(threads)
                          /\ e = Cardinality(EndedThreads) /\ j = joined
    OBVIOUS
  <2>2. /\ n \in Nat /\ t \in Nat /\ e \in Nat /\ j \in Nat
        /\ t <= n /\ e <= t /\ j <= t
    BY <2>1, ChunkFacts, ThreadSetFacts
  <2>3. (n - t) + (n - e) + (n - j) \in Nat
    BY <2>2
  <2> QED
    BY <2>1, <2>3 DEF ChunksLeft
<1> QED
  BY <1>3, <1>4, <1>5, UnreadFacts

LEMMA LeftIsNatural == ASSUME IInv PROVE Left \in Nat
<1>1. PICK a, b, c, d : /\ a = BytesLeft /\ b = MainLeft /\ c = ChunksLeft
                        /\ d = Cardinality(UnreadRows)
  OBVIOUS
<1>2. a \in Nat /\ b \in Nat /\ c \in Nat /\ d \in Nat
  BY <1>1, LeftFacts
<1>3. a + b + c + d \in Nat
  BY <1>2
<1> QED
  BY <1>1, <1>3 DEF Left

(***************************************************************************)
(* A row that a thread reads was not read before, by it or by another.     *)
(***************************************************************************)
LEMMA RowReadOnce ==
  ASSUME IInv, Holds, NEW i \in DOMAIN threads, ReadRow(i)
  PROVE  /\ UNCHANGED <<file, pc, fileChunks, iter, joined>>
         /\ DOMAIN threads' = DOMAIN threads /\ Len(threads') = Len(threads)
         /\ EndedThreads' = EndedThreads
         /\ \E q \in UnreadRows : UnreadRows' = UnreadRows \ {q}
<1>1. PICK q \in threads[i].iter .. file.size - 1 :
        /\ RowEndsAt(file, threads[i].iter, q)
        /\ threads' = [threads EXCEPT ![i].map  = AddRow(@, file.row[q]),
                                      ![i].iter = q + 1]
  BY DEF ReadRow
<1>2. /\ UNCHANGED <<file, pc, fileChunks, iter, joined>>
      /\ threads[i].running /\ ~ AtEnd(i)
  BY DEF ReadRow, splitVars
<1>3. PICK at : at = threads[i].iter
  OBVIOUS
<1>4. /\ threads[i] \in ThreadState /\ threads \in Seq(ThreadState)
      /\ at \in Nat /\ file.size \in Nat
  <2>1. threads[i] \in ThreadState /\ threads \in Seq(ThreadState)
    BY ThreadFacts
  <2> QED
    BY <1>3, <2>1, RowFacts DEF ThreadState
<1>5. /\ q \in file.newlines /\ q \in Nat /\ at <= q /\ q < file.size
      /\ \A k \in at .. q - 1 : k \notin file.newlines
  BY <1>1, <1>3, <1>4 DEF RowEndsAt
<1>6. /\ threads'[i].iter = q + 1 /\ threads'[i].running = TRUE
      /\ DOMAIN threads' = DOMAIN threads
      /\ \A j \in DOMAIN threads : j # i => threads'[j] = threads[j]
      /\ Len(threads') = Len(threads)
  <2> DEFINE new == [threads[i] EXCEPT !.map = AddRow(threads[i].map, file.row[q]),
                                       !.iter = q + 1]
  <2>1. threads' = [threads EXCEPT ![i] = new]
    BY <1>1
  <2>2. new.iter = q + 1 /\ new.running = TRUE
    BY <1>2, <1>4 DEF ThreadState
  <2> HIDE DEF new
  <2>3. PICK S : S = ThreadState \cup {new}
    OBVIOUS
  <2>4. threads \in Seq(S) /\ new \in S
    BY <1>4, <2>3
  <2>5. Len(threads') = Len(threads)
    BY <2>1, <2>4
  <2> QED
    BY <2>1, <2>2, <2>5
<1>7. /\ i \in DOMAIN fileChunks /\ ThreadHolds(i)
      /\ fileChunks[i].start \in Nat /\ fileChunks[i].end \in Nat
      /\ fileChunks[i].end \notin file.newlines => fileChunks[i].end >= file.size
  <2>1. i \in DOMAIN fileChunks
    BY ThreadFacts
  <2> QED
    BY <2>1, ChunkFacts DEF Holds
<1>8. fileChunks[i].start <= q /\ q <= fileChunks[i].end
  <2>1. fileChunks[i].start <= at /\ at < fileChunks[i].end
    BY <1>2, <1>3, <1>4, <1>7 DEF ThreadHolds, AtEnd
  <2>2. CASE fileChunks[i].end \in file.newlines
    <3>1. fileChunks[i].end \notin at .. q - 1
      BY <1>5, <2>2
    <3> QED
      BY <1>4, <1>5, <1>7, <2>1, <3>1
  <2>3. CASE fileChunks[i].end \notin file.newlines
    BY <1>4, <1>5, <1>7, <2>1, <2>3
  <2> QED
    BY <2>2, <2>3
<1>9. ASSUME NEW j \in DOMAIN threads PROVE q \notin ReadBy(j)
  <2>1. CASE j = i
    BY <1>3, <1>4, <1>5, <2>1 DEF ReadBy
  <2>2. CASE j # i
    <3>1. /\ j \in DOMAIN fileChunks /\ ThreadHolds(j)
          /\ threads[j].iter \in Nat
          /\ fileChunks[j].start \in Nat /\ fileChunks[j].end \in Nat
          /\ i \in Nat /\ j \in Nat
      <4>1. j \in DOMAIN fileChunks /\ threads[j] \in ThreadState /\ i \in Nat /\ j \in Nat
        BY ThreadFacts
      <4> QED
        BY <4>1, ChunkFacts DEF Holds, ThreadState
    <3>2. threads[j].iter <= fileChunks[j].end + 1
      BY <3>1 DEF ThreadHolds
    <3>3. CASE i < j
      <4>1. fileChunks[i].end < fileChunks[j].start
        BY <1>7, <3>1, <3>3, ChunksApart DEF Holds
      <4>2. ~ (fileChunks[j].start <= q)
        BY <1>5, <1>7, <1>8, <3>1, <4>1
      <4> QED
        BY <4>2 DEF ReadBy
    <3>4. CASE j < i
      <4>1. fileChunks[j].end < fileChunks[i].start
        BY <1>7, <3>1, <3>4, ChunksApart DEF Holds
      <4>2. ~ (q < threads[j].iter)
        BY <1>5, <1>7, <1>8, <3>1, <3>2, <4>1
      <4> QED
        BY <4>2 DEF ReadBy
    <3> QED
      BY <2>2, <3>1, <3>3, <3>4
  <2> QED
    BY <2>1, <2>2
<1>10. ReadBy(i)' = ReadBy(i) \cup {q}
  <2>1. \A p \in file.newlines : p \in Nat
    BY RowFacts
  <2>2. \A p \in file.newlines : p < q + 1 <=> p < at \/ p = q
    <3> SUFFICES ASSUME NEW p \in file.newlines, p < q + 1, ~ (p < at), p # q PROVE FALSE
      BY <1>4, <1>5, <2>1
    <3>1. p \in at .. q - 1
      BY <1>4, <1>5, <2>1
    <3> QED
      BY <1>5, <3>1
  <2>3. ReadBy(i)' = {p \in file.newlines : fileChunks[i].start <= p /\ p < q + 1}
    BY <1>2, <1>6 DEF ReadBy
  <2> QED
    BY <1>3, <1>5, <1>8, <2>2, <2>3 DEF ReadBy
<1>11. \A j \in DOMAIN threads : j # i => ReadBy(j)' = ReadBy(j)
  BY <1>2, <1>6 DEF ReadBy
<1>12. q \in UnreadRows /\ UnreadRows' = UnreadRows \ {q}
  <2>1. q \in UnreadRows
    BY <1>5, <1>9 DEF UnreadRows
  <2>2. UnreadRows' = {p \in file.newlines : \A j \in DOMAIN threads : p \notin ReadBy(j)'}
    BY <1>2, <1>6 DEF UnreadRows
  <2> QED
    BY <1>10, <1>11, <2>1, <2>2 DEF UnreadRows
<1>13. EndedThreads' = EndedThreads
  BY <1>2, <1>6 DEF EndedThreads
<1> QED
  BY <1>2, <1>6, <1>12, <1>13

LEMMA ThreadFalls ==
  ASSUME IInv, Holds, NEW i \in DOMAIN threads, Thread(i)
  PROVE  Left' < Left
<1>1. PICK a, b, c, d : /\ a = BytesLeft /\ b = MainLeft /\ c = ChunksLeft
                        /\ d = Cardinality(UnreadRows)
  OBVIOUS
<1>2. a \in Nat /\ b \in Nat /\ c \in Nat /\ d \in Nat /\ Left = a + b + c + d
  BY <1>1, LeftFacts DEF Left
<1>3. CASE ReadRow(i)
  <2>1. /\ UNCHANGED <<file, pc, fileChunks, iter, joined>>
        /\ Len(threads') = Len(threads) /\ EndedThreads' = EndedThreads
        /\ \E q \in UnreadRows : UnreadRows' = UnreadRows \ {q}
    BY <1>3, RowReadOnce
  <2>2. Cardinality(UnreadRows') = d - 1
    BY <1>1, <2>1, UnreadFacts, FS_RemoveElement
  <2>3. BytesLeft' = a /\ MainLeft' = b /\ ChunksLeft' = c
    BY <1>1, <2>1 DEF BytesLeft, MainLeft, ChunksLeft
  <2>4. Left' = a + b + c + (d - 1)
    BY <2>2, <2>3 DEF Left
  <2> QED
    BY <1>2, <2>4
<1>4. CASE RowRunsOff(i)
  <2>1. /\ UNCHANGED <<file, fileChunks, iter, joined, threads>>
        /\ pc \in {"spawn", "join"} /\ pc' = "undefined"
    BY <1>4 DEF RowRunsOff, Alive, splitVars
  <2>2. BytesLeft' = a /\ a = 0 /\ MainLeft' = 0 /\ b > 0
    BY <1>1, <2>1 DEF BytesLeft, MainLeft
  <2>3. ChunksLeft' = c /\ Cardinality(UnreadRows)' = d
    BY <1>1, <2>1 DEF ChunksLeft, EndedThreads, UnreadRows, ReadBy
  <2>4. Left' = a + 0 + c + d
    BY <2>2, <2>3 DEF Left
  <2> QED
    BY <1>2, <2>2, <2>4
<1>5. CASE Publish(i)
  <2>1. /\ UNCHANGED <<file, pc, iter, joined>>
        /\ threads[i].running
        /\ fileChunks' = [fileChunks EXCEPT ![i].chunkResult = {threads[i].map}]
        /\ threads' = [threads EXCEPT ![i].running = FALSE]
    BY <1>5 DEF Publish, splitVars
  <2>2. /\ threads \in Seq(ThreadState) /\ threads[i] \in ThreadState
        /\ fileChunks \in Seq(Chunk) /\ fileChunks[i] \in Chunk
        /\ i \in DOMAIN fileChunks /\ DOMAIN threads \in SUBSET (DOMAIN fileChunks)
    BY ThreadFacts
  <2>3. /\ Len(threads') = Len(threads) /\ DOMAIN threads' = DOMAIN threads
        /\ threads'[i].running = FALSE
        /\ \A j \in DOMAIN threads : threads'[j].iter = threads[j].iter
        /\ \A j \in DOMAIN threads : j # i => threads'[j] = threads[j]
    BY <2>1, <2>2 DEF ThreadState
  <2>4. /\ Len(fileChunks') = Len(fileChunks)
        /\ \A j \in DOMAIN threads : fileChunks'[j].start = fileChunks[j].start
    <3> DEFINE new == [fileChunks[i] EXCEPT !.chunkResult = {threads[i].map}]
    <3>1. fileChunks' = [fileChunks EXCEPT ![i] = new] /\ new.start = fileChunks[i].start
      BY <2>1, <2>2 DEF Chunk
    <3> HIDE DEF new
    <3>2. PICK S : S = Chunk \cup {new}
      OBVIOUS
    <3>3. fileChunks \in Seq(S) /\ new \in S
      BY <2>2, <3>2
    <3>4. Len(fileChunks') = Len(fileChunks)
      BY <2>2, <3>1, <3>3
    <3> QED
      BY <2>2, <3>1, <3>4
  <2>5. UnreadRows' = UnreadRows
    <3>1. \A j \in DOMAIN threads : ReadBy(j)' = ReadBy(j)
      BY <2>1, <2>3, <2>4 DEF ReadBy
    <3> QED
      BY <2>1, <2>3, <3>1 DEF UnreadRows
  <2>6. EndedThreads' = EndedThreads \cup {i} /\ i \notin EndedThreads
    BY <2>1, <2>3 DEF EndedThreads
  <2>7. Cardinality(EndedThreads') = Cardinality(EndedThreads) + 1
    BY <2>6, ThreadSetFacts, FS_AddElement
  <2>8. ChunksLeft' = c - 1
    <3>1. PICK n, t, e, j : /\ n = Len(fileChunks) /\ t = Len(threads)
                            /\ e = Cardinality(EndedThreads) /\ j = joined
      OBVIOUS
    <3>2. n \in Nat /\ t \in Nat /\ e \in Nat /\ j \in Nat
      BY <3>1, ChunkFacts, ThreadSetFacts
    <3>3. c = (n - t) + (n - e) + (n - j)
      BY <1>1, <3>1 DEF ChunksLeft
    <3>4. ChunksLeft' = (n - t) + (n - (e + 1)) + (n - j)
      BY <2>1, <2>3, <2>4, <2>7, <3>1 DEF ChunksLeft
    <3> QED
      BY <3>2, <3>3, <3>4
  <2>9. BytesLeft' = a /\ MainLeft' = b
    BY <1>1, <2>1 DEF BytesLeft, MainLeft
  <2>10. Left' = a + b + (c - 1) + d
    BY <1>1, <2>5, <2>8, <2>9 DEF Left
  <2> QED
    BY <1>2, <2>10
<1> QED
  BY <1>3, <1>4, <1>5 DEF Thread

(***************************************************************************)
(* A chunk that is cut takes as many bytes as its newline counts for, and  *)
(* may cost the start of its thread, its map and its join.                 *)
(***************************************************************************)
LEMMA CutChunkFalls ==
  ASSUME IInv, IInv', CutChunk
  PROVE  Left' < Left
<1>1. PICK chunkEnd \in iter + currentChunkSize .. MappedEnd(file) - 1 :
        /\ IsStop(file, chunkEnd)
        /\ fileChunks' = Append(fileChunks,
             [start |-> iter, end |-> chunkEnd, chunkResult |-> {}])
        /\ IF IsZero(file, chunkEnd)
           THEN pc' = "spawn" /\ UNCHANGED iter
           ELSE iter' = NextStart(chunkEnd) /\ UNCHANGED pc
  BY DEF CutChunk, StopsAt
<1>2. pc = "split" /\ iter # file.size /\ UNCHANGED <<file, threads, joined>>
  BY DEF CutChunk
<1>3. PICK s, at, to : s = file.size /\ at = iter /\ to = chunkEnd
  OBVIOUS
<1>4. s \in Nat /\ at \in Nat /\ at < s /\ to \in Nat /\ at <= to
  <2>1. iter \in Nat /\ currentChunkSize \in Nat /\ iter <= file.size
    BY <1>2 DEF IInv, Safe, TypeOK, Splitting
  <2>2. file.size \in Nat /\ MappedEnd(file) \in Nat
    BY RowFacts, MappedEndHoldsFile
  <2> QED
    BY <1>2, <1>3, <2>1, <2>2
<1>5. threads = <<>> /\ threads' = <<>>
  BY <1>2 DEF IInv, Begun
<1>6. EndedThreads = {} /\ EndedThreads' = {} /\ UnreadRows' = UnreadRows
  BY <1>2, <1>5 DEF EndedThreads, UnreadRows
<1>7. Len(fileChunks) \in Nat /\ Len(fileChunks') = Len(fileChunks) + 1 /\ joined \in Nat
  <2> DEFINE new == [start |-> iter, end |-> chunkEnd, chunkResult |-> {}]
  <2>1. fileChunks' = Append(fileChunks, new)
    BY <1>1
  <2> HIDE DEF new
  <2> QED
    BY <2>1, ChunkFacts
<1>8. PICK n, c, d : n = Len(fileChunks) /\ c = ChunksLeft /\ d = Cardinality(UnreadRows)
  OBVIOUS
<1>9. c \in Nat /\ d \in Nat /\ n \in Nat
  BY <1>7, <1>8, LeftFacts
<1>10. ChunksLeft' = c + 3
  <2>1. c = (n - 0) + (n - 0) + (n - joined)
    BY <1>5, <1>6, <1>8, FS_EmptySet DEF ChunksLeft
  <2>2. ChunksLeft' = ((n + 1) - 0) + ((n + 1) - 0) + ((n + 1) - joined)
    BY <1>2, <1>5, <1>6, <1>7, <1>8, FS_EmptySet DEF ChunksLeft
  <2> QED
    BY <1>7, <1>9, <2>1, <2>2
<1>11. Cardinality(UnreadRows)' = d
  BY <1>6, <1>8
<1>12. Left = 4 * (s - at) + 3 + c + d
  BY <1>2, <1>3, <1>8 DEF Left, BytesLeft, MainLeft
<1>13. CASE IsZero(file, chunkEnd)
  <2>1. BytesLeft' = 0 /\ MainLeft' = 2
    BY <1>1, <1>13 DEF BytesLeft, MainLeft
  <2>2. Left' = 0 + 2 + (c + 3) + d
    BY <1>10, <1>11, <2>1 DEF Left
  <2> QED
    BY <1>4, <1>9, <1>12, <2>2
<1>14. CASE ~ IsZero(file, chunkEnd)
  <2>1. BytesLeft' = 4 * (s - (to + 1)) /\ MainLeft' = 3
    BY <1>1, <1>2, <1>3, <1>14 DEF BytesLeft, MainLeft, NextStart
  <2>2. Left' = 4 * (s - (to + 1)) + 3 + (c + 3) + d
    BY <1>10, <1>11, <2>1 DEF Left
  <2> QED
    BY <1>4, <1>9, <1>12, <2>2
<1> QED
  BY <1>13, <1>14

LEMMA StartThreadFalls ==
  ASSUME IInv, StartThread
  PROVE  Left' < Left
<1>0. PICK n : n = Len(threads) + 1
  OBVIOUS
<1> DEFINE new == [iter |-> fileChunks[n].start, map |-> Empty, running |-> TRUE]
<1>1. /\ threads' = Append(threads, new) /\ Len(threads) < Len(fileChunks)
      /\ UNCHANGED <<file, pc, iter, fileChunks, joined>>
  BY <1>0 DEF StartThread, splitVars
<1>2. new.iter = fileChunks[n].start /\ new.running = TRUE
  OBVIOUS
<1> HIDE DEF new
<1>3. /\ Len(threads) \in Nat /\ DOMAIN threads = 1 .. Len(threads) /\ threads \in Seq(ThreadState)
      /\ DOMAIN fileChunks = 1 .. Len(fileChunks) /\ Len(fileChunks) \in Nat
  BY ChunkFacts
<1>4. /\ DOMAIN threads' = 1 .. n /\ Len(threads') = n /\ threads'[n] = new
      /\ \A i \in DOMAIN threads : i # n /\ threads'[i] = threads[i]
      /\ DOMAIN threads' = DOMAIN threads \cup {n}
  BY <1>0, <1>1, <1>3
<1>5. EndedThreads' = EndedThreads
  BY <1>2, <1>4 DEF EndedThreads
<1>6. UnreadRows' = UnreadRows
  <2>1. n \in DOMAIN fileChunks /\ fileChunks[n].start \in Nat
    <3>1. n \in DOMAIN fileChunks
      BY <1>0, <1>1, <1>3
    <3> QED
      BY <3>1, ChunkFacts
  <2>2. ReadBy(n)' = {}
    <3>1. \A p \in file.newlines : ~ (fileChunks[n].start <= p /\ p < fileChunks[n].start)
      BY <2>1, RowFacts
    <3>2. ReadBy(n)' = {p \in file.newlines : fileChunks[n].start <= p /\ p < fileChunks[n].start}
      BY <1>1, <1>2, <1>4 DEF ReadBy
    <3> QED
      BY <3>1, <3>2
  <2>3. \A i \in DOMAIN threads : ReadBy(i)' = ReadBy(i)
    BY <1>1, <1>4 DEF ReadBy
  <2>4. UnreadRows' = {p \in file.newlines : \A i \in DOMAIN threads' : p \notin ReadBy(i)'}
    BY <1>1 DEF UnreadRows
  <2> QED
    BY <1>4, <2>2, <2>3, <2>4 DEF UnreadRows
<1>7. PICK a, b, m, t, e, j, d :
        /\ a = BytesLeft /\ b = MainLeft /\ m = Len(fileChunks) /\ t = Len(threads)
        /\ e = Cardinality(EndedThreads) /\ j = joined /\ d = Cardinality(UnreadRows)
  OBVIOUS
<1>8. /\ a \in Nat /\ b \in Nat /\ m \in Nat /\ t \in Nat /\ e \in Nat /\ j \in Nat
      /\ d \in Nat
  BY <1>7, LeftFacts, ChunkFacts, ThreadSetFacts
<1>9. Left = a + b + ((m - t) + (m - e) + (m - j)) + d
  BY <1>7 DEF Left, ChunksLeft
<1>10. Left' = a + b + ((m - (t + 1)) + (m - e) + (m - j)) + d
  <2>1. BytesLeft' = a /\ MainLeft' = b
    BY <1>1, <1>7 DEF BytesLeft, MainLeft
  <2>2. ChunksLeft' = (m - (t + 1)) + (m - e) + (m - j)
    BY <1>0, <1>1, <1>4, <1>5, <1>7 DEF ChunksLeft
  <2> QED
    BY <1>6, <1>7, <2>1, <2>2 DEF Left
<1> QED
  BY <1>8, <1>9, <1>10

LEMMA MainFalls ==
  ASSUME IInv, IInv', Main
  PROVE  Left' < Left
<1>1. PICK a, b, c, d : /\ a = BytesLeft /\ b = MainLeft /\ c = ChunksLeft
                        /\ d = Cardinality(UnreadRows)
  OBVIOUS
<1>2. a \in Nat /\ b \in Nat /\ c \in Nat /\ d \in Nat /\ Left = a + b + c + d
  BY <1>1, LeftFacts DEF Left
<1>3. CASE MapFile \/ MapFails \/ ScanRunsOff \/ SplitDone \/ AllStarted \/ UnmapAndPrint
  <2>1. UNCHANGED <<file, iter, fileChunks, threads, joined>>
    BY <1>3 DEF MapFile, MapFails, ScanRunsOff, SplitDone, AllStarted, UnmapAndPrint, splitVars
  <2>2. ChunksLeft' = c /\ Cardinality(UnreadRows)' = d
    BY <1>1, <2>1 DEF ChunksLeft, EndedThreads, UnreadRows, ReadBy
  <2>3. BytesLeft' = a \/ BytesLeft' = 0
    <3>1. \/ pc = "map" /\ pc' = "split"
          \/ pc' \notin {"map", "split"}
      BY <1>3 DEF MapFile, MapFails, ScanRunsOff, SplitDone, AllStarted, UnmapAndPrint
    <3> QED
      BY <1>1, <2>1, <3>1 DEF BytesLeft
  <2>4. MainLeft' \in Nat /\ MainLeft' < b
    BY <1>1, <1>3 DEF MainLeft, MapFile, MapFails, ScanRunsOff, SplitDone, AllStarted, UnmapAndPrint
  <2>5. PICK x, y : x = BytesLeft' /\ y = MainLeft'
    OBVIOUS
  <2>6. Left' = x + y + c + d
    BY <2>2, <2>5 DEF Left
  <2> QED
    BY <1>2, <2>3, <2>4, <2>5, <2>6
<1>4. CASE JoinAndMerge
  <2>1. /\ pc = "join" /\ UNCHANGED <<file, iter, fileChunks, threads>>
        /\ \/ joined' = joined + 1 /\ UNCHANGED pc
           \/ pc' = "undefined" /\ UNCHANGED joined
    BY <1>4 DEF JoinAndMerge, splitVars
  <2>2. EndedThreads' = EndedThreads /\ Cardinality(UnreadRows)' = d
    BY <1>1, <2>1 DEF EndedThreads, UnreadRows, ReadBy
  <2>3. BytesLeft' = a
    BY <1>1, <2>1 DEF BytesLeft
  <2>4. CASE joined' = joined + 1 /\ UNCHANGED pc
    <3>1. PICK m, t, e, j : /\ m = Len(fileChunks) /\ t = Len(threads)
                            /\ e = Cardinality(EndedThreads) /\ j = joined
      OBVIOUS
    <3>2. m \in Nat /\ t \in Nat /\ e \in Nat /\ j \in Nat
      BY <3>1, ChunkFacts, ThreadSetFacts
    <3>3. c = (m - t) + (m - e) + (m - j)
      BY <1>1, <3>1 DEF ChunksLeft
    <3>4. ChunksLeft' = (m - t) + (m - e) + (m - (j + 1))
      BY <2>1, <2>2, <2>4, <3>1 DEF ChunksLeft
    <3>5. ChunksLeft' = c - 1
      BY <3>2, <3>3, <3>4
    <3>6. MainLeft' = b
      BY <1>1, <2>4 DEF MainLeft
    <3>7. Left' = a + b + (c - 1) + d
      BY <2>2, <2>3, <3>5, <3>6 DEF Left
    <3> QED
      BY <1>2, <3>7
  <2>5. CASE pc' = "undefined" /\ UNCHANGED joined
    <3>1. ChunksLeft' = c
      BY <1>1, <2>1, <2>2, <2>5 DEF ChunksLeft
    <3>2. MainLeft' = 0 /\ b = 1
      BY <1>1, <2>1, <2>5 DEF MainLeft
    <3>3. Left' = a + 0 + c + d
      BY <2>2, <2>3, <3>1, <3>2 DEF Left
    <3> QED
      BY <1>2, <3>2, <3>3
  <2> QED
    BY <2>1, <2>4, <2>5
<1>5. CASE CutChunk \/ StartThread
  BY <1>5, CutChunkFalls, StartThreadFalls
<1> QED
  BY <1>3, <1>4, <1>5 DEF Main

(***************************************************************************)
(* No run goes on for ever: each step leaves less to do, whatever the      *)
(* threads do and however they interleave.  A chunk is at least a byte, so *)
(* splitFile comes to its end, and no row is read twice.                   *)
(***************************************************************************)
THEOREM EveryStepLeavesLess == Spec => [](Left \in Nat) /\ [][Left' < Left]_vars
<1>1. IInv => Left \in Nat
  BY LeftIsNatural
<1>2. IInv /\ IInv' /\ Holds /\ [Next]_vars => [Left' < Left]_vars
  BY MainFalls, ThreadFalls DEF Next
<1> QED
  BY <1>1, <1>2, Invariance, MapsHoldTheirRows, PTL DEF Spec

-----------------------------------------------------------------------------
(***************************************************************************)
(* The thread of CppRows, which reads its chunk byte by byte.              *)
(*                                                                         *)
(* CppRows' operators on texts are those of BrcLemmas.                     *)
(***************************************************************************)
LEMMA SameBytes ==
  /\ Zero = RowBytes!Zero /\ Newline = RowBytes!Newline
  /\ Semicolon = RowBytes!Semicolon
  /\ Measured = RowBytes!Measured
  BY DEF Zero, RowBytes!Zero, Newline, RowBytes!Newline,
         Semicolon, RowBytes!Semicolon, Measured, RowBytes!Measured,
         NameByte, RowBytes!NameByte

LEMMA SameSearch ==
  \A c, i, t, q : FirstAt(c, i, t, q) <=> RowBytes!FirstAt(c, i, t, q)
  BY DEF FirstAt, RowBytes!FirstAt

LEMMA SameText ==
  \A row : Text(row) = RowBytes!Text(row)
  BY DEF Text, RowBytes!Text, Decimal, RowBytes!Decimal,
         Magnitude, RowBytes!Magnitude, Semicolon, RowBytes!Semicolon,
         Newline, RowBytes!Newline, Minus, RowBytes!Minus,
         Dot, RowBytes!Dot

LEMMA SameFlattened ==
  \A seqs : FlattenSeq(seqs) = RowBytes!FlattenSeq(seqs)
  BY DEF FlattenSeq, RowBytes!FlattenSeq

LEMMA SameNumber ==
  \A c, i : customFloatParse(c, i) = RowBytes!customFloatParse(c, i)
  BY DEF customFloatParse, RowBytes!customFloatParse, Minus,
         RowBytes!Minus, Dot, RowBytes!Dot

LEMMA SameRow ==
  \A d : RowAt(d) = [name   |-> RowBytes!Between(bytes, position, d),
                           tenths |-> RowBytes!customFloatParse(bytes, d + 1)]
  BY SameNumber DEF RowAt, Between, RowBytes!Between

(***************************************************************************)
(* Where the rows of a file lie in its text T: row i behind e[i - 1] bytes *)
(* and up to e[i].                                                         *)
(***************************************************************************)
TextsOf(r) == [i \in 1 .. Len(r) |-> RowBytes!Text(r[i])]

LieAt(r, e, T) ==
  /\ e \in [0 .. Len(r) -> Nat] /\ e[0] = 0
  /\ \A i \in 1 .. Len(r) : e[i] = e[i - 1] + Len(RowBytes!Text(r[i]))
  /\ \A i, j \in 0 .. Len(r) : i <= j => e[i] <= e[j]
  /\ \A i \in 1 .. Len(r) : \A k \in 1 .. Len(RowBytes!Text(r[i])) :
       T[e[i - 1] + k] = RowBytes!Text(r[i])[k]

LEMMA RowsLie ==
  ASSUME NEW r \in Seq(RowBytes!Measured)
  PROVE  \E e : /\ LieAt(r, e, TextOf(r))
                /\ Len(TextOf(r)) = e[Len(r)]
                /\ Len(r) # 0 => Len(TextOf(Front(r))) = e[Len(r) - 1]
<1>1. PICK n : n = Len(r)
  OBVIOUS
<1>2. n \in Nat /\ \A i \in 1 .. n : r[i] \in RowBytes!Measured
  BY <1>1
<1>3. \A i \in 1 .. n : RowBytes!Text(r[i]) \in Seq(Int)
  BY <1>2, SoughtInText DEF SoughtAt
<1>4. PICK seqs : seqs = TextsOf(r)
  OBVIOUS
<1>5. seqs \in [1 .. n -> Seq(Int)] /\ \A i \in 1 .. n : seqs[i] = RowBytes!Text(r[i])
  BY <1>1, <1>3, <1>4 DEF TextsOf
<1>6. PICK e : IsLayout(seqs, n, e)
  BY <1>2, <1>5, TextLayout
<1>7. /\ AreEnds(e, n, seqs)
      /\ \A m \in 0 .. n : Len(RowBytes!FlattenSeq(FirstOf(seqs, m))) = e[m]
      /\ \A i \in 1 .. n : \A k \in 1 .. Len(seqs[i]) :
           RowBytes!FlattenSeq(seqs)[e[i - 1] + k] = seqs[i][k]
  BY <1>6 DEF IsLayout
<1>8. \A i, j \in 0 .. n : i <= j => e[i] <= e[j]
  BY <1>2, <1>5, <1>7, EndsGrow
<1>9. TextOf(r) = RowBytes!FlattenSeq(seqs)
  <2>1. [i \in 1 .. Len(r) |-> Text(r[i])] = seqs
    BY <1>4, SameText DEF TextsOf
  <2> QED
    BY <2>1, SameFlattened DEF TextOf
<1>10. LieAt(r, e, TextOf(r))
  BY <1>1, <1>5, <1>7, <1>8, <1>9 DEF LieAt, AreEnds
<1>11. Len(TextOf(r)) = e[n]
  <2>1. FirstOf(seqs, n) = seqs /\ n \in 0 .. n
    BY <1>2, <1>5 DEF FirstOf
  <2> QED
    BY <1>7, <1>9, <2>1
<1>12. n # 0 => Len(TextOf(Front(r))) = e[n - 1]
  <2> SUFFICES ASSUME n # 0 PROVE Len(TextOf(Front(r))) = e[n - 1]
    OBVIOUS
  <2>1. PICK f : f = Front(r)
    OBVIOUS
  <2>2. Len(f) = n - 1 /\ \A i \in 1 .. n - 1 : f[i] = r[i]
    BY <1>1, <2>1 DEF Front
  <2>3. [i \in 1 .. Len(f) |-> Text(f[i])] = FirstOf(seqs, n - 1)
    <3>1. \A i \in 1 .. n - 1 : i \in 1 .. n
      BY <1>2
    <3> QED
      BY <1>5, <2>2, <3>1, SameText DEF FirstOf
  <2>4. n - 1 \in 0 .. n
    BY <1>2
  <2> QED
    BY <1>7, <2>1, <2>3, <2>4, SameFlattened DEF TextOf
<1> QED
  BY <1>1, <1>10, <1>11, <1>12

(***************************************************************************)
(* The mapping holds the file, and zeros behind it.                        *)
(***************************************************************************)
LEMMA MappingHoldsText ==
  ASSUME NEW T, NEW size \in Nat, NEW c, c = Mapping(T, size)
  PROVE  /\ MappedSize(size) \in Nat /\ size <= MappedSize(size)
         /\ DOMAIN c = 0 .. MappedSize(size) - 1
         /\ \A p \in 0 .. size - 1 : p \in DOMAIN c /\ c[p] = T[p + 1]
         /\ \A p \in DOMAIN c : p \in Nat /\ (size <= p => c[p] = RowBytes!Zero)
<1> DEFINE a == size + PageSize - 1
           q == a \div PageSize
<1>1. PageSize \in Nat \ {0} /\ a \in Nat
  BY PageAssumption
<1>2. q \in Nat /\ a < PageSize * q + PageSize
  BY <1>1, DivBounds
<1>3. PageSize * q = q * PageSize /\ PageSize * q \in Nat
  BY <1>1, <1>2
<1>4. MappedSize(size) = q * PageSize
  BY DEF MappedSize
<1> HIDE DEF q
<1>5. size <= q * PageSize
  BY <1>1, <1>2, <1>3
<1>6. PICK last : last = MappedSize(size)
  OBVIOUS
<1>7. last \in Nat /\ size <= last
  BY <1>3, <1>4, <1>5, <1>6
<1>8. c = [p \in 0 .. last - 1 |-> IF p < size THEN T[p + 1] ELSE RowBytes!Zero]
  BY <1>6, SameBytes DEF Mapping
<1>9. \A p \in 0 .. size - 1 : p \in 0 .. last - 1 /\ p < size
  BY <1>7
<1>10. \A p \in 0 .. last - 1 : p \in Nat /\ (size <= p => ~ (p < size))
  BY <1>7
<1> QED
  BY <1>6, <1>7, <1>8, <1>9, <1>10

(***************************************************************************)
(* The file in the mapping: its last row may be cut short.                 *)
(***************************************************************************)
Mapped(e) ==
  /\ rowList \in Seq(RowBytes!Measured) /\ Len(rowList) # 0
  /\ LieAt(rowList, e, TextOf(rowList))
  /\ textEnd \in e[Len(rowList) - 1] + 1 .. e[Len(rowList)]
  /\ bytes = Mapping(TextOf(rowList), textEnd)

LEMMA MappedFacts ==
  ASSUME NEW e, Mapped(e), NEW n, n = Len(rowList), NEW i \in 1 .. n,
         NEW s, s = RowBytes!Text(rowList[i])
  PROVE  /\ n \in Nat /\ rowList[i] \in RowBytes!Measured
         /\ e[i - 1] \in Nat /\ e[i] \in Nat /\ textEnd \in Nat
         /\ e[i - 1] < textEnd
         /\ Len(s) \in Nat /\ 5 <= Len(s) /\ e[i] = e[i - 1] + Len(s)
         /\ \A k \in 1 .. Len(s) :
              e[i - 1] + k - 1 < textEnd =>
                /\ e[i - 1] + k - 1 \in DOMAIN bytes
                /\ bytes[e[i - 1] + k - 1] = s[k]
<1>1. /\ n \in Nat /\ n # 0 /\ rowList[i] \in RowBytes!Measured
      /\ i - 1 \in 0 .. n /\ i \in 0 .. n /\ n - 1 \in 0 .. n /\ n \in 0 .. n
  BY DEF Mapped
<1>2. /\ e \in [0 .. n -> Nat]
      /\ e[i] = e[i - 1] + Len(s)
      /\ e[i - 1] <= e[n - 1]
      /\ textEnd \in e[n - 1] + 1 .. e[n]
      /\ \A k \in 1 .. Len(s) : TextOf(rowList)[e[i - 1] + k] = s[k]
  <2>1. LieAt(rowList, e, TextOf(rowList)) /\ textEnd \in e[n - 1] + 1 .. e[n]
    BY DEF Mapped
  <2>2. e \in [0 .. n -> Nat] /\ e[i] = e[i - 1] + Len(s)
    BY <2>1 DEF LieAt
  <2>3. e[i - 1] <= e[n - 1]
    <3>1. \A j, k \in 0 .. n : j <= k => e[j] <= e[k]
      BY <2>1 DEF LieAt
    <3>2. i - 1 <= n - 1
      BY <1>1
    <3> QED
      BY <1>1, <3>1, <3>2
  <2>4. \A k \in 1 .. Len(s) : TextOf(rowList)[e[i - 1] + k] = s[k]
    BY <2>1 DEF LieAt
  <2> QED
    BY <2>1, <2>2, <2>3, <2>4
<1>3. e[i - 1] \in Nat /\ e[i] \in Nat /\ e[n - 1] \in Nat /\ e[n] \in Nat
  BY <1>1, <1>2
<1>4. textEnd \in Nat /\ e[i - 1] < textEnd
  <2>1. PICK x, y, z : x = e[i - 1] /\ y = e[n - 1] /\ z = e[n]
    OBVIOUS
  <2>2. x \in Nat /\ y \in Nat /\ z \in Nat /\ x <= y /\ textEnd \in y + 1 .. z
    BY <1>2, <1>3, <2>1
  <2>3. textEnd \in Nat /\ x < textEnd
    BY <2>2
  <2> QED
    BY <2>1, <2>3
<1>5. Len(s) \in Nat /\ 5 <= Len(s)
  <2>1. PICK l, m : SoughtAt(s, l, m)
    BY <1>1, SoughtInText
  <2>2. l \in Nat /\ m \in 3 .. 5 /\ Len(s) = l + m + 2
    BY <2>1 DEF SoughtAt
  <2>3. l + m + 2 \in Nat /\ 5 <= l + m + 2
    BY <2>2
  <2> QED
    BY <2>2, <2>3
<1>6. ASSUME NEW k \in 1 .. Len(s), e[i - 1] + k - 1 < textEnd
      PROVE  /\ e[i - 1] + k - 1 \in DOMAIN bytes
             /\ bytes[e[i - 1] + k - 1] = s[k]
  <2>1. PICK p : p = e[i - 1] + k - 1
    OBVIOUS
  <2>2. p \in 0 .. textEnd - 1 /\ p + 1 = e[i - 1] + k
    <3>1. PICK x, l : x = e[i - 1] /\ l = Len(s)
      OBVIOUS
    <3>2. x \in Nat /\ l \in Nat /\ k \in 1 .. l /\ p = x + k - 1 /\ p < textEnd
      BY <1>3, <1>5, <1>6, <2>1, <3>1
    <3>3. p \in 0 .. textEnd - 1 /\ p + 1 = x + k
      BY <1>4, <3>2
    <3> QED
      BY <3>1, <3>3
  <2>3. p \in DOMAIN bytes /\ bytes[p] = TextOf(rowList)[p + 1]
    <3>1. bytes = Mapping(TextOf(rowList), textEnd)
      BY DEF Mapped
    <3>2. \A q \in 0 .. textEnd - 1 : q \in DOMAIN bytes /\ bytes[q] = TextOf(rowList)[q + 1]
      BY <1>4, <3>1, MappingHoldsText
    <3> QED
      BY <2>2, <3>2
  <2> QED
    BY <1>2, <2>1, <2>2, <2>3
<1> QED
  BY <1>1, <1>2, <1>3, <1>4, <1>5, <1>6

(***************************************************************************)
(* At the start of a row that is whole the thread can only read it.        *)
(***************************************************************************)
LEMMA WholeRowRead ==
  ASSUME NEW e, Mapped(e), NEW i \in 1 .. Len(rowList), e[i] <= textEnd, position = e[i - 1]
  PROVE  /\ ~ AtTextEnd
         /\ ~ Done /\ ~ BreakAfterDelimiter /\ ~ SearchRunsOff
         /\ ReadRowBytes => /\ rowsAdded' = Append(rowsAdded, rowList[i])
                               /\ position' = e[i]
<1>1. PICK n, s, l, m : /\ n = Len(rowList) /\ s = RowBytes!Text(rowList[i])
                        /\ l = Len(rowList[i].name)
                        /\ m = Len(RowBytes!Decimal(rowList[i].tenths))
  OBVIOUS
<1>2. PICK x, y : x = e[i - 1] /\ y = e[i]
  OBVIOUS
<1>3. /\ rowList[i] \in RowBytes!Measured /\ x \in Nat /\ y \in Nat
      /\ textEnd \in Nat /\ x < textEnd
      /\ y = x + Len(s) /\ Len(s) \in Nat
      /\ \A k \in 1 .. Len(s) :
           x + k - 1 < textEnd => x + k - 1 \in DOMAIN bytes /\ bytes[x + k - 1] = s[k]
  BY SMTT(30), <1>1, <1>2, MappedFacts
<1>4. SoughtAt(s, l, m)
  BY <1>1, <1>3, SoughtInText
<1>5. l \in Nat /\ m \in 3 .. 5 /\ Len(s) = l + m + 2
  BY <1>4 DEF SoughtAt
<1>6. \A k \in 1 .. Len(s) : x + k - 1 \in DOMAIN bytes /\ bytes[x + k - 1] = s[k]
  <2>1. y <= textEnd
    BY <1>2
  <2>2. \A k \in 1 .. Len(s) : x + k - 1 < textEnd
    BY <1>3, <2>1
  <2> QED
    BY <1>3, <2>2
<1>7. StandsAt(bytes, x, rowList[i])
  <2>1. \A k \in 1 .. Len(s) - 1 : k \in 1 .. Len(s)
    BY <1>3
  <2> QED
    BY <1>1, <1>6, <2>1 DEF StandsAt
<1>8. PICK d \in Nat :
         /\ d = x + l
         /\ x <= d
         /\ bytes[x] # RowBytes!Zero
         /\ RowBytes!FirstAt(bytes, x, RowBytes!Semicolon, d)
         /\ d + 1 \in DOMAIN bytes /\ bytes[d + 1] # RowBytes!Zero
         /\ rowList[i] = [name |-> RowBytes!Between(bytes, x, d),
                          tenths |-> RowBytes!customFloatParse(bytes, d + 1)]
  BY <1>1, <1>3, <1>7, RowFound
<1>9. y - 1 \in DOMAIN bytes /\ RowBytes!FirstAt(bytes, d + 1, RowBytes!Newline, y - 1)
  <2>1. ASSUME NEW q \in d + 1 .. y - 1
        PROVE  q \in DOMAIN bytes /\ (bytes[q] = RowBytes!Newline <=> q = y - 1)
    <3>1. PICK k : k = q - x + 1
      OBVIOUS
    <3>2. k \in 1 .. l + m + 2 /\ q = x + k - 1 /\ (q = y - 1 <=> k = l + m + 2)
      BY <1>3, <1>5, <1>8, <3>1
    <3>3. q \in DOMAIN bytes /\ bytes[q] = s[k]
      BY <1>5, <1>6, <3>2
    <3> QED
      BY <1>4, <3>2, <3>3 DEF SoughtAt
  <2>2. y - 1 \in d + 1 .. y - 1 /\ d + 1 <= y - 1
        /\ \A k \in d + 1 .. y - 1 - 1 : k \in d + 1 .. y - 1 /\ k # y - 1
    BY <1>3, <1>5, <1>8
  <2> QED
    BY <2>1, <2>2 DEF RowBytes!FirstAt
<1>10. position = x /\ x < textEnd
  BY <1>2, <1>3
<1>11. ~ AtTextEnd
  BY <1>8, <1>10, SameBytes DEF AtTextEnd
<1>12. FirstAt(bytes, position, Semicolon, d) /\ d \in DOMAIN bytes
       /\ ~ NoTemperature(d)
  BY <1>8, <1>10, SameBytes, SameSearch DEF NoTemperature, RowBytes!FirstAt
<1>13. FirstAt(bytes, d + 1, Newline, y - 1)
  BY <1>9, SameBytes, SameSearch
<1>14. \A q \in DOMAIN bytes : q \in Nat
  BY <1>3, MappingHoldsText DEF Mapped
<1>15. ASSUME NEW q \in DOMAIN bytes, FirstAt(bytes, position, Semicolon, q)
       PROVE  q = d
  <2>1. /\ RowBytes!FirstAt(bytes, x, RowBytes!Semicolon, q) /\ q \in Int /\ x \in Int /\ d \in Int
        /\ RowBytes!FirstAt(bytes, x, RowBytes!Semicolon, d)
    BY <1>3, <1>8, <1>10, <1>14, <1>15, SameBytes, SameSearch
  <2> QED
    BY <2>1, FirstIsOne
<1>16. ASSUME NEW q \in DOMAIN bytes, FirstAt(bytes, d + 1, Newline, q)
       PROVE  q = y - 1
  <2>1. /\ RowBytes!FirstAt(bytes, d + 1, RowBytes!Newline, q) /\ q \in Int
        /\ d + 1 \in Int /\ y - 1 \in Int
        /\ RowBytes!FirstAt(bytes, d + 1, RowBytes!Newline, y - 1)
    BY <1>3, <1>8, <1>9, <1>14, <1>16, SameBytes, SameSearch
  <2> QED
    BY <2>1, FirstIsOne
<1>17. ~ Done
  BY <1>11 DEF Done
<1>18. ~ BreakAfterDelimiter
  BY <1>12, <1>15 DEF BreakAfterDelimiter
<1>19. ~ SearchRunsOff
  BY <1>9, <1>12, <1>13, <1>15 DEF SearchRunsOff, Token
<1>20. ASSUME ReadRowBytes
       PROVE  rowsAdded' = Append(rowsAdded, rowList[i]) /\ position' = e[i]
  <2>1. PICK q, r \in DOMAIN bytes :
          /\ FirstAt(bytes, position, Semicolon, q)
          /\ FirstAt(bytes, q + 1, Newline, r)
          /\ rowsAdded' = Append(rowsAdded, RowAt(q))
          /\ position' = r + 1
    BY <1>20 DEF ReadRowBytes
  <2>2. q = d /\ r = y - 1
    BY <1>15, <1>16, <2>1
  <2>3. RowAt(d) = rowList[i]
    BY <1>8, <1>10, SameRow
  <2>4. y - 1 + 1 = y
    BY <1>3
  <2> QED
    BY <1>2, <2>1, <2>2, <2>3, <2>4
<1> QED
  BY <1>11, <1>17, <1>18, <1>19, <1>20

(***************************************************************************)
(* At the start of a row that is cut short the thread finds no newline,    *)
(* and if the row's delimiter is the last byte of the file, a zero behind  *)
(* it, except at the end of a page.                                        *)
(***************************************************************************)
LEMMA CutRowNotRead ==
  ASSUME NEW e, Mapped(e), textEnd < e[Len(rowList)], position = e[Len(rowList) - 1]
  PROVE  /\ ~ Done /\ ~ ReadRowBytes
         /\ SearchRunsOff =>
              (bytes[textEnd - 1] = Semicolon =>
                 textEnd = MappedSize(textEnd))
<1>1. PICK n : n = Len(rowList)
  OBVIOUS
<1>2. PICK s, l, m : /\ s = RowBytes!Text(rowList[n]) /\ l = Len(rowList[n].name)
                     /\ m = Len(RowBytes!Decimal(rowList[n].tenths))
  OBVIOUS
<1>3. PICK x, y : x = e[n - 1] /\ y = e[n]
  OBVIOUS
<1>4. n \in 1 .. n
  BY <1>1 DEF Mapped
<1>5. /\ rowList[n] \in RowBytes!Measured /\ x \in Nat /\ y \in Nat
      /\ textEnd \in Nat /\ x < textEnd
      /\ y = x + Len(s) /\ Len(s) \in Nat
      /\ \A k \in 1 .. Len(s) :
           x + k - 1 < textEnd => x + k - 1 \in DOMAIN bytes /\ bytes[x + k - 1] = s[k]
  <2>1. PICK i : i = n
    OBVIOUS
  <2>2. i \in 1 .. Len(rowList) /\ s = RowBytes!Text(rowList[i])
    BY <1>1, <1>2, <1>4, <2>1
  <2>3. /\ rowList[i] \in RowBytes!Measured /\ e[i - 1] \in Nat /\ e[i] \in Nat
        /\ textEnd \in Nat /\ e[i - 1] < textEnd
        /\ e[i] = e[i - 1] + Len(s) /\ Len(s) \in Nat
        /\ \A k \in 1 .. Len(s) :
             e[i - 1] + k - 1 < textEnd =>
               /\ e[i - 1] + k - 1 \in DOMAIN bytes
               /\ bytes[e[i - 1] + k - 1] = s[k]
    BY <2>2, MappedFacts
  <2> QED
    BY <1>3, <2>1, <2>3
<1>6. SoughtAt(s, l, m)
  BY <1>2, <1>5, SoughtInText
<1>7. l \in Nat /\ m \in 3 .. 5 /\ Len(s) = l + m + 2
  BY <1>6 DEF SoughtAt
<1>8. position = x /\ textEnd < y
  BY <1>1, <1>3
<1>9. ASSUME NEW q \in x .. textEnd - 1
      PROVE  /\ q \in DOMAIN bytes
             /\ bytes[q] # RowBytes!Zero /\ bytes[q] # RowBytes!Newline
             /\ bytes[q] = RowBytes!Semicolon <=> q = x + l
  <2>1. PICK k : k = q - x + 1
    OBVIOUS
  <2>2. /\ k \in 1 .. l + m + 2 /\ q = x + k - 1 /\ q < textEnd /\ k # l + m + 2
        /\ k = l + 1 <=> q = x + l
    BY <1>5, <1>7, <1>8, <2>1
  <2>3. q \in DOMAIN bytes /\ bytes[q] = s[k]
    BY <1>5, <1>7, <2>2
  <2> QED
    BY <1>6, <2>2, <2>3 DEF SoughtAt
<1>10. /\ MappedSize(textEnd) \in Nat /\ textEnd <= MappedSize(textEnd)
       /\ DOMAIN bytes = 0 .. MappedSize(textEnd) - 1
       /\ \A q \in DOMAIN bytes : q \in Nat /\ (textEnd <= q => bytes[q] = RowBytes!Zero)
  BY <1>5, MappingHoldsText DEF Mapped
<1>11. ~ Done
  <2>1. x \in x .. textEnd - 1
    BY <1>5
  <2>2. bytes[x] # RowBytes!Zero
    BY <1>9, <2>1
  <2> QED
    BY <1>5, <1>8, <2>2, SameBytes DEF Done, AtTextEnd
<1>12. ASSUME NEW q \in DOMAIN bytes, FirstAt(bytes, position, Semicolon, q)
       PROVE  q \in x .. textEnd - 1 /\ q = x + l
  <2>1. q \in Nat /\ x <= q /\ bytes[q] = RowBytes!Semicolon
    BY <1>8, <1>10, <1>12, SameBytes, SameSearch DEF RowBytes!FirstAt
  <2>2. RowBytes!Semicolon # RowBytes!Zero
    BY DEF RowBytes!Semicolon, RowBytes!Zero
  <2>3. q \in x .. textEnd - 1
    BY <1>5, <1>10, <2>1, <2>2
  <2> QED
    BY <1>9, <2>1, <2>3
<1>13. ~ ReadRowBytes
  <2> SUFFICES ASSUME ReadRowBytes PROVE FALSE
    OBVIOUS
  <2>1. PICK q, r \in DOMAIN bytes :
          /\ FirstAt(bytes, position, Semicolon, q)
          /\ FirstAt(bytes, q + 1, Newline, r)
    BY DEF ReadRowBytes
  <2>2. q \in x .. textEnd - 1
    BY <1>12, <2>1
  <2>3. r \in Nat /\ q + 1 <= r /\ bytes[r] = RowBytes!Newline
    BY <1>10, <2>1, SameBytes, SameSearch DEF RowBytes!FirstAt
  <2>4. RowBytes!Newline # RowBytes!Zero
    BY DEF RowBytes!Newline, RowBytes!Zero
  <2>5. r \in x .. textEnd - 1
    BY <1>5, <1>10, <2>2, <2>3, <2>4
  <2> QED
    BY <1>9, <2>3, <2>5
<1>14. ASSUME SearchRunsOff, bytes[textEnd - 1] = Semicolon
       PROVE  textEnd = MappedSize(textEnd)
  <2>1. textEnd - 1 \in x .. textEnd - 1 /\ x + l \in Nat
    BY <1>5, <1>7
  <2>2. textEnd - 1 = x + l
    BY <1>9, <1>14, <2>1, SameBytes
  <2>3. textEnd = (x + l) + 1
    BY <1>5, <1>7, <2>2
  <2>4. FirstAt(bytes, position, Semicolon, x + l) /\ x + l \in DOMAIN bytes
    <3>1. x + l \in x .. textEnd - 1 /\ x <= x + l
          /\ \A k \in x .. (x + l) - 1 : k \in x .. textEnd - 1 /\ k # x + l
      BY <1>5, <1>7, <2>3
    <3>2. RowBytes!FirstAt(bytes, x, RowBytes!Semicolon, x + l)
      BY <1>9, <3>1 DEF RowBytes!FirstAt
    <3> QED
      BY <1>8, <3>2, SameBytes, SameSearch DEF RowBytes!FirstAt
  <2>5. PICK q \in DOMAIN bytes : /\ FirstAt(bytes, position, Semicolon, q)
                                  /\ ~ NoTemperature(q)
    BY <1>14, <2>4 DEF SearchRunsOff, Token
  <2>6. q + 1 = textEnd
    BY <1>12, <2>3, <2>5
  <2>7. textEnd \notin DOMAIN bytes
    <3>1. textEnd \in DOMAIN bytes => bytes[textEnd] = RowBytes!Zero
      BY SMTT(30), <1>5, <1>10
    <3> QED
      BY <2>5, <2>6, <3>1, SameBytes DEF NoTemperature
  <2> QED
    BY <1>5, <1>10, <2>7
<1> QED
  BY <1>11, <1>13, <1>14

(***************************************************************************)
(* The rows of the file that are whole.  The thread has added the first m  *)
(* of them and stands at the next row; once it stops it has added all.     *)
(***************************************************************************)
WholeRows == IF IsCut THEN Len(rowList) - 1 ELSE Len(rowList)

HasRead(e, m) ==
  /\ m \in 0 .. WholeRows
  /\ rowsAdded = SubSeq(rowList, 1, m)
  /\ IF threadPc = "reading" THEN position = e[m] ELSE m = WholeRows

ReadingInv(e) ==
  /\ Mapped(e)
  /\ Len(TextOf(rowList)) = e[Len(rowList)]
  /\ \E m : HasRead(e, m)
  /\ LeavesMappingOnlyIfCut

RowsInv == \E e : ReadingInv(e)

LEMMA RowsInit ==
  ASSUME ThreadInit
  PROVE  RowsInv
<1>1. rowList \in Seq(RowBytes!Measured)
  BY RowListsAssumption, SameBytes DEF ThreadInit
<1>2. PICK e : /\ LieAt(rowList, e, TextOf(rowList))
               /\ Len(TextOf(rowList)) = e[Len(rowList)]
               /\ Len(rowList) # 0 =>
                    Len(TextOf(Front(rowList))) = e[Len(rowList) - 1]
  BY <1>1, RowsLie
<1>3. /\ textEnd \in Len(TextOf(Front(rowList))) + 1
                       .. Len(TextOf(rowList))
      /\ bytes = Mapping(TextOf(rowList), textEnd)
      /\ position = 0 /\ rowsAdded = <<>> /\ threadPc = "reading"
  BY DEF ThreadInit
<1>4. Len(rowList) \in Nat /\ e[0] = 0
  BY <1>1, <1>2 DEF LieAt
<1>5. Len(rowList) # 0
  <2> SUFFICES ASSUME Len(rowList) = 0 PROVE FALSE
    OBVIOUS
  <2>1. rowList = <<>>
    BY <1>1
  <2>2. TextOf(rowList) = <<>> /\ Len(TextOf(rowList)) = 0
    BY <2>1 DEF TextOf, FlattenSeq
  <2>3. TextOf(Front(rowList)) = <<>>
    BY <2>1 DEF TextOf, FlattenSeq, Front
  <2> QED
    BY <1>3, <2>2, <2>3
<1>6. Mapped(e)
  BY <1>1, <1>2, <1>3, <1>5 DEF Mapped
<1>7. HasRead(e, 0)
  <2>1. SubSeq(rowList, 1, 0) = <<>>
    BY <1>1
  <2>2. 0 \in 0 .. WholeRows
    BY <1>4, <1>5 DEF WholeRows
  <2> QED
    BY <1>3, <1>4, <2>1, <2>2 DEF HasRead
<1>8. LeavesMappingOnlyIfCut
  BY <1>3 DEF LeavesMappingOnlyIfCut
<1> QED
  BY <1>2, <1>6, <1>7, <1>8 DEF RowsInv, ReadingInv

LEMMA RowsNext ==
  ASSUME RowsInv, [ThreadNext]_threadVars
  PROVE  RowsInv'
<1>1. PICK e : ReadingInv(e)
  BY DEF RowsInv
<1>2. Mapped(e) /\ Len(TextOf(rowList)) = e[Len(rowList)]
  BY <1>1 DEF ReadingInv
<1>3. PICK m : HasRead(e, m)
  BY <1>1 DEF ReadingInv
<1>4. PICK n, y, z : n = Len(rowList) /\ y = e[n - 1] /\ z = e[n]
  OBVIOUS
<1>5. /\ n \in Nat /\ n # 0 /\ rowList \in Seq(RowBytes!Measured)
      /\ y \in Nat /\ z \in Nat /\ textEnd \in y + 1 .. z
      /\ e \in [0 .. n -> Nat]
      /\ \A i, j \in 0 .. n : i <= j => e[i] <= e[j]
  <2>1. /\ n \in Nat /\ n # 0 /\ rowList \in Seq(RowBytes!Measured)
        /\ textEnd \in y + 1 .. z
        /\ e \in [0 .. n -> Nat]
        /\ \A i, j \in 0 .. n : i <= j => e[i] <= e[j]
    BY <1>2, <1>4 DEF Mapped, LieAt
  <2>2. n - 1 \in 0 .. n /\ n \in 0 .. n
    BY <2>1
  <2> QED
    BY <1>4, <2>1, <2>2
<1>6. IsCut <=> textEnd < z
  BY <1>2, <1>4 DEF IsCut
<1>7. WholeRows = IF textEnd < z THEN n - 1 ELSE n
  BY <1>4, <1>6 DEF WholeRows
<1>8. UNCHANGED <<rowList, bytes, textEnd>>
  BY DEF ThreadNext, threadVars, Done, ReadRowBytes,
         BreakAfterDelimiter, SearchRunsOff
<1>9. /\ Mapped(e)' /\ (Len(TextOf(rowList)) = e[Len(rowList)])'
      /\ WholeRows' = WholeRows /\ IsCut' = IsCut
  BY <1>2, <1>8 DEF Mapped, WholeRows, IsCut
<1>10. SUFFICES (\E k : HasRead(e, k))' /\ LeavesMappingOnlyIfCut'
  BY <1>9 DEF RowsInv, ReadingInv
<1>11. m \in 0 .. WholeRows /\ rowsAdded = SubSeq(rowList, 1, m)
  BY <1>3 DEF HasRead
<1>12. CASE UNCHANGED threadVars
  <2>1. HasRead(e, m)'
    BY <1>3, <1>9, <1>12 DEF threadVars, HasRead
  <2>2. LeavesMappingOnlyIfCut'
    BY <1>1, <1>9, <1>12 DEF threadVars, ReadingInv, LeavesMappingOnlyIfCut
  <2> QED
    BY <2>1, <2>2
<1>13. CASE ThreadNext
  <2>1. threadPc = "reading"
    BY <1>13 DEF ThreadNext, Done, ReadRowBytes,
                 BreakAfterDelimiter, SearchRunsOff
  <2>2. position = e[m]
    BY <1>3, <2>1 DEF HasRead
  <2>3. CASE m < WholeRows
    <3>1. PICK i : i = m + 1
      OBVIOUS
    <3>2. i \in 1 .. n /\ i - 1 = m /\ i \in 0 .. n /\ i \in 0 .. WholeRows
          /\ (textEnd < z => i <= n - 1) /\ n - 1 \in 0 .. n /\ n \in 0 .. n
      BY <1>5, <1>7, <1>11, <2>3, <3>1
    <3>3. e[i] <= textEnd
      <4>1. PICK x : x = e[i]
        OBVIOUS
      <4>2. x \in Nat /\ x <= z /\ (textEnd < z => x <= y)
        <5>1. \A j \in 0 .. n : i <= j => e[i] <= e[j]
          BY <1>5, <3>2
        <5>2. i <= n /\ (textEnd < z => i <= n - 1)
          BY <1>5, <3>2
        <5>3. e[i] <= e[n] /\ (textEnd < z => e[i] <= e[n - 1])
          BY <3>2, <5>1, <5>2
        <5>4. e[i] \in Nat
          BY <1>5, <3>2
        <5> QED
          BY <1>4, <4>1, <5>3, <5>4
      <4>3. x <= textEnd
        BY <1>5, <4>2
      <4> QED
        BY <4>1, <4>3
    <3>4. /\ ~ Done /\ ~ BreakAfterDelimiter /\ ~ SearchRunsOff
          /\ ReadRowBytes => /\ rowsAdded' = Append(rowsAdded, rowList[i])
                                /\ position' = e[i]
      BY <1>2, <1>4, <2>2, <3>2, <3>3, WholeRowRead
    <3>5. ReadRowBytes
      BY <1>13, <3>4 DEF ThreadNext
    <3>6. threadPc' = threadPc
      BY <3>5 DEF ReadRowBytes
    <3>7. Append(SubSeq(rowList, 1, m), rowList[i]) = SubSeq(rowList, 1, i)
      BY <1>4, <1>5, <1>11, <3>1, <3>2
    <3>8. HasRead(e, i)'
      BY <1>8, <1>9, <1>11, <2>1, <3>2, <3>4, <3>5, <3>6, <3>7 DEF HasRead
    <3>9. LeavesMappingOnlyIfCut'
      BY <2>1, <3>6 DEF LeavesMappingOnlyIfCut
    <3> QED
      BY <3>8, <3>9
  <2>4. CASE m = WholeRows /\ ~ (textEnd < z)
    <3>1. position = textEnd
      <4>1. m = n
        BY <1>7, <2>4
      <4> QED
        BY <1>4, <1>5, <2>2, <2>4, <4>1
    <3>2. AtTextEnd
      BY <1>5, <3>1 DEF AtTextEnd
    <3>3. Done
      BY <1>13, <3>2 DEF ThreadNext, ReadRowBytes, BreakAfterDelimiter,
                         SearchRunsOff
    <3>4. threadPc' = "done" /\ rowsAdded' = rowsAdded
      BY <3>3 DEF Done
    <3>5. HasRead(e, m)'
      BY <1>8, <1>9, <1>11, <2>4, <3>4 DEF HasRead
    <3>6. LeavesMappingOnlyIfCut'
      BY <3>4 DEF LeavesMappingOnlyIfCut
    <3> QED
      BY <3>5, <3>6
  <2>5. CASE m = WholeRows /\ textEnd < z
    <3>1. m = n - 1
      BY <1>7, <2>5
    <3>2. /\ ~ Done /\ ~ ReadRowBytes
          /\ SearchRunsOff =>
               (bytes[textEnd - 1] = Semicolon =>
                  textEnd = MappedSize(textEnd))
      BY <1>2, <1>4, <2>2, <2>5, <3>1, CutRowNotRead
    <3>3. BreakAfterDelimiter \/ SearchRunsOff
      BY <1>13, <3>2 DEF ThreadNext
    <3>4. threadPc' \in {"done", "undefined"} /\ rowsAdded' = rowsAdded
      BY <3>3 DEF BreakAfterDelimiter, SearchRunsOff
    <3>5. HasRead(e, m)'
      BY <1>8, <1>9, <1>11, <2>5, <3>4 DEF HasRead
    <3>6. LeavesMappingOnlyIfCut'
      <4> SUFFICES ASSUME threadPc' = "undefined" PROVE LeavesMappingOnlyIfCut'
        BY DEF LeavesMappingOnlyIfCut
      <4>1. SearchRunsOff
        BY <3>3 DEF BreakAfterDelimiter
      <4>2. bytes[textEnd - 1] = Semicolon =>
              textEnd = MappedSize(textEnd)
        BY <3>2, <4>1
      <4>3. (bytes[textEnd - 1] = Semicolon =>
               textEnd = MappedSize(textEnd))'
        BY <1>8, <4>2 DEF Semicolon, MappedSize
      <4> QED
        BY <1>6, <1>9, <2>5, <4>3 DEF LeavesMappingOnlyIfCut
    <3> QED
      BY <3>5, <3>6
  <2> QED
    BY <1>5, <1>7, <1>11, <2>3, <2>4, <2>5
<1> QED
  BY <1>12, <1>13

LEMMA RowsInvariance == ThreadSpec => []RowsInv
<1>1. ThreadInit => RowsInv
  BY RowsInit
<1>2. RowsInv /\ [ThreadNext]_threadVars => RowsInv'
  BY RowsNext
<1> QED
  BY <1>1, <1>2, PTL DEF ThreadSpec

(***************************************************************************)
(* The thread leaves the mapping only for a last row without its newline,  *)
(* and not if that row ends with its delimiter in the middle of a page:    *)
(* for rows with any names and any temperatures of the data set, a file    *)
(* cut at any byte of its last row and pages of any size.                  *)
(***************************************************************************)
THEOREM CutRowLeavesMapping == ThreadSpec => []LeavesMappingOnlyIfCut
<1>1. RowsInv => LeavesMappingOnlyIfCut
  BY DEF RowsInv, ReadingInv
<1> QED
  BY <1>1, RowsInvariance, PTL

(***************************************************************************)
(* A thread has always added the rows that the file was written from, name *)
(* and temperature, up to where it is, and when it stops, all of them but  *)
(* for one that is cut short.                                              *)
(***************************************************************************)
RowsAddedInOrder ==
  /\ \E m \in 0 .. Len(rowList) : rowsAdded = SubSeq(rowList, 1, m)
  /\ threadPc # "reading" =>
       rowsAdded = IF IsCut THEN Front(rowList) ELSE rowList

THEOREM AddsRowsInOrder == ThreadSpec => []RowsAddedInOrder
<1>1. ASSUME RowsInv PROVE RowsAddedInOrder
  <2>1. PICK e, m : Mapped(e) /\ HasRead(e, m)
    BY <1>1 DEF RowsInv, ReadingInv
  <2>2. rowList \in Seq(RowBytes!Measured) /\ Len(rowList) \in Nat /\ Len(rowList) # 0
    BY <2>1 DEF Mapped
  <2>3. /\ m \in 0 .. Len(rowList) /\ rowsAdded = SubSeq(rowList, 1, m)
        /\ threadPc # "reading" =>
             m = IF IsCut THEN Len(rowList) - 1 ELSE Len(rowList)
    BY <2>1, <2>2 DEF HasRead, WholeRows
  <2>4. SubSeq(rowList, 1, Len(rowList)) = rowList
    BY <2>2
  <2> QED
    BY <2>3, <2>4 DEF RowsAddedInOrder, Front
<1> QED
  BY <1>1, RowsInvariance, PTL

(***************************************************************************)
(* A thread comes to an end: every row that is read, and every search,     *)
(* ends further in the mapping than it began.                              *)
(***************************************************************************)
ReadingLeft == MappedSize(textEnd) - position + IF threadPc = "reading" THEN 1 ELSE 0

InMapping ==
  /\ MappedSize(textEnd) \in Nat
  /\ DOMAIN bytes = 0 .. MappedSize(textEnd) - 1
  /\ position \in 0 .. MappedSize(textEnd)

LEMMA MappingSize ==
  ASSUME RowsInv
  PROVE  MappedSize(textEnd) \in Nat /\ DOMAIN bytes = 0 .. MappedSize(textEnd) - 1
<1>1. PICK e : Mapped(e)
  BY DEF RowsInv, ReadingInv
<1>2. textEnd \in Nat
  <2>1. Len(rowList) \in Nat /\ Len(rowList) # 0
    BY <1>1 DEF Mapped
  <2>2. 1 \in 1 .. Len(rowList)
    BY <2>1
  <2> QED
    BY <1>1, <2>2, MappedFacts
<1>3. bytes = Mapping(TextOf(rowList), textEnd)
  BY <1>1 DEF Mapped
<1> QED
  BY <1>2, <1>3, MappingHoldsText

LEMMA ThreadReadsOn ==
  ASSUME RowsInv, InMapping, ThreadNext
  PROVE  position' \in 0 .. MappedSize(textEnd) /\ ReadingLeft' < ReadingLeft
<1>1. PICK z, p : z = MappedSize(textEnd) /\ p = position
  OBVIOUS
<1>2. z \in Nat /\ p \in 0 .. z /\ DOMAIN bytes = 0 .. z - 1
  BY <1>1 DEF InMapping
<1>3. MappedSize(textEnd)' = z /\ threadPc = "reading" /\ ReadingLeft = z - p + 1
  BY <1>1 DEF ThreadNext, Done, ReadRowBytes, BreakAfterDelimiter, SearchRunsOff,
     ReadingLeft, MappedSize
<1>4. CASE Done \/ SearchRunsOff
  <2>1. position' = p /\ threadPc' # "reading"
    BY <1>1, <1>4 DEF Done, SearchRunsOff
  <2>2. ReadingLeft' = z - p + 0
    BY <1>3, <2>1 DEF ReadingLeft
  <2> QED
    BY <1>1, <1>2, <1>3, <2>1, <2>2
<1>5. CASE BreakAfterDelimiter
  <2>1. PICK delimiter \in DOMAIN bytes :
          FirstAt(bytes, position, Semicolon, delimiter) /\ position' = delimiter + 1
    BY <1>5 DEF BreakAfterDelimiter
  <2>2. threadPc' # "reading"
    BY <1>5 DEF BreakAfterDelimiter
  <2>3. delimiter \in 0 .. z - 1 /\ p <= delimiter
    BY <1>1, <1>2, <2>1 DEF FirstAt
  <2>4. ReadingLeft' = z - (delimiter + 1) + 0
    BY <1>3, <2>1, <2>2 DEF ReadingLeft
  <2> QED
    BY SMTT(30), <1>1, <1>2, <1>3, <2>1, <2>3, <2>4
<1>6. CASE ReadRowBytes
  <2>1. PICK delimiter \in DOMAIN bytes, newline \in DOMAIN bytes :
          /\ FirstAt(bytes, position, Semicolon, delimiter)
          /\ FirstAt(bytes, delimiter + 1, Newline, newline)
          /\ position' = newline + 1
    BY <1>6 DEF ReadRowBytes
  <2>2. threadPc' = threadPc
    BY <1>6 DEF ReadRowBytes
  <2>3. p <= delimiter /\ delimiter + 1 <= newline
    BY <1>1, <2>1 DEF FirstAt
  <2>4. newline \in 0 .. z - 1 /\ p < newline
    <3>1. delimiter \in 0 .. z - 1 /\ newline \in 0 .. z - 1
      BY <1>2, <2>1
    <3> QED
      BY <1>2, <2>3, <3>1
  <2>5. ReadingLeft' = z - (newline + 1) + 1
    BY <1>3, <2>1, <2>2 DEF ReadingLeft
  <2>6. newline + 1 \in 0 .. z /\ z - (newline + 1) + 1 < z - p + 1
    BY <1>2, <2>4
  <2>7. position' = newline + 1
    BY <2>1
  <2> QED
    BY <1>1, <1>3, <2>5, <2>6, <2>7
<1> QED
  BY <1>4, <1>5, <1>6 DEF ThreadNext

(***************************************************************************)
(* No thread reads for ever: each step leaves fewer bytes of the mapping   *)
(* ahead of it or ends it, wherever the file is cut.                       *)
(***************************************************************************)
THEOREM EveryReadLeavesLess ==
  ThreadSpec => [](ReadingLeft \in Nat) /\ [][ReadingLeft' < ReadingLeft]_threadVars
<1>1. ThreadInit /\ RowsInv => InMapping
  BY MappingSize DEF ThreadInit, InMapping
<1>2. ASSUME RowsInv, RowsInv', InMapping, [ThreadNext]_threadVars PROVE InMapping'
  <2>1. MappedSize(textEnd)' \in Nat /\ DOMAIN bytes' = 0 .. MappedSize(textEnd)' - 1
    <3>1. UNCHANGED <<textEnd, bytes>>
      BY <1>2 DEF ThreadNext, Done, ReadRowBytes, BreakAfterDelimiter, SearchRunsOff, threadVars
    <3> QED
      BY <1>2, <3>1 DEF InMapping, MappedSize
  <2>2. position' \in 0 .. MappedSize(textEnd)'
    <3>1. UNCHANGED textEnd
      BY <1>2 DEF ThreadNext, Done, ReadRowBytes, BreakAfterDelimiter, SearchRunsOff, threadVars
    <3>2. CASE ThreadNext
      BY <1>2, <3>1, <3>2, ThreadReadsOn DEF MappedSize
    <3>3. CASE UNCHANGED threadVars
      BY <1>2, <3>1, <3>3 DEF InMapping, MappedSize, threadVars
    <3> QED
      BY <1>2, <3>2, <3>3
  <2> QED
    BY <2>1, <2>2 DEF InMapping
<1>3. ASSUME InMapping PROVE ReadingLeft \in Nat
  <2>1. PICK z, p : z = MappedSize(textEnd) /\ p = position
    OBVIOUS
  <2>2. z \in Nat /\ p \in 0 .. z
    BY <1>3, <2>1 DEF InMapping
  <2>3. z - p + 1 \in Nat /\ z - p + 0 \in Nat
    BY <2>2
  <2> QED
    BY <2>1, <2>3 DEF ReadingLeft
<1>4. RowsInv /\ InMapping /\ [ThreadNext]_threadVars => [ReadingLeft' < ReadingLeft]_threadVars
  BY ThreadReadsOn
<1> QED
  BY <1>1, <1>2, <1>3, <1>4, RowsInvariance, PTL DEF ThreadSpec
=============================================================================
