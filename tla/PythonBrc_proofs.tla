--------------------------- MODULE PythonBrc_proofs --------------------------
(***************************************************************************)
(* Proofs about the Python program, for every file, every number of cores  *)
(* and every size up to which a file is small.                             *)
(***************************************************************************)
EXTENDS PythonBrc, BrcLemmas, SequenceTheorems

-----------------------------------------------------------------------------
(***************************************************************************)
(* A share of the file: as many shares as cores, each with a newline, are  *)
(* more than the file.                                                     *)
(***************************************************************************)
LEMMA ShareBounds ==
  ASSUME NEW size \in Nat, NEW n \in Nat \ {0}
  PROVE  /\ size \div n \in Nat /\ size \div n <= size
         /\ n * (size \div n) <= size
         /\ size < n * ((size \div n) + 1)
<1> DEFINE q == size \div n
<1>1. q \in Nat /\ n * q <= size /\ size < n * q + n
  BY DivBounds
<1> HIDE DEF q
<1>2. n * (q + 1) = n * q + n /\ n * q \in Nat
  BY <1>1
<1>3. q <= n * q
  <2>1. 1 * q <= n * q
    BY <1>1, TimesMonotonic
  <2> QED
    BY <1>1, <2>1
<1> QED
  BY <1>1, <1>2, <1>3 DEF q

LEMMA RoomForOneMore ==
  ASSUME NEW size \in Nat, NEW n \in Nat \ {0}, NEW k \in Nat,
         k * ((size \div n) + 1) <= size
  PROVE  k < n
<1> DEFINE q == size \div n
<1>1. q \in Nat /\ size < n * (q + 1) /\ k * (q + 1) <= size
  BY ShareBounds
<1> HIDE DEF q
<1>2. SUFFICES ASSUME n <= k PROVE FALSE
  OBVIOUS
<1>3. /\ n * (q + 1) <= k * (q + 1)
      /\ n * (q + 1) \in Nat /\ k * (q + 1) \in Nat
  <2>1. q + 1 \in Nat
    BY <1>1
  <2> QED
    BY <1>2, <2>1, TimesMonotonic
<1> QED
  BY <1>1, <1>3

(***************************************************************************)
(* What is subtracted from a last chunk that would go past the end of the  *)
(* file takes nothing of the file from it, if there are as many chunks as  *)
(* cores or the chunks before got less than a share in excess.             *)
(***************************************************************************)
LEMMA LastShareReachesEnd ==
  ASSUME NEW size \in Nat, NEW n \in Nat \ {0}, NEW k \in Nat, k < n,
         NEW extra \in Nat, NEW start \in Nat,
         extra + k * ((size \div n) + 1) = start,
         start + (size \div n) > size,
         extra + k <= size \div n
  PROVE  size <= start + (size \div n) - extra
<1> DEFINE q == size \div n
<1>1. /\ q \in Nat /\ n * q <= size /\ size < n * (q + 1)
      /\ extra + k * (q + 1) = start /\ start + q > size /\ extra + k <= q
  BY ShareBounds
<1> HIDE DEF q
<1> DEFINE kq == k * q
<1>2. kq \in Nat /\ k * (q + 1) = kq + k
  BY <1>1
<1> HIDE DEF kq
<1>3. CASE n = k + 1
  <2>1. n * (q + 1) = kq + k + q + 1
    BY <1>1, <1>3 DEF kq
  <2> QED
    BY <1>1, <1>2, <2>1 DEF q
<1>4. CASE k + 2 <= n
  <2>1. (k + 2) * q <= n * q /\ (k + 2) * q = kq + q + q
    BY <1>1, <1>4, TimesMonotonic DEF kq
  <2>2. n * q \in Nat
    BY <1>1
  <2>3. FALSE
    BY <1>1, <1>2, <2>1, <2>2
  <2> QED
    BY <2>3
<1> QED
  BY <1>3, <1>4

-----------------------------------------------------------------------------
(***************************************************************************)
(* What a dictionary holds when the rows R are in it.                      *)
(***************************************************************************)
Has(R) == Held(file, R, 1000000, -1000000)

LEMMA HasType ==
  ASSUME NEW R, IsRowSet(file, R)
  PROVE  Has(R) \in Tables
<1> DEFINE hi == -1000000
<1>1. hi \in Int
  OBVIOUS
<1> HIDE DEF hi
<1>2. Held(file, R, 1000000, hi) \in
        [Names -> [min : Int, max : Int, sum : Int, count : Nat] \cup {Absent}]
  BY <1>1, HeldType
<1> QED
  BY <1>2 DEF Has, Tables, Stat, hi

LEMMA HasNothing == Has({}) = Empty
  BY HeldNothing DEF Has, Empty

(***************************************************************************)
(* AddRow takes in one row, Merged a disjoint set of rows.                 *)
(***************************************************************************)
LEMMA AddRowHas ==
  ASSUME NEW R, NEW p, IsRowSet(file, R \cup {p}), p \notin R
  PROVE  AddRow(Has(R), file.row[p]) = Has(R \cup {p})
<1> DEFINE lo == 1000000
           hi == -1000000
           n == file.row[p].name
           t == file.row[p].temp
           h == Held(file, R, lo, hi)
           a == Holding(file, RowsOf(file, R, n), lo, hi)
<1>1. IsRowSet(file, R)
  <2> DEFINE RP == R \cup {p}
  <2>1. IsRowSet(file, RP) /\ R \in SUBSET RP
    OBVIOUS
  <2> HIDE DEF RP
  <2> QED
    BY <2>1, RowSetFacts
<1>2. lo \in Int /\ hi \in Int /\ n \in Names
  BY DEF IsRowSet, Row
<1>3. Absent \notin [min : Int, max : Int, sum : Int, count : Nat]
  BY PythonAssumption DEF Stat
<1> HIDE DEF lo, hi, n
<1>4. /\ h[n] = Absent => a = [min |-> lo, max |-> hi, sum |-> 0, count |-> 0]
      /\ h[n] # Absent => a = h[n]
  BY <1>1, <1>2, <1>3, HeldEntry
<1>h. /\ h = Held(file, R, lo, hi) /\ n = file.row[p].name
      /\ a = Holding(file, RowsOf(file, R, n), lo, hi)
  BY DEF n
<1> HIDE DEF h, a
<1>5. Held(file, R \cup {p}, lo, hi) =
        [h EXCEPT ![n] = [min   |-> IF t < a.min THEN t ELSE a.min,
                          max   |-> IF t > a.max THEN t ELSE a.max,
                          sum   |-> a.sum + t,
                          count |-> a.count + 1]]
  BY <1>2, <1>h, HeldRow
<1>6. Entry(h, n) = a
  BY <1>4 DEF Entry, New, lo, hi
<1>7. AddRow(h, file.row[p]) = [h EXCEPT ![n] = Add(a, t)]
  BY <1>6 DEF AddRow, n
<1>8. AddRow(h, file.row[p]) = Held(file, R \cup {p}, lo, hi)
  BY <1>5, <1>7 DEF Add, Lesser, Greater
<1> QED
  BY <1>8 DEF Has, h, lo, hi

LEMMA MergedHas ==
  ASSUME NEW R, NEW T, IsRowSet(file, R), IsRowSet(file, T), R \cap T = {}
  PROVE  Merged(Has(R), Has(T)) = Has(R \cup T)
<1> DEFINE lo == 1000000
           hi == -1000000
           g == Held(file, R, lo, hi)
           m == Held(file, T, lo, hi)
           u == Held(file, R \cup T, lo, hi)
<1>1. lo \in Int /\ hi \in Int /\ Absent \notin [min : Int, max : Int, sum : Int, count : Nat]
  BY PythonAssumption DEF Stat
<1> HIDE DEF lo, hi
<1>2. ASSUME NEW n \in Names
      PROVE  u[n] = IF m[n] = Absent THEN g[n]
                    ELSE IF g[n] = Absent THEN m[n] ELSE Merge(g[n], m[n])
  <2> DEFINE a == Holding(file, RowsOf(file, R, n), lo, hi)
             b == Holding(file, RowsOf(file, T, n), lo, hi)
  <2>1. /\ g[n] = Absent <=> RowsOf(file, R, n) = {}
        /\ g[n] # Absent => a = g[n]
        /\ m[n] = Absent <=> RowsOf(file, T, n) = {}
        /\ m[n] # Absent => b = m[n]
    BY <1>1, HeldEntry
  <2>2. /\ RowsOf(file, T, n) = {} => u[n] = g[n]
        /\ RowsOf(file, R, n) = {} => u[n] = m[n]
        /\ RowsOf(file, T, n) # {} => u[n] = Both(a, b)
    BY <1>1, HeldUnion
  <2> HIDE DEF a, b, g, m, u
  <2> QED
    BY <2>1, <2>2 DEF Both, Merge, Lesser, Greater
<1>3. u = [n \in Names |-> u[n]]
  BY DEF Held
<1> HIDE DEF g, m, u
<1>4. Merged(g, m) = u
  BY <1>2, <1>3 DEF Merged
<1> QED
  BY <1>4 DEF Has, g, m, u, lo, hi

(***************************************************************************)
(* The fold of a process over its rows, in whatever order, takes in each.  *)
(***************************************************************************)
AddAll(R) == FoldSet(LAMBDA p, dict : AddRow(dict, file.row[p]), Empty, R)

DictTo(dicts, s) ==
  IF s = {} THEN Empty ELSE AddRow(dicts[s \ {First(s)}], file.row[First(s)])

SubsetDicts(R) == CHOOSE dicts : dicts = [s \in SUBSET R |-> DictTo(dicts, s)]

LEMMA AddAllIsSubsetDict ==
  ASSUME NEW R
  PROVE  AddAll(R) = SubsetDicts(R)[R]
  BY DEF AddAll, FoldSet, MapThenFoldSet, SubsetDicts, DictTo, First

LEMMA AddAllHas ==
  ASSUME NEW R, IsRowSet(file, R)
  PROVE  AddAll(R) = Has(R)
<1> DEFINE h == [s \in SUBSET R |-> Has(s)]
           dicts == SubsetDicts(R)
           Good == {s \in SUBSET R : dicts[s] = Has(s)}
<1>1. IsFiniteSet(R) /\ \A s \in SUBSET R : IsRowSet(file, s)
  BY RowSetFacts
<1>2. \A s \in SUBSET R : s # {} => First(s) \in s
  BY DEF First
<1>3. ASSUME NEW s \in SUBSET R, s # {}
      PROVE  AddRow(Has(s \ {First(s)}), file.row[First(s)]) = Has(s)
  <2> DEFINE p == First(s)
             Q == s \ {p}
  <2>1. p \notin Q /\ Q \cup {p} = s
    BY <1>2, <1>3
  <2> HIDE DEF p, Q
  <2>2. IsRowSet(file, Q \cup {p})
    BY <1>1, <2>1
  <2>3. AddRow(Has(Q), file.row[p]) = Has(Q \cup {p})
    BY <2>1, <2>2, AddRowHas
  <2> QED
    BY <2>1, <2>3 DEF p, Q
<1>4. ASSUME NEW s \in SUBSET R PROVE h[s] = DictTo(h, s)
  <2>1. CASE s = {}
    BY <2>1, HasNothing DEF DictTo
  <2>2. CASE s # {}
    <3>1. s \ {First(s)} \in SUBSET R
      OBVIOUS
    <3> QED
      BY <1>3, <2>2, <3>1 DEF DictTo
  <2> QED
    BY <2>1, <2>2
<1>5. h = [s \in SUBSET R |-> DictTo(h, s)]
  BY <1>4
<1> HIDE DEF h
<1>6. dicts = [s \in SUBSET R |-> DictTo(dicts, s)]
  BY <1>5 DEF SubsetDicts
<1> HIDE DEF dicts
<1>7. \A s \in SUBSET R : dicts[s] = DictTo(dicts, s)
  BY <1>6
<1>8. ASSUME NEW s \in SUBSET R, \A t \in SUBSET s : t # s => t \in Good
      PROVE  s \in Good
  <2>1. CASE s = {}
    BY <1>7, <2>1, HasNothing DEF DictTo
  <2>2. CASE s # {}
    <3>1. s \ {First(s)} \in Good
      BY <1>2, <1>8, <2>2
    <3>2. dicts[s] = AddRow(Has(s \ {First(s)}), file.row[First(s)])
      BY <1>7, <2>2, <3>1 DEF DictTo
    <3> QED
      BY <1>3, <2>2, <3>2
  <2> QED
    BY <2>1, <2>2
<1> HIDE DEF Good
<1>9. R \in Good
  BY <1>1, <1>8, SubsetInduction
<1> QED
  BY <1>9, AddAllIsSubsetDict DEF Good, dicts

-----------------------------------------------------------------------------
(***************************************************************************)
(* The inductive invariant.                                                *)
(***************************************************************************)

(***************************************************************************)
(* While main cuts chunks, offset and a share and a newline for each chunk *)
(* make up the bytes before the next chunk.                                *)
(***************************************************************************)
Cutting ==
  /\ pc \in {"open", "failed"} =>
       chunk_procs = <<>> /\ current_chunk_start = 0 /\ offset = 0
  /\ pc = "split" =>
       /\ current_chunk_start =
            IF chunk_procs = <<>> THEN 0 ELSE ChunkEnd(Len(chunk_procs)) + 1
       /\ offset + Len(chunk_procs) * (bytes_per_proc + 1) = current_chunk_start
       /\ \A k \in DOMAIN chunk_procs :
            /\ ChunkEnd(k) \in file.newlines /\ ChunkEnd(k) < current_chunk_start
            /\ chunk_procs[k].start_pos <= ChunkEnd(k)
  /\ pc \in {"join", "printed"} => chunk_procs # <<>>
  /\ pc = "printed" => joined = Len(chunk_procs)

OneProcessPerCore == Len(chunk_procs) <= core_count

(***************************************************************************)
(* A chunk begins behind all that come before it, and only the last may    *)
(* have a negative length.                                                 *)
(***************************************************************************)
InOrder ==
  \A k, l \in DOMAIN chunk_procs :
    k < l => /\ chunk_procs[k].start_pos <= ChunkEnd(k)
             /\ ChunkEnd(k) < chunk_procs[l].start_pos

(***************************************************************************)
(* A process that is about to put its dictionary has added all its rows.   *)
(***************************************************************************)
DictsHaveRows ==
  \A k \in DOMAIN chunk_procs :
    chunk_procs[k].state = "putting" => chunk_procs[k].proc_result = Has(RowsAdded(k))

(***************************************************************************)
(* The dictionaries that have been put came from different processes, all  *)
(* of them ended, in some order.  main has merged the first of them, and   *)
(* the queue holds the others.                                             *)
(***************************************************************************)
Places == 1 .. joined + Len(queue)

RowsTaken(order, m) ==
  {p \in file.newlines : \E j \in 1 .. m : p \in RowsAdded(order[j])}

IsOrder(order) ==
  /\ order \in [Places -> DOMAIN chunk_procs]
  /\ \A j, l \in Places : order[j] = order[l] => j = l
  /\ \A j \in Places : chunk_procs[order[j]].state = "ended"
  /\ \A j \in DOMAIN queue : queue[j] = Has(RowsAdded(order[joined + j]))
  /\ result = Has(RowsTaken(order, joined))

Answers == \E order : IsOrder(order)

IInv == /\ ChunksFollow /\ LastChunkComplete /\ Cutting /\ OneProcessPerCore
        /\ InOrder /\ DictsHaveRows /\ Answers
-----------------------------------------------------------------------------
LEMMA MostCoresBounds ==
  /\ 1 \in 1 .. MostCores
  /\ \A cpu_count \in 1 .. MaxCores : \A small \in BOOLEAN :
       (IF small THEN 2 ELSE cpu_count) \in 1 .. MostCores
<1> DEFINE m == MaxCores
<1>1. m \in Nat \ {0}
  BY PythonAssumption
<1> HIDE DEF m
<1>2. Max({2, m}) = IF m > 2 THEN m ELSE 2
  BY <1>1 DEF Max
<1> QED
  BY <1>1, <1>2 DEF MostCores, m

LEMMA Facts ==
  ASSUME IInv
  PROVE  /\ TypeOK /\ IsFile(file) /\ file.size \in Nat
         /\ \A p \in file.newlines : p \in Nat /\ p < file.size
         /\ core_count \in Nat \ {0}
         /\ bytes_per_proc \in Nat /\ bytes_per_proc <= file.size
         /\ offset \in Nat /\ current_chunk_start \in Nat
         /\ current_chunk_start <= file.size
         /\ chunk_procs \in Seq(ChunkProc) /\ queue \in Seq(Tables)
         /\ Len(chunk_procs) \in Nat /\ DOMAIN chunk_procs = 1 .. Len(chunk_procs)
         /\ Len(queue) \in Nat /\ DOMAIN queue = 1 .. Len(queue)
         /\ joined \in Nat /\ joined <= Len(chunk_procs)
         /\ \A k \in 1 .. Len(chunk_procs) :
              chunk_procs[k] \in ChunkProc /\ chunk_procs[k].start_pos \in Nat
                /\ ChunkEnd(k) \in Int
<1>1. /\ TypeOK /\ IsFile(file) /\ chunk_procs \in Seq(ChunkProc) /\ queue \in Seq(Tables)
      /\ joined \in 0 .. Len(chunk_procs)
  BY DEF IInv, ChunksFollow, TypeOK
<1>2. /\ file.size \in Nat
      /\ \A p \in file.newlines : p \in Nat /\ p < file.size
  BY <1>1 DEF IsFile
<1>3. /\ offset \in Nat /\ current_chunk_start \in Nat /\ current_chunk_start <= file.size
  BY <1>1, <1>2 DEF TypeOK
<1>4. core_count \in Nat \ {0}
  BY <1>1 DEF TypeOK
<1>5. bytes_per_proc \in Nat /\ bytes_per_proc <= file.size
  BY <1>2, <1>4, ShareBounds DEF bytes_per_proc
<1>6. /\ Len(chunk_procs) \in Nat /\ DOMAIN chunk_procs = 1 .. Len(chunk_procs)
      /\ Len(queue) \in Nat /\ DOMAIN queue = 1 .. Len(queue)
  BY <1>1, LenProperties
<1>7. \A k \in 1 .. Len(chunk_procs) : chunk_procs[k] \in ChunkProc
  BY <1>1, ElementOfSeq
<1>8. \A k \in 1 .. Len(chunk_procs) : chunk_procs[k].start_pos \in Nat /\ ChunkEnd(k) \in Int
  BY <1>7 DEF ChunkProc, ChunkEnd
<1> QED
  BY <1>1, <1>2, <1>3, <1>4, <1>5, <1>6, <1>7, <1>8

LEMMA AddedAreRows ==
  ASSUME IsFile(file)
  PROVE  /\ \A k : IsRowSet(file, RowsAdded(k))
         /\ \A order, m : IsRowSet(file, RowsTaken(order, m))
<1>1. file.newlines \in SUBSET Rows(file)
  BY DEF Rows
<1>2. \A R \in SUBSET file.newlines : IsRowSet(file, R)
  BY <1>1, RowsAreRows
<1>3. \A k : RowsAdded(k) \in SUBSET file.newlines
  BY DEF RowsAdded
<1>4. \A order, m : RowsTaken(order, m) \in SUBSET file.newlines
  BY DEF RowsTaken
<1> QED
  BY <1>2, <1>3, <1>4

LEMMA EmptyType == Empty \in Tables
  BY DEF Empty, Tables

LEMMA InitInvariant == Init => IInv
<1> SUFFICES ASSUME Init PROVE IInv
  OBVIOUS
<1>1. /\ file \in Files /\ pc = "open" /\ core_count = 1
      /\ current_chunk_start = 0 /\ offset = 0
      /\ chunk_procs = <<>> /\ queue = <<>> /\ joined = 0 /\ result = Empty
  BY DEF Init
<1>2. /\ DOMAIN chunk_procs = {} /\ DOMAIN queue = {}
      /\ Len(chunk_procs) = 0 /\ Len(queue) = 0
  BY <1>1, EmptySeq
<1>3. TypeOK
  <2>1. IsFile(file)
    BY <1>1, FilesAssumption
  <2>2. core_count \in 1 .. MostCores
    BY <1>1, PythonAssumption, MostCoresBounds
  <2>3. chunk_procs \in Seq(ChunkProc) /\ queue \in Seq(Tables)
    BY <1>1, EmptySeq
  <2> QED
    BY <1>1, <1>2, <2>1, <2>2, <2>3, EmptyType DEF TypeOK, IsFile
<1>4. ChunksFollow /\ LastChunkComplete /\ OneProcessPerCore
  BY <1>1, <1>2, <1>3 DEF ChunksFollow, LastChunkComplete, OneProcessPerCore
<1>5. Cutting /\ InOrder /\ DictsHaveRows
  BY <1>1, <1>2 DEF Cutting, InOrder, DictsHaveRows
<1>6. IsOrder(<<>>)
  <2>1. Places = {} /\ <<>> \in [{} -> DOMAIN chunk_procs]
    BY <1>1, <1>2 DEF Places
  <2>2. RowsTaken(<<>>, joined) = {}
    BY <1>1 DEF RowsTaken
  <2> QED
    BY <1>1, <1>2, <2>1, <2>2, HasNothing DEF IsOrder
<1> QED
  BY <1>4, <1>5, <1>6 DEF IInv, Answers

(***************************************************************************)
(* Steps that move main on and leave chunks, processes and answers alone.  *)
(***************************************************************************)
LEMMA MovesOn ==
  ASSUME IInv,
         UNCHANGED <<file, core_count, current_chunk_start, offset, chunk_procs, queue,
                     joined, result>>,
         pc' \in {"open", "split", "join", "printed", "failed"},
         Cutting', LastChunkComplete'
  PROVE  IInv'
<1>1. TypeOK'
  BY Facts DEF TypeOK
<1>2. \A k : ChunkEnd(k)' = ChunkEnd(k) /\ RowsAdded(k)' = RowsAdded(k)
  BY DEF ChunkEnd, RowsAdded
<1>3. ChunksFollow' /\ OneProcessPerCore' /\ InOrder'
  BY <1>1, <1>2 DEF IInv, ChunksFollow, OneProcessPerCore, InOrder
<1>4. DictsHaveRows'
  BY <1>2 DEF IInv, DictsHaveRows, Has
<1>5. Answers'
  <2>1. PICK order : IsOrder(order)
    BY DEF IInv, Answers
  <2>2. Places' = Places
    BY DEF Places
  <2>3. RowsTaken(order, joined)' = RowsTaken(order, joined)
    BY <1>2 DEF RowsTaken
  <2>4. IsOrder(order)'
    BY <1>2, <2>1, <2>2, <2>3 DEF IsOrder, Has
  <2> QED
    BY <2>4 DEF Answers
<1> QED
  BY <1>3, <1>4, <1>5 DEF IInv

LEMMA StutterInvariant == IInv /\ UNCHANGED vars => IInv'
<1> SUFFICES ASSUME IInv, UNCHANGED vars PROVE IInv'
  OBVIOUS
<1>1. UNCHANGED <<file, pc, core_count, current_chunk_start, offset, chunk_procs, queue,
                  joined, result>>
  BY DEF vars
<1>2. Cutting' /\ LastChunkComplete'
  BY <1>1 DEF IInv, Cutting, LastChunkComplete, ChunkEnd, bytes_per_proc
<1> QED
  BY <1>1, <1>2, Facts, MovesOn DEF TypeOK

LEMMA OpenFailsInvariant == IInv /\ OpenFails => IInv'
<1> SUFFICES ASSUME IInv, OpenFails PROVE IInv'
  OBVIOUS
<1>1. /\ pc = "open" /\ pc' = "failed"
      /\ UNCHANGED <<file, core_count, current_chunk_start, offset, chunk_procs, queue,
                     joined, result>>
  BY DEF OpenFails
<1>2. Cutting' /\ LastChunkComplete'
  BY <1>1 DEF IInv, Cutting, LastChunkComplete
<1> QED
  BY <1>1, <1>2, MovesOn

LEMMA PrintResultInvariant == IInv /\ PrintResult => IInv'
<1> SUFFICES ASSUME IInv, PrintResult PROVE IInv'
  OBVIOUS
<1>1. /\ pc = "join" /\ pc' = "printed" /\ joined = Len(chunk_procs)
      /\ UNCHANGED <<file, core_count, current_chunk_start, offset, chunk_procs, queue,
                     joined, result>>
  BY DEF PrintResult
<1>2. Cutting' /\ LastChunkComplete'
  BY <1>1 DEF IInv, Cutting, LastChunkComplete, ChunkEnd, bytes_per_proc
<1> QED
  BY <1>1, <1>2, MovesOn

LEMMA OpenFileInvariant == IInv /\ OpenFile => IInv'
<1> SUFFICES ASSUME IInv, OpenFile PROVE IInv'
  OBVIOUS
<1>1. /\ pc = "open" /\ pc' = "split" /\ core_count' \in 1 .. MostCores
      /\ UNCHANGED <<file, current_chunk_start, offset, chunk_procs, queue, joined, result>>
  BY MostCoresBounds DEF OpenFile
<1>2. chunk_procs = <<>> /\ current_chunk_start = 0 /\ offset = 0
  BY <1>1 DEF IInv, Cutting
<1>3. DOMAIN chunk_procs = {} /\ Len(chunk_procs) = 0
  BY <1>2, EmptySeq
<1>4. TypeOK'
  BY <1>1, Facts DEF TypeOK
<1>5. core_count' \in Nat \ {0}
  BY <1>1
<1>6. ChunksFollow' /\ OneProcessPerCore' /\ InOrder' /\ DictsHaveRows' /\ LastChunkComplete'
  BY <1>1, <1>3, <1>4, <1>5
     DEF ChunksFollow, OneProcessPerCore, InOrder, DictsHaveRows, LastChunkComplete
<1>7. Cutting'
  <2>1. bytes_per_proc' \in Nat
    BY <1>1, <1>5, Facts, ShareBounds DEF bytes_per_proc
  <2>2. 0 + 0 * (bytes_per_proc' + 1) = 0
    <3>1. \A share \in Nat : 0 + 0 * (share + 1) = 0
      OBVIOUS
    <3> QED
      BY <2>1, <3>1
  <2>3. /\ pc' = "split" /\ chunk_procs' = <<>> /\ current_chunk_start' = 0 /\ offset' = 0
        /\ Len(chunk_procs') = 0 /\ DOMAIN chunk_procs' = {}
    BY <1>1, <1>2, <1>3
  <2> QED
    BY <2>2, <2>3 DEF Cutting
<1>8. Answers'
  <2>1. PICK order : IsOrder(order)
    BY DEF IInv, Answers
  <2>2. \A k : RowsAdded(k)' = RowsAdded(k)
    BY <1>1 DEF RowsAdded, ChunkEnd
  <2>3. Places' = Places /\ RowsTaken(order, joined)' = RowsTaken(order, joined)
    BY <1>1, <2>2 DEF Places, RowsTaken
  <2>4. IsOrder(order)'
    BY <1>1, <2>1, <2>2, <2>3 DEF IsOrder, Has
  <2> QED
    BY <2>4 DEF Answers
<1> QED
  BY <1>6, <1>7, <1>8 DEF IInv

-----------------------------------------------------------------------------
(***************************************************************************)
(* While main cuts chunks there are fewer than cores.                      *)
(***************************************************************************)
LEMMA SplitFacts ==
  ASSUME IInv, pc = "split"
  PROVE  /\ Len(chunk_procs) < core_count
         /\ current_chunk_start =
              IF Len(chunk_procs) = 0 THEN 0 ELSE ChunkEnd(Len(chunk_procs)) + 1
         /\ offset + Len(chunk_procs) * (bytes_per_proc + 1) = current_chunk_start
         /\ offset + Len(chunk_procs) <= current_chunk_start
         /\ \A k \in 1 .. Len(chunk_procs) :
              /\ ChunkEnd(k) \in file.newlines /\ ChunkEnd(k) < current_chunk_start
              /\ chunk_procs[k].start_pos <= ChunkEnd(k)
<1> DEFINE n == Len(chunk_procs)
           b == bytes_per_proc
<1>1. /\ n \in Nat /\ b \in Nat /\ offset \in Nat /\ current_chunk_start <= file.size
      /\ file.size \in Nat /\ core_count \in Nat \ {0} /\ current_chunk_start \in Nat
      /\ DOMAIN chunk_procs = 1 .. n
  BY Facts
<1>2. offset + n * (b + 1) = current_chunk_start
  BY DEF IInv, Cutting
<1>3. n * (b + 1) = n * b + n /\ n * b \in Nat
  BY <1>1
<1>4. n = 0 <=> chunk_procs = <<>>
  BY Facts, EmptySeq
<1>5. n * (b + 1) <= file.size
  BY <1>1, <1>2, <1>3
<1>6. n < core_count
  <2> HIDE DEF n
  <2> QED
    BY <1>1, <1>5, RoomForOneMore DEF b, bytes_per_proc
<1>7. offset + n <= current_chunk_start
  BY <1>1, <1>2, <1>3
<1> QED
  BY <1>1, <1>2, <1>4, <1>6, <1>7 DEF IInv, Cutting

(***************************************************************************)
(* A chunk of any length, added where the next one starts, follows the     *)
(* others, and leaves them and the answers as they are.                    *)
(***************************************************************************)
LEMMA ChunkAdded ==
  ASSUME IInv, pc = "split", NEW length \in Int, Start(current_chunk_start, length),
         UNCHANGED <<file, core_count, queue, joined, result>>,
         NEW n, n = Len(chunk_procs)
  PROVE  /\ chunk_procs' \in Seq(ChunkProc) /\ Len(chunk_procs') = n + 1
         /\ DOMAIN chunk_procs' = 1 .. n + 1
         /\ \A k \in 1 .. n : /\ chunk_procs'[k] = chunk_procs[k]
                               /\ ChunkEnd(k)' = ChunkEnd(k)
         /\ chunk_procs'[n + 1].start_pos = current_chunk_start
         /\ ChunkEnd(n + 1)' = current_chunk_start + length
         /\ \A k \in 1 .. n + 1 :
              chunk_procs'[k].start_pos = IF k = 1 THEN 0 ELSE ChunkEnd(k - 1)' + 1
         /\ OneProcessPerCore' /\ InOrder' /\ DictsHaveRows' /\ Answers'
<1> DEFINE new == [start_pos |-> current_chunk_start, length |-> length,
                   proc_result |-> Empty, state |-> "running"]
<1>1. /\ current_chunk_start \in Nat /\ n \in Nat /\ n < core_count /\ core_count \in Nat
      /\ DOMAIN chunk_procs = 1 .. n /\ chunk_procs \in Seq(ChunkProc)
      /\ DOMAIN queue = 1 .. Len(queue) /\ joined \in Nat /\ Len(queue) \in Nat
  BY Facts, SplitFacts
<1>2. new \in ChunkProc /\ new.start_pos = current_chunk_start /\ new.length = length
      /\ new.state = "running"
  BY <1>1, EmptyType DEF ChunkProc
<1>3. chunk_procs' = Append(chunk_procs, new)
  BY DEF Start
<1> HIDE DEF new
<1>4. /\ chunk_procs' \in Seq(ChunkProc) /\ Len(chunk_procs') = n + 1
      /\ \A k \in 1 .. n : chunk_procs'[k] = chunk_procs[k]
      /\ chunk_procs'[n + 1] = new
  BY <1>1, <1>2, <1>3, AppendProperties
<1>5. DOMAIN chunk_procs' = 1 .. n + 1
  BY <1>4, LenProperties
<1>6. \A k \in 1 .. n : ChunkEnd(k)' = ChunkEnd(k) /\ RowsAdded(k)' = RowsAdded(k)
  <2>1. ASSUME NEW k \in 1 .. n
        PROVE  ChunkEnd(k)' = ChunkEnd(k)
    BY <1>4 DEF ChunkEnd
  <2>2. ASSUME NEW k \in 1 .. n
        PROVE  RowsAdded(k)' = RowsAdded(k)
    BY <1>4, <2>1 DEF RowsAdded
  <2> QED
    BY <2>1, <2>2
<1>7. /\ ChunkEnd(n + 1)' = current_chunk_start + length
      /\ chunk_procs'[n + 1].start_pos = current_chunk_start
  <2>1. ChunkEnd(n + 1)' = chunk_procs'[n + 1].start_pos + chunk_procs'[n + 1].length
    BY DEF ChunkEnd
  <2> QED
    BY <1>2, <1>4, <2>1
<1>8. /\ \A k \in 1 .. n : /\ ChunkEnd(k) < current_chunk_start
                            /\ chunk_procs[k].start_pos <= ChunkEnd(k)
      /\ current_chunk_start = IF n = 0 THEN 0 ELSE ChunkEnd(n) + 1
  BY SplitFacts
<1>9. ASSUME NEW k \in 1 .. n + 1
      PROVE  chunk_procs'[k].start_pos = IF k = 1 THEN 0 ELSE ChunkEnd(k - 1)' + 1
  <2>1. CASE k \in 1 .. n
    <3>1. chunk_procs[k].start_pos = IF k = 1 THEN 0 ELSE ChunkEnd(k - 1) + 1
      BY <1>1, <2>1 DEF IInv, ChunksFollow
    <3>2. k # 1 => k - 1 \in 1 .. n
      BY <1>1, <2>1
    <3> QED
      BY <1>4, <1>6, <2>1, <3>1, <3>2
  <2>2. CASE k = n + 1
    <3>1. n # 0 => n \in 1 .. n
      BY <1>1
    <3>2. (n + 1) - 1 = n /\ (n + 1 = 1 <=> n = 0)
      BY <1>1
    <3> QED
      BY <1>6, <1>7, <1>8, <2>2, <3>1, <3>2
  <2> QED
    BY <1>1, <2>1, <2>2
<1>10. OneProcessPerCore'
  BY <1>1, <1>4 DEF OneProcessPerCore
<1>11. InOrder'
  <2>1. SUFFICES ASSUME NEW k \in 1 .. n + 1, NEW l \in 1 .. n + 1, k < l
                 PROVE  /\ chunk_procs'[k].start_pos <= ChunkEnd(k)'
                        /\ ChunkEnd(k)' < chunk_procs'[l].start_pos
    BY <1>5 DEF InOrder
  <2>2. k \in 1 .. n
    BY <1>1, <2>1
  <2>3. CASE l \in 1 .. n
    BY <1>1, <1>4, <1>6, <2>1, <2>2, <2>3 DEF IInv, InOrder
  <2>4. CASE l = n + 1
    BY <1>4, <1>6, <1>7, <1>8, <2>2, <2>4
  <2> QED
    BY <1>1, <2>3, <2>4
<1>12. DictsHaveRows'
  <2>1. SUFFICES ASSUME NEW k \in 1 .. n + 1, chunk_procs'[k].state = "putting"
                 PROVE  chunk_procs'[k].proc_result = Has(RowsAdded(k))'
    BY <1>5 DEF DictsHaveRows
  <2>2. k \in 1 .. n /\ chunk_procs'[k] = chunk_procs[k]
    BY <1>1, <1>2, <1>4, <2>1
  <2>3. chunk_procs[k].proc_result = Has(RowsAdded(k))
    BY <1>1, <2>1, <2>2 DEF IInv, DictsHaveRows
  <2> QED
    BY <1>6, <2>2, <2>3 DEF Has
<1>13. Answers'
  <2>1. PICK order : IsOrder(order)
    BY DEF IInv, Answers
  <2>2. /\ Places' = Places
        /\ \A j \in Places : order[j] \in 1 .. n /\ order[j] \in 1 .. n + 1
    BY <1>1, <2>1 DEF Places, IsOrder
  <2>3. \A j \in DOMAIN queue : joined + j \in Places
    BY <1>1 DEF Places
  <2>4. \A j \in 1 .. joined : j \in Places
    BY <1>1 DEF Places
  <2>5. RowsTaken(order, joined)' = RowsTaken(order, joined)
    BY <1>6, <2>2, <2>4 DEF RowsTaken
  <2>6. order \in [Places' -> DOMAIN chunk_procs']
    BY <1>5, <2>1, <2>2 DEF IsOrder
  <2>7. \A j \in Places : chunk_procs'[order[j]].state = "ended"
    BY <1>4, <2>1, <2>2 DEF IsOrder
  <2>8. \A j \in DOMAIN queue : RowsAdded(order[joined + j])' = RowsAdded(order[joined + j])
    BY <1>6, <2>2, <2>3
  <2>9. IsOrder(order)'
    BY <2>1, <2>2, <2>5, <2>6, <2>7, <2>8 DEF IsOrder, Has
  <2> QED
    BY <2>9 DEF Answers
<1> QED
  BY <1>4, <1>5, <1>6, <1>7, <1>9, <1>10, <1>11, <1>12, <1>13

LEMMA CutChunkInvariant == IInv /\ CutChunk => IInv'
<1> SUFFICES ASSUME IInv, CutChunk PROVE IInv'
  OBVIOUS
<1>n. PICK n, b : n = Len(chunk_procs) /\ b = bytes_per_proc
  OBVIOUS
<1>1. /\ pc = "split" /\ UNCHANGED <<file, pc, core_count, queue, joined, result>>
  BY DEF CutChunk
<1>2. /\ n \in Nat /\ b \in Nat /\ offset \in Nat /\ current_chunk_start \in Nat
      /\ file.size \in Nat /\ n < core_count /\ core_count \in Nat
      /\ \A p \in file.newlines : p \in Nat /\ p < file.size
      /\ offset + n * (b + 1) = current_chunk_start
  BY <1>n, <1>1, Facts, SplitFacts
<1>3. PICK newline \in file.newlines :
        /\ current_chunk_start + b <= newline
        /\ offset' = offset + (newline - (current_chunk_start + b))
        /\ Start(current_chunk_start, b + (newline - (current_chunk_start + b)))
        /\ current_chunk_start' = newline + 1
  BY <1>n DEF CutChunk, NextStart
<1> DEFINE length == newline - current_chunk_start
<1>4. /\ length = b + (newline - (current_chunk_start + b))
      /\ length \in Int /\ 0 <= length /\ current_chunk_start + length = newline
  BY <1>2, <1>3
<1>5. Start(current_chunk_start, length)
  BY <1>3, <1>4
<1> HIDE DEF length
<1>6. /\ chunk_procs' \in Seq(ChunkProc) /\ Len(chunk_procs') = n + 1
      /\ DOMAIN chunk_procs' = 1 .. n + 1
      /\ \A k \in 1 .. n : /\ chunk_procs'[k] = chunk_procs[k]
                            /\ ChunkEnd(k)' = ChunkEnd(k)
      /\ chunk_procs'[n + 1].start_pos = current_chunk_start
      /\ ChunkEnd(n + 1)' = newline
      /\ \A k \in 1 .. n + 1 :
           chunk_procs'[k].start_pos = IF k = 1 THEN 0 ELSE ChunkEnd(k - 1)' + 1
      /\ OneProcessPerCore' /\ InOrder' /\ DictsHaveRows' /\ Answers'
  BY <1>n, <1>1, <1>4, <1>5, ChunkAdded
<1>7. ASSUME NEW k \in 1 .. n + 1
      PROVE  /\ ChunkEnd(k)' \in file.newlines /\ ChunkEnd(k)' < newline + 1
             /\ chunk_procs'[k].start_pos <= ChunkEnd(k)'
  <2>1. newline \in Nat /\ current_chunk_start <= newline
    BY <1>2, <1>3
  <2>2. CASE k = n + 1
    BY <1>6, <2>1, <2>2
  <2>3. CASE k \in 1 .. n
    <3>1. /\ ChunkEnd(k) \in file.newlines /\ ChunkEnd(k) < current_chunk_start
          /\ chunk_procs[k].start_pos <= ChunkEnd(k)
      BY <1>n, <1>1, <2>3, SplitFacts
    <3>2. ChunkEnd(k) \in Nat
      BY <1>2, <3>1
    <3> QED
      BY <1>2, <1>6, <2>1, <2>3, <3>1, <3>2
  <2> QED
    BY <1>2, <2>2, <2>3
<1>8. offset' + (n + 1) * (b + 1) = newline + 1 /\ offset' \in 0 .. file.size
  <2> DEFINE nb == n * (b + 1)
  <2>1. (n + 1) * (b + 1) = nb + (b + 1) /\ nb \in Nat
    <3>1. b + 1 \in Nat
      BY <1>2
    <3> QED
      BY <1>2, <3>1, OneMoreTimes
  <2>2. offset + nb = current_chunk_start
    BY <1>2
  <2> HIDE DEF nb
  <2>3. newline \in Nat /\ newline < file.size
    BY <1>2
  <2> QED
    BY <1>2, <1>3, <2>1, <2>2, <2>3
<1>9. TypeOK'
  <2>1. current_chunk_start' \in 0 .. file.size
    <3>1. newline \in Nat /\ newline < file.size
      BY <1>2
    <3> QED
      BY <1>2, <1>3, <3>1
  <2>2. joined' \in 0 .. n + 1
    BY <1>n, <1>1, <1>2, Facts
  <2> QED
    BY <1>1, <1>6, <1>8, <2>1, <2>2, Facts DEF TypeOK
<1>10. ChunksFollow'
  BY <1>1, <1>6, <1>7, <1>9 DEF ChunksFollow
<1>11. LastChunkComplete'
  BY <1>1 DEF LastChunkComplete
<1>12. Cutting'
  <2>1. bytes_per_proc' = b
    BY <1>n, <1>1 DEF bytes_per_proc
  <2>2. chunk_procs' # <<>>
    BY <1>2, <1>6
  <2> QED
    BY <1>1, <1>3, <1>6, <1>7, <1>8, <2>1, <2>2 DEF Cutting
<1> QED
  BY <1>6, <1>10, <1>11, <1>12 DEF IInv

LEMMA LastChunkInvariant == IInv /\ LastChunk => IInv'
<1> SUFFICES ASSUME IInv, LastChunk PROVE IInv'
  OBVIOUS
<1>n. PICK n, b, from : /\ n = Len(chunk_procs) /\ b = bytes_per_proc
                        /\ from = current_chunk_start + b
  OBVIOUS
<1>1. /\ pc = "split" /\ pc' = "join"
      /\ UNCHANGED <<file, core_count, current_chunk_start, queue, joined, result>>
  BY DEF LastChunk
<1>2. /\ n \in Nat /\ b \in Nat /\ offset \in Nat /\ current_chunk_start \in Nat
      /\ file.size \in Nat /\ n < core_count /\ core_count \in Nat \ {0}
      /\ current_chunk_start <= file.size /\ b <= file.size
      /\ offset <= current_chunk_start /\ from \in Nat
  <2>1. offset + n <= current_chunk_start /\ n < core_count
    BY <1>n, <1>1, SplitFacts
  <2>2. /\ n \in Nat /\ b \in Nat /\ offset \in Nat /\ current_chunk_start \in Nat
        /\ file.size \in Nat /\ core_count \in Nat \ {0}
        /\ current_chunk_start <= file.size /\ b <= file.size
    BY <1>n, Facts
  <2> QED
    BY <1>n, <2>1, <2>2
<1>a. offset + n * (b + 1) = current_chunk_start /\ b = file.size \div core_count
  BY <1>n, <1>1, SplitFacts DEF bytes_per_proc
<1>3. PICK extra : extra = IF file.size > from THEN file.size - from ELSE 0
  OBVIOUS
<1>4. /\ offset' = offset + extra /\ extra \in Nat
      /\ Start(current_chunk_start, LastLength(current_chunk_start, b + extra, offset'))
  <2>1. \A d \in Int : Max({0, d}) = IF d > 0 THEN d ELSE 0
    BY DEF Max
  <2>a. PICK d : d = file.size - from
    OBVIOUS
  <2>b. d \in Int /\ (d > 0 <=> file.size > from)
    BY <1>2, <2>a
  <2>2. Max({0, file.size - from}) = extra /\ extra \in Nat
    BY <1>3, <2>1, <2>a, <2>b
  <2> QED
    BY <1>n, <2>2 DEF LastChunk
<1>5. PICK length : length = LastLength(current_chunk_start, b + extra, offset')
  OBVIOUS
<1>6. /\ length \in Int
      /\ current_chunk_start + (b + extra) >= file.size
      /\ length = IF from > file.size /\ core_count > 1 THEN b - offset ELSE b + extra
      /\ from > file.size => extra = 0
  <2>1. /\ current_chunk_start + (b + extra) >= file.size
        /\ from > file.size => extra = 0
        /\ current_chunk_start + (b + extra) > file.size <=> from > file.size
    BY <1>n, <1>2, <1>3
  <2>2. length = IF from > file.size /\ core_count > 1 THEN (b + extra) - offset' ELSE b + extra
    <3>1. length = IF current_chunk_start + (b + extra) > file.size /\ core_count > 1
                   THEN (b + extra) - offset' ELSE b + extra
      BY <1>5 DEF LastLength
    <3> QED
      BY <1>2, <1>4, <2>1, <3>1
  <2> QED
    BY <1>2, <1>4, <2>1, <2>2
<1>7. offset' \in 0 .. file.size
  <2>1. CASE file.size > from
    <3>1. offset <= from /\ from \in Nat /\ file.size \in Nat /\ offset \in Nat
      BY <1>n, <1>2
    <3>2. offset' = offset + (file.size - from)
      BY <1>3, <1>4, <2>1
    <3> QED
      BY <2>1, <3>1, <3>2
  <2>2. CASE ~ file.size > from
    BY <1>2, <1>3, <1>4, <2>2
  <2> QED
    BY <2>1, <2>2
<1>8. /\ chunk_procs' \in Seq(ChunkProc) /\ Len(chunk_procs') = n + 1
      /\ DOMAIN chunk_procs' = 1 .. n + 1
      /\ \A k \in 1 .. n : /\ chunk_procs'[k] = chunk_procs[k]
                            /\ ChunkEnd(k)' = ChunkEnd(k)
      /\ chunk_procs'[n + 1].start_pos = current_chunk_start
      /\ ChunkEnd(n + 1)' = current_chunk_start + length
      /\ \A k \in 1 .. n + 1 :
           chunk_procs'[k].start_pos = IF k = 1 THEN 0 ELSE ChunkEnd(k - 1)' + 1
      /\ OneProcessPerCore' /\ InOrder' /\ DictsHaveRows' /\ Answers'
  BY <1>n, <1>1, <1>4, <1>5, <1>6, ChunkAdded
<1>9. TypeOK'
  <2>1. joined' \in 0 .. n + 1
    BY <1>n, <1>1, <1>2, Facts
  <2> QED
    BY <1>1, <1>7, <1>8, <2>1, Facts DEF TypeOK
<1>10. ChunksFollow'
  <2>1. ASSUME NEW k \in 1 .. n + 1, k < n + 1 PROVE ChunkEnd(k)' \in file.newlines
    <3>1. k \in 1 .. n
      BY <1>2, <2>1
    <3>2. ChunkEnd(k) \in file.newlines
      BY <1>n, <1>1, <3>1, SplitFacts
    <3> QED
      BY <1>8, <3>1, <3>2
  <2> QED
    BY <1>1, <1>8, <1>9, <2>1 DEF ChunksFollow
<1>11. LastChunkComplete'
  <2>1. SUFFICES ASSUME offset' + (n + 1) - 1 <= b
                 PROVE  current_chunk_start + length >= file.size
    <3>1. bytes_per_proc' = b
      BY <1>n, <1>1 DEF bytes_per_proc
    <3>2. Len(chunk_procs') = n + 1 /\ file' = file
          /\ ChunkEnd(n + 1)' = current_chunk_start + length
      BY <1>1, <1>8
    <3> QED
      BY <3>1, <3>2 DEF LastChunkComplete
  <2>2. CASE from > file.size /\ core_count > 1
    <3>1. offset + n <= b
      BY <1>2, <1>4, <1>6, <2>1, <2>2
    <3>2. file.size <= current_chunk_start + b - offset
      BY ZenonT(30), <1>n, <1>a, <1>2, <2>2, <3>1, LastShareReachesEnd
    <3> QED
      BY <1>2, <1>6, <2>2, <3>2
  <2>3. CASE ~ (from > file.size /\ core_count > 1)
    BY <1>6, <2>3
  <2> QED
    BY <2>2, <2>3
<1>12. Cutting'
  <2>1. chunk_procs' # <<>>
    BY <1>2, <1>8
  <2> QED
    BY <1>1, <2>1 DEF Cutting
<1> QED
  BY <1>8, <1>10, <1>11, <1>12 DEF IInv

-----------------------------------------------------------------------------
(***************************************************************************)
(* Steps that leave the chunks as they are.                                *)
(***************************************************************************)
LEMMA SameChunks ==
  ASSUME IInv, TypeOK',
         UNCHANGED <<file, pc, core_count, current_chunk_start, offset>>,
         Len(chunk_procs') = Len(chunk_procs),
         \A k \in 1 .. Len(chunk_procs) :
           /\ chunk_procs'[k].start_pos = chunk_procs[k].start_pos
           /\ chunk_procs'[k].length = chunk_procs[k].length,
         pc = "printed" => joined' = Len(chunk_procs)
  PROVE  /\ ChunksFollow' /\ LastChunkComplete' /\ Cutting' /\ OneProcessPerCore' /\ InOrder'
         /\ \A k \in 1 .. Len(chunk_procs) : RowsAdded(k)' = RowsAdded(k)
<1>n. PICK n : n = Len(chunk_procs)
  OBVIOUS
<1>1. n \in Nat /\ DOMAIN chunk_procs = 1 .. n /\ DOMAIN chunk_procs' = 1 .. n
  BY <1>n, Facts, LenProperties DEF TypeOK
<1>2. \A k \in 1 .. n : ChunkEnd(k)' = ChunkEnd(k)
  BY <1>n DEF ChunkEnd
<1>3. n # 0 <=> chunk_procs # <<>>
  BY <1>n, Facts, EmptySeq
<1>4. n # 0 <=> chunk_procs' # <<>>
  BY <1>n, EmptySeq DEF TypeOK
<1>5. n # 0 => n \in 1 .. n
  BY <1>1
<1>6. \A k \in 1 .. n : k # 1 => k - 1 \in 1 .. n
  BY <1>1
<1>7. ChunksFollow'
  <2>1. \A k \in 1 .. n :
          /\ chunk_procs[k].start_pos = IF k = 1 THEN 0 ELSE ChunkEnd(k - 1) + 1
          /\ k < n => ChunkEnd(k) \in file.newlines
    BY <1>n, <1>1 DEF IInv, ChunksFollow
  <2>2. \A k \in 1 .. n :
          /\ chunk_procs'[k].start_pos = IF k = 1 THEN 0 ELSE ChunkEnd(k - 1)' + 1
          /\ k < n => ChunkEnd(k)' \in file.newlines
    BY <1>n, <1>2, <1>6, <2>1
  <2> QED
    BY <1>n, <1>1, <2>2 DEF ChunksFollow
<1>8. LastChunkComplete'
  <2>1. pc \in {"join", "printed"} => n # 0
    BY <1>3 DEF IInv, Cutting
  <2>2. bytes_per_proc' = bytes_per_proc
    BY DEF bytes_per_proc
  <2>3. n # 0 => ChunkEnd(n)' = ChunkEnd(n)
    BY <1>2, <1>5
  <2> QED
    BY <1>n, <2>1, <2>2, <2>3 DEF IInv, LastChunkComplete
<1>9. Cutting'
  <2>1. pc' \in {"open", "failed"} =>
          chunk_procs' = <<>> /\ current_chunk_start' = 0 /\ offset' = 0
    BY <1>3, <1>4 DEF IInv, Cutting
  <2>2. pc' = "split" =>
       /\ current_chunk_start' =
            IF chunk_procs' = <<>> THEN 0 ELSE ChunkEnd(Len(chunk_procs))' + 1
       /\ offset' + Len(chunk_procs') * (bytes_per_proc' + 1) = current_chunk_start'
    <3>1. ASSUME pc = "split"
          PROVE  /\ current_chunk_start =
                      IF chunk_procs = <<>> THEN 0 ELSE ChunkEnd(n) + 1
                 /\ offset + n * (bytes_per_proc + 1) = current_chunk_start
      BY <1>n, <3>1 DEF IInv, Cutting
    <3>2. bytes_per_proc' = bytes_per_proc
      BY DEF bytes_per_proc
    <3>3. n # 0 => ChunkEnd(Len(chunk_procs))' = ChunkEnd(n)
      <4>1. Len(chunk_procs') = n
        BY <1>n
      <4>2. ChunkEnd(Len(chunk_procs))' = chunk_procs'[n].start_pos + chunk_procs'[n].length
        BY <4>1 DEF ChunkEnd
      <4> QED
        BY <1>n, <1>5, <4>2 DEF ChunkEnd
    <3>4. pc' = pc /\ current_chunk_start' = current_chunk_start /\ offset' = offset
          /\ Len(chunk_procs') = n
      BY <1>n
    <3> QED
      BY <1>3, <1>4, <3>1, <3>2, <3>3, <3>4
  <2>3. pc' = "split" =>
          \A k \in 1 .. n : /\ ChunkEnd(k)' \in file.newlines
                            /\ ChunkEnd(k)' < current_chunk_start
                            /\ chunk_procs'[k].start_pos <= ChunkEnd(k)'
    BY <1>n, <1>2, SplitFacts
  <2>4. /\ pc' \in {"join", "printed"} => chunk_procs' # <<>>
        /\ pc' = "printed" => joined' = Len(chunk_procs')
    BY <1>3, <1>4 DEF IInv, Cutting
  <2> QED
    BY <1>1, <2>1, <2>2, <2>3, <2>4 DEF Cutting
<1>10. OneProcessPerCore'
  BY DEF IInv, OneProcessPerCore
<1>11. InOrder'
  <2>1. \A k, l \in 1 .. n :
          k < l => /\ chunk_procs[k].start_pos <= ChunkEnd(k)
                   /\ ChunkEnd(k) < chunk_procs[l].start_pos
    BY <1>1 DEF IInv, InOrder
  <2>2. \A k, l \in 1 .. n :
          k < l => /\ chunk_procs'[k].start_pos <= ChunkEnd(k)'
                   /\ ChunkEnd(k)' < chunk_procs'[l].start_pos
    BY <1>n, <1>2, <2>1
  <2> QED
    BY <1>1, <2>2 DEF InOrder
<1>12. \A k \in 1 .. n : RowsAdded(k)' = RowsAdded(k)
  BY <1>n, <1>2 DEF RowsAdded
<1> QED
  BY <1>n, <1>7, <1>8, <1>9, <1>10, <1>11, <1>12

(***************************************************************************)
(* A step of a process changes its record, but not its chunk.  Processes   *)
(* whose dictionaries were put before have ended, and are not disturbed.   *)
(***************************************************************************)
LEMMA ProcessMoves ==
  ASSUME IInv, NEW n, n = Len(chunk_procs), NEW i \in 1 .. n, NEW new \in ChunkProc,
         chunk_procs[i].state # "ended",
         new.start_pos = chunk_procs[i].start_pos, new.length = chunk_procs[i].length,
         new.state = "putting" => new.proc_result = Has(RowsAdded(i)),
         chunk_procs' = [chunk_procs EXCEPT ![i] = new],
         queue' \in Seq(Tables),
         UNCHANGED <<file, pc, core_count, current_chunk_start, offset, joined, result>>
  PROVE  /\ ChunksFollow' /\ LastChunkComplete' /\ Cutting' /\ OneProcessPerCore' /\ InOrder'
         /\ DictsHaveRows' /\ DOMAIN chunk_procs' = 1 .. n
         /\ \A k \in 1 .. n : /\ RowsAdded(k)' = RowsAdded(k)
                              /\ chunk_procs'[k] = IF k = i THEN new ELSE chunk_procs[k]
         /\ \A order : IsOrder(order) =>
              /\ \A j \in Places : order[j] \in 1 .. n /\ order[j] # i
              /\ RowsTaken(order, joined)' = RowsTaken(order, joined)
<1>1. /\ n \in Nat /\ DOMAIN chunk_procs = 1 .. n /\ chunk_procs \in Seq(ChunkProc)
      /\ joined \in Nat /\ Len(queue) \in Nat
  BY Facts
<1>2. /\ chunk_procs' \in Seq(ChunkProc) /\ Len(chunk_procs') = n
      /\ \A k \in 1 .. n : chunk_procs'[k] = IF k = i THEN new ELSE chunk_procs[k]
  BY <1>1, ExceptSeq
<1>3. DOMAIN chunk_procs' = 1 .. n
  BY <1>2, LenProperties
<1>4. TypeOK'
  <2>1. joined' \in 0 .. Len(chunk_procs')
    BY <1>2, Facts
  <2> QED
    BY <1>2, <2>1, Facts DEF TypeOK
<1>5. \A k \in 1 .. n : /\ chunk_procs'[k].start_pos = chunk_procs[k].start_pos
                        /\ chunk_procs'[k].length = chunk_procs[k].length
  BY <1>2
<1>6. pc = "printed" => joined' = n
  BY DEF IInv, Cutting
<1>7. /\ ChunksFollow' /\ LastChunkComplete' /\ Cutting' /\ OneProcessPerCore' /\ InOrder'
      /\ \A k \in 1 .. n : RowsAdded(k)' = RowsAdded(k)
  BY <1>2, <1>4, <1>5, <1>6, SameChunks
<1>8. DictsHaveRows'
  <2>1. SUFFICES ASSUME NEW k \in 1 .. n, chunk_procs'[k].state = "putting"
                 PROVE  chunk_procs'[k].proc_result = Has(RowsAdded(k))'
    BY <1>3 DEF DictsHaveRows
  <2>2. chunk_procs'[k].proc_result = Has(RowsAdded(k))
    <3>1. CASE k = i
      BY <1>2, <2>1, <3>1
    <3>2. CASE k # i
      BY <1>1, <1>2, <2>1, <3>2 DEF IInv, DictsHaveRows
    <3> QED
      BY <3>1, <3>2
  <2> QED
    BY <1>7, <2>2 DEF Has
<1>9. ASSUME NEW order, IsOrder(order)
      PROVE  /\ \A j \in Places : order[j] \in 1 .. n /\ order[j] # i
             /\ RowsTaken(order, joined)' = RowsTaken(order, joined)
  <2>1. \A j \in Places : order[j] \in 1 .. n /\ order[j] # i
    BY <1>1, <1>9 DEF IsOrder
  <2>2. \A j \in 1 .. joined : j \in Places
    BY <1>1 DEF Places
  <2>3. RowsTaken(order, joined)' = RowsTaken(order, joined)
    BY <1>7, <2>1, <2>2 DEF RowsTaken
  <2> QED
    BY <2>1, <2>3
<1> QED
  BY <1>2, <1>3, <1>7, <1>8, <1>9

(***************************************************************************)
(* If it puts nothing, the answers are as they were.                       *)
(***************************************************************************)
LEMMA ProcessMovesAlone ==
  ASSUME IInv, NEW n, n = Len(chunk_procs), NEW i \in 1 .. n, NEW new \in ChunkProc,
         chunk_procs[i].state # "ended",
         new.start_pos = chunk_procs[i].start_pos, new.length = chunk_procs[i].length,
         new.state = "putting" => new.proc_result = Has(RowsAdded(i)),
         chunk_procs' = [chunk_procs EXCEPT ![i] = new],
         UNCHANGED <<file, pc, core_count, current_chunk_start, offset, queue, joined, result>>
  PROVE  IInv'
<1>1. /\ ChunksFollow' /\ LastChunkComplete' /\ Cutting' /\ OneProcessPerCore' /\ InOrder'
      /\ DictsHaveRows' /\ DOMAIN chunk_procs' = 1 .. n
      /\ \A k \in 1 .. n : /\ RowsAdded(k)' = RowsAdded(k)
                           /\ chunk_procs'[k] = IF k = i THEN new ELSE chunk_procs[k]
      /\ \A order : IsOrder(order) =>
           /\ \A j \in Places : order[j] \in 1 .. n /\ order[j] # i
           /\ RowsTaken(order, joined)' = RowsTaken(order, joined)
  BY ProcessMoves, Facts
<1>2. PICK order : IsOrder(order)
  BY DEF IInv, Answers
<1>3. Places' = Places /\ DOMAIN chunk_procs = 1 .. n
  BY Facts DEF Places
<1>4. /\ \A j \in Places : order[j] \in 1 .. n /\ order[j] # i
      /\ RowsTaken(order, joined)' = RowsTaken(order, joined)
  BY <1>1, <1>2
<1>5. \A j \in DOMAIN queue : joined + j \in Places
  BY SMTT(30), Facts DEF Places
<1>6. \A j \in Places : chunk_procs'[order[j]].state = "ended"
  BY <1>1, <1>2, <1>4 DEF IsOrder
<1>7. \A j \in DOMAIN queue : RowsAdded(order[joined + j])' = RowsAdded(order[joined + j])
  BY <1>1, <1>4, <1>5
<1>8. IsOrder(order)'
  BY <1>1, <1>2, <1>3, <1>4, <1>6, <1>7 DEF IsOrder, Has
<1> QED
  BY <1>1, <1>8 DEF IInv, Answers

LEMMA ProcessChunkInvariant ==
  ASSUME NEW i \in DOMAIN chunk_procs, IInv, ProcessChunk(i)
  PROVE  IInv'
<1>n. PICK n : n = Len(chunk_procs)
  OBVIOUS
<1> DEFINE old == chunk_procs[i]
           new == [old EXCEPT !.proc_result = AddAll(RowsAdded(i)), !.state = "putting"]
<1>1. i \in 1 .. n /\ old \in ChunkProc /\ IsFile(file) /\ chunk_procs \in Seq(ChunkProc)
  BY <1>n, Facts
<1>2. AddAll(RowsAdded(i)) = Has(RowsAdded(i)) /\ Has(RowsAdded(i)) \in Tables
  BY <1>1, AddedAreRows, AddAllHas, HasType
<1>3. /\ new \in ChunkProc /\ new.start_pos = old.start_pos /\ new.length = old.length
      /\ new.proc_result = Has(RowsAdded(i))
  BY <1>1, <1>2 DEF ChunkProc
<1>4. /\ old.state # "ended" /\ chunk_procs' = [chunk_procs EXCEPT ![i] = new]
      /\ UNCHANGED <<file, pc, core_count, current_chunk_start, offset, queue, joined, result>>
  BY DEF ProcessChunk, AddAll
<1> HIDE DEF new
<1> QED
  BY <1>n, <1>1, <1>3, <1>4, ProcessMovesAlone

LEMMA FailInvariant ==
  ASSUME NEW i \in DOMAIN chunk_procs, IInv, Fail(i)
  PROVE  IInv'
<1>n. PICK n : n = Len(chunk_procs)
  OBVIOUS
<1> DEFINE old == chunk_procs[i]
           new == [old EXCEPT !.state = "failed"]
<1>1. i \in 1 .. n /\ old \in ChunkProc /\ chunk_procs \in Seq(ChunkProc)
  BY <1>n, Facts
<1>2. /\ new \in ChunkProc /\ new.start_pos = old.start_pos /\ new.length = old.length
      /\ new.state # "putting"
  BY <1>1 DEF ChunkProc
<1>3. /\ old.state # "ended" /\ chunk_procs' = [chunk_procs EXCEPT ![i] = new]
      /\ UNCHANGED <<file, pc, core_count, current_chunk_start, offset, queue, joined, result>>
  BY DEF Fail
<1> HIDE DEF new
<1> QED
  BY <1>n, <1>1, <1>2, <1>3, ProcessMovesAlone

(***************************************************************************)
(* A process that puts its dictionary comes last in the order.             *)
(***************************************************************************)
LEMMA PutInvariant ==
  ASSUME NEW i \in DOMAIN chunk_procs, IInv, Put(i)
  PROVE  IInv'
<1>n. PICK n, m : n = Len(chunk_procs) /\ m = Len(queue)
  OBVIOUS
<1>o. PICK old, new : old = chunk_procs[i] /\ new = [old EXCEPT !.state = "ended"]
  OBVIOUS
<1>1. /\ i \in 1 .. n /\ old \in ChunkProc /\ chunk_procs \in Seq(ChunkProc)
      /\ n \in Nat /\ m \in Nat /\ joined \in Nat /\ queue \in Seq(Tables)
      /\ DOMAIN queue = 1 .. m /\ DOMAIN chunk_procs = 1 .. n
  BY <1>n, <1>o, Facts
<1>2. /\ new \in ChunkProc /\ new.start_pos = old.start_pos /\ new.length = old.length
      /\ new.state # "putting" /\ new.state = "ended"
  BY <1>o, <1>1 DEF ChunkProc
<1>3. /\ old.state = "putting" /\ chunk_procs' = [chunk_procs EXCEPT ![i] = new]
      /\ queue' = Append(queue, old.proc_result)
      /\ UNCHANGED <<file, pc, core_count, current_chunk_start, offset, joined, result>>
  BY <1>o DEF Put
<1>4. old.proc_result \in Tables /\ old.proc_result = Has(RowsAdded(i))
  BY <1>o, <1>1, <1>3 DEF ChunkProc, IInv, DictsHaveRows
<1>5. /\ queue' \in Seq(Tables) /\ Len(queue') = m + 1
      /\ \A j \in 1 .. m : queue'[j] = queue[j]
      /\ queue'[m + 1] = Has(RowsAdded(i))
  BY <1>n, <1>1, <1>3, <1>4, AppendProperties
<1>6. DOMAIN queue' = 1 .. m + 1
  BY <1>5, LenProperties
<1>7. /\ ChunksFollow' /\ LastChunkComplete' /\ Cutting' /\ OneProcessPerCore' /\ InOrder'
      /\ DictsHaveRows' /\ DOMAIN chunk_procs' = 1 .. n
      /\ \A k \in 1 .. n : /\ RowsAdded(k)' = RowsAdded(k)
                           /\ chunk_procs'[k] = IF k = i THEN new ELSE chunk_procs[k]
      /\ \A order : IsOrder(order) =>
           /\ \A j \in Places : order[j] \in 1 .. n /\ order[j] # i
           /\ RowsTaken(order, joined)' = RowsTaken(order, joined)
  <2>1. /\ new \in ChunkProc /\ chunk_procs[i].state # "ended"
        /\ new.start_pos = chunk_procs[i].start_pos /\ new.length = chunk_procs[i].length
        /\ new.state = "putting" => new.proc_result = Has(RowsAdded(i))
    BY <1>o, <1>2, <1>3
  <2>2. /\ chunk_procs' = [chunk_procs EXCEPT ![i] = new] /\ queue' \in Seq(Tables)
        /\ UNCHANGED <<file, pc, core_count, current_chunk_start, offset, joined, result>>
    BY <1>3, <1>5
  <2>3. n = Len(chunk_procs) /\ i \in 1 .. n
    BY <1>n, <1>1
  <2> QED
    BY ZenonT(30), <2>1, <2>2, <2>3, ProcessMoves
<1>8. PICK order : IsOrder(order)
  BY DEF IInv, Answers
<1>9. /\ order \in [Places -> DOMAIN chunk_procs]
      /\ \A j, l \in Places : order[j] = order[l] => j = l
      /\ \A j \in Places : /\ chunk_procs[order[j]].state = "ended"
                           /\ order[j] \in 1 .. n /\ order[j] # i
      /\ \A j \in 1 .. m : queue[j] = Has(RowsAdded(order[joined + j]))
      /\ result = Has(RowsTaken(order, joined))
      /\ RowsTaken(order, joined)' = RowsTaken(order, joined)
  <2>1. /\ \A j \in Places : order[j] \in 1 .. n /\ order[j] # i
        /\ RowsTaken(order, joined)' = RowsTaken(order, joined)
    BY <1>7, <1>8
  <2>2. /\ order \in [Places -> DOMAIN chunk_procs]
        /\ \A j, l \in Places : order[j] = order[l] => j = l
        /\ \A j \in Places : chunk_procs[order[j]].state = "ended"
        /\ \A j \in 1 .. m : queue[j] = Has(RowsAdded(order[joined + j]))
        /\ result = Has(RowsTaken(order, joined))
    BY <1>1, <1>8 DEF IsOrder
  <2> QED
    BY <2>1, <2>2
<1>p. PICK last : last = joined + m + 1
  OBVIOUS
<1>10. /\ Places = 1 .. last - 1 /\ Places' = 1 .. last /\ last \in Nat \ {0}
       /\ last \notin Places
  <2>1. joined + Len(queue) = last - 1 /\ last \in Nat \ {0}
    BY <1>n, <1>1, <1>p
  <2>2. joined' + Len(queue') = last
    BY <1>1, <1>3, <1>5, <1>p
  <2> QED
    BY <2>1, <2>2 DEF Places
<1>q. PICK order1 : order1 = [j \in 1 .. last |-> IF j = last THEN i ELSE order[j]]
  OBVIOUS
<1>11. /\ order1[last] = i /\ \A j \in Places : order1[j] = order[j]
       /\ order1 \in [Places' -> DOMAIN chunk_procs']
       /\ \A j \in Places' : j \in Places \/ j = last
  <2>1. \A j \in 1 .. last : j \in Places \/ j = last
    BY <1>10
  <2>2. \A j \in Places : j \in 1 .. last /\ j # last
    BY <1>10
  <2>3. last \in 1 .. last
    BY <1>10
  <2>4. \A j \in 1 .. last : (IF j = last THEN i ELSE order[j]) \in 1 .. n
    BY <1>1, <1>9, <2>1
  <2> QED
    BY <1>7, <1>10, <1>q, <2>1, <2>2, <2>3, <2>4
<1>12. \A j, l \in Places' : order1[j] = order1[l] => j = l
  BY <1>9, <1>11
<1>13. \A j \in Places' : chunk_procs'[order1[j]].state = "ended"
  BY SMTT(30), <1>1, <1>2, <1>7, <1>9, <1>11
<1>14. RowsTaken(order1, joined)' = RowsTaken(order, joined)
  <2>1. \A j \in 1 .. joined : j \in Places
    BY <1>1, <1>10, <1>p
  <2>2. \A j \in 1 .. joined : RowsAdded(order1[j])' = RowsAdded(order[j])
    BY <1>7, <1>9, <1>11, <2>1
  <2> QED
    BY <1>3, <2>2 DEF RowsTaken
<1>15. \A j \in 1 .. m + 1 : queue'[j] = Has(RowsAdded(order1[joined + j]))'
  <2>1. SUFFICES ASSUME NEW j \in 1 .. m + 1
                 PROVE  queue'[j] = Has(RowsAdded(order1[joined + j]))'
    OBVIOUS
  <2>2. CASE j \in 1 .. m
    <3>1. joined + j \in Places
      BY <1>1, <1>10, <1>p, <2>2
    <3>2. RowsAdded(order1[joined + j])' = RowsAdded(order[joined + j])
      BY <1>3, <1>7, <1>9, <1>11, <3>1
    <3>3. queue'[j] = Has(RowsAdded(order[joined + j])) /\ file' = file
      BY <1>3, <1>5, <1>9, <2>2
    <3> QED
      BY <3>2, <3>3 DEF Has
  <2>3. CASE j = m + 1
    <3>1. joined + j = last
      BY <1>1, <1>p, <2>3
    <3>2. RowsAdded(order1[joined + j])' = RowsAdded(i)
      BY <1>1, <1>3, <1>7, <1>11, <3>1
    <3>3. queue'[j] = Has(RowsAdded(i)) /\ file' = file
      BY <1>3, <1>5, <2>3
    <3> QED
      BY <3>2, <3>3 DEF Has
  <2> QED
    BY <1>1, <2>2, <2>3
<1>16. result' = Has(RowsTaken(order1, joined))'
  BY <1>3, <1>9, <1>14 DEF Has
<1>17. IsOrder(order1)'
  BY <1>6, <1>11, <1>12, <1>13, <1>15, <1>16 DEF IsOrder
<1> QED
  BY <1>7, <1>17 DEF IInv, Answers

(***************************************************************************)
(* main merges the first dictionary of the queue, whosever it is.          *)
(***************************************************************************)
LEMMA MergeType ==
  ASSUME NEW a \in Stat, NEW b \in Stat
  PROVE  Merge(a, b) \in Stat
  BY DEF Stat, Merge, Lesser, Greater

LEMMA MergedType ==
  ASSUME NEW g \in Tables, NEW m \in Tables
  PROVE  Merged(g, m) \in Tables
  BY MergeType DEF Merged, Tables

LEMMA AddedDisjoint ==
  ASSUME IInv, NEW k \in DOMAIN chunk_procs, NEW l \in DOMAIN chunk_procs, k # l
  PROVE  RowsAdded(k) \cap RowsAdded(l) = {}
<1>1. /\ k \in Nat /\ l \in Nat
      /\ \A p \in file.newlines : p \in Nat
      /\ \A i \in DOMAIN chunk_procs : chunk_procs[i].start_pos \in Nat /\ ChunkEnd(i) \in Int
  BY Facts
<1>2. ASSUME NEW i \in DOMAIN chunk_procs, NEW j \in DOMAIN chunk_procs, i < j,
             NEW p \in RowsAdded(i), p \in RowsAdded(j)
      PROVE  FALSE
  <2>1. ChunkEnd(i) < chunk_procs[j].start_pos
    BY <1>2 DEF IInv, InOrder
  <2>2. p < ChunkEnd(i) /\ chunk_procs[j].start_pos <= p /\ p \in Nat
    BY <1>1, <1>2 DEF RowsAdded
  <2> QED
    BY <1>1, <2>1, <2>2
<1> QED
  BY <1>1, <1>2

LEMMA JoinAndGetInvariant == IInv /\ JoinAndGet => IInv'
<1> SUFFICES ASSUME IInv, JoinAndGet PROVE IInv'
  OBVIOUS
<1>n. PICK n, m, next : n = Len(chunk_procs) /\ m = Len(queue) /\ next = joined + 1
  OBVIOUS
<1>1. /\ pc = "join" /\ joined < n /\ queue # <<>>
      /\ result' = Merged(result, Head(queue))
      /\ queue' = Tail(queue) /\ joined' = next
      /\ UNCHANGED <<file, pc, core_count, current_chunk_start, offset, chunk_procs>>
  BY <1>n DEF JoinAndGet
<1>2. /\ n \in Nat /\ m \in Nat /\ m # 0 /\ joined \in Nat /\ queue \in Seq(Tables)
      /\ DOMAIN queue = 1 .. m /\ DOMAIN chunk_procs = 1 .. n /\ result \in Tables
      /\ IsFile(file) /\ next \in Nat
  BY <1>n, <1>1, Facts, EmptySeq DEF TypeOK
<1>3. /\ queue' \in Seq(Tables) /\ Len(queue') = m - 1
      /\ \A j \in 1 .. m - 1 : queue'[j] = queue[j + 1]
      /\ queue[1] \in Tables
  BY <1>n, <1>1, <1>2, HeadTailProperties, ElementOfSeq
<1>4. Head(queue) = queue[1]
  BY <1>2
<1>5. DOMAIN queue' = 1 .. m - 1
  BY <1>3, LenProperties
<1>6. TypeOK'
  <2>1. result' \in Tables
    BY <1>1, <1>2, <1>3, <1>4, MergedType
  <2>2. joined' \in 0 .. Len(chunk_procs')
    BY <1>n, <1>1, <1>2
  <2> QED
    BY <1>1, <1>3, <2>1, <2>2, Facts DEF TypeOK
<1>7. ChunksFollow' /\ LastChunkComplete' /\ Cutting' /\ OneProcessPerCore' /\ InOrder'
  BY <1>1, <1>6, SameChunks
<1>8. \A k : RowsAdded(k)' = RowsAdded(k)
  BY <1>1 DEF RowsAdded, ChunkEnd
<1>9. DictsHaveRows'
  BY <1>1, <1>8 DEF IInv, DictsHaveRows, Has
<1>10. PICK order : IsOrder(order)
  BY DEF IInv, Answers
<1>11. /\ order \in [Places -> DOMAIN chunk_procs]
       /\ \A j, l \in Places : order[j] = order[l] => j = l
       /\ \A j \in Places : chunk_procs[order[j]].state = "ended"
       /\ \A j \in 1 .. m : queue[j] = Has(RowsAdded(order[joined + j]))
       /\ result = Has(RowsTaken(order, joined))
  BY <1>2, <1>10 DEF IsOrder
<1>12. Places' = Places /\ \A j \in 1 .. joined + m : j \in Places
  BY <1>n, <1>1, <1>2, <1>3 DEF Places
<1>13. next \in Places /\ \A j \in 1 .. joined : j \in Places /\ j # next
  BY <1>n, <1>2, <1>12
<1>14. Head(queue) = Has(RowsAdded(order[next]))
  <2>1. queue[1] = Has(RowsAdded(order[joined + 1]))
    BY <1>2, <1>11
  <2> QED
    BY <1>n, <1>4, <2>1
<1>15. RowsTaken(order, joined) \cap RowsAdded(order[next]) = {}
  <2>1. \A j \in 1 .. joined : order[j] # order[next]
    BY <1>11, <1>13
  <2>2. \A j \in 1 .. joined : RowsAdded(order[j]) \cap RowsAdded(order[next]) = {}
    BY <1>11, <1>13, <2>1, AddedDisjoint
  <2> QED
    BY <2>2 DEF RowsTaken
<1>16. RowsTaken(order, joined)' = RowsTaken(order, joined) \cup RowsAdded(order[next])
  <2>1. \A j : j \in 1 .. next <=> j \in 1 .. joined \/ j = next
    BY <1>n, <1>2
  <2>2. RowsAdded(order[next]) \in SUBSET file.newlines
    BY DEF RowsAdded
  <2>3. RowsTaken(order, joined)' =
          {p \in file.newlines : \E j \in 1 .. next : p \in RowsAdded(order[j])}
    BY <1>1, <1>8 DEF RowsTaken
  <2> QED
    BY <2>1, <2>2, <2>3 DEF RowsTaken
<1>17. result' = Has(RowsTaken(order, joined))'
  <2>1. result' = Has(RowsTaken(order, joined) \cup RowsAdded(order[next]))
    <3>1. IsRowSet(file, RowsTaken(order, joined)) /\ IsRowSet(file, RowsAdded(order[next]))
      BY <1>2, AddedAreRows
    <3> QED
      BY <1>1, <1>11, <1>14, <1>15, <3>1, MergedHas
  <2> QED
    BY <1>1, <1>16, <2>1 DEF Has
<1>18. \A j \in 1 .. m - 1 : queue'[j] = Has(RowsAdded(order[joined + j]))'
  <2>1. SUFFICES ASSUME NEW j \in 1 .. m - 1
                 PROVE  queue'[j] = Has(RowsAdded(order[joined + j]))'
    OBVIOUS
  <2>2. j + 1 \in 1 .. m /\ joined + (j + 1) = next + j
    BY <1>n, <1>2
  <2>3. queue'[j] = Has(RowsAdded(order[next + j]))
    BY <1>3, <1>11, <2>2
  <2>4. RowsAdded(order[joined + j])' = RowsAdded(order[next + j])
    BY <1>1, <1>8
  <2>5. file' = file
    BY <1>1
  <2> QED
    BY <2>3, <2>4, <2>5 DEF Has
<1>19. IsOrder(order)'
  BY <1>1, <1>5, <1>11, <1>12, <1>17, <1>18 DEF IsOrder
<1> QED
  BY <1>7, <1>9, <1>19 DEF IInv, Answers

-----------------------------------------------------------------------------
LEMMA NextInvariant == IInv /\ [Next]_vars => IInv'
<1> SUFFICES ASSUME IInv, [Next]_vars PROVE IInv'
  OBVIOUS
<1>1. CASE Main
  BY <1>1, OpenFileInvariant, OpenFailsInvariant, CutChunkInvariant, LastChunkInvariant,
     JoinAndGetInvariant, PrintResultInvariant DEF Main
<1>2. CASE \E k \in DOMAIN chunk_procs : Process(k)
  BY <1>2, ProcessChunkInvariant, PutInvariant, FailInvariant DEF Process
<1>3. CASE UNCHANGED vars
  BY <1>3, StutterInvariant
<1> QED
  BY <1>1, <1>2, <1>3 DEF Next

(***************************************************************************)
(* The inductive invariant holds throughout.                               *)
(***************************************************************************)
THEOREM Invariance == Spec => []IInv
  BY InitInvariant, NextInvariant, PTL DEF Spec

(***************************************************************************)
(* The chunks follow one another with one newline between them, whatever   *)
(* the file and the number of cores; and the variables keep their types.   *)
(***************************************************************************)
THEOREM ChunksFollowOneAnother == Spec => []ChunksFollow
<1>1. IInv => ChunksFollow
  BY DEF IInv
<1> QED
  BY <1>1, Invariance, PTL

(***************************************************************************)
(* The last chunk loses no row as long as the bytes that the others got in *)
(* excess, and the newlines between them, are fewer than one share.        *)
(***************************************************************************)
THEOREM LastChunkReachesEnd == Spec => []LastChunkComplete
<1>1. IInv => LastChunkComplete
  BY DEF IInv
<1> QED
  BY <1>1, Invariance, PTL

(***************************************************************************)
(* The queue always has room for a process that is about to put, because   *)
(* what is in it came from as many other processes: main, which joins a    *)
(* process before it makes room, never waits for one that waits for room.  *)
(***************************************************************************)
THEOREM PutNeverBlocks == Spec => []QueueHasRoom
<1>1. ASSUME IInv, NEW k \in DOMAIN chunk_procs, chunk_procs[k].state = "putting"
      PROVE  Len(queue) < QueueSize
  <2>n. PICK n, S, places : n = Len(chunk_procs) /\ S = (1 .. n) \ {k} /\ places = Places
    OBVIOUS
  <2>1. /\ n \in Nat /\ DOMAIN chunk_procs = 1 .. n /\ Len(queue) \in Nat /\ joined \in Nat
        /\ k \in 1 .. n /\ core_count \in Nat /\ n <= core_count
    BY <1>1, <2>n, Facts DEF IInv, OneProcessPerCore
  <2>2. IsFiniteSet(S) /\ Cardinality(S) = n - 1
    <3>1. IsFiniteSet(1 .. n) /\ Cardinality(1 .. n) = n
      BY <2>1, FS_Interval
    <3> QED
      BY <2>n, <2>1, <3>1, FS_RemoveElement
  <2>3. PICK order : IsOrder(order)
    BY <1>1 DEF IInv, Answers
  <2>4. order \in Injection(places, S)
    <3>1. \A j \in places : order[j] \in S
      BY <1>1, <2>n, <2>1, <2>3 DEF IsOrder
    <3>2. order \in [places -> S]
      BY <2>n, <2>3, <3>1 DEF IsOrder
    <3>3. \A j, l \in places : order[j] = order[l] => j = l
      BY <2>n, <2>3 DEF IsOrder
    <3> QED
      BY <3>2, <3>3 DEF Injection, IsInjective
  <2>5. Cardinality(places) <= n - 1
    BY <2>2, <2>4, FS_Injection
  <2>6. Cardinality(places) = joined + Len(queue)
    <3>1. PICK m : m = joined + Len(queue)
      OBVIOUS
    <3>2. m \in Nat /\ places = 1 .. m
      BY <2>n, <2>1, <3>1 DEF Places
    <3> QED
      BY <3>1, <3>2, FS_Interval
  <2>7. Len(queue) < core_count
    BY <2>1, <2>5, <2>6
  <2> QED
    BY <2>7 DEF QueueSize
<1>2. IInv => QueueHasRoom
  BY <1>1 DEF QueueHasRoom
<1> QED
  BY <1>2, Invariance, PTL

(***************************************************************************)
(* When main has joined every process, every process has put its           *)
(* dictionary, and main has taken it.                                      *)
(***************************************************************************)
LEMMA OrderIsComplete ==
  ASSUME IInv, pc = "printed", NEW order, IsOrder(order), NEW n, n = Len(chunk_procs)
  PROVE  /\ n \in Nat /\ n # 0 /\ joined = n /\ DOMAIN chunk_procs = 1 .. n
         /\ 1 .. n \in SUBSET Places
         /\ \A k \in 1 .. n : \E j \in 1 .. n : order[j] = k
<1>1. /\ n \in Nat /\ DOMAIN chunk_procs = 1 .. n /\ Len(queue) \in Nat /\ joined = n
      /\ n # 0
  BY Facts, EmptySeq DEF IInv, Cutting
<1>2. PICK I, m : I = 1 .. n /\ m = n + Len(queue)
  OBVIOUS
<1>3. m \in Nat /\ n <= m /\ Places = 1 .. m
  BY <1>1, <1>2 DEF Places
<1>4. order \in Injection(1 .. m, I)
  <2>1. order \in [1 .. m -> I] /\ \A j, l \in 1 .. m : order[j] = order[l] => j = l
    BY <1>1, <1>2, <1>3 DEF IsOrder
  <2> QED
    BY <2>1 DEF Injection, IsInjective
<1>5. IsFiniteSet(I) /\ Cardinality(I) = n /\ Cardinality(1 .. m) = m
  <2>1. \A i \in Nat : IsFiniteSet(1 .. i) /\ Cardinality(1 .. i) = i
    BY SMTT(30), FS_Interval
  <2> QED
    BY <1>1, <1>2, <1>3, <2>1
<1>6. /\ Cardinality(1 .. m) <= Cardinality(I)
      /\ Cardinality(1 .. m) = Cardinality(I) <=> order \in Surjection(1 .. m, I)
  BY <1>4, <1>5, FS_Injection
<1>7. m = n /\ order \in Surjection(1 .. m, I)
  BY <1>1, <1>3, <1>5, <1>6
<1>8. \A k \in 1 .. n : \E j \in 1 .. n : order[j] = k
  BY <1>2, <1>7 DEF Surjection
<1> QED
  BY <1>1, <1>3, <1>7, <1>8

(***************************************************************************)
(* An answer is printed only if every process has ended without failing:   *)
(* main takes as many dictionaries as there are processes, each from one   *)
(* of its own.                                                             *)
(***************************************************************************)
THEOREM PrintsNoPartialAnswer == Spec => []NoPartialAnswer
<1>1. ASSUME IInv, pc = "printed", NEW k \in DOMAIN chunk_procs
      PROVE  chunk_procs[k].state = "ended"
  <2>1. PICK order, n : IsOrder(order) /\ n = Len(chunk_procs)
    BY <1>1 DEF IInv, Answers
  <2>2. /\ DOMAIN chunk_procs = 1 .. n /\ 1 .. n \in SUBSET Places
        /\ \A i \in 1 .. n : \E j \in 1 .. n : order[j] = i
    BY <1>1, <2>1, OrderIsComplete
  <2>3. PICK j \in Places : order[j] = k
    BY <2>2
  <2> QED
    BY <2>1, <2>3 DEF IsOrder
<1>2. IInv => NoPartialAnswer
  BY <1>1 DEF NoPartialAnswer, AllEnded
<1> QED
  BY <1>2, Invariance, PTL

(***************************************************************************)
(* The rows of the chunks are those before the end of the last chunk,      *)
(* except those whose newline ends a chunk.                                *)
(***************************************************************************)
LEMMA ChunksHaveAllButLost ==
  ASSUME IInv, pc = "printed", NEW n, n = Len(chunk_procs), NEW p \in file.newlines
  PROVE  (\E k \in 1 .. n : p \in RowsAdded(k)) <=> p < LastEnd /\ p \notin LostRows
<1>1. /\ n \in Nat /\ n # 0 /\ DOMAIN chunk_procs = 1 .. n /\ p \in Nat
      /\ \A k \in 1 .. n : chunk_procs[k].start_pos \in Nat /\ ChunkEnd(k) \in Int
  BY Facts, EmptySeq DEF IInv, Cutting
<1>2. \A k, l \in 1 .. n :
        k < l => /\ chunk_procs[k].start_pos <= ChunkEnd(k)
                 /\ ChunkEnd(k) < chunk_procs[l].start_pos
  BY <1>1 DEF IInv, InOrder
<1>3. \A k \in 1 .. n : chunk_procs[k].start_pos = IF k = 1 THEN 0 ELSE ChunkEnd(k - 1) + 1
  BY <1>1 DEF IInv, ChunksFollow
<1>4. \A k \in 1 .. n :
        p \in RowsAdded(k) <=> chunk_procs[k].start_pos <= p /\ p < ChunkEnd(k)
  BY DEF RowsAdded
<1>5. p \in LostRows <=> \E l \in 1 .. n - 1 : p = ChunkEnd(l)
  BY DEF LostRows
<1>s. PICK s, e : s = chunk_procs[n].start_pos /\ e = ChunkEnd(n)
  OBVIOUS
<1>6. s \in Nat /\ e \in Int /\ LastEnd = IF e > s THEN e ELSE s
  <2>1. n \in 1 .. n
    BY <1>1
  <2>2. s \in Nat /\ e \in Int
    BY <1>1, <1>s, <2>1
  <2>3. \A a, b \in Int : Max({a, b}) = IF b > a THEN b ELSE a
    BY DEF Max
  <2>4. LastEnd = Max({s, e})
    BY <1>s DEF LastEnd
  <2> QED
    BY <2>2, <2>3, <2>4
<1>7. ASSUME NEW k \in 1 .. n, p \in RowsAdded(k)
      PROVE  p < LastEnd /\ p \notin LostRows
  <2>1. chunk_procs[k].start_pos <= p /\ p < ChunkEnd(k)
    BY <1>4, <1>7
  <2>2. p < LastEnd
    <3>1. CASE k = n
      BY <1>1, <1>s, <1>6, <2>1, <3>1
    <3>2. CASE k # n
      <4>1. k < n /\ n \in 1 .. n
        BY <1>1, <3>2
      <4>2. ChunkEnd(k) < s
        BY <1>2, <1>s, <4>1
      <4> QED
        BY <1>1, <1>6, <2>1, <4>2
    <3> QED
      BY <3>1, <3>2
  <2>3. ASSUME NEW l \in 1 .. n - 1, p = ChunkEnd(l) PROVE FALSE
    <3>1. l \in 1 .. n /\ l < n /\ n \in 1 .. n
      BY <1>1
    <3>2. CASE l < k
      <4>1. ChunkEnd(l) < chunk_procs[k].start_pos
        BY <1>2, <3>1, <3>2
      <4> QED
        BY <1>1, <2>1, <2>3, <3>1, <4>1
    <3>3. CASE k < l
      <4>1. ChunkEnd(k) < chunk_procs[l].start_pos /\ chunk_procs[l].start_pos <= ChunkEnd(l)
        BY <1>2, <3>1, <3>3
      <4> QED
        BY <1>1, <2>1, <2>3, <3>1, <4>1
    <3>4. CASE k = l
      BY <1>1, <2>1, <2>3, <3>4
    <3> QED
      BY <1>1, <3>1, <3>2, <3>3, <3>4
  <2> QED
    BY <1>5, <2>2, <2>3
<1>8. ASSUME p < LastEnd, p \notin LostRows
      PROVE  \E k \in 1 .. n : p \in RowsAdded(k)
  <2>1. CASE s <= p
    <3>1. p < e /\ n \in 1 .. n
      BY <1>1, <1>6, <1>8, <2>1
    <3> QED
      BY <1>4, <1>s, <2>1, <3>1
  <2>2. CASE p < s
    <3>m. PICK m : m = n - 1
      OBVIOUS
    <3> DEFINE start == [k \in 1 .. m |-> chunk_procs[k].start_pos]
               end == [k \in 1 .. m |-> ChunkEnd(k)]
    <3>1. n # 1 /\ n \in 1 .. n /\ s = ChunkEnd(n - 1) + 1
      <4>1. s = IF n = 1 THEN 0 ELSE ChunkEnd(n - 1) + 1
        BY SMTT(30), <1>1, <1>3, <1>s
      <4> QED
        BY <1>1, <2>2, <4>1
    <3>2. m \in Nat /\ m # 0 /\ m \in 1 .. m /\ \A k \in 1 .. m : k \in 1 .. n
      BY <1>1, <3>1, <3>m
    <3>3. \A k \in 1 .. m : /\ start[k] \in Int /\ end[k] \in Int
                            /\ start[k] = IF k = 1 THEN 0 ELSE end[k - 1] + 1
      <4>1. ASSUME NEW k \in 1 .. m
            PROVE  start[k] = IF k = 1 THEN 0 ELSE end[k - 1] + 1
        <5>1. chunk_procs[k].start_pos = IF k = 1 THEN 0 ELSE ChunkEnd(k - 1) + 1
          BY <1>3, <3>2
        <5>2. k # 1 => k - 1 \in 1 .. m
          BY <3>2
        <5> QED
          BY <5>1, <5>2
      <4> QED
        BY <1>1, <3>2, <4>1
    <3>4. end[m] = ChunkEnd(n - 1) /\ end[m] \in Int
      BY <1>1, <3>2, <3>m
    <3> HIDE DEF start, end
    <3>5. p <= end[m]
      <4>1. s = end[m] + 1
        BY <3>1, <3>4
      <4> QED
        BY <1>1, <2>2, <3>4, <4>1
    <3>6. PICK k \in 1 .. m : start[k] <= p /\ p <= end[k]
      BY <1>1, <3>2, <3>3, <3>5, ChunkOfByte
    <3>7. chunk_procs[k].start_pos <= p /\ p <= ChunkEnd(k) /\ k \in 1 .. n
      BY <3>2, <3>6 DEF start, end
    <3>8. p # ChunkEnd(k)
      BY <1>5, <1>8, <3>6, <3>m
    <3>9. p < ChunkEnd(k)
      BY <1>1, <3>7, <3>8
    <3> QED
      BY <1>4, <3>7, <3>9
  <2> QED
    BY <1>1, <1>6, <2>1, <2>2
<1> QED
  BY <1>7, <1>8

(***************************************************************************)
(* What is printed is the statistics of the rows before the end of the     *)
(* last chunk but the last row of every other chunk, for every file and    *)
(* number of cores, in whichever order the processes put their             *)
(* dictionaries.                                                           *)
(***************************************************************************)
THEOREM PrintsAllRowsButLostOnes == Spec => []PrintsAllButLostRows
<1>1. ASSUME IInv, pc = "printed"
      PROVE  result = Tally(file, {p \in file.newlines : p < LastEnd} \ LostRows)
  <2>1. PICK order, n : IsOrder(order) /\ n = Len(chunk_procs)
    BY <1>1 DEF IInv, Answers
  <2>2. /\ joined = n /\ DOMAIN chunk_procs = 1 .. n /\ 1 .. n \in SUBSET Places
        /\ \A k \in 1 .. n : \E j \in 1 .. n : order[j] = k
    BY <1>1, <2>1, OrderIsComplete
  <2>3. \A j \in 1 .. n : order[j] \in 1 .. n
    BY <2>1, <2>2 DEF IsOrder
  <2>4. RowsTaken(order, joined) =
          {p \in file.newlines : \E k \in 1 .. n : p \in RowsAdded(k)}
    BY <2>2, <2>3 DEF RowsTaken
  <2>5. RowsTaken(order, joined) = {p \in file.newlines : p < LastEnd} \ LostRows
    <3>1. \A p \in file.newlines :
            (\E k \in 1 .. n : p \in RowsAdded(k)) <=> p < LastEnd /\ p \notin LostRows
      BY <1>1, <2>1, ChunksHaveAllButLost
    <3> QED
      BY <2>4, <3>1
  <2>6. Has(RowsTaken(order, joined)) = Tally(file, RowsTaken(order, joined))
    <3> DEFINE R == RowsTaken(order, joined)
               hi == -1000000
    <3>1. hi \in Int /\ hi <= -999 /\ 1000000 \in Int /\ 999 <= 1000000
      OBVIOUS
    <3>2. IsRowSet(file, R)
      BY <1>1, Facts, AddedAreRows
    <3> HIDE DEF hi, R
    <3>3. Held(file, R, 1000000, hi) = Tally(file, R)
      BY <3>1, <3>2, HeldIsTally
    <3> QED
      BY <3>3 DEF Has, hi, R
  <2>7. result = Has(RowsTaken(order, joined))
    BY <2>1 DEF IsOrder
  <2> QED
    BY <2>5, <2>6, <2>7
<1>2. IInv => PrintsAllButLostRows
  BY <1>1 DEF PrintsAllButLostRows
<1> QED
  BY <1>2, Invariance, PTL

-----------------------------------------------------------------------------
(***************************************************************************)
(* The program comes to an end.  What is left to do, as a number: a byte   *)
(* that is not cut may cost the start of a process, its rows, its put and  *)
(* its join.                                                               *)
(***************************************************************************)
Working == {k \in DOMAIN chunk_procs : chunk_procs[k].state = "running"}

Unfinished == {k \in DOMAIN chunk_procs : chunk_procs[k].state \in {"running", "putting"}}

BytesLeft == IF pc \in {"open", "split"} THEN 4 * (file.size - current_chunk_start) ELSE 0

MainLeft ==
  CASE pc = "open"  -> 6
    [] pc = "split" -> 5
    [] pc = "join"  -> 1
    [] OTHER        -> 0

Left ==
  BytesLeft + MainLeft + (Len(chunk_procs) - joined)
    + Cardinality(Working) + Cardinality(Unfinished)

(***************************************************************************)
(* What main waits for, and a process.                                     *)
(***************************************************************************)
MainCanStep ==
  \/ pc = "open"
  \/ pc = "split" /\ LET from == current_chunk_start + bytes_per_proc IN
                     \/ \A p \in file.newlines : p < from
                     \/ \E newline \in file.newlines :
                          /\ from <= newline
                          /\ \A p \in from .. newline - 1 : p \notin file.newlines
  \/ pc = "join" /\ joined = Len(chunk_procs)
  \/ pc = "join" /\ joined < Len(chunk_procs) /\ queue # <<>>
       /\ chunk_procs[joined + 1].state \in {"ended", "failed"}

ProcessCanStep(k) ==
  \/ chunk_procs[k].state = "running"
  \/ chunk_procs[k].state = "putting" /\ Len(queue) < QueueSize

WaitsOnlyForFailed ==
  pc \notin {"printed", "failed"} =>
    \/ MainCanStep
    \/ \E k \in DOMAIN chunk_procs :
         ProcessCanStep(k) \/ chunk_procs[k].state = "failed"

(***************************************************************************)
(* An answer for each process that ended is in the queue or was taken from *)
(* it, and main joins processes that run no more.                          *)
(***************************************************************************)
AnswersKept ==
  /\ Cardinality({k \in DOMAIN chunk_procs : chunk_procs[k].state = "ended"}) =
       joined + Len(queue)
  /\ \A k \in 1 .. joined : chunk_procs[k].state \in {"ended", "failed"}

LEMMA SetFacts ==
  ASSUME IInv, NEW S \in SUBSET (DOMAIN chunk_procs)
  PROVE  IsFiniteSet(S) /\ Cardinality(S) \in Nat
<1>1. PICK n : n = Len(chunk_procs)
  OBVIOUS
<1>2. n \in Nat /\ S \in SUBSET (1 .. n)
  BY <1>1, Facts
<1>3. IsFiniteSet(1 .. n)
  BY <1>2, FS_Interval
<1>4. IsFiniteSet(S)
  BY <1>2, <1>3, FS_Subset
<1> QED
  BY <1>4, FS_CardinalityType

LEMMA LeftFacts ==
  ASSUME IInv
  PROVE  /\ BytesLeft \in Nat /\ MainLeft \in Nat /\ Len(chunk_procs) - joined \in Nat
         /\ IsFiniteSet(Working) /\ Cardinality(Working) \in Nat
         /\ IsFiniteSet(Unfinished) /\ Cardinality(Unfinished) \in Nat
<1>1. PICK s, c : s = file.size /\ c = current_chunk_start
  OBVIOUS
<1>2. s \in Nat /\ c \in Nat /\ c <= s
  BY <1>1, Facts
<1>3. 4 * (s - c) \in Nat
  BY <1>2
<1>4. BytesLeft \in Nat
  BY <1>1, <1>3 DEF BytesLeft
<1>5. MainLeft \in Nat
  BY DEF MainLeft
<1>6. Len(chunk_procs) - joined \in Nat
  BY Facts
<1>7. Working \in SUBSET (DOMAIN chunk_procs) /\ Unfinished \in SUBSET (DOMAIN chunk_procs)
  BY DEF Working, Unfinished
<1> QED
  BY <1>4, <1>5, <1>6, <1>7, SetFacts

LEMMA LeftIsNatural == ASSUME IInv PROVE Left \in Nat
<1>1. PICK a, b, c, d, e : /\ a = BytesLeft /\ b = MainLeft /\ c = Len(chunk_procs) - joined
                           /\ d = Cardinality(Working) /\ e = Cardinality(Unfinished)
  OBVIOUS
<1>2. a \in Nat /\ b \in Nat /\ c \in Nat /\ d \in Nat /\ e \in Nat
  BY <1>1, LeftFacts
<1>3. a + b + c + d + e \in Nat
  BY <1>2
<1> QED
  BY <1>1, <1>3 DEF Left

LEMMA ProcessMovesOn ==
  ASSUME IInv, NEW k \in DOMAIN chunk_procs, Process(k)
  PROVE  /\ UNCHANGED <<file, pc, current_chunk_start, joined>>
         /\ DOMAIN chunk_procs' = DOMAIN chunk_procs /\ Len(chunk_procs') = Len(chunk_procs)
         /\ \A l \in DOMAIN chunk_procs : l # k => chunk_procs'[l] = chunk_procs[l]
         /\ \/ /\ chunk_procs[k].state = "running" /\ chunk_procs'[k].state = "putting"
            \/ /\ chunk_procs[k].state = "putting" /\ chunk_procs'[k].state = "ended"
            \/ /\ chunk_procs[k].state = "running" /\ chunk_procs'[k].state = "failed"
<1>1. chunk_procs \in Seq(ChunkProc) /\ chunk_procs[k] \in ChunkProc
  BY Facts
<1>2. CASE ProcessChunk(k)
  <2> DEFINE d == FoldSet(LAMBDA p, dict : AddRow(dict, file.row[p]), Empty, RowsAdded(k))
  <2>1. /\ UNCHANGED <<file, pc, current_chunk_start, joined>>
        /\ chunk_procs[k].state = "running"
        /\ chunk_procs' = [chunk_procs EXCEPT ![k].proc_result = d, ![k].state = "putting"]
    BY <1>2 DEF ProcessChunk
  <2> HIDE DEF d
  <2> DEFINE new == [chunk_procs[k] EXCEPT !.proc_result = d, !.state = "putting"]
  <2>2. new.state = "putting"
    BY <1>1 DEF ChunkProc
  <2>3. chunk_procs' = [chunk_procs EXCEPT ![k] = new]
    BY <1>1, <2>1 DEF ChunkProc
  <2> HIDE DEF new
  <2>4. PICK S : S = ChunkProc \cup {new}
    OBVIOUS
  <2>5. chunk_procs \in Seq(S) /\ new \in S
    BY <1>1, <2>4
  <2>6. Len(chunk_procs') = Len(chunk_procs)
    BY <2>3, <2>5
  <2> QED
    BY <1>1, <2>1, <2>2, <2>3, <2>6
<1>3. CASE Put(k)
  BY <1>1, <1>3 DEF Put, ChunkProc
<1>4. CASE Fail(k)
  BY <1>1, <1>4 DEF Fail, ChunkProc
<1> QED
  BY <1>2, <1>3, <1>4 DEF Process

(***************************************************************************)
(* A process that moves on is in fewer of the two sets.                    *)
(***************************************************************************)
LEMMA ProcessFalls ==
  ASSUME IInv, NEW k \in DOMAIN chunk_procs, Process(k)
  PROVE  Left' < Left
<1>1. /\ UNCHANGED <<file, pc, current_chunk_start, joined>>
      /\ DOMAIN chunk_procs' = DOMAIN chunk_procs /\ Len(chunk_procs') = Len(chunk_procs)
      /\ \A l \in DOMAIN chunk_procs : l # k => chunk_procs'[l] = chunk_procs[l]
      /\ \/ /\ chunk_procs[k].state = "running" /\ chunk_procs'[k].state = "putting"
         \/ /\ chunk_procs[k].state = "putting" /\ chunk_procs'[k].state = "ended"
         \/ /\ chunk_procs[k].state = "running" /\ chunk_procs'[k].state = "failed"
  BY ProcessMovesOn
<1>2. PICK W, X, U, V : W = Working /\ X = Working' /\ U = Unfinished /\ V = Unfinished'
  OBVIOUS
<1>3. /\ IsFiniteSet(W) /\ IsFiniteSet(U) /\ X \in SUBSET W /\ V \in SUBSET U
      /\ X # W \/ V # U
  <2>1. IsFiniteSet(W) /\ IsFiniteSet(U)
    BY <1>2, LeftFacts
  <2>2. X \in SUBSET W /\ V \in SUBSET U
    BY <1>1, <1>2 DEF Working, Unfinished
  <2>3. X # W \/ V # U
    BY <1>1, <1>2 DEF Working, Unfinished
  <2> QED
    BY <2>1, <2>2, <2>3
<1>4. /\ Cardinality(X) <= Cardinality(W) /\ Cardinality(V) <= Cardinality(U)
      /\ Cardinality(X) \in Nat /\ Cardinality(W) \in Nat
      /\ Cardinality(V) \in Nat /\ Cardinality(U) \in Nat
      /\ X # W => Cardinality(X) < Cardinality(W)
      /\ V # U => Cardinality(V) < Cardinality(U)
  <2>1. IsFiniteSet(X) /\ IsFiniteSet(V)
    BY <1>3, FS_Subset
  <2> QED
    BY <1>3, <2>1, FS_Subset, FS_CardinalityType
<1>5. PICK a, b, c, d, e, f, g :
        /\ a = BytesLeft /\ b = MainLeft /\ c = Len(chunk_procs) - joined
        /\ d = Cardinality(W) /\ e = Cardinality(U)
        /\ f = Cardinality(X) /\ g = Cardinality(V)
  OBVIOUS
<1>6. a \in Nat /\ b \in Nat /\ c \in Nat
  BY <1>5, LeftFacts
<1>7. a + b + c + f + g < a + b + c + d + e
  <2>1. /\ d \in Nat /\ e \in Nat /\ f \in Nat /\ g \in Nat
        /\ f <= d /\ g <= e /\ (f < d \/ g < e)
    BY <1>3, <1>4, <1>5
  <2> QED
    BY <1>6, <2>1
<1>8. Left = a + b + c + d + e
  BY <1>2, <1>5 DEF Left
<1>9. Left' = a + b + c + f + g
  <2>1. BytesLeft' = a /\ MainLeft' = b /\ (Len(chunk_procs) - joined)' = c
    BY <1>1, <1>5 DEF BytesLeft, MainLeft
  <2> QED
    BY <1>2, <1>5, <2>1 DEF Left
<1> QED
  BY <1>7, <1>8, <1>9

(***************************************************************************)
(* A new process is in both sets.                                          *)
(***************************************************************************)
LEMMA StartAdds ==
  ASSUME IInv, NEW length, Start(current_chunk_start, length)
  PROVE  /\ Len(chunk_procs') = Len(chunk_procs) + 1
         /\ Cardinality(Working') = Cardinality(Working) + 1
         /\ Cardinality(Unfinished') = Cardinality(Unfinished) + 1
<1>1. PICK n : n = Len(chunk_procs)
  OBVIOUS
<1>2. n \in Nat /\ DOMAIN chunk_procs = 1 .. n /\ chunk_procs \in Seq(ChunkProc)
  BY <1>1, Facts
<1> DEFINE new == [start_pos |-> current_chunk_start, length |-> length,
                   proc_result |-> Empty, state |-> "running"]
<1>3. chunk_procs' = Append(chunk_procs, new) /\ new.state = "running"
  BY DEF Start
<1> HIDE DEF new
<1>4. /\ Len(chunk_procs') = n + 1 /\ DOMAIN chunk_procs' = 1 .. n + 1
      /\ chunk_procs'[n + 1] = new
      /\ \A k \in 1 .. n : chunk_procs'[k] = chunk_procs[k]
  BY <1>1, <1>2, <1>3
<1>5. 1 .. n + 1 = (1 .. n) \cup {n + 1} /\ n + 1 \notin 1 .. n
  BY <1>2
<1>6. Working' = Working \cup {n + 1} /\ n + 1 \notin Working
  BY <1>2, <1>3, <1>4, <1>5 DEF Working
<1>7. Unfinished' = Unfinished \cup {n + 1} /\ n + 1 \notin Unfinished
  BY <1>2, <1>3, <1>4, <1>5 DEF Unfinished
<1>8. /\ Cardinality(Working \cup {n + 1}) = Cardinality(Working) + 1
      /\ Cardinality(Unfinished \cup {n + 1}) = Cardinality(Unfinished) + 1
  BY <1>6, <1>7, LeftFacts, FS_AddElement
<1> QED
  BY <1>1, <1>4, <1>6, <1>7, <1>8

LEMMA MainFalls ==
  ASSUME IInv, IInv', Main
  PROVE  Left' < Left
<1>1. PICK a, b, c, d, e : /\ a = BytesLeft /\ b = MainLeft /\ c = Len(chunk_procs) - joined
                           /\ d = Cardinality(Working) /\ e = Cardinality(Unfinished)
  OBVIOUS
<1>2. a \in Nat /\ b \in Nat /\ c \in Nat /\ d \in Nat /\ e \in Nat
  BY <1>1, LeftFacts
<1>3. Left = a + b + c + d + e
  BY <1>1 DEF Left
<1>4. PICK f, g : f = BytesLeft' /\ g = MainLeft'
  OBVIOUS
<1>5. CASE OpenFile \/ OpenFails \/ PrintResult \/ JoinAndGet
  <2>1. UNCHANGED <<file, current_chunk_start, chunk_procs>>
    BY <1>5 DEF OpenFile, OpenFails, PrintResult, JoinAndGet
  <2>2. Cardinality(Working)' = d /\ Cardinality(Unfinished)' = e
    BY <1>1, <2>1 DEF Working, Unfinished
  <2>3. CASE OpenFile \/ OpenFails \/ PrintResult
    <3>1. /\ joined' = joined
          /\ \/ pc = "open" /\ pc' \in {"split", "failed"}
             \/ pc = "join" /\ pc' = "printed"
      BY <2>3 DEF OpenFile, OpenFails, PrintResult
    <3>2. f \in {a, 0}
      BY <1>1, <1>4, <2>1, <3>1 DEF BytesLeft
    <3>3. g \in Nat /\ g < b
      BY <1>1, <1>4, <3>1 DEF MainLeft
    <3>4. Left' = f + g + c + d + e
      BY <1>1, <1>4, <2>1, <2>2, <3>1 DEF Left
    <3>5. f + g + c + d + e < a + b + c + d + e
      BY <1>2, <3>2, <3>3
    <3> QED
      BY <1>3, <3>4, <3>5
  <2>4. CASE JoinAndGet
    <3>1. pc' = pc /\ joined' = joined + 1
      BY <2>4 DEF JoinAndGet
    <3>2. BytesLeft' = a /\ MainLeft' = b
      BY <1>1, <2>1, <3>1 DEF BytesLeft, MainLeft
    <3>3. (Len(chunk_procs) - joined)' = c - 1
      BY <1>1, <2>1, <3>1, Facts
    <3>4. Left' = a + b + (c - 1) + d + e
      BY <2>2, <3>2, <3>3 DEF Left
    <3>5. a + b + (c - 1) + d + e < a + b + c + d + e
      BY <1>2
    <3> QED
      BY <1>3, <3>4, <3>5
  <2> QED
    BY <1>5, <2>3, <2>4
<1>6. CASE CutChunk \/ LastChunk
  <2>1. UNCHANGED <<file, joined>> /\ pc = "split"
    BY <1>6 DEF CutChunk, LastChunk
  <2>2. PICK length : Start(current_chunk_start, length)
    BY <1>6 DEF CutChunk, LastChunk
  <2>3. /\ Cardinality(Working') = d + 1 /\ Cardinality(Unfinished') = e + 1
        /\ (Len(chunk_procs) - joined)' = c + 1
    <3>1. /\ Len(chunk_procs') = Len(chunk_procs) + 1
          /\ Cardinality(Working') = d + 1 /\ Cardinality(Unfinished') = e + 1
      BY <1>1, <2>2, StartAdds
    <3>2. Len(chunk_procs) \in Nat /\ joined \in Nat
      BY Facts
    <3> QED
      BY <1>1, <2>1, <3>1, <3>2
  <2>4. f \in Nat /\ g \in Nat /\ f + g + 4 <= a + b
    <3>1. CASE CutChunk
      <4>1. PICK newline \in file.newlines :
              /\ current_chunk_start + bytes_per_proc <= newline
              /\ current_chunk_start' = newline + 1
        BY <3>1 DEF CutChunk, NextStart
      <4>2. PICK s, x, y : s = file.size /\ x = current_chunk_start /\ y = current_chunk_start'
        OBVIOUS
      <4>3. s \in Nat /\ x \in Nat /\ y \in Nat /\ x < y /\ y <= s
        BY SMTT(30), <4>1, <4>2, Facts
      <4>4. pc' = "split"
        BY <2>1, <3>1 DEF CutChunk
      <4>5. a = 4 * (s - x) /\ f = 4 * (s - y) /\ g = b
        BY <1>1, <1>4, <2>1, <4>2, <4>4 DEF BytesLeft, MainLeft
      <4>6. f \in Nat /\ f + 4 <= a
        BY <4>3, <4>5
      <4> QED
        BY <1>2, <4>5, <4>6
    <3>2. CASE LastChunk
      <4>1. pc' = "join"
        BY <3>2 DEF LastChunk
      <4>2. f = 0 /\ g = 1 /\ b = 5
        BY <1>1, <1>4, <2>1, <4>1 DEF BytesLeft, MainLeft
      <4> QED
        BY <1>2, <4>2
    <3> QED
      BY <1>6, <3>1, <3>2
  <2>5. Left' = f + g + (c + 1) + (d + 1) + (e + 1)
    BY <1>4, <2>3 DEF Left
  <2>6. f + g + (c + 1) + (d + 1) + (e + 1) < a + b + c + d + e
    BY <1>2, <2>4
  <2> QED
    BY <1>3, <2>5, <2>6
<1> QED
  BY <1>5, <1>6 DEF Main

(***************************************************************************)
(* No run goes on for ever: each step leaves less to do, whatever main and *)
(* the processes do, and however they interleave or fail.                  *)
(***************************************************************************)
THEOREM EveryStepLeavesLess == Spec => [](Left \in Nat) /\ [][Left' < Left]_vars
<1>1. IInv => Left \in Nat
  BY LeftIsNatural
<1>2. IInv /\ IInv' /\ [Next]_vars => [Left' < Left]_vars
  BY MainFalls, ProcessFalls DEF Next
<1> QED
  BY <1>1, <1>2, Invariance, PTL DEF Spec

LEMMA AnswersInit == Init => AnswersKept
<1> SUFFICES ASSUME Init PROVE AnswersKept
  OBVIOUS
<1>1. chunk_procs = <<>> /\ queue = <<>> /\ joined = 0
  BY DEF Init
<1>2. {k \in DOMAIN chunk_procs : chunk_procs[k].state = "ended"} = {}
  BY <1>1
<1>3. Cardinality({k \in DOMAIN chunk_procs : chunk_procs[k].state = "ended"}) = 0
  BY <1>2, FS_EmptySet
<1> QED
  BY <1>1, <1>3 DEF AnswersKept

LEMMA AnswersNext == IInv /\ AnswersKept /\ [Next]_vars => AnswersKept'
<1> SUFFICES ASSUME IInv, AnswersKept, [Next]_vars PROVE AnswersKept'
  OBVIOUS
<1> DEFINE Ended == {k \in DOMAIN chunk_procs : chunk_procs[k].state = "ended"}
<1>1. /\ Len(chunk_procs) \in Nat /\ DOMAIN chunk_procs = 1 .. Len(chunk_procs)
      /\ joined \in Nat /\ joined <= Len(chunk_procs)
      /\ queue \in Seq(Tables) /\ Len(queue) \in Nat /\ chunk_procs \in Seq(ChunkProc)
  BY Facts
<1>2. IsFiniteSet(Ended)
  BY SetFacts
<1>3. Cardinality(Ended) = joined + Len(queue)
  BY DEF AnswersKept
<1> SUFFICES /\ Cardinality(Ended') = joined' + Len(queue')
             /\ \A k \in 1 .. joined' : chunk_procs'[k].state \in {"ended", "failed"}
  BY DEF AnswersKept
<1>4. \A k \in 1 .. joined : k \in DOMAIN chunk_procs
                             /\ chunk_procs[k].state \in {"ended", "failed"}
  BY <1>1 DEF AnswersKept
<1>5. CASE UNCHANGED <<chunk_procs, queue, joined>>
  BY <1>3, <1>4, <1>5
<1>6. CASE JoinAndGet
  <2>1. /\ UNCHANGED chunk_procs /\ joined' = joined + 1 /\ joined < Len(chunk_procs)
        /\ queue # <<>> /\ queue' = Tail(queue)
        /\ chunk_procs[joined + 1].state \in {"ended", "failed"}
    BY <1>6 DEF JoinAndGet
  <2>2. Len(queue) = Len(queue') + 1 /\ Len(queue') \in Nat
    BY <1>1, <2>1
  <2>3. joined' + Len(queue') = joined + Len(queue)
    BY <1>1, <2>1, <2>2
  <2>4. \A k \in 1 .. joined + 1 : k \in 1 .. joined \/ k = joined + 1
    BY <1>1
  <2> QED
    BY <1>3, <1>4, <2>1, <2>3, <2>4
<1>7. CASE CutChunk \/ LastChunk
  <2>1. UNCHANGED <<queue, joined>>
    BY <1>7 DEF CutChunk, LastChunk
  <2>2. PICK length : Start(current_chunk_start, length)
    BY <1>7 DEF CutChunk, LastChunk
  <2> DEFINE new == [start_pos |-> current_chunk_start, length |-> length,
                     proc_result |-> Empty, state |-> "running"]
  <2>3. chunk_procs' = Append(chunk_procs, new) /\ new.state = "running"
    BY <2>2 DEF Start
  <2> HIDE DEF new
  <2>4. PICK n : n = Len(chunk_procs)
    OBVIOUS
  <2>5. /\ DOMAIN chunk_procs' = 1 .. n + 1 /\ chunk_procs'[n + 1] = new
        /\ \A k \in 1 .. n : chunk_procs'[k] = chunk_procs[k]
        /\ 1 .. n + 1 = (1 .. n) \cup {n + 1}
        /\ n \in Nat /\ DOMAIN chunk_procs = 1 .. n
    BY <1>1, <2>3, <2>4
  <2>6. Ended' = Ended
    BY <2>3, <2>5
  <2> QED
    BY <1>3, <1>4, <2>1, <2>5, <2>6
<1>8. ASSUME NEW k \in DOMAIN chunk_procs, ProcessChunk(k) \/ Fail(k)
      PROVE  /\ Cardinality(Ended') = joined' + Len(queue')
             /\ \A l \in 1 .. joined' : chunk_procs'[l].state \in {"ended", "failed"}
  <2>1. /\ UNCHANGED <<queue, joined>> /\ DOMAIN chunk_procs' = DOMAIN chunk_procs
        /\ chunk_procs[k].state = "running" /\ chunk_procs'[k].state \in {"putting", "failed"}
        /\ \A l \in DOMAIN chunk_procs : l # k => chunk_procs'[l] = chunk_procs[l]
    BY <1>8, ProcessMovesOn DEF Process, ProcessChunk, Fail
  <2>2. Ended' = Ended
    BY <2>1
  <2> QED
    BY <1>3, <1>4, <2>1, <2>2
<1>9. ASSUME NEW k \in DOMAIN chunk_procs, Put(k)
      PROVE  /\ Cardinality(Ended') = joined' + Len(queue')
             /\ \A l \in 1 .. joined' : chunk_procs'[l].state \in {"ended", "failed"}
  <2>1. /\ UNCHANGED joined /\ queue' = Append(queue, chunk_procs[k].proc_result)
        /\ DOMAIN chunk_procs' = DOMAIN chunk_procs
        /\ chunk_procs[k].state = "putting" /\ chunk_procs'[k].state = "ended"
        /\ \A l \in DOMAIN chunk_procs : l # k => chunk_procs'[l] = chunk_procs[l]
    BY <1>9, ProcessMovesOn DEF Process, Put
  <2>2. Len(queue') = Len(queue) + 1
    BY <1>1, <2>1
  <2>3. Ended' = Ended \cup {k} /\ k \notin Ended
    BY <2>1
  <2>4. Cardinality(Ended') = Cardinality(Ended) + 1
    BY <1>2, <2>3, FS_AddElement
  <2>5. joined' + Len(queue') = joined + Len(queue) + 1
    BY <1>1, <2>1, <2>2
  <2> QED
    BY <1>3, <1>4, <2>1, <2>4, <2>5
<1>10. CASE OpenFile \/ OpenFails \/ PrintResult \/ UNCHANGED vars
  BY <1>5, <1>10 DEF OpenFile, OpenFails, PrintResult, vars
<1> QED
  BY <1>6, <1>7, <1>8, <1>9, <1>10 DEF Next, Main, Process

(***************************************************************************)
(* Until the program ends somebody can go on, or a process has failed:     *)
(* main, which joins a process before it takes an answer, finds one in the *)
(* queue, and no process waits for room there meanwhile.                   *)
(***************************************************************************)
THEOREM WaitsOnlyIfProcessFailed == Spec => []WaitsOnlyForFailed
<1>1. ASSUME IInv, AnswersKept, QueueHasRoom PROVE WaitsOnlyForFailed
  <2> SUFFICES ASSUME pc \notin {"printed", "failed"}, ~ MainCanStep,
                      \A k \in DOMAIN chunk_procs :
                        ~ ProcessCanStep(k) /\ chunk_procs[k].state # "failed"
               PROVE  FALSE
    BY DEF WaitsOnlyForFailed
  <2>1. pc \in {"split", "join"}
    BY <1>1, Facts DEF TypeOK, MainCanStep
  <2>2. pc # "split"
    <3> SUFFICES ASSUME pc = "split" PROVE FALSE
      OBVIOUS
    <3>1. PICK from : from = current_chunk_start + bytes_per_proc
      OBVIOUS
    <3>2. from \in Nat /\ \A p \in file.newlines : p \in Nat
      BY <1>1, <3>1, Facts
    <3> DEFINE N == {p \in file.newlines : ~ (p < from)}
    <3>3. N # {} /\ N \in SUBSET Nat
      BY <3>1, <3>2 DEF MainCanStep
    <3>4. PICK q \in N : \A p \in N : q <= p
      BY <3>3, LeastNatural
    <3>5. from <= q /\ \A p \in from .. q - 1 : p \notin file.newlines
      BY <3>2, <3>4
    <3> QED
      BY <3>1, <3>5 DEF MainCanStep
  <2>3. pc = "join"
    BY <2>1, <2>2
  <2>4. PICK n : n = Len(chunk_procs)
    OBVIOUS
  <2>5. /\ n \in Nat /\ DOMAIN chunk_procs = 1 .. n /\ joined \in Nat /\ joined < n
        /\ Len(queue) \in Nat
    BY <1>1, <2>3, <2>4, Facts DEF MainCanStep
  <2>6. \A k \in 1 .. n : chunk_procs[k].state = "ended"
    <3>1. ASSUME NEW k \in 1 .. n PROVE chunk_procs[k].state = "ended"
      <4>1. chunk_procs[k] \in ChunkProc
        BY <1>1, <2>4, Facts
      <4>2. chunk_procs[k].state \in {"running", "putting", "ended", "failed"}
        BY <4>1 DEF ChunkProc
      <4> QED
        BY <1>1, <2>5, <4>2 DEF ProcessCanStep, QueueHasRoom
    <3> QED
      BY <3>1
  <2>7. {k \in DOMAIN chunk_procs : chunk_procs[k].state = "ended"} = 1 .. n
    BY <2>5, <2>6
  <2>8. n = joined + Len(queue)
    <3>1. Cardinality(1 .. n) = n
      BY <2>5, FS_Interval
    <3>2. Cardinality({k \in DOMAIN chunk_procs : chunk_procs[k].state = "ended"}) =
            joined + Len(queue)
      BY <1>1 DEF AnswersKept
    <3> QED
      BY <2>7, <3>1, <3>2
  <2>9. queue # <<>>
    BY <2>5, <2>8
  <2> QED
    BY <2>3, <2>4, <2>5, <2>6, <2>9 DEF MainCanStep
<1> QED
  BY <1>1, AnswersInit, AnswersNext, Invariance, PutNeverBlocks, PTL DEF Spec
=============================================================================
