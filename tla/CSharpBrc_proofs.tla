--------------------------- MODULE CSharpBrc_proofs --------------------------
(***************************************************************************)
(* Proofs about the C# program, for every file, every number of cores,     *)
(* every size of a page, every longest length and every set of stations    *)
(* with short names.                                                       *)
(***************************************************************************)
EXTENDS CSharpBrc, BrcLemmas, SequenceTheorems

(***************************************************************************)
(* The lemmas about what programs hold, with keys in the place of names.   *)
(***************************************************************************)
K == INSTANCE BrcLemmas WITH Names <- Keys, Files <- {Keyed(f) : f \in Files}

-----------------------------------------------------------------------------
(***************************************************************************)
(* A file whose rows have keys is a file.                                  *)
(***************************************************************************)
LEMMA KeyedIsFile ==
  ASSUME NEW f, IsFile(f)
  PROVE  /\ K!IsFile(Keyed(f)) /\ Keyed(f).newlines = f.newlines
         /\ K!Rows(Keyed(f)) = Rows(f)
<1> DEFINE rows == [p \in Rows(f) |-> [name |-> KeyOf(f.row[p]), temp |-> f.row[p].temp]]
           g == Keyed(f)
<1>1. /\ f.size \in Nat
      /\ f.newlines \in SUBSET (0 .. f.size - 1)
      /\ f.row \in [Rows(f) -> Row]
      /\ \A p \in f.newlines : ~ IsRowStart(f, p)
  BY DEF IsFile
<1>2. /\ g.size = f.size /\ g.newlines = f.newlines /\ g.row = rows
  <2>1. g = [f EXCEPT !.row = rows]
    BY DEF Keyed
  <2> QED
    BY <2>1
<1>3. \A p \in Rows(f) : [name |-> KeyOf(f.row[p]), temp |-> f.row[p].temp] \in K!Row
  <2>1. ASSUME NEW p \in Rows(f)
        PROVE  KeyOf(f.row[p]) \in Keys /\ f.row[p].temp \in Temps
    <3>1. /\ f.row[p].name \in Names /\ f.row[p].temp \in Temps
          /\ f.row[p] = [name |-> f.row[p].name, temp |-> f.row[p].temp]
      BY <1>1 DEF Row
    <3> QED
      BY <3>1 DEF Keys
  <2> QED
    BY <2>1 DEF K!Row
<1>4. K!Rows(g) = Rows(f)
  BY <1>2 DEF K!Rows, K!Terminated, Rows, Terminated
<1>5. g.row \in [K!Rows(g) -> K!Row]
  BY <1>2, <1>3, <1>4
<1>6. \A p \in g.newlines : ~ K!IsRowStart(g, p)
  BY <1>1, <1>2 DEF IsRowStart, K!IsRowStart
<1> HIDE DEF g
<1>7. K!IsFile(g)
  BY <1>1, <1>2, <1>5, <1>6 DEF K!IsFile
<1> QED
  BY <1>2, <1>4, <1>7 DEF g

LEMMA KeyedAssumptions ==
  /\ \A t \in Temps : t \in Int /\ -999 <= t /\ t <= 999
  /\ \A f \in {Keyed(g) : g \in Files} : K!IsFile(f)
  BY TempsAssumption, FilesAssumption, KeyedIsFile

(***************************************************************************)
(* What a dictionary holds when the rows R are in it.                      *)
(***************************************************************************)
KeyedRows(R) == K!IsRowSet(Keyed(file), R)

Has(R) == K!Held(Keyed(file), R, 0, 0)

LEMMA HasType ==
  ASSUME NEW R, KeyedRows(R)
  PROVE  Has(R) \in Tables
<1> DEFINE f == Keyed(file)
           zero == 0
<1>1. zero \in Int /\ K!IsRowSet(f, R)
  BY DEF KeyedRows
<1> HIDE DEF f, zero
<1>2. K!Held(f, R, zero, zero) \in
        [Keys -> [min : Int, max : Int, sum : Int, count : Nat] \cup {Absent}]
  BY <1>1, KeyedAssumptions, K!HeldType
<1> QED
  BY <1>2 DEF Has, Tables, Stat, f, zero

LEMMA HasNothing == Has({}) = Empty
  BY K!HeldNothing, KeyedAssumptions DEF Has, Empty

LEMMA KeyedSubsets ==
  ASSUME NEW R, KeyedRows(R)
  PROVE  IsFiniteSet(R) /\ \A T \in SUBSET R : KeyedRows(T)
<1> DEFINE f == Keyed(file)
<1>1. K!IsRowSet(f, R)
  BY DEF KeyedRows
<1> HIDE DEF f
<1>2. IsFiniteSet(R) /\ \A T \in SUBSET R : K!IsRowSet(f, T)
  <2>1. IsFiniteSet(R) /\ \A p \in R : f.row[p] \in K!Row
    BY <1>1 DEF K!IsRowSet, K!IsFiniteSet, IsFiniteSet
  <2>2. \A T \in SUBSET R : IsFiniteSet(T)
    BY <2>1, FS_Subset
  <2> QED
    BY <2>1, <2>2 DEF K!IsRowSet, K!IsFiniteSet, IsFiniteSet
<1> QED
  BY <1>2 DEF KeyedRows, f

(***************************************************************************)
(* HandleLine takes in one row, MergeTable a disjoint set of rows.         *)
(***************************************************************************)
LEMMA HandleLineHas ==
  ASSUME NEW R, NEW p, KeyedRows(R \cup {p}), p \notin R
  PROVE  HandleLine(Has(R), p) = Has(R \cup {p})
<1> DEFINE f == Keyed(file)
           z == 0
           n == f.row[p].name
           t == f.row[p].temp
           h == K!Held(f, R, z, z)
           a == K!Holding(f, K!RowsOf(f, R, n), z, z)
<1>1. K!IsRowSet(f, R)
  <2> DEFINE RP == R \cup {p}
  <2>1. KeyedRows(RP) /\ R \in SUBSET RP
    OBVIOUS
  <2> HIDE DEF RP
  <2>2. KeyedRows(R)
    BY <2>1, KeyedSubsets
  <2> QED
    BY <2>2 DEF KeyedRows
<1>2. z \in Int /\ n \in Keys /\ K!IsRowSet(f, R \cup {p})
  BY DEF KeyedRows, K!IsRowSet, K!Row
<1>3. Absent \notin [min : Int, max : Int, sum : Int, count : Nat]
  BY CSharpAssumption DEF Stat
<1>f. HandleLine(h, p) = AddRow(h, f.row[p])
  BY DEF HandleLine
<1> HIDE DEF z, n, f
<1>4. /\ h[n] = Absent => a = [min |-> z, max |-> z, sum |-> 0, count |-> 0]
      /\ h[n] # Absent => a = h[n]
  BY <1>1, <1>2, <1>3, KeyedAssumptions, K!HeldEntry
<1>h. /\ h = K!Held(f, R, z, z) /\ n = f.row[p].name
      /\ a = K!Holding(f, K!RowsOf(f, R, n), z, z)
  BY DEF n
<1> HIDE DEF h, a
<1>5. K!Held(f, R \cup {p}, z, z) =
        [h EXCEPT ![n] = [min   |-> IF t < a.min THEN t ELSE a.min,
                          max   |-> IF t > a.max THEN t ELSE a.max,
                          sum   |-> a.sum + t,
                          count |-> a.count + 1]]
  BY <1>2, <1>h, KeyedAssumptions, K!HeldRow
<1>6. Entry(h, n) = a
  BY <1>4 DEF Entry, New, z
<1>7. AddRow(h, f.row[p]) = [h EXCEPT ![n] = Add(a, t)]
  BY <1>6 DEF AddRow, n
<1>8. AddRow(h, f.row[p]) = K!Held(f, R \cup {p}, z, z)
  BY <1>5, <1>7 DEF Add, Lesser, Greater
<1> QED
  BY <1>f, <1>8 DEF Has, h, z, f

LEMMA MergeTableHas ==
  ASSUME NEW R, NEW T, KeyedRows(R), KeyedRows(T), R \cap T = {}
  PROVE  MergeTable(Has(R), Has(T)) = Has(R \cup T)
<1> DEFINE f == Keyed(file)
           z == 0
           g == K!Held(f, R, z, z)
           m == K!Held(f, T, z, z)
           u == K!Held(f, R \cup T, z, z)
<1>1. /\ z \in Int /\ Absent \notin [min : Int, max : Int, sum : Int, count : Nat]
      /\ K!IsRowSet(f, R) /\ K!IsRowSet(f, T)
  BY CSharpAssumption DEF Stat, KeyedRows
<1> HIDE DEF z, f
<1>2. ASSUME NEW n \in Keys
      PROVE  u[n] = IF m[n] = Absent THEN g[n] ELSE Merge(Entry(g, n), m[n])
  <2> DEFINE a == K!Holding(f, K!RowsOf(f, R, n), z, z)
             b == K!Holding(f, K!RowsOf(f, T, n), z, z)
  <2>1. /\ g[n] = Absent => a = [min |-> z, max |-> z, sum |-> 0, count |-> 0]
        /\ g[n] # Absent => a = g[n]
        /\ m[n] = Absent <=> K!RowsOf(f, T, n) = {}
        /\ m[n] # Absent => b = m[n]
    <3>1. /\ g[n] = Absent => a = [min |-> z, max |-> z, sum |-> 0, count |-> 0]
          /\ g[n] # Absent => a = g[n]
      BY <1>1, KeyedAssumptions, K!HeldEntry
    <3>2. /\ m[n] = Absent <=> K!RowsOf(f, T, n) = {}
          /\ m[n] # Absent => b = m[n]
      BY <1>1, KeyedAssumptions, K!HeldEntry
    <3> QED
      BY <3>1, <3>2
  <2>2. /\ K!RowsOf(f, T, n) = {} => u[n] = g[n]
        /\ K!RowsOf(f, T, n) # {} => u[n] = K!Both(a, b)
    BY <1>1, KeyedAssumptions, K!HeldUnion
  <2> HIDE DEF a, b, g, m, u
  <2>3. Entry(g, n) = a
    BY <2>1 DEF Entry, New, z
  <2> QED
    BY <2>1, <2>2, <2>3 DEF K!Both, Merge, Lesser, Greater
<1>3. u = [n \in Keys |-> u[n]]
  BY DEF K!Held
<1> HIDE DEF g, m, u
<1>4. MergeTable(g, m) = u
  BY <1>2, <1>3 DEF MergeTable
<1> QED
  BY <1>4 DEF Has, g, m, u, z, f

(***************************************************************************)
(* The fold of a thread over its rows, in whatever order, takes in each.   *)
(***************************************************************************)
HandleAll(R) == FoldSet(LAMBDA p, dictionary : HandleLine(dictionary, p), Empty, R)

DictionaryTo(dicts, s) ==
  IF s = {} THEN Empty ELSE HandleLine(dicts[s \ {First(s)}], First(s))

SubsetDictionaries(R) ==
  CHOOSE dicts : dicts = [s \in SUBSET R |-> DictionaryTo(dicts, s)]

LEMMA HandleAllIsSubsetDictionary ==
  ASSUME NEW R
  PROVE  HandleAll(R) = SubsetDictionaries(R)[R]
  BY DEF HandleAll, FoldSet, MapThenFoldSet, SubsetDictionaries, DictionaryTo, First

LEMMA HandleAllHas ==
  ASSUME NEW R, KeyedRows(R)
  PROVE  HandleAll(R) = Has(R)
<1> DEFINE h == [s \in SUBSET R |-> Has(s)]
           dicts == SubsetDictionaries(R)
           Good == {s \in SUBSET R : dicts[s] = Has(s)}
<1>1. IsFiniteSet(R) /\ \A s \in SUBSET R : KeyedRows(s)
  BY KeyedSubsets
<1>2. \A s \in SUBSET R : s # {} => First(s) \in s
  BY DEF First
<1>3. ASSUME NEW s \in SUBSET R, s # {}
      PROVE  HandleLine(Has(s \ {First(s)}), First(s)) = Has(s)
  <2> DEFINE p == First(s)
             Q == s \ {p}
  <2>1. p \notin Q /\ Q \cup {p} = s
    BY <1>2, <1>3
  <2> HIDE DEF p, Q
  <2>2. KeyedRows(Q \cup {p})
    BY <1>1, <2>1
  <2>3. HandleLine(Has(Q), p) = Has(Q \cup {p})
    BY <2>1, <2>2, HandleLineHas
  <2> QED
    BY <2>1, <2>3 DEF p, Q
<1>4. ASSUME NEW s \in SUBSET R PROVE h[s] = DictionaryTo(h, s)
  <2>1. CASE s = {}
    BY <2>1, HasNothing DEF DictionaryTo
  <2>2. CASE s # {}
    <3>1. s \ {First(s)} \in SUBSET R
      OBVIOUS
    <3> QED
      BY <1>3, <2>2, <3>1 DEF DictionaryTo
  <2> QED
    BY <2>1, <2>2
<1>5. h = [s \in SUBSET R |-> DictionaryTo(h, s)]
  BY <1>4
<1> HIDE DEF h
<1>6. dicts = [s \in SUBSET R |-> DictionaryTo(dicts, s)]
  BY <1>5 DEF SubsetDictionaries
<1> HIDE DEF dicts
<1>7. \A s \in SUBSET R : dicts[s] = DictionaryTo(dicts, s)
  BY <1>6
<1>8. ASSUME NEW s \in SUBSET R, \A t \in SUBSET s : t # s => t \in Good
      PROVE  s \in Good
  <2>1. CASE s = {}
    BY <1>7, <2>1, HasNothing DEF DictionaryTo
  <2>2. CASE s # {}
    <3>1. s \ {First(s)} \in Good
      BY <1>2, <1>8, <2>2
    <3>2. dicts[s] = HandleLine(Has(s \ {First(s)}), First(s))
      BY <1>7, <2>2, <3>1 DEF DictionaryTo
    <3> QED
      BY <1>3, <2>2, <3>2
  <2> QED
    BY <2>1, <2>2
<1> HIDE DEF Good
<1>9. R \in Good
  BY <1>1, <1>8, SubsetInduction
<1> QED
  BY <1>9, HandleAllIsSubsetDictionary DEF Good, dicts

(***************************************************************************)
(* The dictionary holds the statistics of its rows, and of a temperature   *)
(* of zero that is not counted.                                            *)
(***************************************************************************)
LEMMA ReferenceTally ==
  ASSUME NEW f, NEW R
  PROVE  Reference!Tally(f, R) = K!Tally(f, R)
<1>1. \A S : Reference!Min(S) = K!Min(S) /\ Reference!Max(S) = K!Max(S)
  BY DEF Reference!Min, Reference!Max, K!Min, K!Max
<1>2. \A S : Reference!Cardinality(S) = K!Cardinality(S)
  BY DEF Reference!Cardinality, K!Cardinality
<1>3. \A S : Reference!MapThenSumSet(LAMBDA p : f.row[p].temp, S)
               = K!MapThenSumSet(LAMBDA p : f.row[p].temp, S)
  BY DEF Reference!MapThenSumSet, K!MapThenSumSet,
         Reference!MapThenFoldSet, K!MapThenFoldSet
<1>4. \A S : Reference!Summary(f, S) = K!Summary(f, S)
  BY <1>1, <1>2, <1>3 DEF Reference!Summary, K!Summary
<1>5. \A n : Reference!RowsOf(f, R, n) = K!RowsOf(f, R, n)
  BY DEF Reference!RowsOf, K!RowsOf
<1> QED
  BY <1>4, <1>5 DEF Reference!Tally, K!Tally

LEMMA TwoFieldsChanged ==
  ASSUME NEW s \in [min : Int, max : Int, sum : Int, count : Nat],
         NEW lo \in Int, NEW hi \in Int
  PROVE  [s EXCEPT !.min = lo, !.max = hi] =
           [min |-> lo, max |-> hi, sum |-> s.sum, count |-> s.count]
<1> DEFINE r == [s EXCEPT !.min = lo, !.max = hi]
<1>1. r \in [min : Int, max : Int, sum : Int, count : Nat]
  OBVIOUS
<1>2. r.min = lo /\ r.max = hi /\ r.sum = s.sum /\ r.count = s.count
  OBVIOUS
<1> HIDE DEF r
<1>3. r = [min |-> r.min, max |-> r.max, sum |-> r.sum, count |-> r.count]
  BY <1>1
<1> QED
  BY <1>2, <1>3 DEF r

LEMMA HasIsWithZero ==
  ASSUME NEW R, KeyedRows(R)
  PROVE  Has(R) = WithZero(Reference!Tally(Keyed(file), R))
<1> DEFINE f == Keyed(file)
           z == 0
           h == K!Held(f, R, z, z)
           t == K!Tally(f, R)
<1>1. /\ z \in Int /\ Absent \notin [min : Int, max : Int, sum : Int, count : Nat]
      /\ K!IsRowSet(f, R)
  BY CSharpAssumption DEF Stat, KeyedRows
<1>2. Reference!Tally(f, R) = t
  BY ReferenceTally
<1> HIDE DEF z, f
<1>3. ASSUME NEW n \in Keys
      PROVE  h[n] = IF t[n] = Absent THEN Absent
                    ELSE [t[n] EXCEPT !.min = Lesser(z, t[n].min),
                                      !.max = Greater(z, t[n].max)]
  <2> DEFINE Q == K!RowsOf(f, R, n)
             s == K!Summary(f, Q)
             a == K!Holding(f, Q, z, z)
  <2>1. /\ h[n] = IF Q = {} THEN Absent ELSE a
        /\ t[n] = IF Q = {} THEN Absent ELSE s
    BY DEF K!Held, K!Tally
  <2>2. K!IsRowSet(f, Q)
    BY <1>1, KeyedAssumptions, K!RowsOfFacts
  <2> HIDE DEF h, t, Q
  <2>3. Q # {} => /\ s \in [min : Int, max : Int, sum : Int, count : Nat]
                  /\ a = [min   |-> IF s.min < z THEN s.min ELSE z,
                          max   |-> IF s.max > z THEN s.max ELSE z,
                          sum   |-> s.sum,
                          count |-> s.count]
    BY <1>1, <2>2, KeyedAssumptions, K!HoldingSummary
  <2> HIDE DEF s, a
  <2>4. CASE Q = {}
    BY <2>1, <2>4
  <2>5. CASE Q # {}
    <3>1. /\ h[n] = a /\ t[n] = s /\ s # Absent
      BY <1>1, <2>1, <2>3, <2>5
    <3>2. [s EXCEPT !.min = Lesser(z, s.min), !.max = Greater(z, s.max)] = a
      <4> DEFINE lo == Lesser(z, s.min)
                 hi == Greater(z, s.max)
      <4>1. s \in [min : Int, max : Int, sum : Int, count : Nat]
        BY <2>3, <2>5
      <4>2. lo \in Int /\ hi \in Int
        BY <1>1, <4>1 DEF Lesser, Greater
      <4>3. a = [min |-> lo, max |-> hi, sum |-> s.sum, count |-> s.count]
        BY <1>1, <2>3, <2>5, <4>1 DEF Lesser, Greater
      <4> HIDE DEF lo, hi
      <4>4. [s EXCEPT !.min = lo, !.max = hi] =
              [min |-> lo, max |-> hi, sum |-> s.sum, count |-> s.count]
        BY <4>1, <4>2, TwoFieldsChanged
      <4> QED
        BY <4>3, <4>4 DEF lo, hi
    <3> QED
      BY <3>1, <3>2
  <2> QED
    BY <2>4, <2>5
<1>4. h = [n \in Keys |-> h[n]]
  BY DEF K!Held
<1> HIDE DEF h, t
<1>5. WithZero(t) = h
  BY <1>3, <1>4 DEF WithZero, z
<1> QED
  BY <1>2, <1>5 DEF Has, h, z, f

-----------------------------------------------------------------------------
(***************************************************************************)
(* The inductive invariant.                                                *)
(***************************************************************************)

(***************************************************************************)
(* While Main cuts parts, the next begins behind the newline of the one    *)
(* before.  What the parts have taken beyond a share each, and beyond the  *)
(* newlines between them, is offset, which grows with every part.          *)
(***************************************************************************)
Cutting ==
  /\ pc = "map" => threadDatas = <<>> /\ partStartPtr = 0 /\ offset = 0
  /\ pc = "split" =>
       /\ threadDatas = <<>> => partStartPtr = 0 /\ ptr = bytesPerCore /\ offset = 0
       /\ threadDatas # <<>> =>
            /\ partStartPtr = PartEnd(Len(threadDatas)) + 1
            /\ partStartPtr = Len(threadDatas) * bytesPerCore + Len(threadDatas) - 1 + offset
            /\ ptr = NextScan(partStartPtr)
            /\ offset >= Len(threadDatas)
       /\ \A k \in DOMAIN threadDatas :
            PartEnd(k) \in file.newlines /\ PartEnd(k) < partStartPtr
  /\ pc \in {"start", "join", "printed"} => threadDatas # <<>>

(***************************************************************************)
(* A part begins behind all that come before it.                           *)
(***************************************************************************)
InOrder ==
  \A k, l \in DOMAIN threadDatas : k < l => PartEnd(k) < threadDatas[l].Ptr

(***************************************************************************)
(* There is a thread for each part once Main joins them, and Main merges   *)
(* only dictionaries of threads that are done.                             *)
(***************************************************************************)
ThreadsMatchParts ==
  /\ Len(threads) <= Len(threadDatas)
  /\ pc \in {"join", "printed"} => Len(threads) = Len(threadDatas)
  /\ pc \in {"map", "split", "undefined"} => threads = <<>>
  /\ pc = "printed" => joined = Len(threads)
  /\ \A i \in 1 .. joined : threads[i] = "done"

(***************************************************************************)
(* A thread that is done has a part of no negative length and its rows,    *)
(* and Main's dictionary holds the rows of the parts it has merged.        *)
(***************************************************************************)
RowsJoined == {p \in file.newlines : \E k \in 1 .. joined : p \in RowsHandled(k)}

DoneHasRows ==
  \A i \in DOMAIN threads :
    threads[i] = "done" => /\ threadDatas[i].Length >= 0
                           /\ threadDatas[i].ThreadResult = Has(RowsHandled(i))

ResultHasRows == result = Has(RowsJoined)

IInv == /\ PartsFollow /\ LastPartComplete /\ ThreadsStayInMapping /\ UndefinedOnlyAtPageEdge
        /\ Cutting /\ InOrder /\ ThreadsMatchParts /\ DoneHasRows /\ ResultHasRows

-----------------------------------------------------------------------------
LEMMA InitInvariant == Init => IInv
<1> SUFFICES ASSUME Init PROVE IInv
  OBVIOUS
<1> USE DEF Init
<1>1. IsFile(file)
  BY FilesAssumption
<1>2. TypeOK
  <2>1. Empty \in Tables
    BY DEF Empty, Tables
  <2> QED
    BY <1>1, <2>1, CSharpAssumption DEF TypeOK, IsFile
<1>3. /\ PartsFollow /\ LastPartComplete /\ ThreadsStayInMapping /\ UndefinedOnlyAtPageEdge
  BY <1>2 DEF PartsFollow, LastPartComplete, ThreadsStayInMapping, UndefinedOnlyAtPageEdge
<1>4. Cutting /\ InOrder /\ ThreadsMatchParts /\ DoneHasRows
  BY DEF Cutting, InOrder, ThreadsMatchParts, DoneHasRows
<1>5. RowsJoined = {}
  BY DEF RowsJoined
<1>6. ResultHasRows
  BY <1>5, HasNothing DEF ResultHasRows
<1> QED
  BY <1>3, <1>4, <1>6 DEF IInv

(***************************************************************************)
(* The rows of a part, and those of the parts joined, are rows of the      *)
(* file.                                                                   *)
(***************************************************************************)
LEMMA RowsHandledAreRows ==
  ASSUME IsFile(file)
  PROVE  /\ \A k : KeyedRows(RowsHandled(k))
         /\ KeyedRows(RowsJoined)
         /\ \A R \in SUBSET file.newlines : KeyedRows(R)
<1> DEFINE f == Keyed(file)
<1>1. K!IsFile(f) /\ f.newlines = file.newlines /\ K!Rows(f) = Rows(file)
  BY KeyedIsFile
<1>2. file.newlines \in SUBSET Rows(file)
  BY DEF Rows
<1> HIDE DEF f
<1>3. \A R \in SUBSET file.newlines : K!IsRowSet(f, R)
  <2>1. ASSUME NEW R \in SUBSET file.newlines PROVE K!IsRowSet(f, R)
    <3>1. R \in SUBSET K!Rows(f)
      BY <1>1, <1>2
    <3> QED
      BY <1>1, <3>1, KeyedAssumptions, K!RowsAreRows
  <2> QED
    BY <2>1
<1>4. \A R \in SUBSET file.newlines : KeyedRows(R)
  BY <1>3 DEF KeyedRows, f
<1>5. \A k : RowsHandled(k) \in SUBSET file.newlines
  BY DEF RowsHandled
<1>6. RowsJoined \in SUBSET file.newlines
  BY DEF RowsJoined
<1> QED
  BY <1>4, <1>5, <1>6

LEMMA StutterInvariant == IInv /\ UNCHANGED vars => IInv'
<1> SUFFICES ASSUME IInv, UNCHANGED vars PROVE IInv'
  OBVIOUS
<1> USE DEF IInv, vars, splitVars
<1>1. PartsFollow' /\ LastPartComplete' /\ ThreadsStayInMapping' /\ UndefinedOnlyAtPageEdge'
  BY DEF PartsFollow, LastPartComplete, ThreadsStayInMapping, UndefinedOnlyAtPageEdge,
         TypeOK, PartEnd, bytesPerCore
<1>2. Cutting' /\ InOrder' /\ ThreadsMatchParts'
  BY DEF Cutting, InOrder, ThreadsMatchParts, PartEnd, bytesPerCore, NextScan
<1>3. DoneHasRows' /\ ResultHasRows'
  BY DEF DoneHasRows, ResultHasRows, RowsHandled, RowsJoined, PartEnd, Has
<1> QED
  BY <1>1, <1>2, <1>3

(***************************************************************************)
(* MapFile sets the number of cores and the first scan, or finds a share   *)
(* longer than an int.                                                     *)
(***************************************************************************)
LEMMA ShareBounds ==
  ASSUME NEW size \in Nat, NEW n \in Nat \ {0}
  PROVE  /\ size \div n \in Nat /\ size \div n <= size
         /\ n * (size \div n) <= size /\ size < n * (size \div n) + n
<1> DEFINE b == size \div n
<1>1. b \in Nat /\ n * b <= size /\ size < n * b + n
  BY DivBounds
<1> HIDE DEF b
<1>2. b <= n * b
  BY <1>1
<1>3. n * b \in Nat
  BY <1>1
<1>4. b <= size
  BY <1>1, <1>2, <1>3
<1> QED
  BY <1>1, <1>4 DEF b

LEMMA MapFileInvariant == IInv /\ MapFile => IInv'
<1> SUFFICES ASSUME IInv, MapFile PROVE IInv'
  OBVIOUS
<1> USE DEF IInv
<1>1. /\ pc = "map" /\ pc' \in {"split", "undefined"}
      /\ cores' \in 1 .. MaxCores
      /\ ptr' = file.size \div cores'
      /\ pc' = "undefined" => file.size \div cores' > MaxLength
      /\ UNCHANGED <<file, partStartPtr, offset, threadDatas, threads, joined, result>>
  BY CSharpAssumption DEF MapFile
<1>2. threadDatas = <<>> /\ threads = <<>> /\ partStartPtr = 0 /\ offset = 0
  BY <1>1 DEF Cutting, ThreadsMatchParts
<1>3. TypeOK /\ file.size \in Nat
  BY DEF PartsFollow, TypeOK, IsFile
<1>4. ptr' \in Nat /\ ptr' <= file.size
  <2>1. cores' \in Nat \ {0}
    BY <1>1
  <2> QED
    BY <1>1, <1>3, <2>1, ShareBounds
<1>5. TypeOK'
  BY <1>1, <1>3, <1>4 DEF TypeOK
<1>6. PartsFollow' /\ ThreadsStayInMapping'
  BY <1>1, <1>2, <1>5 DEF PartsFollow, ThreadsStayInMapping
<1>7. LastPartComplete'
  BY <1>1 DEF LastPartComplete
<1>8. UndefinedOnlyAtPageEdge'
  <2>1. pc' = "undefined" => file.size > MaxLength
    BY <1>1, <1>3, <1>4, CSharpAssumption
  <2> QED
    BY <1>1, <2>1 DEF UndefinedOnlyAtPageEdge
<1>9. Cutting'
  BY <1>1, <1>2 DEF Cutting, bytesPerCore
<1>10. InOrder' /\ ThreadsMatchParts' /\ DoneHasRows'
  BY <1>1, <1>2 DEF InOrder, ThreadsMatchParts, DoneHasRows
<1>11. ResultHasRows'
  BY <1>1 DEF ResultHasRows, RowsHandled, RowsJoined, PartEnd, Has
<1> QED
  BY <1>6, <1>7, <1>8, <1>9, <1>10, <1>11

(***************************************************************************)
(* Steps that move Main on and leave parts, threads and result alone.      *)
(***************************************************************************)
LEMMA MovesOn ==
  ASSUME IInv,
         UNCHANGED <<file, cores, splitVars, threadDatas, threads, joined, result>>,
         \/ pc = "map" /\ pc' = "failed"
         \/ pc \in {"start", "join"} /\ pc' = "failed"
         \/ pc = "split" /\ pc' = "undefined" /\ UndefinedOnlyAtPageEdge'
         \/ pc = "start" /\ pc' = "join" /\ Len(threads) = Len(threadDatas)
         \/ pc = "join" /\ pc' = "printed" /\ joined = Len(threads)
  PROVE  IInv'
<1> USE DEF IInv, splitVars
<1>1. PartsFollow'
  BY DEF PartsFollow, TypeOK, PartEnd
<1>2. LastPartComplete'
  BY DEF LastPartComplete, PartEnd, bytesPerCore
<1>3. ThreadsStayInMapping' /\ UndefinedOnlyAtPageEdge'
  BY DEF ThreadsStayInMapping, UndefinedOnlyAtPageEdge, PartEnd
<1>4. Cutting' /\ InOrder'
  BY DEF Cutting, InOrder, PartEnd
<1>5. ThreadsMatchParts'
  BY DEF ThreadsMatchParts
<1>6. DoneHasRows' /\ ResultHasRows'
  BY DEF DoneHasRows, ResultHasRows, RowsHandled, RowsJoined, PartEnd, Has
<1> QED
  BY <1>1, <1>2, <1>3, <1>4, <1>5, <1>6

LEMMA MapFailsInvariant == IInv /\ MapFails => IInv'
  BY MovesOn DEF MapFails

LEMMA AllStartedInvariant == IInv /\ AllStarted => IInv'
  BY MovesOn DEF AllStarted

LEMMA PrintResultInvariant == IInv /\ PrintResult => IInv'
  BY MovesOn DEF PrintResult, AllJoined

LEMMA ThreadThrowsInvariant ==
  ASSUME NEW i, IInv, ThreadThrows(i)
  PROVE  IInv'
  BY MovesOn DEF ThreadThrows, Alive

(***************************************************************************)
(* What is so while Main cuts parts.                                       *)
(***************************************************************************)
LEMMA ShareTimes ==
  ASSUME NEW size \in Nat, NEW b \in Nat, NEW c \in Nat, NEW n \in Nat, NEW rest \in Nat,
         c # 0, c * b <= size, size < c * b + c,
         n # 0 => n * b + n - 1 + rest <= size /\ rest >= n
  PROVE  /\ n < c
         /\ n * b \in Nat /\ n * b + b <= c * b
         /\ n + 1 < c => n * b + b + b <= c * b
         /\ n + 1 = c => n * b + b = c * b
         /\ n # 0 => b <= n * b
<1>1. n * b \in Nat /\ c * b \in Nat /\ n * b + b = (n + 1) * b
  BY OneMoreTimes
<1>2. n < c
  <2>1. CASE n = 0
    BY <2>1
  <2>2. CASE n # 0
    <3>1. SUFFICES ASSUME c <= n PROVE FALSE
      OBVIOUS
    <3>2. c * b <= n * b
      BY <3>1, TimesMonotonic
    <3> QED
      BY <1>1, <2>2, <3>1, <3>2
  <2> QED
    BY <2>1, <2>2
<1>3. (n + 1) * b <= c * b
  <2>1. n + 1 \in Nat /\ n + 1 <= c
    BY <1>2
  <2> QED
    BY <2>1, TimesMonotonic
<1>4. ASSUME n + 1 < c PROVE n * b + b + b <= c * b
  <2>1. n + 1 \in Nat /\ n + 2 \in Nat /\ n + 2 <= c /\ (n + 1) + 1 = n + 2
    BY <1>4
  <2>2. (n + 2) * b <= c * b
    BY <2>1, TimesMonotonic
  <2>3. (n + 2) * b = (n + 1) * b + b
    BY <2>1, OneMoreTimes
  <2> QED
    BY <1>1, <2>2, <2>3
<1>5. n # 0 => b <= n * b
  OBVIOUS
<1> QED
  BY <1>1, <1>2, <1>3, <1>4, <1>5

LEMMA SplitFacts ==
  ASSUME IInv, pc = "split", NEW n, n = Len(threadDatas), NEW b, b = bytesPerCore
  PROVE  /\ file.size \in Nat /\ (\A p \in file.newlines : p \in Nat /\ p < file.size)
         /\ cores \in Nat \ {0} /\ b \in Nat /\ b <= file.size
         /\ cores * b <= file.size /\ file.size < cores * b + cores
         /\ n \in Nat /\ n < cores /\ DOMAIN threadDatas = 1 .. n
         /\ threadDatas \in Seq(ThreadData)
         /\ partStartPtr \in Nat /\ partStartPtr <= file.size /\ ptr \in Nat /\ offset \in Nat
         /\ n = 0 => partStartPtr = 0 /\ ptr = b /\ offset = 0
         /\ n # 0 => /\ partStartPtr = PartEnd(n) + 1
                     /\ partStartPtr = n * b + n - 1 + offset
                     /\ ptr = partStartPtr + b + 1
                     /\ offset >= n
         /\ n * b \in Nat /\ n * b + b <= cores * b
         /\ n + 1 < cores => n * b + b + b <= cores * b
         /\ n + 1 = cores => n * b + b = cores * b
         /\ n # 0 => b <= n * b
         /\ threads = <<>> /\ joined = 0
<1>1. /\ file.size \in Nat /\ partStartPtr \in Nat /\ partStartPtr <= file.size
      /\ (\A p \in file.newlines : p \in Nat /\ p < file.size)
      /\ cores \in Nat \ {0} /\ threadDatas \in Seq(ThreadData)
      /\ ptr \in Nat /\ offset \in Nat
      /\ joined \in 0 .. Len(threads)
  BY CSharpAssumption DEF IInv, PartsFollow, TypeOK, IsFile
<1>2. n \in Nat /\ DOMAIN threadDatas = 1 .. n /\ (n = 0 <=> threadDatas = <<>>)
  BY <1>1, LenProperties, EmptySeq
<1>3. b \in Nat /\ b <= file.size /\ cores * b <= file.size /\ file.size < cores * b + cores
  BY <1>1, ShareBounds DEF bytesPerCore
<1>4. n = 0 => partStartPtr = 0 /\ ptr = b /\ offset = 0
  BY <1>2 DEF IInv, Cutting
<1>5. n # 0 => /\ partStartPtr = PartEnd(n) + 1
               /\ partStartPtr = n * b + n - 1 + offset
               /\ ptr = partStartPtr + b + 1
               /\ offset >= n
  BY <1>2 DEF IInv, Cutting, NextScan
<1>6. /\ n < cores
      /\ n * b \in Nat /\ n * b + b <= cores * b
      /\ n + 1 < cores => n * b + b + b <= cores * b
      /\ n + 1 = cores => n * b + b = cores * b
      /\ n # 0 => b <= n * b
  <2>1. n # 0 => n * b + n - 1 + offset <= file.size /\ offset >= n
    BY <1>1, <1>5
  <2>2. PICK c, s, o : c = cores /\ s = file.size /\ o = offset
    OBVIOUS
  <2>3. /\ s \in Nat /\ b \in Nat /\ c \in Nat /\ n \in Nat /\ o \in Nat
        /\ c # 0 /\ c * b <= s /\ s < c * b + c
        /\ n # 0 => n * b + n - 1 + o <= s /\ o >= n
    BY <1>1, <1>2, <1>3, <2>1, <2>2
  <2>4. /\ n < c
        /\ n * b \in Nat /\ n * b + b <= c * b
        /\ n + 1 < c => n * b + b + b <= c * b
        /\ n + 1 = c => n * b + b = c * b
        /\ n # 0 => b <= n * b
    BY <2>3, ShareTimes
  <2> QED
    BY <2>2, <2>4
<1>7. threads = <<>>
  BY DEF IInv, ThreadsMatchParts
<1>8. joined = 0
  BY <1>1, <1>7
<1> QED
  BY <1>1, <1>2, <1>3, <1>4, <1>5, <1>6, <1>7, <1>8

(***************************************************************************)
(* A part of any length, added at partStartPtr, follows the others.        *)
(***************************************************************************)
LEMMA PartAdded ==
  ASSUME IInv, pc = "split", NEW length \in Int, AddPart(length),
         UNCHANGED <<file, cores, threads, joined, result>>,
         NEW n, n = Len(threadDatas)
  PROVE  /\ threadDatas' \in Seq(ThreadData) /\ Len(threadDatas') = n + 1
         /\ DOMAIN threadDatas' = 1 .. n + 1
         /\ \A k \in 1 .. n : PartEnd(k)' \in file.newlines /\ PartEnd(k)' < partStartPtr
         /\ PartEnd(n + 1)' = partStartPtr + length
         /\ \A k \in 1 .. n + 1 :
              threadDatas'[k].Ptr = IF k = 1 THEN 0 ELSE PartEnd(k - 1)' + 1
         /\ InOrder' /\ DoneHasRows' /\ ResultHasRows'
<1> DEFINE new == [Ptr |-> partStartPtr, Length |-> length, ThreadResult |-> Empty]
<1>1. /\ partStartPtr \in Nat /\ n \in Nat /\ n < cores /\ cores \in Nat
      /\ DOMAIN threadDatas = 1 .. n /\ threadDatas \in Seq(ThreadData)
      /\ threads = <<>> /\ joined = 0
      /\ n = 0 => partStartPtr = 0
      /\ n # 0 => partStartPtr = PartEnd(n) + 1
  <2>1. PICK b : b = bytesPerCore
    OBVIOUS
  <2> QED
    BY <2>1, SplitFacts
<1>2. new \in ThreadData /\ new.Ptr = partStartPtr /\ new.Length = length
  <2>1. Empty \in Tables
    BY DEF Empty, Tables
  <2> QED
    BY <1>1, <2>1 DEF ThreadData
<1>3. threadDatas' = Append(threadDatas, new)
  BY DEF AddPart
<1> HIDE DEF new
<1>4. /\ threadDatas' \in Seq(ThreadData) /\ Len(threadDatas') = n + 1
      /\ \A k \in 1 .. n : threadDatas'[k] = threadDatas[k]
      /\ threadDatas'[n + 1] = new
  BY <1>1, <1>2, <1>3, AppendProperties
<1>5. DOMAIN threadDatas' = 1 .. n + 1
  BY <1>4, LenProperties
<1>6. /\ \A k \in 1 .. n : PartEnd(k)' = PartEnd(k) /\ threadDatas'[k].Ptr = threadDatas[k].Ptr
      /\ PartEnd(n + 1)' = partStartPtr + length
      /\ threadDatas'[n + 1].Ptr = partStartPtr
  <2>1. ASSUME NEW k \in 1 .. n
        PROVE  PartEnd(k)' = PartEnd(k) /\ threadDatas'[k].Ptr = threadDatas[k].Ptr
    <3>1. threadDatas'[k] = threadDatas[k]
      BY <1>4
    <3> QED
      BY <3>1 DEF PartEnd
  <2>2. PartEnd(n + 1)' = threadDatas'[n + 1].Ptr + threadDatas'[n + 1].Length
    BY DEF PartEnd
  <2> QED
    BY <1>2, <1>4, <2>1, <2>2
<1>7. \A k \in 1 .. n : PartEnd(k) \in file.newlines /\ PartEnd(k) < partStartPtr
  BY <1>1 DEF IInv, Cutting
<1>8. ASSUME NEW k \in 1 .. n + 1
      PROVE  threadDatas'[k].Ptr = IF k = 1 THEN 0 ELSE PartEnd(k - 1)' + 1
  <2>1. CASE k \in 1 .. n
    <3>1. threadDatas[k].Ptr = IF k = 1 THEN 0 ELSE PartEnd(k - 1) + 1
      BY <1>1, <2>1 DEF IInv, PartsFollow
    <3>2. k # 1 => k - 1 \in 1 .. n
      BY <1>1, <2>1
    <3> QED
      BY <1>6, <2>1, <3>1, <3>2
  <2>2. CASE k = n + 1
    <3>1. n # 0 => n \in 1 .. n
      BY <1>1
    <3>2. (n + 1) - 1 = n /\ (n + 1 = 1 <=> n = 0)
      BY <1>1
    <3> QED
      BY <1>1, <1>6, <2>2, <3>1, <3>2
  <2> QED
    BY <1>1, <2>1, <2>2
<1>9. InOrder'
  <2>1. SUFFICES ASSUME NEW k \in 1 .. n + 1, NEW l \in 1 .. n + 1, k < l
                 PROVE  PartEnd(k)' < threadDatas'[l].Ptr
    BY <1>5 DEF InOrder
  <2>2. k \in 1 .. n
    BY <1>1, <2>1
  <2>3. CASE l \in 1 .. n
    BY <1>1, <1>6, <2>1, <2>2, <2>3 DEF IInv, InOrder
  <2>4. CASE l = n + 1
    BY <1>6, <1>7, <2>2, <2>4
  <2> QED
    BY <1>1, <2>3, <2>4
<1>10. DoneHasRows'
  BY <1>1 DEF DoneHasRows
<1>11. ResultHasRows'
  <2>1. RowsJoined = {} /\ RowsJoined' = {}
    BY <1>1 DEF RowsJoined
  <2>2. result = Has(RowsJoined)
    BY DEF IInv, ResultHasRows
  <2> QED
    BY <2>1, <2>2 DEF ResultHasRows, Has
<1> QED
  BY <1>4, <1>5, <1>6, <1>7, <1>8, <1>9, <1>10, <1>11

(***************************************************************************)
(* The last page ends behind the file.                                     *)
(***************************************************************************)
LEMMA MappedEndBehind ==
  ASSUME NEW f, f.size \in Nat
  PROVE  MappedEnd(f) \in Nat /\ f.size <= MappedEnd(f)
<1> DEFINE a == f.size + PageSize - 1
           q == a \div PageSize
<1>1. a \in Nat /\ PageSize \in Nat \ {0} /\ f.size = a - PageSize + 1
  BY PageAssumption
<1> HIDE DEF a
<1>2. q \in Nat /\ PageSize * q <= a /\ a < PageSize * q + PageSize
  BY <1>1, DivBounds
<1>3. MappedEnd(f) = q * PageSize
  BY DEF MappedEnd, a
<1> HIDE DEF q
<1>4. q * PageSize = PageSize * q /\ q * PageSize \in Nat
  BY <1>1, <1>2
<1> QED
  BY <1>1, <1>2, <1>3, <1>4

LEMMA CutPartInvariant == IInv /\ CutPart => IInv'
<1> SUFFICES ASSUME IInv, CutPart PROVE IInv'
  OBVIOUS
<1>n. PICK n, b : n = Len(threadDatas) /\ b = bytesPerCore
  OBVIOUS
<1> DEFINE size == file.size
           start == partStartPtr
<1>1. pc = "split" /\ UNCHANGED <<file, pc, cores, threads, joined, result>>
  BY DEF CutPart
<1>2. /\ size \in Nat /\ (\A p \in file.newlines : p \in Nat /\ p < size)
      /\ cores \in Nat \ {0} /\ b \in Nat
      /\ n \in Nat /\ n < cores
      /\ start \in Nat /\ ptr \in Nat /\ offset \in Nat
      /\ n = 0 => start = 0 /\ ptr = b /\ offset = 0
      /\ n # 0 => /\ start = n * b + n - 1 + offset
                  /\ ptr = start + b + 1 /\ offset >= n
      /\ n * b \in Nat
      /\ threads = <<>> /\ joined = 0
  BY <1>n, <1>1, SplitFacts
<1>3. PICK newline \in file.newlines :
        /\ ptr <= newline
        /\ AddPart(newline - start)
        /\ partStartPtr' = newline + 1
        /\ ptr' = newline + 1 + b + 1
        /\ offset' = offset + (newline - ptr) + 1
  <2>1. \A q : NextScan(q) = q + b + 1
    BY <1>n DEF NextScan
  <2> QED
    BY <2>1 DEF CutPart, NextStart
<1> HIDE DEF size, start
<1>4. /\ newline \in Nat /\ newline < size /\ start <= newline
      /\ newline - start \in Int /\ start + (newline - start) = newline
  <2>1. newline \in Nat /\ newline < size /\ ptr <= newline
    BY <1>2, <1>3
  <2>2. /\ start \in Nat /\ b \in Nat
        /\ n = 0 => start = 0
        /\ n # 0 => ptr = start + b + 1
    BY <1>2
  <2>3. start <= newline
    BY <2>1, <2>2
  <2> QED
    BY <2>1, <2>2, <2>3
<1>5. /\ threadDatas' \in Seq(ThreadData) /\ Len(threadDatas') = n + 1
      /\ DOMAIN threadDatas' = 1 .. n + 1
      /\ \A k \in 1 .. n : PartEnd(k)' \in file.newlines /\ PartEnd(k)' < start
      /\ PartEnd(n + 1)' = newline
      /\ \A k \in 1 .. n + 1 :
           threadDatas'[k].Ptr = IF k = 1 THEN 0 ELSE PartEnd(k - 1)' + 1
      /\ InOrder' /\ DoneHasRows' /\ ResultHasRows'
  <2> DEFINE length == newline - start
  <2>1. length \in Int /\ AddPart(length) /\ partStartPtr + length = newline
    BY <1>3, <1>4 DEF start
  <2> HIDE DEF length
  <2> QED
    BY <1>n, <1>1, <2>1, PartAdded DEF start
<1>6. ASSUME NEW k \in 1 .. n + 1
      PROVE  PartEnd(k)' \in file.newlines /\ PartEnd(k)' < partStartPtr'
  <2>1. CASE k = n + 1
    BY <1>3, <1>4, <1>5, <2>1
  <2>2. CASE k \in 1 .. n
    <3>1. PartEnd(k)' \in file.newlines /\ PartEnd(k)' < start
      BY <1>5, <2>2
    <3>2. PartEnd(k)' \in Nat
      BY <1>2, <3>1
    <3> QED
      BY <1>2, <1>3, <1>4, <3>1, <3>2
  <2> QED
    BY <1>2, <2>1, <2>2
<1>7. partStartPtr' \in 0 .. size /\ ptr' \in Nat /\ offset' \in Nat
  BY <1>2, <1>3, <1>4
<1>8. partStartPtr' = (n + 1) * b + (n + 1) - 1 + offset' /\ offset' >= n + 1
  <2>1. (n + 1) * b = n * b + b
    BY <1>2, OneMoreTimes
  <2>2. CASE n = 0
    <3>1. n * b = 0
      BY <1>2, <2>2
    <3> QED
      BY <1>2, <1>3, <1>4, <2>1, <2>2, <3>1
  <2>3. CASE n # 0
    BY <1>2, <1>3, <1>4, <2>1, <2>3
  <2> QED
    BY <2>2, <2>3
<1>9. TypeOK'
  BY <1>1, <1>5, <1>7 DEF IInv, PartsFollow, TypeOK, size
<1>10. PartsFollow'
  BY <1>1, <1>2, <1>5, <1>6, <1>9 DEF PartsFollow
<1>11. LastPartComplete' /\ UndefinedOnlyAtPageEdge'
  BY <1>1 DEF LastPartComplete, UndefinedOnlyAtPageEdge
<1>12. ThreadsStayInMapping'
  <2>1. MappedEnd(file) \in Nat /\ size <= MappedEnd(file)
    BY <1>2, MappedEndBehind DEF size
  <2>2. \A p \in file.newlines : p <= MappedEnd(file)
    BY <1>2, <2>1
  <2> QED
    BY <1>1, <1>5, <1>6, <2>2 DEF ThreadsStayInMapping
<1>13. Cutting'
  <2>1. bytesPerCore' = b /\ NextScan(partStartPtr)' = partStartPtr' + b + 1
    BY <1>n, <1>1 DEF bytesPerCore, NextScan
  <2>2. threadDatas' # <<>>
    BY <1>2, <1>5
  <2>3. partStartPtr' = PartEnd(n + 1)' + 1 /\ ptr' = partStartPtr' + b + 1
    BY <1>3, <1>5
  <2> QED
    BY <1>1, <1>5, <1>6, <1>8, <2>1, <2>2, <2>3 DEF Cutting
<1>14. ThreadsMatchParts'
  BY <1>1, <1>2, <1>5 DEF ThreadsMatchParts
<1> QED
  BY <1>5, <1>10, <1>11, <1>12, <1>13, <1>14 DEF IInv

(***************************************************************************)
(* A scan that meets a zero behind the end of the file has begun there.    *)
(***************************************************************************)
LEMMA ZeroBehindFile ==
  ASSUME NEW size \in Nat, NEW end \in Nat, NEW from \in Nat, NEW zero \in Nat,
         NEW Stops, \A p \in Nat : size <= p /\ p < end => p \in Stops,
         \A p \in from .. zero - 1 : p \notin Stops,
         size < zero, zero < end, from <= zero
  PROVE  from = zero
<1>1. SUFFICES ASSUME from < zero PROVE FALSE
  OBVIOUS
<1>2. zero - 1 \in from .. zero - 1 /\ zero - 1 \in Nat /\ size <= zero - 1 /\ zero - 1 < end
  BY <1>1
<1> QED
  BY <1>2

(***************************************************************************)
(* The last part reaches the end of the file if what is subtracted from it *)
(* is no more than a share.                                                *)
(***************************************************************************)
LEMMA LastPartEnd ==
  ASSUME NEW size \in Nat, NEW c \in Nat, NEW b \in Nat, NEW n \in Nat,
         NEW start \in Nat, NEW off \in Nat, NEW nb \in Nat, NEW cb \in Nat,
         cb <= size, size < cb + c, nb + b <= cb,
         n + 1 < c => nb + b + b <= cb,
         n + 1 = c => nb + b = cb,
         n < c, n # 0,
         start = nb + n - 1 + off,
         off + n <= b,
         size < start + b + 1
  PROVE  (start + b + 1) - off >= size
<1>1. (start + b + 1) - off = nb + b + n
  OBVIOUS
<1>2. CASE n + 1 = c
  BY <1>1, <1>2
<1>3. CASE n + 1 < c
  OBVIOUS
<1> QED
  BY <1>2, <1>3

LEMMA LastPartInvariant == IInv /\ LastPart => IInv'
<1> SUFFICES ASSUME IInv, LastPart PROVE IInv'
  OBVIOUS
<1>n. PICK n, b : n = Len(threadDatas) /\ b = bytesPerCore
  OBVIOUS
<1> DEFINE size == file.size
           start == partStartPtr
           end == MappedEnd(file)
<1>1. pc = "split" /\ pc' = "start"
      /\ UNCHANGED <<file, cores, partStartPtr, ptr, threads, joined, result>>
  BY DEF LastPart
<1>2. /\ size \in Nat /\ (\A p \in file.newlines : p \in Nat /\ p < size)
      /\ cores \in Nat \ {0} /\ b \in Nat /\ b <= size
      /\ cores * b <= size /\ size < cores * b + cores
      /\ n \in Nat /\ n < cores
      /\ start \in Nat /\ start <= size /\ ptr \in Nat /\ offset \in Nat
      /\ n = 0 => start = 0 /\ ptr = b /\ offset = 0
      /\ n # 0 => /\ start = n * b + n - 1 + offset
                  /\ ptr = start + b + 1 /\ offset >= n
      /\ n * b \in Nat /\ n * b + b <= cores * b
      /\ n + 1 < cores => n * b + b + b <= cores * b
      /\ n + 1 = cores => n * b + b = cores * b
      /\ threads = <<>> /\ joined = 0
  BY <1>n, <1>1, SplitFacts
<1>3. end \in Nat /\ size <= end
  BY <1>2, MappedEndBehind
<1>4. PICK zero \in size .. end - 1 :
        /\ ptr <= zero
        /\ StopsAt(file, ptr, zero)
        /\ offset' = offset + (zero - ptr)
        /\ AddPart(LastLength(start, zero - start, offset'))
  BY DEF LastPart
<1>5. zero \in Nat /\ size <= zero /\ zero < end /\ offset' \in Nat
  BY <1>2, <1>3, <1>4
<1>6. size < zero => ptr = zero
  <2> DEFINE Stops == {p \in Nat : IsStop(file, p)}
  <2>1. \A p \in Nat : size <= p /\ p < end => p \in Stops
    BY DEF IsStop, IsZero
  <2>2. \A p \in ptr .. zero - 1 : p \notin Stops
    BY <1>4 DEF StopsAt
  <2> HIDE DEF Stops, size, end
  <2> QED
    BY <1>2, <1>3, <1>4, <1>5, <2>1, <2>2, ZeroBehindFile
<1>7. PICK length \in Int :
        /\ AddPart(length)
        /\ length = IF zero > size THEN (zero - start) - offset' ELSE zero - start
  <2> HIDE DEF size, start, end
  <2>1. start + (zero - start) = zero /\ zero - start \in Int
    BY <1>2, <1>5
  <2>2. LastLength(start, zero - start, offset') =
          IF zero > size THEN (zero - start) - offset' ELSE zero - start
    BY <2>1 DEF LastLength, size
  <2>3. LastLength(start, zero - start, offset') \in Int
    BY <1>5, <2>1, <2>2
  <2> QED
    BY <1>4, <2>2, <2>3
<1> HIDE DEF size, start, end
<1>8. /\ threadDatas' \in Seq(ThreadData) /\ Len(threadDatas') = n + 1
      /\ DOMAIN threadDatas' = 1 .. n + 1
      /\ \A k \in 1 .. n : PartEnd(k)' \in file.newlines /\ PartEnd(k)' < start
      /\ PartEnd(n + 1)' = start + length
      /\ \A k \in 1 .. n + 1 :
           threadDatas'[k].Ptr = IF k = 1 THEN 0 ELSE PartEnd(k - 1)' + 1
      /\ InOrder' /\ DoneHasRows' /\ ResultHasRows'
  BY <1>n, <1>1, <1>7, PartAdded DEF start
<1>s. /\ size \in Nat /\ start \in Nat /\ ptr \in Nat /\ offset \in Nat
      /\ \A p \in file.newlines : p \in Nat /\ p < size
  BY <1>2
<1>9. /\ start + length \in Int /\ start + length <= zero
      /\ zero = size => start + length = size
      /\ zero > size => start + length = zero - offset'
  <2>1. length = IF zero > size THEN (zero - start) - offset' ELSE zero - start
    BY <1>7
  <2>2. PICK o \in Nat : o = offset'
    BY <1>5
  <2>3. zero \in Nat /\ start \in Nat /\ size \in Nat /\ size <= zero
    BY <1>s, <1>5
  <2>4. CASE zero > size
    <3>1. length = (zero - start) - o
      BY <2>1, <2>2, <2>4
    <3>2. start + length = zero - o
      BY <2>3, <3>1
    <3>3. zero - o <= zero /\ zero - o \in Int
      BY <2>3
    <3>4. zero # size
      BY <2>3, <2>4
    <3> QED
      BY <2>2, <3>2, <3>3, <3>4, Zenon
  <2>5. CASE zero = size
    <3>1. length = zero - start
      BY <2>1, <2>3, <2>5
    <3>2. start + length = zero
      BY <2>3, <3>1
    <3>3. zero <= zero /\ zero \in Int
      BY <2>3
    <3>4. ~ (zero > size)
      BY <2>3, <2>5
    <3> QED
      BY <2>3, <2>5, <3>2, <3>3, <3>4, Zenon
  <2> QED
    BY <2>3, <2>4, <2>5
<1>10. TypeOK'
  BY <1>1, <1>5, <1>8 DEF IInv, PartsFollow, TypeOK
<1>11. PartsFollow'
  <2>1. \A k \in 1 .. n + 1 : k < n + 1 => k \in 1 .. n
    BY <1>2
  <2>2. n + 1 <= cores
    BY <1>2
  <2> QED
    BY <1>1, <1>8, <1>10, <2>1, <2>2 DEF PartsFollow
<1>12. LastPartComplete'
  <2>1. bytesPerCore' = b /\ Len(threadDatas') - 1 = n /\ file' = file
    BY <1>n, <1>1, <1>2, <1>8 DEF bytesPerCore
  <2>2. SUFFICES ASSUME offset' + (n + 1) - 1 <= b PROVE start + length >= size
    BY <1>8, <2>1 DEF LastPartComplete, size
  <2>3. CASE zero = size
    BY <1>2, <1>9, <2>3
  <2>4. CASE zero # size
    <3>1. size < zero /\ ptr = zero /\ offset' = offset
      BY <1>s, <1>4, <1>5, <1>6, <2>4
    <3>2. n # 0
      BY <1>2, <3>1
    <3>3. offset + n <= b /\ size < start + b + 1
      BY <1>2, <2>2, <3>1, <3>2
    <3>4. (start + b + 1) - offset >= size
      <4>1. PICK nb, cb, c, o : nb = n * b /\ cb = cores * b /\ c = cores /\ o = offset
        OBVIOUS
      <4>2. /\ size \in Nat /\ c \in Nat /\ b \in Nat /\ n \in Nat
            /\ start \in Nat /\ o \in Nat /\ nb \in Nat /\ cb \in Nat
            /\ cb <= size /\ size < cb + c /\ nb + b <= cb
            /\ n + 1 < c => nb + b + b <= cb
            /\ n + 1 = c => nb + b = cb
            /\ n < c /\ n # 0
            /\ start = nb + n - 1 + o
            /\ o + n <= b
            /\ size < start + b + 1
        BY <1>2, <3>2, <3>3, <4>1
      <4> QED
        BY <4>1, <4>2, LastPartEnd
    <3> QED
      BY <1>2, <1>9, <3>1, <3>2, <3>4
  <2> QED
    BY <2>3, <2>4
<1>13. UndefinedOnlyAtPageEdge'
  BY <1>1 DEF UndefinedOnlyAtPageEdge
<1>14. ThreadsStayInMapping'
  <2>1. SUFFICES ASSUME NEW k \in 1 .. n + 1 PROVE PartEnd(k)' <= end
    BY <1>1, <1>8 DEF ThreadsStayInMapping, end
  <2>2. CASE k = n + 1
    BY <1>3, <1>5, <1>8, <1>9, <2>2
  <2>3. CASE k \in 1 .. n
    <3>1. PartEnd(k)' \in file.newlines
      BY <1>8, <2>3
    <3>2. \A p \in file.newlines : p <= end
      BY <1>s, <1>3
    <3> QED
      BY <3>1, <3>2
  <2> QED
    BY <1>2, <2>2, <2>3
<1>15. Cutting'
  <2>1. threadDatas' # <<>>
    BY <1>2, <1>8
  <2> QED
    BY <1>1, <2>1 DEF Cutting
<1>16. ThreadsMatchParts'
  BY <1>1, <1>2, <1>8 DEF ThreadsMatchParts
<1> QED
  BY <1>8, <1>11, <1>12, <1>13, <1>14, <1>15, <1>16 DEF IInv

(***************************************************************************)
(* A scan that begins before the end of the last page meets a newline or a *)
(* zero there.                                                             *)
(***************************************************************************)
LEMMA ScanStops ==
  ASSUME NEW f, f.size \in Nat, \A p \in f.newlines : p \in Nat /\ p < f.size,
         NEW from \in Nat, from < MappedEnd(f), f.size < MappedEnd(f)
  PROVE  \E q \in from .. MappedEnd(f) - 1 :
           StopsAt(f, from, q) /\ (q <= f.size \/ q <= from)
<1> DEFINE end == MappedEnd(f)
           size == f.size
           T == {q \in Nat : from <= q /\ IsStop(f, q)}
<1>1. end \in Nat /\ size \in Nat
  BY MappedEndBehind
<1>2. PICK m \in Nat : /\ m = IF from <= size THEN size ELSE from
  BY <1>1
<1> HIDE DEF end, size
<1>3. size <= m /\ m < end /\ from <= m
  BY <1>1, <1>2 DEF end, size
<1>4. m \in T
  BY <1>3 DEF IsStop, IsZero, end, size
<1> HIDE DEF T
<1>5. PICK q \in T : \A p \in T : q <= p
  <2>1. T \in SUBSET Nat
    BY DEF T
  <2> QED
    BY <1>4, <2>1, LeastNatural
<1>6. q \in Nat /\ from <= q /\ IsStop(f, q) /\ q <= m
  BY <1>4, <1>5 DEF T
<1>7. ASSUME NEW k \in from .. q - 1 PROVE ~ IsStop(f, k)
  <2>1. k \in Nat /\ from <= k /\ k < q
    BY <1>6
  <2>2. k \notin T
    BY <1>5, <1>6, <2>1
  <2> QED
    BY <2>1, <2>2 DEF T
<1>8. StopsAt(f, from, q)
  BY <1>6, <1>7 DEF StopsAt
<1>9. q \in from .. end - 1 /\ (q <= size \/ q <= from)
  BY <1>1, <1>2, <1>3, <1>6
<1> QED
  BY <1>8, <1>9 DEF end, size

LEMMA ScanRunsOffInvariant == IInv /\ ScanRunsOff => IInv'
<1> SUFFICES ASSUME IInv, ScanRunsOff PROVE IInv'
  OBVIOUS
<1>n. PICK n, b : n = Len(threadDatas) /\ b = bytesPerCore
  OBVIOUS
<1> DEFINE size == file.size
           start == partStartPtr
           end == MappedEnd(file)
<1>1. /\ pc = "split" /\ pc' = "undefined"
      /\ UNCHANGED <<file, cores, splitVars, threadDatas, threads, joined, result>>
  BY DEF ScanRunsOff
<1>2. /\ size \in Nat /\ (\A p \in file.newlines : p \in Nat /\ p < size)
      /\ b \in Nat /\ b <= size /\ n \in Nat /\ cores * b <= size /\ cores \in Nat
      /\ start \in Nat /\ start <= size /\ ptr \in Nat /\ offset \in Nat
      /\ n = 0 => start = 0 /\ ptr = b
      /\ n # 0 => /\ start = n * b + n - 1 + offset
                  /\ ptr = start + b + 1 /\ offset >= n
      /\ n * b \in Nat /\ n * b + b <= cores * b
      /\ n # 0 => b <= n * b
  BY <1>n, <1>1, SplitFacts
<1>3. end \in Nat /\ size <= end
  BY <1>2, MappedEndBehind
<1>4. \A p \in ptr .. end - 1 : StopsAt(file, ptr, p) => p - start > MaxLength
  BY DEF ScanRunsOff
<1>5. UndefinedOnlyAtPageEdge'
  <2>1. SUFFICES ASSUME offset + n < end - size, size <= MaxLength PROVE FALSE
    <3>1. MappedEnd(file)' = end
      BY <1>1
    <3>2. \/ end - size <= offset + n
          \/ size > MaxLength
      BY <1>2, <1>3, CSharpAssumption, <2>1
    <3> QED
      BY <1>n, <1>1, <3>1, <3>2 DEF UndefinedOnlyAtPageEdge, splitVars
  <2>2. ptr <= size + offset + n /\ (n # 0 => b + 1 <= size)
    <3>1. PICK nb, cb : nb = n * b /\ cb = cores * b
      OBVIOUS
    <3>2. nb \in Nat /\ cb \in Nat /\ nb + b <= cb /\ cb <= size /\ (n # 0 => b <= nb)
      <4>1. cores \in Nat /\ b \in Nat
        BY <1>2
      <4>2. \A x, y \in Nat : x * y \in Nat
        OBVIOUS
      <4>3. cb \in Nat
        BY <3>1, <4>1, <4>2
      <4> QED
        BY <1>2, <3>1, <4>3
    <3>3. CASE n = 0
      BY <1>2, <3>3
    <3>4. CASE n # 0
      <4>1. /\ start = nb + n - 1 + offset /\ ptr = start + b + 1
            /\ start <= size /\ offset >= n /\ b <= nb
        BY <1>2, <3>1, <3>2, <3>4
      <4> HIDE DEF start, size
      <4> QED
        BY <1>2, <3>2, <3>4, <4>1
    <3> QED
      BY <3>3, <3>4
  <2> HIDE DEF size, start, end
  <2>s. size \in Nat /\ ptr \in Nat /\ offset \in Nat /\ n \in Nat /\ end \in Nat
    BY <1>2, <1>3
  <2>3. ptr < end /\ size < end
    BY <2>s, <2>1, <2>2
  <2>4. PICK q \in ptr .. end - 1 : StopsAt(file, ptr, q) /\ (q <= size \/ q <= ptr)
    BY <1>2, <2>3, ScanStops DEF size, end
  <2>5. q - start > MaxLength
    BY <1>4, <2>4
  <2>6. q - start <= size
    <3>1. q \in Nat
      BY <1>2, <1>3, <2>4
    <3>2. CASE q <= size
      BY <1>2, <3>1, <3>2
    <3>3. CASE q <= ptr
      <4>1. CASE n = 0
        BY <1>2, <3>1, <3>3, <4>1
      <4>2. CASE n # 0
        BY <1>2, <2>2, <3>1, <3>3, <4>2
      <4> QED
        BY <4>1, <4>2
    <3> QED
      BY <2>4, <3>2, <3>3
  <2>7. q - start \in Int /\ MaxLength \in Nat
    BY <1>2, <1>3, <2>4, CSharpAssumption
  <2> QED
    BY <1>2, <2>1, <2>5, <2>6, <2>7
<1> QED
  BY <1>1, <1>5, MovesOn

(***************************************************************************)
(* What is so of parts and threads.                                        *)
(***************************************************************************)
LEMMA AliveFacts ==
  ASSUME IInv
  PROVE  /\ Len(threads) \in Nat /\ DOMAIN threads = 1 .. Len(threads)
         /\ Len(threadDatas) \in Nat /\ DOMAIN threadDatas = 1 .. Len(threadDatas)
         /\ Len(threads) <= Len(threadDatas)
         /\ joined \in Nat /\ joined <= Len(threads)
         /\ threads \in Seq({"running", "done"})
         /\ threadDatas \in Seq(ThreadData)
         /\ \A k \in 1 .. Len(threadDatas) :
              /\ threadDatas[k] \in ThreadData
              /\ threadDatas[k].Ptr \in Nat /\ threadDatas[k].Length \in Int
              /\ PartEnd(k) \in Int
<1>1. /\ threads \in Seq({"running", "done"}) /\ threadDatas \in Seq(ThreadData)
      /\ joined \in 0 .. Len(threads)
      /\ Len(threads) <= Len(threadDatas)
  BY DEF IInv, PartsFollow, TypeOK, ThreadsMatchParts
<1>2. /\ Len(threads) \in Nat /\ DOMAIN threads = 1 .. Len(threads)
      /\ Len(threadDatas) \in Nat /\ DOMAIN threadDatas = 1 .. Len(threadDatas)
  BY <1>1, LenProperties
<1>3. \A k \in 1 .. Len(threadDatas) : threadDatas[k] \in ThreadData
  BY <1>1, ElementOfSeq
<1>4. \A k \in 1 .. Len(threadDatas) :
        threadDatas[k].Ptr \in Nat /\ threadDatas[k].Length \in Int
  BY <1>3 DEF ThreadData
<1>5. \A k \in 1 .. Len(threadDatas) : PartEnd(k) \in Int
  BY <1>4 DEF PartEnd
<1> QED
  BY <1>1, <1>2, <1>3, <1>4, <1>5

(***************************************************************************)
(* Steps that leave the place of the parts alone, once they are cut.       *)
(***************************************************************************)
LEMMA SameParts ==
  ASSUME IInv, Alive, TypeOK',
         UNCHANGED <<file, pc, cores, splitVars>>,
         Len(threadDatas') = Len(threadDatas),
         \A k \in DOMAIN threadDatas : /\ threadDatas'[k].Ptr = threadDatas[k].Ptr
                                       /\ threadDatas'[k].Length = threadDatas[k].Length
  PROVE  /\ PartsFollow' /\ LastPartComplete' /\ ThreadsStayInMapping'
         /\ UndefinedOnlyAtPageEdge' /\ Cutting' /\ InOrder'
         /\ \A k \in 1 .. Len(threadDatas) : RowsHandled(k)' = RowsHandled(k)
<1>n. PICK n : n = Len(threadDatas)
  OBVIOUS
<1>1. n \in Nat /\ DOMAIN threadDatas = 1 .. n /\ DOMAIN threadDatas' = 1 .. n
  BY <1>n, LenProperties DEF TypeOK, IInv, PartsFollow
<1>2. \A k \in 1 .. n : PartEnd(k)' = PartEnd(k)
  BY <1>1 DEF PartEnd
<1>3. pc \in {"start", "join"} /\ n # 0
  <2>1. threadDatas # <<>>
    BY DEF Alive, IInv, Cutting
  <2> QED
    BY <1>n, <2>1, EmptySeq DEF TypeOK, IInv, PartsFollow, Alive
<1>4. \A k \in 1 .. n : threadDatas[k].Ptr = IF k = 1 THEN 0 ELSE PartEnd(k - 1) + 1
  BY <1>1 DEF IInv, PartsFollow
<1>5. \A k \in 1 .. n : threadDatas'[k].Ptr = IF k = 1 THEN 0 ELSE PartEnd(k - 1)' + 1
  <2>1. \A k \in 1 .. n : k # 1 => k - 1 \in 1 .. n
    BY <1>1
  <2> QED
    BY <1>1, <1>2, <1>4, <2>1
<1>6. \A k \in 1 .. n : k < n => PartEnd(k)' \in file.newlines
  BY <1>n, <1>1, <1>2 DEF IInv, PartsFollow
<1>7. PartsFollow'
  BY <1>n, <1>1, <1>5, <1>6 DEF IInv, PartsFollow
<1>8. LastPartComplete'
  <2>1. PartEnd(n)' = PartEnd(n) /\ bytesPerCore' = bytesPerCore
    BY <1>1, <1>2, <1>3 DEF bytesPerCore
  <2> QED
    BY <1>n, <2>1 DEF IInv, LastPartComplete, splitVars
<1>9. ThreadsStayInMapping' /\ UndefinedOnlyAtPageEdge'
  <2>1. ThreadsStayInMapping'
    BY <1>1, <1>2 DEF IInv, ThreadsStayInMapping
  <2>2. UndefinedOnlyAtPageEdge'
    BY <1>3 DEF UndefinedOnlyAtPageEdge
  <2> QED
    BY <2>1, <2>2
<1>10. Cutting'
  <2>1. threadDatas' # <<>>
    BY <1>n, <1>3
  <2> QED
    BY <1>3, <2>1 DEF Cutting
<1>11. InOrder'
  BY <1>1, <1>2 DEF IInv, InOrder
<1>12. \A k \in 1 .. n : RowsHandled(k)' = RowsHandled(k)
  BY <1>1, <1>2 DEF RowsHandled
<1> QED
  BY <1>n, <1>7, <1>8, <1>9, <1>10, <1>11, <1>12

LEMMA StartThreadInvariant == IInv /\ StartThread => IInv'
<1> SUFFICES ASSUME IInv, StartThread PROVE IInv'
  OBVIOUS
<1>n. PICK n : n = Len(threads)
  OBVIOUS
<1>1. /\ pc = "start" /\ n < Len(threadDatas) /\ threads' = Append(threads, "running")
      /\ UNCHANGED <<file, pc, cores, splitVars, threadDatas, joined, result>>
  BY <1>n DEF StartThread
<1>2. /\ n \in Nat /\ DOMAIN threads = 1 .. n /\ Len(threadDatas) \in Nat
      /\ joined \in Nat /\ joined <= n
      /\ threads \in Seq({"running", "done"})
  BY <1>n, AliveFacts
<1>3. /\ threads' \in Seq({"running", "done"}) /\ Len(threads') = n + 1
      /\ threads'[n + 1] = "running" /\ \A i \in 1 .. n : threads'[i] = threads[i]
  BY <1>n, <1>1, <1>2, AppendProperties
<1>4. DOMAIN threads' = 1 .. n + 1
  BY <1>3, LenProperties
<1>5. TypeOK'
  <2>1. joined' \in 0 .. Len(threads')
    BY <1>1, <1>2, <1>3
  <2> QED
    BY <1>1, <1>3, <2>1 DEF IInv, PartsFollow, TypeOK, splitVars
<1>6. /\ PartsFollow' /\ LastPartComplete' /\ ThreadsStayInMapping'
      /\ UndefinedOnlyAtPageEdge' /\ Cutting' /\ InOrder'
      /\ \A k \in 1 .. Len(threadDatas) : RowsHandled(k)' = RowsHandled(k)
  BY <1>1, <1>5, SameParts DEF Alive
<1>7. ThreadsMatchParts'
  <2>1. \A i \in 1 .. joined : i \in 1 .. n /\ threads[i] = "done"
    BY <1>2 DEF IInv, ThreadsMatchParts
  <2> QED
    BY <1>1, <1>2, <1>3, <2>1 DEF ThreadsMatchParts
<1>8. DoneHasRows'
  <2>1. SUFFICES ASSUME NEW i \in 1 .. n + 1, threads'[i] = "done"
                 PROVE  /\ threadDatas'[i].Length >= 0
                        /\ threadDatas'[i].ThreadResult = Has(RowsHandled(i))'
    BY <1>4 DEF DoneHasRows
  <2>2. i \in 1 .. n
    BY <1>2, <1>3, <2>1
  <2>3. threadDatas[i].Length >= 0 /\ threadDatas[i].ThreadResult = Has(RowsHandled(i))
    BY <1>2, <1>3, <2>1, <2>2 DEF IInv, DoneHasRows
  <2>4. RowsHandled(i)' = RowsHandled(i)
    BY <1>1, <1>2, <1>6, <2>2
  <2> QED
    BY <1>1, <2>3, <2>4 DEF Has
<1>9. ResultHasRows'
  <2>1. RowsJoined' = RowsJoined
    BY <1>1 DEF RowsJoined, RowsHandled, PartEnd
  <2>2. result = Has(RowsJoined)
    BY DEF IInv, ResultHasRows
  <2> QED
    BY <1>1, <2>1, <2>2 DEF ResultHasRows, Has
<1> QED
  BY <1>6, <1>7, <1>8, <1>9 DEF IInv

(***************************************************************************)
(* The end of a thread, with its dictionary.                               *)
(***************************************************************************)
LEMMA ThreadRunnerInvariant ==
  ASSUME NEW i \in DOMAIN threads, IInv, ThreadRunner(i)
  PROVE  IInv'
<1> DEFINE part == threadDatas[i]
           table == HandleAll(RowsHandled(i))
           new == [part EXCEPT !.ThreadResult = table]
<1>n. PICK n : n = Len(threadDatas)
  OBVIOUS
<1>m. PICK m : m = Len(threads)
  OBVIOUS
<1>1. /\ n \in Nat /\ DOMAIN threadDatas = 1 .. n /\ m \in Nat /\ DOMAIN threads = 1 .. m
      /\ m <= n /\ joined \in Nat /\ joined <= m /\ i \in 1 .. n /\ i \in 1 .. m
      /\ threads \in Seq({"running", "done"}) /\ threadDatas \in Seq(ThreadData)
      /\ part \in ThreadData
  BY <1>n, <1>m, AliveFacts
<1>2. /\ Alive /\ threads[i] = "running" /\ part.Length >= 0
      /\ threadDatas' = [threadDatas EXCEPT ![i] = new]
      /\ threads' = [threads EXCEPT ![i] = "done"]
      /\ UNCHANGED <<file, pc, cores, splitVars, joined, result>>
  BY DEF ThreadRunner, HandleAll
<1>3. IsFile(file)
  BY DEF IInv, PartsFollow, TypeOK
<1>4. table = Has(RowsHandled(i)) /\ table \in Tables
  <2>1. KeyedRows(RowsHandled(i))
    BY <1>3, RowsHandledAreRows
  <2> QED
    BY <2>1, HandleAllHas, HasType
<1> HIDE DEF table
<1>5. /\ new \in ThreadData /\ new.Ptr = part.Ptr /\ new.Length = part.Length
      /\ new.ThreadResult = table
  BY <1>1, <1>4 DEF ThreadData
<1> HIDE DEF new
<1>6. /\ threadDatas' \in Seq(ThreadData) /\ Len(threadDatas') = n /\ threadDatas'[i] = new
      /\ \A k \in 1 .. n : k # i => threadDatas'[k] = threadDatas[k]
  BY <1>n, <1>1, <1>2, <1>5, ExceptSeq
<1>7. /\ threads' \in Seq({"running", "done"}) /\ Len(threads') = m
      /\ threads'[i] = "done"
      /\ \A k \in 1 .. m : k # i => threads'[k] = threads[k]
  BY <1>m, <1>1, <1>2, ExceptSeq
<1>8. DOMAIN threads' = 1 .. m /\ DOMAIN threadDatas' = 1 .. n
  BY <1>6, <1>7, LenProperties
<1>9. TypeOK'
  BY <1>m, <1>2, <1>6, <1>7 DEF IInv, PartsFollow, TypeOK, splitVars
<1>10. \A k \in 1 .. n : /\ threadDatas'[k].Ptr = threadDatas[k].Ptr
                         /\ threadDatas'[k].Length = threadDatas[k].Length
  BY <1>5, <1>6
<1>11. /\ PartsFollow' /\ LastPartComplete' /\ ThreadsStayInMapping'
       /\ UndefinedOnlyAtPageEdge' /\ Cutting' /\ InOrder'
       /\ \A k \in 1 .. n : RowsHandled(k)' = RowsHandled(k)
  BY <1>n, <1>1, <1>2, <1>6, <1>9, <1>10, SameParts
<1>12. \A k \in 1 .. joined : k \in 1 .. n /\ k # i /\ threads'[k] = "done"
  <2>1. \A k \in 1 .. joined : k \in 1 .. m /\ k \in 1 .. n /\ k # i /\ threads[k] = "done"
    BY <1>1, <1>2 DEF IInv, ThreadsMatchParts
  <2> QED
    BY <1>7, <2>1
<1>13. ThreadsMatchParts'
  BY <1>n, <1>m, <1>1, <1>2, <1>6, <1>7, <1>12 DEF IInv, ThreadsMatchParts, Alive
<1>14. DoneHasRows'
  <2>1. SUFFICES ASSUME NEW k \in 1 .. m, threads'[k] = "done"
                 PROVE  /\ threadDatas'[k].Length >= 0
                        /\ threadDatas'[k].ThreadResult = Has(RowsHandled(k))'
    BY <1>8 DEF DoneHasRows
  <2>2. k \in 1 .. n
    BY <1>1
  <2>3. RowsHandled(k)' = RowsHandled(k)
    BY <1>11, <2>2
  <2>4. CASE k = i
    <3>1. /\ threadDatas'[i].ThreadResult = Has(RowsHandled(i))
          /\ threadDatas'[i].Length >= 0
      BY <1>2, <1>4, <1>5, <1>6
    <3> QED
      BY <1>2, <2>3, <2>4, <3>1 DEF Has
  <2>5. CASE k # i
    <3>1. threadDatas[k].Length >= 0 /\ threadDatas[k].ThreadResult = Has(RowsHandled(k))
      BY <1>1, <1>7, <2>1, <2>5 DEF IInv, DoneHasRows
    <3>2. threadDatas'[k] = threadDatas[k]
      BY <1>6, <2>2, <2>5
    <3> QED
      BY <1>2, <2>3, <3>1, <3>2 DEF Has
  <2> QED
    BY <2>4, <2>5
<1>15. ResultHasRows'
  <2>1. RowsJoined' = RowsJoined
    BY <1>2, <1>11, <1>12 DEF RowsJoined
  <2>2. result = Has(RowsJoined)
    BY DEF IInv, ResultHasRows
  <2> QED
    BY <1>2, <2>1, <2>2 DEF ResultHasRows, Has
<1> QED
  BY <1>11, <1>13, <1>14, <1>15 DEF IInv

(***************************************************************************)
(* Main merges the dictionary of the thread it has joined.                 *)
(***************************************************************************)
LEMMA MergeType ==
  ASSUME NEW a \in Stat, NEW b \in Stat
  PROVE  Merge(a, b) \in Stat
  BY DEF Stat, Merge, Lesser, Greater

LEMMA MergeTableType ==
  ASSUME NEW g \in Tables, NEW m \in Tables
  PROVE  MergeTable(g, m) \in Tables
<1>1. New \in Stat
  BY DEF New, Stat
<1>2. \A n \in Keys : Entry(g, n) \in Stat /\ (m[n] # Absent => m[n] \in Stat)
  BY <1>1 DEF Entry, Tables
<1>3. \A n \in Keys : m[n] # Absent => Merge(Entry(g, n), m[n]) \in Stat
  BY <1>2, MergeType
<1> QED
  BY <1>3 DEF MergeTable, Tables

LEMMA JoinAndMergeInvariant == IInv /\ JoinAndMerge => IInv'
<1> SUFFICES ASSUME IInv, JoinAndMerge PROVE IInv'
  OBVIOUS
<1>j. PICK j : j = joined + 1
  OBVIOUS
<1>n. PICK n : n = Len(threadDatas)
  OBVIOUS
<1>1. /\ pc = "join" /\ joined < Len(threads) /\ threads[j] = "done"
      /\ result' = MergeTable(result, threadDatas[j].ThreadResult)
      /\ joined' = j
      /\ UNCHANGED <<file, pc, cores, splitVars, threadDatas, threads>>
  BY <1>j DEF JoinAndMerge, Join
<1>2. /\ joined \in Nat /\ Len(threads) \in Nat /\ n \in Nat /\ Len(threads) <= n
      /\ DOMAIN threads = 1 .. Len(threads) /\ DOMAIN threadDatas = 1 .. n
      /\ \A k \in 1 .. n : /\ threadDatas[k] \in ThreadData
                           /\ threadDatas[k].Ptr \in Nat /\ PartEnd(k) \in Int
  BY <1>n, AliveFacts
<1>3. j \in 1 .. Len(threads) /\ j \in 1 .. n /\ j \in Nat
  BY <1>j, <1>1, <1>2
<1>4. threadDatas[j].ThreadResult \in Tables /\ result \in Tables
  BY <1>2, <1>3 DEF ThreadData, IInv, PartsFollow, TypeOK
<1>5. TypeOK'
  <2>1. result' \in Tables
    BY <1>1, <1>4, MergeTableType
  <2>2. joined' \in 0 .. Len(threads')
    BY <1>1, <1>2, <1>3
  <2> QED
    BY <1>1, <2>1, <2>2 DEF IInv, PartsFollow, TypeOK, splitVars
<1>6. /\ PartsFollow' /\ LastPartComplete' /\ ThreadsStayInMapping'
      /\ UndefinedOnlyAtPageEdge' /\ Cutting' /\ InOrder'
  BY <1>1, <1>5, SameParts DEF Alive
<1>7. \A k \in 1 .. j : k \in 1 .. joined \/ k = j
  BY <1>2, <1>j
<1>8. ThreadsMatchParts'
  <2>1. \A k \in 1 .. j : threads[k] = "done"
    BY <1>1, <1>7 DEF IInv, ThreadsMatchParts
  <2> QED
    BY <1>1, <2>1 DEF IInv, ThreadsMatchParts
<1>9. DoneHasRows'
  <2>1. DoneHasRows
    BY DEF IInv
  <2>2. \A i : RowsHandled(i)' = RowsHandled(i)
    BY <1>1 DEF RowsHandled, PartEnd
  <2> QED
    BY <1>1, <2>1, <2>2 DEF DoneHasRows, Has
<1>10. ResultHasRows'
  <2>1. \A k \in 1 .. joined : k \in 1 .. j
    BY <1>2, <1>j
  <2>2. j \in 1 .. j
    BY <1>3
  <2>3. result = Has(RowsJoined) /\ threadDatas[j].ThreadResult = Has(RowsHandled(j))
    BY <1>1, <1>2, <1>3 DEF IInv, ResultHasRows, DoneHasRows
  <2>4. RowsJoined' = RowsJoined \cup RowsHandled(j)
    <3>1. \A k : RowsHandled(k)' = RowsHandled(k)
      BY <1>1 DEF RowsHandled, PartEnd
    <3>2. RowsJoined' = {p \in file.newlines : \E k \in 1 .. j : p \in RowsHandled(k)}
      BY <1>1, <3>1 DEF RowsJoined
    <3>3. RowsHandled(j) \in SUBSET file.newlines
      BY DEF RowsHandled
    <3> QED
      BY <1>7, <2>1, <2>2, <3>2, <3>3 DEF RowsJoined
  <2>5. RowsJoined \cap RowsHandled(j) = {}
    <3>1. SUFFICES ASSUME NEW p \in file.newlines, NEW k \in 1 .. joined,
                          p \in RowsHandled(k), p \in RowsHandled(j)
                   PROVE  FALSE
      BY DEF RowsJoined
    <3>2. k \in 1 .. n /\ k < j
      BY <1>2, <1>3, <1>j
    <3>3. PartEnd(k) < threadDatas[j].Ptr
      BY <1>2, <1>3, <3>2 DEF IInv, InOrder
    <3>4. p < PartEnd(k) /\ threadDatas[j].Ptr <= p /\ p \in Nat
      BY <3>1 DEF RowsHandled, IInv, PartsFollow, TypeOK, IsFile
    <3>5. PartEnd(k) \in Int /\ threadDatas[j].Ptr \in Nat
      BY <1>2, <1>3, <3>2
    <3> QED
      BY <3>3, <3>4, <3>5
  <2>6. result' = Has(RowsJoined \cup RowsHandled(j))
    <3>1. KeyedRows(RowsJoined) /\ KeyedRows(RowsHandled(j))
      BY RowsHandledAreRows DEF IInv, PartsFollow, TypeOK
    <3> QED
      BY <1>1, <2>3, <2>5, <3>1, MergeTableHas
  <2> QED
    BY <1>1, <2>4, <2>6 DEF ResultHasRows, Has
<1> QED
  BY <1>6, <1>8, <1>9, <1>10 DEF IInv

-----------------------------------------------------------------------------
LEMMA NextInvariant == IInv /\ [Next]_vars => IInv'
<1> SUFFICES ASSUME IInv, [Next]_vars PROVE IInv'
  OBVIOUS
<1>1. CASE Main
  BY <1>1, MapFileInvariant, MapFailsInvariant, CutPartInvariant, LastPartInvariant,
     ScanRunsOffInvariant, StartThreadInvariant, AllStartedInvariant,
     JoinAndMergeInvariant, PrintResultInvariant
     DEF Main
<1>2. CASE \E i \in DOMAIN threads : Thread(i)
  BY <1>2, ThreadRunnerInvariant, ThreadThrowsInvariant DEF Thread
<1>3. CASE UNCHANGED vars
  BY <1>3, StutterInvariant
<1> QED
  BY <1>1, <1>2, <1>3 DEF Next

(***************************************************************************)
(* The inductive invariant holds throughout.                               *)
(***************************************************************************)
THEOREM Invariance == Spec => []IInv
  BY InitInvariant, NextInvariant, PTL DEF Spec

(***************************************************************************)
(* The parts follow one another with one newline between them, and there   *)
(* are never more of them than cores although every scan after the first   *)
(* steps over a byte; and the variables keep their types.                  *)
(***************************************************************************)
THEOREM PartsFollowOneAnother == Spec => []PartsFollow
<1>1. IInv => PartsFollow
  BY DEF IInv
<1> QED
  BY <1>1, Invariance, PTL

(***************************************************************************)
(* What is subtracted from the last part takes no byte of the file from it *)
(* as long as it is no more, with the newlines between the parts, than one *)
(* share.                                                                  *)
(***************************************************************************)
THEOREM LastPartReachesEnd == Spec => []LastPartComplete
<1>1. IInv => LastPartComplete
  BY DEF IInv
<1> QED
  BY <1>1, Invariance, PTL

(***************************************************************************)
(* No thread reads beyond the mapping, for every size of a page.           *)
(***************************************************************************)
THEOREM NoThreadLeavesMapping == Spec => []ThreadsStayInMapping
<1>1. IInv => ThreadsStayInMapping
  BY DEF IInv
<1> QED
  BY <1>1, Invariance, PTL

(***************************************************************************)
(* The pointer of SplitIntoChunks leaves the mapping only if the last page *)
(* has no more bytes behind the file than the parts got beyond their share *)
(* and there are parts, or the file is longer than an int says.            *)
(***************************************************************************)
THEOREM ScanStaysInMapping == Spec => []UndefinedOnlyAtPageEdge
<1>1. IInv => UndefinedOnlyAtPageEdge
  BY DEF IInv
<1> QED
  BY <1>1, Invariance, PTL

(***************************************************************************)
(* The rows of the parts are the rows with a newline before the end of the *)
(* last part, except those whose newline ends a part.                      *)
(***************************************************************************)
LEMMA JoinedAreCounted ==
  ASSUME IInv, pc = "printed"
  PROVE  RowsJoined = CountedRows
<1>n. PICK n : n = Len(threadDatas)
  OBVIOUS
<1>1. /\ n \in Nat /\ DOMAIN threadDatas = 1 .. n /\ joined = n
      /\ DOMAIN threads = 1 .. n
      /\ \A k \in 1 .. n : /\ threadDatas[k].Ptr \in Nat /\ PartEnd(k) \in Int
                           /\ threadDatas[k].Length \in Int
  BY <1>n, AliveFacts DEF IInv, ThreadsMatchParts
<1>2. \A p \in file.newlines : p \in Nat
  BY DEF IInv, PartsFollow, TypeOK, IsFile
<1>3. n # 0
  <2>1. threadDatas # <<>>
    BY DEF IInv, Cutting
  <2> QED
    BY <1>n, <2>1, EmptySeq DEF IInv, PartsFollow, TypeOK
<1>4. \A k, l \in 1 .. n : k < l => PartEnd(k) < threadDatas[l].Ptr
  BY <1>1 DEF IInv, InOrder
<1>5. \A k \in 1 .. n : threadDatas[k].Ptr <= PartEnd(k)
  <2>1. \A k \in 1 .. n : threadDatas[k].Length >= 0
    BY <1>1 DEF IInv, ThreadsMatchParts, DoneHasRows
  <2> QED
    BY <1>1, <2>1 DEF PartEnd
<1>6. \A k, l \in 1 .. n : k < l => PartEnd(k) < PartEnd(l)
  <2>1. SUFFICES ASSUME NEW k \in 1 .. n, NEW l \in 1 .. n, k < l
                 PROVE  PartEnd(k) < PartEnd(l)
    OBVIOUS
  <2>2. PartEnd(k) < threadDatas[l].Ptr /\ threadDatas[l].Ptr <= PartEnd(l)
    BY <1>4, <1>5, <2>1
  <2> QED
    BY <1>1, <2>2
<1>7. ASSUME NEW p \in RowsJoined PROVE p \in CountedRows
  <2>1. PICK k \in 1 .. n : p \in RowsHandled(k)
    BY <1>1, <1>7 DEF RowsJoined
  <2>2. /\ p \in file.newlines /\ threadDatas[k].Ptr <= p /\ p < PartEnd(k)
        /\ p \in Nat /\ PartEnd(k) \in Int /\ PartEnd(n) \in Int /\ n \in 1 .. n
    BY <1>1, <1>2, <1>3, <2>1 DEF RowsHandled
  <2>3. p < PartEnd(n)
    <3>1. CASE k = n
      BY <2>2, <3>1
    <3>2. CASE k # n
      <4>1. k < n
        BY <1>1, <3>2
      <4>2. PartEnd(k) < PartEnd(n)
        BY <1>6, <2>2, <4>1
      <4> QED
        BY <2>2, <4>2
    <3> QED
      BY <3>1, <3>2
  <2>4. ASSUME NEW l \in 1 .. n - 1, p = PartEnd(l) PROVE FALSE
    <3>1. l \in 1 .. n
      BY <1>1
    <3>2. CASE l < k
      <4>1. PartEnd(l) < threadDatas[k].Ptr
        BY <1>4, <3>1, <3>2
      <4> QED
        BY <1>1, <2>2, <2>4, <3>1, <4>1
    <3>3. CASE k < l
      <4>1. PartEnd(k) < PartEnd(l)
        BY <1>6, <3>1, <3>3
      <4> QED
        BY <1>1, <2>2, <2>4, <3>1, <4>1
    <3>4. CASE k = l
      BY <2>2, <2>4, <3>4
    <3> QED
      BY <1>1, <3>1, <3>2, <3>3, <3>4
  <2> QED
    BY <1>n, <2>2, <2>3, <2>4 DEF CountedRows, LostRows
<1>8. ASSUME NEW p \in CountedRows PROVE p \in RowsJoined
  <2> DEFINE start == [k \in 1 .. n |-> threadDatas[k].Ptr]
             end == [k \in 1 .. n |-> PartEnd(k)]
  <2>1. \A k \in 1 .. n : /\ start[k] \in Int /\ end[k] \in Int
                          /\ start[k] = IF k = 1 THEN 0 ELSE end[k - 1] + 1
    <3>1. ASSUME NEW k \in 1 .. n
          PROVE  start[k] = IF k = 1 THEN 0 ELSE end[k - 1] + 1
      <4>1. threadDatas[k].Ptr = IF k = 1 THEN 0 ELSE PartEnd(k - 1) + 1
        BY <1>1 DEF IInv, PartsFollow
      <4>2. k # 1 => k - 1 \in 1 .. n
        BY <1>1
      <4> QED
        BY <4>1, <4>2
    <3> QED
      BY <1>1, <3>1
  <2>2. /\ p \in file.newlines /\ p \in Nat /\ p < PartEnd(n) /\ p \notin LostRows
        /\ PartEnd(n) \in Int /\ end[n] = PartEnd(n)
    BY <1>n, <1>1, <1>2, <1>3 DEF CountedRows
  <2> HIDE DEF start, end
  <2>3. p <= end[n]
    BY <2>2
  <2>4. PICK k \in 1 .. n : start[k] <= p /\ p <= end[k]
    BY <1>1, <1>3, <2>1, <2>2, <2>3, ChunkOfByte
  <2>5. threadDatas[k].Ptr <= p /\ p <= PartEnd(k)
    BY <2>4 DEF start, end
  <2>6. p # PartEnd(k)
    <3>1. CASE k = n
      BY <2>2, <3>1
    <3>2. CASE k # n
      <4>1. k \in 1 .. n - 1
        BY <1>1, <3>2
      <4> QED
        BY <1>n, <2>2, <4>1 DEF LostRows
    <3> QED
      BY <3>1, <3>2
  <2>7. p < PartEnd(k)
    BY <1>1, <2>2, <2>5, <2>6
  <2> QED
    BY <1>1, <2>2, <2>5, <2>7 DEF RowsJoined, RowsHandled
<1> QED
  BY <1>7, <1>8

(***************************************************************************)
(* What is printed is, for each key, the statistics of the rows with a     *)
(* newline before the end of the last part but the last row of every other *)
(* part, and of a zero that is in no row: for every file, number of cores  *)
(* and page, however the threads interleave.                               *)
(***************************************************************************)
THEOREM PrintsAllRowsButLostOnes == Spec => []PrintsAllButLostRows
<1>1. IInv => PrintsAllButLostRows
  <2>1. SUFFICES ASSUME IInv, pc = "printed"
                 PROVE  result = WithZero(Reference!Tally(Keyed(file), CountedRows))
    BY DEF PrintsAllButLostRows
  <2>2. result = Has(RowsJoined)
    BY <2>1 DEF IInv, ResultHasRows
  <2>3. KeyedRows(RowsJoined)
    BY <2>1, RowsHandledAreRows DEF IInv, PartsFollow, TypeOK
  <2>4. Has(RowsJoined) = WithZero(Reference!Tally(Keyed(file), RowsJoined))
    BY <2>3, HasIsWithZero
  <2> QED
    BY <2>1, <2>2, <2>4, JoinedAreCounted
<1> QED
  BY <1>1, Invariance, PTL

-----------------------------------------------------------------------------
(***************************************************************************)
(* The program comes to an end.  What is left to do, as a number: a byte   *)
(* that is not cut may cost the start of a thread, its run and its join,   *)
(* and there is one more part, the last, which may have no byte.           *)
(***************************************************************************)
EndedThreads == {i \in DOMAIN threads : threads[i] # "running"}

BytesLeft == IF pc \in {"map", "split"} THEN 4 * (file.size - partStartPtr) ELSE 0

MainLeft ==
  CASE pc = "map"   -> 7
    [] pc = "split" -> 6
    [] pc = "start" -> 2
    [] pc = "join"  -> 1
    [] OTHER        -> 0

PartsLeft ==
  (Len(threadDatas) - Len(threads)) + (Len(threadDatas) - Cardinality(EndedThreads))
    + (Len(threadDatas) - joined)

Left == BytesLeft + MainLeft + PartsLeft

LEMMA EndedFacts ==
  ASSUME IInv
  PROVE  /\ IsFiniteSet(EndedThreads) /\ Cardinality(EndedThreads) \in Nat
         /\ Cardinality(EndedThreads) <= Len(threads)
<1>1. PICK n : n = Len(threads)
  OBVIOUS
<1>2. n \in Nat /\ EndedThreads \in SUBSET (1 .. n)
  BY <1>1, AliveFacts DEF EndedThreads
<1>3. IsFiniteSet(1 .. n) /\ Cardinality(1 .. n) = n
  BY <1>2, FS_Interval
<1>4. IsFiniteSet(EndedThreads) /\ Cardinality(EndedThreads) <= n
  BY <1>2, <1>3, FS_Subset
<1> QED
  BY <1>1, <1>4, FS_CardinalityType

LEMMA LeftFacts ==
  ASSUME IInv
  PROVE  BytesLeft \in Nat /\ MainLeft \in Nat /\ PartsLeft \in Nat
<1>1. BytesLeft \in Nat
  <2>1. PICK s, p : s = file.size /\ p = partStartPtr
    OBVIOUS
  <2>2. s \in Nat /\ p \in 0 .. s
    BY <2>1 DEF IInv, PartsFollow, TypeOK, IsFile
  <2>3. 4 * (s - p) \in Nat
    BY <2>2
  <2> QED
    BY <2>1, <2>3 DEF BytesLeft
<1>2. MainLeft \in Nat
  BY DEF MainLeft
<1>3. PartsLeft \in Nat
  <2>1. PICK n, t, e, j : /\ n = Len(threadDatas) /\ t = Len(threads)
                          /\ e = Cardinality(EndedThreads) /\ j = joined
    OBVIOUS
  <2>2. /\ n \in Nat /\ t \in Nat /\ e \in Nat /\ j \in Nat
        /\ t <= n /\ e <= t /\ j <= t
    BY <2>1, AliveFacts, EndedFacts
  <2>3. (n - t) + (n - e) + (n - j) \in Nat
    BY <2>2
  <2> QED
    BY <2>1, <2>3 DEF PartsLeft
<1> QED
  BY <1>1, <1>2, <1>3

(***************************************************************************)
(* A part more is the start of a thread, its run and its join more.        *)
(***************************************************************************)
LEMMA PartCosts ==
  ASSUME IInv, pc = "split", UNCHANGED <<file, threads, joined>>,
         NEW new, threadDatas' = Append(threadDatas, new)
  PROVE  PartsLeft' = PartsLeft + 3
<1>1. threads = <<>> /\ threads' = <<>> /\ Len(threadDatas) \in Nat /\ joined \in Nat
  BY AliveFacts DEF IInv, ThreadsMatchParts
<1>2. EndedThreads = {} /\ EndedThreads' = {}
  BY <1>1 DEF EndedThreads
<1>3. PICK n : n = Len(threadDatas)
  OBVIOUS
<1>4. n \in Nat /\ Len(threadDatas') = n + 1
  BY <1>1, <1>3, AliveFacts
<1>5. PartsLeft = (n - 0) + (n - 0) + (n - joined)
  BY <1>1, <1>2, <1>3, FS_EmptySet DEF PartsLeft
<1>6. PartsLeft' = ((n + 1) - 0) + ((n + 1) - 0) + ((n + 1) - joined)
  BY <1>1, <1>2, <1>4, FS_EmptySet DEF PartsLeft
<1> QED
  BY <1>1, <1>4, <1>5, <1>6

LEMMA CuttingFalls ==
  ASSUME IInv, CutPart \/ LastPart
  PROVE  Left' < Left
<1>1. PICK s, at, from, c : /\ s = file.size /\ at = partStartPtr
                            /\ from = ptr /\ c = PartsLeft
  OBVIOUS
<1>2. pc = "split" /\ UNCHANGED <<file, threads, joined>>
  BY DEF CutPart, LastPart
<1>3. s \in Nat /\ at \in Nat /\ from \in Nat /\ at <= s /\ at <= from /\ c \in Nat
  <2>1. PICK n, b : n = Len(threadDatas) /\ b = bytesPerCore
    OBVIOUS
  <2>2. /\ file.size \in Nat /\ partStartPtr \in Nat /\ partStartPtr <= file.size
        /\ ptr \in Nat /\ n \in Nat /\ b \in Nat
        /\ n = 0 => partStartPtr = 0
        /\ n # 0 => ptr = partStartPtr + b + 1
    BY <1>2, <2>1, SplitFacts
  <2>3. partStartPtr <= ptr
    BY <2>2
  <2>4. PartsLeft \in Nat
    BY LeftFacts
  <2> QED
    BY <1>1, <2>2, <2>3, <2>4
<1>4. \E new : threadDatas' = Append(threadDatas, new)
  BY DEF CutPart, LastPart, AddPart
<1>5. PartsLeft' = c + 3
  BY <1>1, <1>2, <1>4, PartCosts
<1>6. Left = 4 * (s - at) + 6 + c
  BY <1>1, <1>2 DEF Left, BytesLeft, MainLeft
<1>7. CASE CutPart
  <2>1. PICK newline \in file.newlines :
          ptr <= newline /\ partStartPtr' = NextStart(newline) /\ UNCHANGED pc
    BY <1>7 DEF CutPart
  <2>2. newline \in Nat /\ at <= newline
    <3>1. newline \in Nat
      BY DEF IInv, PartsFollow, TypeOK, IsFile
    <3> QED
      BY <1>1, <1>3, <2>1, <3>1
  <2>3. Left' = 4 * (s - (newline + 1)) + 6 + (c + 3)
    BY <1>1, <1>2, <1>5, <2>1 DEF Left, BytesLeft, MainLeft, NextStart
  <2> QED
    BY <1>3, <1>6, <2>2, <2>3
<1>8. CASE LastPart
  <2>1. pc' = "start"
    BY <1>8 DEF LastPart
  <2>2. Left' = 0 + 2 + (c + 3)
    BY <1>5, <2>1 DEF Left, BytesLeft, MainLeft
  <2> QED
    BY <1>3, <1>6, <2>2
<1> QED
  BY <1>7, <1>8

LEMMA MainFalls ==
  ASSUME IInv, Main
  PROVE  Left' < Left
<1>1. PICK a, b, m, t, e, j :
        /\ a = BytesLeft /\ b = MainLeft /\ m = Len(threadDatas) /\ t = Len(threads)
        /\ e = Cardinality(EndedThreads) /\ j = joined
  OBVIOUS
<1>2. /\ a \in Nat /\ b \in Nat /\ m \in Nat /\ t \in Nat /\ e \in Nat /\ j \in Nat
      /\ t <= m /\ e <= t /\ j <= t
  BY <1>1, LeftFacts, AliveFacts, EndedFacts
<1>3. Left = a + b + ((m - t) + (m - e) + (m - j))
  BY <1>1 DEF Left, PartsLeft
<1>4. CASE CutPart \/ LastPart
  BY <1>4, CuttingFalls
<1>5. CASE MapFile \/ MapFails \/ ScanRunsOff \/ AllStarted \/ PrintResult
  <2>1. UNCHANGED <<file, partStartPtr, threadDatas, threads, joined>>
    BY <1>5 DEF MapFile, MapFails, ScanRunsOff, AllStarted, PrintResult, splitVars
  <2>2. PartsLeft' = (m - t) + (m - e) + (m - j)
    BY <1>1, <2>1 DEF PartsLeft, EndedThreads
  <2>3. \/ pc = "map" /\ pc' \in {"split", "failed", "undefined"}
        \/ pc = "split" /\ pc' = "undefined"
        \/ pc = "start" /\ pc' = "join"
        \/ pc = "join" /\ pc' = "printed"
    BY <1>5 DEF MapFile, MapFails, ScanRunsOff, AllStarted, PrintResult
  <2>4. BytesLeft' = a \/ BytesLeft' = 0
    BY <1>1, <2>1, <2>3 DEF BytesLeft
  <2>5. MainLeft' \in Nat /\ MainLeft' < b
    BY <1>1, <2>3 DEF MainLeft
  <2>6. PICK x, y : x = BytesLeft' /\ y = MainLeft'
    OBVIOUS
  <2>7. Left' = x + y + ((m - t) + (m - e) + (m - j))
    BY <2>2, <2>6 DEF Left
  <2> QED
    BY <1>2, <1>3, <2>4, <2>5, <2>6, <2>7
<1>6. CASE StartThread
  <2>1. /\ threads' = Append(threads, "running")
        /\ UNCHANGED <<file, pc, partStartPtr, threadDatas, joined>>
    BY <1>6 DEF StartThread, splitVars
  <2>2. /\ Len(threads') = t + 1 /\ DOMAIN threads' = DOMAIN threads \cup {t + 1}
        /\ threads'[t + 1] = "running"
        /\ \A i \in DOMAIN threads : threads'[i] = threads[i]
    BY <1>1, <1>2, <2>1, AliveFacts
  <2>3. EndedThreads' = EndedThreads
    BY <2>2 DEF EndedThreads
  <2>4. PartsLeft' = (m - (t + 1)) + (m - e) + (m - j)
    BY <1>1, <2>1, <2>2, <2>3 DEF PartsLeft
  <2>5. BytesLeft' = a /\ MainLeft' = b
    BY <1>1, <2>1 DEF BytesLeft, MainLeft
  <2>6. Left' = a + b + ((m - (t + 1)) + (m - e) + (m - j))
    BY <2>4, <2>5 DEF Left
  <2> QED
    BY <1>2, <1>3, <2>6
<1>7. CASE JoinAndMerge
  <2>1. joined' = joined + 1 /\ UNCHANGED <<file, pc, partStartPtr, threadDatas, threads>>
    BY <1>7 DEF JoinAndMerge, splitVars
  <2>2. PartsLeft' = (m - t) + (m - e) + (m - (j + 1))
    BY <1>1, <2>1 DEF PartsLeft, EndedThreads
  <2>3. BytesLeft' = a /\ MainLeft' = b
    BY <1>1, <2>1 DEF BytesLeft, MainLeft
  <2>4. Left' = a + b + ((m - t) + (m - e) + (m - (j + 1)))
    BY <2>2, <2>3 DEF Left
  <2> QED
    BY <1>2, <1>3, <2>4
<1> QED
  BY <1>4, <1>5, <1>6, <1>7 DEF Main

LEMMA ThreadFalls ==
  ASSUME IInv, NEW i \in DOMAIN threads, Thread(i)
  PROVE  Left' < Left
<1>1. PICK a, b, m, t, e, j :
        /\ a = BytesLeft /\ b = MainLeft /\ m = Len(threadDatas) /\ t = Len(threads)
        /\ e = Cardinality(EndedThreads) /\ j = joined
  OBVIOUS
<1>2. a \in Nat /\ b \in Nat /\ m \in Nat /\ t \in Nat /\ e \in Nat /\ j \in Nat
      /\ t <= m /\ e <= t /\ j <= t
  BY <1>1, LeftFacts, AliveFacts, EndedFacts
<1>3. Left = a + b + ((m - t) + (m - e) + (m - j))
  BY <1>1 DEF Left, PartsLeft
<1>4. CASE ThreadThrows(i)
  <2>1. /\ UNCHANGED <<file, partStartPtr, threadDatas, threads, joined>>
        /\ pc \in {"start", "join"} /\ pc' = "failed"
    BY <1>4 DEF ThreadThrows, Alive, splitVars
  <2>2. PartsLeft' = (m - t) + (m - e) + (m - j)
    BY <1>1, <2>1 DEF PartsLeft, EndedThreads
  <2>3. BytesLeft' = a /\ MainLeft' = 0 /\ b > 0
    BY <1>1, <2>1 DEF BytesLeft, MainLeft
  <2>4. Left' = a + 0 + ((m - t) + (m - e) + (m - j))
    BY <2>2, <2>3 DEF Left
  <2> QED
    BY <1>2, <1>3, <2>3, <2>4
<1>5. CASE ThreadRunner(i)
  <2>1. /\ threads[i] = "running" /\ UNCHANGED <<file, pc, partStartPtr, joined>>
        /\ threads' = [threads EXCEPT ![i] = "done"]
    BY <1>5 DEF ThreadRunner, splitVars
  <2>2. PICK dictionary :
          threadDatas' = [threadDatas EXCEPT ![i].ThreadResult = dictionary]
    BY <1>5 DEF ThreadRunner
  <2>3. Len(threadDatas') = m
    <3> DEFINE new == [threadDatas[i] EXCEPT !.ThreadResult = dictionary]
    <3>1. threadDatas' = [threadDatas EXCEPT ![i] = new]
      BY <2>2
    <3> HIDE DEF new
    <3>2. PICK S : S = ThreadData \cup {new}
      OBVIOUS
    <3>3. threadDatas \in Seq(S) /\ new \in S
      BY <3>2, AliveFacts
    <3> QED
      BY <1>1, <3>1, <3>3
  <2>4. /\ Len(threads') = t /\ DOMAIN threads' = DOMAIN threads
        /\ threads'[i] = "done"
        /\ \A k \in DOMAIN threads : k # i => threads'[k] = threads[k]
    <3>1. threads \in Seq({"running", "done"})
      BY AliveFacts
    <3> QED
      BY <1>1, <2>1, <3>1
  <2>5. EndedThreads' = EndedThreads \cup {i} /\ i \notin EndedThreads
    BY <2>1, <2>4 DEF EndedThreads
  <2>6. Cardinality(EndedThreads') = e + 1
    BY <1>1, <2>5, EndedFacts, FS_AddElement
  <2>7. PartsLeft' = (m - t) + (m - (e + 1)) + (m - j)
    BY <1>1, <2>1, <2>3, <2>4, <2>6 DEF PartsLeft
  <2>8. BytesLeft' = a /\ MainLeft' = b
    BY <1>1, <2>1 DEF BytesLeft, MainLeft
  <2>9. Left' = a + b + ((m - t) + (m - (e + 1)) + (m - j))
    BY <2>7, <2>8 DEF Left
  <2> QED
    BY <1>2, <1>3, <2>9
<1> QED
  BY <1>4, <1>5 DEF Thread

(***************************************************************************)
(* No run goes on for ever: each step leaves less to do, whatever fails    *)
(* and however the threads interleave.  The scan for the end of a part     *)
(* begins at or behind its start, so that a part with a newline takes at   *)
(* least a byte.                                                           *)
(***************************************************************************)
THEOREM EveryStepLeavesLess == Spec => [](Left \in Nat) /\ [][Left' < Left]_vars
<1>1. IInv => Left \in Nat
  <2> SUFFICES ASSUME IInv PROVE Left \in Nat
    OBVIOUS
  <2>1. PICK a, b, c : a = BytesLeft /\ b = MainLeft /\ c = PartsLeft
    OBVIOUS
  <2>2. a \in Nat /\ b \in Nat /\ c \in Nat
    BY <2>1, LeftFacts
  <2>3. a + b + c \in Nat
    BY <2>2
  <2> QED
    BY <2>1, <2>3 DEF Left
<1>2. IInv /\ [Next]_vars => [Left' < Left]_vars
  BY MainFalls, ThreadFalls DEF Next
<1> QED
  BY <1>1, <1>2, Invariance, PTL DEF Spec
=============================================================================
