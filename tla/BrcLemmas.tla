------------------------------ MODULE BrcLemmas ------------------------------
(***************************************************************************)
(* What the proofs about the programs share: arithmetic of chunk sizes,    *)
(* chunks that follow one another, and how the tally of a file, and what a *)
(* program holds of it, grow with the rows taken in, for every file and    *)
(* every set of its rows; the number parser most of them have; and where   *)
(* the rows of a file, and the parts of a row, lie in its text.            *)
(*                                                                         *)
(* Facts about sums and folds are proved by induction over finite sets, in *)
(* the form of a minimal counterexample: the counterexamples make up a     *)
(* set, which has a smallest member unless it is empty.                    *)
(***************************************************************************)
EXTENDS Tally, Sequences, FiniteSetTheorems, WellFoundedInduction, TLAPS

-----------------------------------------------------------------------------
(***************************************************************************)
(* The integer quotient, for divisors that are not literals, and products. *)
(***************************************************************************)
LEMMA DivBounds ==
  ASSUME NEW a \in Nat, NEW b \in Nat \ {0}
  PROVE  /\ a \div b \in Nat
         /\ b * (a \div b) <= a
         /\ a < b * (a \div b) + b
  BY SMT

LEMMA OneMoreTimes ==
  ASSUME NEW a \in Nat, NEW b \in Nat
  PROVE  (a + 1) * b = a * b + b /\ a * b \in Nat
  OBVIOUS

LEMMA TimesMonotonic ==
  ASSUME NEW a \in Nat, NEW b \in Nat, NEW c \in Nat, a <= b
  PROVE  a * c <= b * c /\ a * c \in Nat /\ b * c \in Nat
  OBVIOUS

-----------------------------------------------------------------------------
(***************************************************************************)
(* Minimal counterexamples.                                                *)
(***************************************************************************)
LEMMA SmallestSubset ==
  ASSUME NEW S, IsFiniteSet(S), NEW T \in SUBSET SUBSET S, T # {}
  PROVE  \E x \in T : \A y \in T : y \subseteq x => y = x
<1>1. IsWellFoundedOn(StrictSubsetOrdering(S), SUBSET S)
  BY FS_FiniteSubsetsOfFinite, FS_StrictSubsetOrderingWellFounded, Zenon
<1>2. \E x \in T : \A y \in T : ~ (<<y, x>> \in StrictSubsetOrdering(S))
  BY <1>1, WFMin, Zenon
<1> QED
  BY <1>2 DEF StrictSubsetOrdering

LEMMA SubsetInduction ==
  ASSUME NEW S, IsFiniteSet(S), NEW Good,
         \A s \in SUBSET S : (\A t \in SUBSET s : t # s => t \in Good) => s \in Good
  PROVE  \A s \in SUBSET S : s \in Good
<1> DEFINE Bad == {s \in SUBSET S : s \notin Good}
<1>1. SUFFICES ASSUME Bad # {} PROVE FALSE
  OBVIOUS
<1>2. PICK s \in Bad : \A t \in Bad : t \subseteq s => t = s
  <2>1. Bad \in SUBSET SUBSET S
    OBVIOUS
  <2> HIDE DEF Bad
  <2> QED
    BY <1>1, <2>1, SmallestSubset
<1>3. \A t \in SUBSET s : t # s => t \in Good
  BY <1>2
<1> QED
  BY <1>2, <1>3

LEMMA LeastNatural ==
  ASSUME NEW T \in SUBSET Nat, T # {}
  PROVE  \E n \in T : \A m \in T : n <= m
<1>1. PICK k \in T : TRUE
  OBVIOUS
<1> DEFINE I == 0 .. k
           Below == {x \in SUBSET I : \E m \in T : m <= k /\ x = 0 .. m}
<1>2. IsFiniteSet(I) /\ Below \in SUBSET SUBSET I /\ Below # {}
  <2>1. IsFiniteSet(I)
    BY FS_Interval
  <2>2. 0 .. k \in Below
    OBVIOUS
  <2> QED
    BY <2>1, <2>2
<1> HIDE DEF Below, I
<1>3. PICK x \in Below : \A y \in Below : y \subseteq x => y = x
  BY <1>2, SmallestSubset
<1> USE DEF Below, I
<1>4. PICK n \in T : n <= k /\ x = 0 .. n
  BY <1>3
<1>5. ASSUME NEW m \in T, m < n PROVE FALSE
  <2>1. 0 .. m \in Below /\ 0 .. m \subseteq 0 .. n /\ n \in 0 .. n /\ n \notin 0 .. m
    BY <1>4, <1>5
  <2> QED
    BY <1>3, <1>4, <2>1
<1> QED
  BY <1>4, <1>5

(***************************************************************************)
(* Of chunks that follow one another, with one byte between them, one has  *)
(* the byte p in it or right behind it.                                    *)
(***************************************************************************)
LEMMA ChunkOfByte ==
  ASSUME NEW n \in Nat, NEW start, NEW end,
         \A k \in 1 .. n : /\ start[k] \in Int /\ end[k] \in Int
                          /\ start[k] = IF k = 1 THEN 0 ELSE end[k - 1] + 1,
         NEW p \in Nat, n # 0, p <= end[n]
  PROVE  \E k \in 1 .. n : start[k] <= p /\ p <= end[k]
<1> DEFINE T == {k \in 1 .. n : p <= end[k]}
<1>1. n \in T /\ T \in SUBSET Nat
  OBVIOUS
<1> HIDE DEF T
<1>2. PICK k \in T : \A m \in T : k <= m
  BY <1>1, LeastNatural
<1> USE DEF T
<1>3. k \in 1 .. n /\ p <= end[k]
  OBVIOUS
<1>4. CASE k = 1
  BY <1>3, <1>4
<1>5. CASE k # 1
  <2>1. k - 1 \in 1 .. n /\ k - 1 \notin T
    BY <1>2, <1>3, <1>5
  <2>2. end[k - 1] < p
    BY <2>1
  <2> QED
    BY <1>3, <1>5, <2>1, <2>2
<1> QED
  BY <1>4, <1>5

-----------------------------------------------------------------------------
(***************************************************************************)
(* A recursion over the subsets of a finite set, which takes one element   *)
(* out of a set at a time, has a solution.                                 *)
(***************************************************************************)
IsSolution(g, S, base, pick, step) ==
  \A s \in SUBSET S :
    g[s] = IF s = {} THEN base ELSE step[<<pick[s], g[s \ {pick[s]}]>>]

LEMMA RecursionHasSolution ==
  ASSUME NEW S, IsFiniteSet(S), NEW V, NEW base \in V,
         NEW pick, \A s \in SUBSET S : s # {} => pick[s] \in s,
         NEW step \in [S \X V -> V]
  PROVE  \E g \in [SUBSET S -> V] : IsSolution(g, S, base, pick, step)
<1> DEFINE D(n) == {s \in SUBSET S : Cardinality(s) <= n}
           Solves(g, n) == \A s \in D(n) :
             g[s] = IF s = {} THEN base ELSE step[<<pick[s], g[s \ {pick[s]}]>>]
           Solvable(n) == \E g \in [D(n) -> V] : Solves(g, n)
           Bad == {n \in Nat : ~ Solvable(n)}
<1>1. \A s \in SUBSET S : IsFiniteSet(s) /\ Cardinality(s) \in Nat
  BY FS_Subset, FS_CardinalityType
<1>2. Solvable(0)
  <2>1. D(0) = {{}}
    BY <1>1, FS_EmptySet
  <2>2. [s \in D(0) |-> base] \in [D(0) -> V] /\ Solves([s \in D(0) |-> base], 0)
    BY <2>1
  <2> QED
    BY <2>2
<1>3. ASSUME NEW n \in Nat, Solvable(n) PROVE Solvable(n + 1)
  <2>1. PICK g \in [D(n) -> V] : Solves(g, n)
    BY <1>3
  <2> DEFINE h == [s \in D(n + 1) |->
                     IF s = {} THEN base ELSE step[<<pick[s], g[s \ {pick[s]}]>>]]
  <2>2. ASSUME NEW s \in D(n + 1), s # {}
        PROVE  s \ {pick[s]} \in D(n) /\ pick[s] \in S
    <3>1. pick[s] \in s /\ IsFiniteSet(s) /\ Cardinality(s) \in Nat
      BY <1>1, <2>2
    <3>2. Cardinality(s \ {pick[s]}) = Cardinality(s) - 1
      BY <3>1, FS_RemoveElement
    <3> QED
      BY <3>1, <3>2
  <2>3. ASSUME NEW s \in D(n + 1)
        PROVE  (IF s = {} THEN base ELSE step[<<pick[s], g[s \ {pick[s]}]>>]) \in V
    <3>1. CASE s = {}
      BY <3>1
    <3>2. CASE s # {}
      <4>1. <<pick[s], g[s \ {pick[s]}]>> \in S \X V
        BY <2>1, <2>2, <3>2
      <4> QED
        BY <3>2, <4>1
    <3> QED
      BY <3>1, <3>2
  <2>4. h \in [D(n + 1) -> V]
    BY <2>3
  <2>5. \A s \in D(n) : s \in D(n + 1) /\ h[s] = g[s]
    BY <1>1, <2>1
  <2>6. Solves(h, n + 1)
    BY <2>2, <2>5
  <2> QED
    BY <2>4, <2>6
<1>4. Bad = {}
  <2>1. SUFFICES ASSUME Bad # {} PROVE FALSE
    OBVIOUS
  <2>2. PICK n \in Bad : \A m \in Bad : n <= m
    BY <2>1, LeastNatural
  <2> HIDE DEF Solvable
  <2>3. n \in Nat /\ n # 0 /\ n - 1 \in Nat
    BY <1>2
  <2>4. Solvable(n - 1)
    BY <2>2, <2>3
  <2> QED
    BY <1>3, <2>3, <2>4
<1>5. D(Cardinality(S)) = SUBSET S /\ Cardinality(S) \in Nat
  BY FS_Subset, FS_CardinalityType
<1>6. Solvable(Cardinality(S))
  BY <1>4, <1>5
<1> QED
  BY <1>5, <1>6 DEF IsSolution

-----------------------------------------------------------------------------
(***************************************************************************)
(* The sum of the temperatures of a set of rows, and the recursion that    *)
(* computes it for all subsets of a set.                                   *)
(***************************************************************************)
SumOf(f, R) == MapThenSumSet(LAMBDA p : f.row[p].temp, R)

First(s) == CHOOSE x \in s : TRUE

SumTo(f, sums, s) ==
  IF s = {} THEN 0 ELSE f.row[First(s)].temp + sums[s \ {First(s)}]

SubsetSums(f, R) == CHOOSE sums : sums = [s \in SUBSET R |-> SumTo(f, sums, s)]

HasTemps(f, R) == IsFiniteSet(R) /\ \A p \in R : f.row[p].temp \in Int

LEMMA SumIsSubsetSum ==
  ASSUME NEW f, NEW R
  PROVE  SumOf(f, R) = SubsetSums(f, R)[R]
  BY DEF SumOf, MapThenSumSet, MapThenFoldSet, SubsetSums, SumTo, First

LEMMA SubsetSumsSolve ==
  ASSUME NEW f, NEW R, HasTemps(f, R)
  PROVE  /\ SubsetSums(f, R) \in [SUBSET R -> Int]
         /\ \A s \in SUBSET R : SubsetSums(f, R)[s] = SumTo(f, SubsetSums(f, R), s)
<1> DEFINE pick == [s \in SUBSET R |-> First(s)]
           step == [v \in R \X Int |-> f.row[v[1]].temp + v[2]]
           sums == SubsetSums(f, R)
<1>1. IsFiniteSet(R) /\ \A p \in R : f.row[p].temp \in Int
  BY DEF HasTemps
<1>2. \A s \in SUBSET R : s # {} => First(s) \in s
  BY DEF First
<1>3. step \in [R \X Int -> Int] /\ 0 \in Int
  BY <1>1
<1>4. \A p \in R, n \in Int : step[<<p, n>>] = f.row[p].temp + n
  OBVIOUS
<1>5. \A s \in SUBSET R : pick[s] = First(s)
  OBVIOUS
<1> HIDE DEF pick, step
<1>5a. IsFiniteSet(R) /\ \A s \in SUBSET R : s # {} => pick[s] \in s
  BY <1>1, <1>2, <1>5
<1>6. PICK g \in [SUBSET R -> Int] : \A s \in SUBSET R :
        g[s] = IF s = {} THEN 0 ELSE step[<<pick[s], g[s \ {pick[s]}]>>]
  <2> DEFINE V == Int
             zero == 0
  <2>1. zero \in V /\ step \in [R \X V -> V]
    BY <1>3
  <2> HIDE DEF V, zero
  <2>2. \E g \in [SUBSET R -> V] : IsSolution(g, R, zero, pick, step)
    BY <1>5a, <2>1, RecursionHasSolution
  <2> QED
    BY <2>2 DEF V, zero, IsSolution
<1>7. ASSUME NEW s \in SUBSET R PROVE g[s] = SumTo(f, g, s)
  <2>1. CASE s = {}
    BY <1>6, <2>1 DEF SumTo
  <2>2. CASE s # {}
    <3>1. First(s) \in R /\ s \ {First(s)} \in SUBSET R
      BY <1>2, <2>2
    <3>2. g[s \ {First(s)}] \in Int
      BY <3>1
    <3>3. g[s] = step[<<First(s), g[s \ {First(s)}]>>]
      BY <1>5, <1>6, <2>2
    <3> QED
      BY <1>4, <2>2, <3>1, <3>2, <3>3 DEF SumTo
  <2> QED
    BY <2>1, <2>2
<1>8. g = [s \in SUBSET R |-> SumTo(f, g, s)]
  BY <1>7
<1>9. sums = [s \in SUBSET R |-> SumTo(f, sums, s)]
  BY <1>8 DEF SubsetSums
<1> HIDE DEF sums
<1>10. \A s \in SUBSET R : sums[s] = SumTo(f, sums, s)
  BY <1>9
<1> DEFINE Bad == {s \in SUBSET R : sums[s] \notin Int}
<1>11. Bad = {}
  <2>1. SUFFICES ASSUME Bad # {} PROVE FALSE
    OBVIOUS
  <2>2. PICK s \in Bad : \A t \in Bad : t \subseteq s => t = s
    <3> Bad \in SUBSET SUBSET R
      OBVIOUS
    <3> HIDE DEF Bad
    <3> QED
      BY <1>1, <2>1, SmallestSubset
  <2>3. s # {}
    <3>1. s \in SUBSET R /\ sums[s] \notin Int /\ sums[s] = SumTo(f, sums, s)
      BY <1>10
    <3> QED
      BY <3>1 DEF SumTo
  <2>4. First(s) \in s /\ First(s) \in R /\ s \ {First(s)} \in SUBSET R
    BY <1>2, <2>3
  <2>5. sums[s \ {First(s)}] \in Int
    BY <2>2, <2>4
  <2>6. sums[s] = f.row[First(s)].temp + sums[s \ {First(s)}]
    BY <1>10, <2>3 DEF SumTo
  <2> QED
    BY <1>1, <2>4, <2>5, <2>6
<1>12. sums \in [SUBSET R -> Int]
  BY <1>9, <1>11
<1> QED
  BY <1>10, <1>12 DEF sums

(***************************************************************************)
(* The sum does not depend on the set whose subsets the recursion runs     *)
(* over, nor on the row that is taken out of it.                           *)
(***************************************************************************)
LEMMA SubsetSumsAgree ==
  ASSUME NEW f, NEW R, HasTemps(f, R), NEW T \in SUBSET R
  PROVE  SumOf(f, T) = SubsetSums(f, R)[T]
<1>1. HasTemps(f, T) /\ IsFiniteSet(T)
  BY FS_Subset DEF HasTemps
<1> DEFINE big == SubsetSums(f, R)
           small == SubsetSums(f, T)
           Good == {s \in SUBSET T : big[s] = small[s]}
<1>2. /\ \A s \in SUBSET R : big[s] = SumTo(f, big, s)
      /\ \A s \in SUBSET T : small[s] = SumTo(f, small, s)
  BY <1>1, SubsetSumsSolve
<1> HIDE DEF big, small
<1>3. ASSUME NEW s \in SUBSET T, \A t \in SUBSET s : t # s => t \in Good
      PROVE  s \in Good
  <2>1. big[s] = SumTo(f, big, s) /\ small[s] = SumTo(f, small, s)
    BY <1>2
  <2>2. CASE s = {}
    BY <2>1, <2>2 DEF SumTo
  <2>3. CASE s # {}
    <3>1. First(s) \in s
      BY <2>3 DEF First
    <3>2. big[s \ {First(s)}] = small[s \ {First(s)}]
      BY <1>3, <3>1
    <3> QED
      BY <2>1, <2>3, <3>2 DEF SumTo
  <2> QED
    BY <2>2, <2>3
<1> HIDE DEF Good
<1>4. T \in Good
  BY <1>1, <1>3, SubsetInduction
<1> QED
  BY <1>4, SumIsSubsetSum DEF Good, big, small

LEMMA SumOfFirst ==
  ASSUME NEW f, NEW R, HasTemps(f, R)
  PROVE  /\ SumOf(f, R) \in Int
         /\ R = {} => SumOf(f, R) = 0
         /\ R # {} => /\ First(R) \in R
                      /\ SumOf(f, R) = f.row[First(R)].temp + SumOf(f, R \ {First(R)})
<1> DEFINE sums == SubsetSums(f, R)
<1>1. SumOf(f, R) = sums[R] /\ SumOf(f, R \ {First(R)}) = sums[R \ {First(R)}]
  BY SubsetSumsAgree
<1>2. sums \in [SUBSET R -> Int] /\ \A s \in SUBSET R : sums[s] = SumTo(f, sums, s)
  BY SubsetSumsSolve
<1> HIDE DEF sums
<1>3. sums[R] \in Int /\ sums[R] = SumTo(f, sums, R)
  BY <1>2
<1>4. R # {} => First(R) \in R
  BY DEF First
<1> QED
  BY <1>1, <1>3, <1>4 DEF SumTo

LEMMA SumOfAny ==
  ASSUME NEW f, NEW R, HasTemps(f, R), NEW y \in R
  PROVE  SumOf(f, R) = f.row[y].temp + SumOf(f, R \ {y})
<1> DEFINE Good == {s \in SUBSET R :
                      \A z \in s : SumOf(f, s) = f.row[z].temp + SumOf(f, s \ {z})}
<1>1. \A s \in SUBSET R : HasTemps(f, s) /\ SumOf(f, s) \in Int
  BY FS_Subset, SumOfFirst DEF HasTemps
<1>2. IsFiniteSet(R) /\ \A p \in R : f.row[p].temp \in Int
  BY DEF HasTemps
<1>3. ASSUME NEW s \in SUBSET R, \A t \in SUBSET s : t # s => t \in Good
      PROVE  s \in Good
  <2> SUFFICES ASSUME NEW z \in s PROVE SumOf(f, s) = f.row[z].temp + SumOf(f, s \ {z})
    OBVIOUS
  <2> DEFINE x == First(s)
             rest == s \ {x, z}
  <2>1. x \in s /\ SumOf(f, s) = f.row[x].temp + SumOf(f, s \ {x})
    BY <1>1, SumOfFirst
  <2>2. CASE x = z
    BY <2>1, <2>2
  <2>3. CASE x # z
    <3>1. s \ {x} \in Good /\ z \in s \ {x} /\ (s \ {x}) \ {z} = rest
      BY <1>3, <2>1, <2>3
    <3>2. SumOf(f, s \ {x}) = f.row[z].temp + SumOf(f, rest)
      BY <3>1
    <3>3. s \ {z} \in Good /\ x \in s \ {z} /\ (s \ {z}) \ {x} = rest
      BY <1>3, <2>1, <2>3
    <3>4. SumOf(f, s \ {z}) = f.row[x].temp + SumOf(f, rest)
      BY <3>3
    <3>5. /\ SumOf(f, rest) \in Int /\ SumOf(f, s \ {x}) \in Int
          /\ SumOf(f, s \ {z}) \in Int
          /\ f.row[x].temp \in Int /\ f.row[z].temp \in Int
      BY <1>1, <1>2, <2>1
    <3> HIDE DEF x, rest
    <3> QED
      BY <2>1, <3>2, <3>4, <3>5
  <2> QED
    BY <2>2, <2>3
<1> HIDE DEF Good
<1>4. R \in Good
  BY <1>2, <1>3, SubsetInduction
<1> QED
  BY <1>4 DEF Good

(***************************************************************************)
(* The sum of a set of rows and another row, and of two disjoint sets.     *)
(***************************************************************************)
LEMMA SumWithRow ==
  ASSUME NEW f, NEW R, NEW p, HasTemps(f, R \cup {p}), p \notin R
  PROVE  SumOf(f, R \cup {p}) = SumOf(f, R) + f.row[p].temp
<1>1. (R \cup {p}) \ {p} = R
  OBVIOUS
<1>2. HasTemps(f, R) /\ f.row[p].temp \in Int
  BY FS_Subset DEF HasTemps
<1>3. SumOf(f, R) \in Int
  BY <1>2, SumOfFirst
<1>4. SumOf(f, R \cup {p}) = f.row[p].temp + SumOf(f, R)
  BY <1>1, SumOfAny
<1> QED
  BY <1>2, <1>3, <1>4

LEMMA SumOfUnion ==
  ASSUME NEW f, NEW R, NEW T, HasTemps(f, R), HasTemps(f, T), R \cap T = {}
  PROVE  SumOf(f, R \cup T) = SumOf(f, R) + SumOf(f, T)
<1> DEFINE Good == {s \in SUBSET T : SumOf(f, R \cup s) = SumOf(f, R) + SumOf(f, s)}
<1>1. ASSUME NEW s \in SUBSET T PROVE HasTemps(f, s) /\ HasTemps(f, R \cup s)
  <2>1. IsFiniteSet(s) /\ IsFiniteSet(R)
    BY FS_Subset DEF HasTemps
  <2>2. IsFiniteSet(R \cup s)
    BY <2>1, FS_Union
  <2> QED
    BY <2>1, <2>2 DEF HasTemps
<1>2. \A p \in T : f.row[p].temp \in Int
  BY DEF HasTemps
<1>3. ASSUME NEW s \in SUBSET T, \A t \in SUBSET s : t # s => t \in Good
      PROVE  s \in Good
  <2>1. SumOf(f, R) \in Int
    BY SumOfFirst
  <2>2. CASE s = {}
    <3>1. R \cup s = R /\ SumOf(f, s) = 0
      BY <1>1, <2>2, SumOfFirst
    <3>2. SumOf(f, R \cup s) = SumOf(f, R)
      BY <3>1
    <3> HIDE DEF Good
    <3>3. SumOf(f, R \cup s) = SumOf(f, R) + SumOf(f, s)
      BY <2>1, <3>1, <3>2
    <3> QED
      BY <3>3 DEF Good
  <2>3. CASE s # {}
    <3>1. PICK p \in s : TRUE
      BY <2>3
    <3> DEFINE rest == s \ {p}
    <3>2. /\ s = rest \cup {p} /\ p \notin rest /\ rest \in SUBSET T
          /\ R \cup s = (R \cup rest) \cup {p} /\ p \notin R \cup rest
          /\ rest \in Good
      BY <1>3
    <3> HIDE DEF rest
    <3>3. /\ HasTemps(f, s) /\ HasTemps(f, R \cup s) /\ HasTemps(f, rest)
          /\ f.row[p].temp \in Int
      BY <1>1, <1>2, <3>2
    <3>4. SumOf(f, s) = SumOf(f, rest) + f.row[p].temp
      BY <3>2, <3>3, SumWithRow
    <3>5. SumOf(f, R \cup s) = SumOf(f, R \cup rest) + f.row[p].temp
      <4> DEFINE U == R \cup rest
      <4>1. p \notin U /\ HasTemps(f, U \cup {p})
        BY <3>2, <3>3
      <4> HIDE DEF U
      <4>2. SumOf(f, U \cup {p}) = SumOf(f, U) + f.row[p].temp
        BY <4>1, SumWithRow
      <4> QED
        BY <3>2, <4>2 DEF U
    <3>6. SumOf(f, R \cup rest) = SumOf(f, R) + SumOf(f, rest)
      BY <3>2
    <3>7. SumOf(f, rest) \in Int
      BY <3>3, SumOfFirst
    <3> QED
      BY <2>1, <3>3, <3>4, <3>5, <3>6, <3>7
  <2> QED
    BY <2>2, <2>3
<1> HIDE DEF Good
<1>4. T \in Good
  <2>1. IsFiniteSet(T)
    BY DEF HasTemps
  <2> QED
    BY <1>3, <2>1, SubsetInduction
<1> QED
  BY <1>4 DEF Good

-----------------------------------------------------------------------------
(***************************************************************************)
(* Least and greatest members of finite sets of integers.                  *)
(***************************************************************************)
LEMMA LeastMember ==
  ASSUME NEW S \in SUBSET Int, IsFiniteSet(S), S # {}
  PROVE  /\ Min(S) \in S /\ \A x \in S : Min(S) <= x
         /\ Max(S) \in S /\ \A x \in S : x <= Max(S)
<1> DEFINE Good == {s \in SUBSET S : s # {} =>
                      /\ \E m \in s : \A x \in s : m <= x
                      /\ \E m \in s : \A x \in s : m >= x}
<1>1. ASSUME NEW s \in SUBSET S, \A t \in SUBSET s : t # s => t \in Good
      PROVE  s \in Good
  <2> SUFFICES ASSUME s # {} PROVE /\ \E m \in s : \A x \in s : m <= x
                                  /\ \E m \in s : \A x \in s : m >= x
    OBVIOUS
  <2>1. PICK y \in s : TRUE
    OBVIOUS
  <2>2. CASE s = {y}
    BY <2>2
  <2>3. CASE s # {y}
    <3>1. s \ {y} \in Good /\ s \ {y} # {}
      <4> HIDE DEF Good
      <4>1. s \ {y} \in SUBSET s /\ s \ {y} # s /\ s \ {y} # {}
        BY <2>3
      <4> QED
        BY <1>1, <4>1
    <3>2. PICK m \in s \ {y} : \A x \in s \ {y} : m <= x
      BY <3>1
    <3>3. PICK k \in s \ {y} : \A x \in s \ {y} : k >= x
      BY <3>1
    <3>4. \E l \in s : \A x \in s : l <= x
      <4>1. CASE y <= m
        BY <3>2, <4>1
      <4>2. CASE ~ (y <= m)
        BY <3>2, <4>2
      <4> QED
        BY <4>1, <4>2
    <3>5. \E l \in s : \A x \in s : l >= x
      <4>1. CASE y >= k
        BY <3>3, <4>1
      <4>2. CASE ~ (y >= k)
        BY <3>3, <4>2
      <4> QED
        BY <4>1, <4>2
    <3> QED
      BY <3>4, <3>5
  <2> QED
    BY <2>2, <2>3
<1> HIDE DEF Good
<1>2. S \in Good
  BY <1>1, SubsetInduction
<1>3. /\ \E m \in S : \A x \in S : m <= x
      /\ \E m \in S : \A x \in S : m >= x
  BY <1>2 DEF Good
<1> QED
  BY <1>3 DEF Min, Max

LEMMA LeastOfUnion ==
  ASSUME NEW S \in SUBSET Int, IsFiniteSet(S), S # {},
         NEW T \in SUBSET Int, IsFiniteSet(T), T # {}
  PROVE  /\ Min(S \cup T) = IF Min(T) < Min(S) THEN Min(T) ELSE Min(S)
         /\ Max(S \cup T) = IF Max(T) > Max(S) THEN Max(T) ELSE Max(S)
<1> DEFINE U == S \cup T
<1>1. U \in SUBSET Int /\ IsFiniteSet(U) /\ U # {}
  BY FS_Union
<1>2. /\ Min(S) \in S /\ \A x \in S : Min(S) <= x
      /\ Max(S) \in S /\ \A x \in S : x <= Max(S)
  BY LeastMember
<1>3. /\ Min(T) \in T /\ \A x \in T : Min(T) <= x
      /\ Max(T) \in T /\ \A x \in T : x <= Max(T)
  BY LeastMember
<1> HIDE DEF U
<1>4. /\ Min(U) \in U /\ \A x \in U : Min(U) <= x
      /\ Max(U) \in U /\ \A x \in U : x <= Max(U)
  BY <1>1, LeastMember
<1>5. \A x \in U : x \in S \/ x \in T
  BY DEF U
<1>6. Min(S) \in U /\ Min(T) \in U /\ Max(S) \in U /\ Max(T) \in U
  BY <1>2, <1>3 DEF U
<1>7. /\ Min(S) \in Int /\ Min(T) \in Int /\ Min(U) \in Int
      /\ Max(S) \in Int /\ Max(T) \in Int /\ Max(U) \in Int
  BY <1>1, <1>2, <1>3, <1>4
<1>8. Min(U) = IF Min(T) < Min(S) THEN Min(T) ELSE Min(S)
  BY <1>2, <1>3, <1>4, <1>5, <1>6, <1>7
<1>9. Max(U) = IF Max(T) > Max(S) THEN Max(T) ELSE Max(S)
  BY <1>2, <1>3, <1>4, <1>5, <1>6, <1>7
<1> QED
  BY <1>8, <1>9 DEF U

-----------------------------------------------------------------------------
(***************************************************************************)
(* What a program holds for a station of which it has read the rows R, if  *)
(* its new entries start with the minimum lo and the maximum hi, and its   *)
(* map of all stations.                                                    *)
(***************************************************************************)
TempsIn(f, R) == {f.row[p].temp : p \in R}

Holding(f, R, lo, hi) ==
  [min   |-> Min({lo} \cup TempsIn(f, R)),
   max   |-> Max({hi} \cup TempsIn(f, R)),
   sum   |-> SumOf(f, R),
   count |-> Cardinality(R)]

Held(f, R, lo, hi) ==
  [n \in Names |-> IF RowsOf(f, R, n) = {} THEN Absent ELSE Holding(f, RowsOf(f, R, n), lo, hi)]

Both(a, b) ==
  [min   |-> IF b.min < a.min THEN b.min ELSE a.min,
   max   |-> IF b.max > a.max THEN b.max ELSE a.max,
   sum   |-> a.sum + b.sum,
   count |-> a.count + b.count]

IsRowSet(f, R) == IsFiniteSet(R) /\ \A p \in R : f.row[p] \in Row

LEMMA RowSetFacts ==
  ASSUME NEW f, NEW R, IsRowSet(f, R)
  PROVE  /\ HasTemps(f, R)
         /\ SumOf(f, R) \in Int
         /\ \A x \in TempsIn(f, R) : -999 <= x /\ x <= 999
         /\ TempsIn(f, R) \in SUBSET Int
         /\ IsFiniteSet(TempsIn(f, R))
         /\ IsFiniteSet(R)
         /\ Cardinality(R) \in Nat
         /\ \A T \in SUBSET R : IsRowSet(f, T)
<1>1. /\ IsFiniteSet(R) /\ Cardinality(R) \in Nat
      /\ \A T \in SUBSET R : IsFiniteSet(T)
  BY FS_CardinalityType, FS_Subset DEF IsRowSet
<1>2. ASSUME NEW p \in R
      PROVE  f.row[p].temp \in Int /\ -999 <= f.row[p].temp /\ f.row[p].temp <= 999
  BY TempsAssumption DEF IsRowSet, Row
<1>3. HasTemps(f, R)
  BY <1>1, <1>2 DEF HasTemps
<1>4. SumOf(f, R) \in Int
  BY <1>3, SumOfFirst
<1>5. \A x \in TempsIn(f, R) : x \in Int /\ -999 <= x /\ x <= 999
  BY <1>2 DEF TempsIn
<1> DEFINE low == -999
           I == low .. 999
<1>6. low \in Int /\ 999 \in Int
  OBVIOUS
<1>7. TempsIn(f, R) \in SUBSET I
  BY <1>5
<1> HIDE DEF low, I
<1>9. IsFiniteSet(I)
  BY <1>6, FS_Interval DEF I
<1>8. IsFiniteSet(TempsIn(f, R))
  BY <1>7, <1>9, FS_Subset
<1>10. \A T \in SUBSET R : IsRowSet(f, T)
  BY <1>1 DEF IsRowSet
<1> QED
  BY <1>1, <1>3, <1>4, <1>5, <1>8, <1>10

LEMMA WithStart ==
  ASSUME NEW f, NEW R, IsRowSet(f, R), NEW x \in Int
  PROVE  LET U == {x} \cup TempsIn(f, R)
         IN  /\ U \in SUBSET Int /\ IsFiniteSet(U) /\ U # {}
             /\ Min(U) \in U /\ (\A y \in U : Min(U) <= y) /\ Min(U) \in Int
             /\ Max(U) \in U /\ (\A y \in U : y <= Max(U)) /\ Max(U) \in Int
<1> DEFINE U == {x} \cup TempsIn(f, R)
<1>1. TempsIn(f, R) \in SUBSET Int /\ IsFiniteSet(TempsIn(f, R))
  BY RowSetFacts
<1>2. IsFiniteSet({x})
  BY FS_Singleton
<1>3. U \in SUBSET Int /\ IsFiniteSet(U) /\ U # {}
  BY <1>1, <1>2, FS_Union
<1> HIDE DEF U
<1>4. /\ Min(U) \in U /\ \A y \in U : Min(U) <= y
      /\ Max(U) \in U /\ \A y \in U : y <= Max(U)
  BY <1>3, LeastMember
<1> QED
  BY <1>3, <1>4 DEF U

LEMMA MinOfOne ==
  ASSUME NEW x \in Int
  PROVE  /\ {x} \in SUBSET Int /\ IsFiniteSet({x}) /\ {x} # {}
         /\ Min({x}) = x /\ Max({x}) = x
<1>1. IsFiniteSet({x})
  BY FS_Singleton
<1> QED
  BY <1>1, LeastMember

LEMMA HoldingType ==
  ASSUME NEW f, NEW R, IsRowSet(f, R), NEW lo \in Int, NEW hi \in Int
  PROVE  Holding(f, R, lo, hi) \in [min : Int, max : Int, sum : Int, count : Nat]
<1>1. SumOf(f, R) \in Int /\ Cardinality(R) \in Nat
  BY RowSetFacts
<1>2. Min({lo} \cup TempsIn(f, R)) \in Int /\ Max({hi} \cup TempsIn(f, R)) \in Int
  BY WithStart
<1> QED
  BY <1>1, <1>2 DEF Holding

LEMMA HoldingNothing ==
  ASSUME NEW f, NEW lo \in Int, NEW hi \in Int
  PROVE  Holding(f, {}, lo, hi) = [min |-> lo, max |-> hi, sum |-> 0, count |-> 0]
<1>1. HasTemps(f, {}) /\ Cardinality({}) = 0
  BY FS_EmptySet DEF HasTemps
<1>2. SumOf(f, {}) = 0
  BY <1>1, SumOfFirst
<1>3. {lo} \cup TempsIn(f, {}) = {lo} /\ {hi} \cup TempsIn(f, {}) = {hi}
  BY DEF TempsIn
<1>4. Min({lo}) = lo /\ Max({hi}) = hi
  BY MinOfOne
<1> QED
  BY <1>1, <1>2, <1>3, <1>4 DEF Holding

(***************************************************************************)
(* Two disjoint sets of rows, and a set and one more row.                  *)
(***************************************************************************)
LEMMA HoldingUnion ==
  ASSUME NEW f, NEW R, NEW T, IsRowSet(f, R), IsRowSet(f, T), R \cap T = {},
         NEW lo \in Int, NEW hi \in Int
  PROVE  Holding(f, R \cup T, lo, hi) = Both(Holding(f, R, lo, hi), Holding(f, T, lo, hi))
<1> DEFINE X(x) == {x} \cup TempsIn(f, R)
           Y(x) == {x} \cup TempsIn(f, T)
<1>1. ASSUME NEW x \in Int
      PROVE  /\ X(x) \in SUBSET Int /\ IsFiniteSet(X(x)) /\ X(x) # {}
             /\ Y(x) \in SUBSET Int /\ IsFiniteSet(Y(x)) /\ Y(x) # {}
             /\ {x} \cup TempsIn(f, R \cup T) = X(x) \cup Y(x)
  <2>1. TempsIn(f, R \cup T) = TempsIn(f, R) \cup TempsIn(f, T)
    BY DEF TempsIn
  <2> QED
    BY <2>1, WithStart
<1>2. SumOf(f, R \cup T) = SumOf(f, R) + SumOf(f, T)
  BY RowSetFacts, SumOfUnion
<1>3. Cardinality(R \cup T) = Cardinality(R) + Cardinality(T)
  <2>1. IsFiniteSet(R) /\ IsFiniteSet(T) /\ Cardinality(R) \in Nat /\ Cardinality(T) \in Nat
    BY RowSetFacts
  <2>2. Cardinality(R \cup T) = Cardinality(R) + Cardinality(T) - Cardinality(R \cap T)
    BY <2>1, FS_Union
  <2>3. Cardinality(R \cap T) = 0
    BY FS_EmptySet
  <2> QED
    BY <2>1, <2>2, <2>3
<1> HIDE DEF X, Y
<1>4. ASSUME NEW x \in Int
      PROVE  /\ Min(X(x) \cup Y(x)) = IF Min(Y(x)) < Min(X(x)) THEN Min(Y(x)) ELSE Min(X(x))
             /\ Max(X(x) \cup Y(x)) = IF Max(Y(x)) > Max(X(x)) THEN Max(Y(x)) ELSE Max(X(x))
  BY <1>1, LeastOfUnion
<1>5. Holding(f, R, lo, hi) = [min |-> Min(X(lo)), max |-> Max(X(hi)),
                               sum |-> SumOf(f, R), count |-> Cardinality(R)]
  BY DEF Holding, X
<1>6. Holding(f, T, lo, hi) = [min |-> Min(Y(lo)), max |-> Max(Y(hi)),
                               sum |-> SumOf(f, T), count |-> Cardinality(T)]
  BY DEF Holding, Y
<1>7. Holding(f, R \cup T, lo, hi) =
        [min |-> Min(X(lo) \cup Y(lo)), max |-> Max(X(hi) \cup Y(hi)),
         sum |-> SumOf(f, R) + SumOf(f, T), count |-> Cardinality(R) + Cardinality(T)]
  BY <1>1, <1>2, <1>3 DEF Holding
<1> QED
  BY <1>4, <1>5, <1>6, <1>7 DEF Both

LEMMA HoldingRow ==
  ASSUME NEW f, NEW R, NEW p, IsRowSet(f, R \cup {p}), p \notin R,
         NEW lo \in Int, NEW hi \in Int
  PROVE  LET a == Holding(f, R, lo, hi)
             t == f.row[p].temp
         IN  Holding(f, R \cup {p}, lo, hi) =
               [min   |-> IF t < a.min THEN t ELSE a.min,
                max   |-> IF t > a.max THEN t ELSE a.max,
                sum   |-> a.sum + t,
                count |-> a.count + 1]
<1> DEFINE t == f.row[p].temp
           X(x) == {x} \cup TempsIn(f, R)
           RP == R \cup {p}
<1>1. HasTemps(f, RP) /\ IsRowSet(f, R) /\ IsFiniteSet(RP)
  <2>1. IsRowSet(f, RP) /\ R \in SUBSET RP
    OBVIOUS
  <2> HIDE DEF RP
  <2> QED
    BY <2>1, RowSetFacts
<1>2. t \in Int /\ IsFiniteSet(R)
  BY <1>1, RowSetFacts DEF HasTemps
<1>3. ASSUME NEW x \in Int
      PROVE  /\ X(x) \in SUBSET Int /\ IsFiniteSet(X(x)) /\ X(x) # {}
             /\ {x} \cup TempsIn(f, RP) = X(x) \cup {t}
  <2>1. TempsIn(f, RP) = TempsIn(f, R) \cup {t}
    BY DEF TempsIn
  <2> QED
    BY <1>1, <2>1, WithStart
<1>4. SumOf(f, RP) = SumOf(f, R) + t
  BY <1>1, SumWithRow
<1>5. Cardinality(RP) = Cardinality(R) + 1
  BY <1>2, FS_AddElement
<1> HIDE DEF t, X
<1>6. ASSUME NEW x \in Int
      PROVE  /\ Min(X(x) \cup {t}) = IF t < Min(X(x)) THEN t ELSE Min(X(x))
             /\ Max(X(x) \cup {t}) = IF t > Max(X(x)) THEN t ELSE Max(X(x))
  <2> DEFINE T == {t}
  <2>1. /\ T \in SUBSET Int /\ IsFiniteSet(T) /\ T # {}
        /\ Min(T) = t /\ Max(T) = t
    BY <1>2, MinOfOne
  <2> HIDE DEF T
  <2>2. /\ Min(X(x) \cup T) = IF Min(T) < Min(X(x)) THEN Min(T) ELSE Min(X(x))
        /\ Max(X(x) \cup T) = IF Max(T) > Max(X(x)) THEN Max(T) ELSE Max(X(x))
    BY <1>3, <2>1, LeastOfUnion
  <2> QED
    BY <2>1, <2>2 DEF T
<1>7. Holding(f, R, lo, hi) = [min |-> Min(X(lo)), max |-> Max(X(hi)),
                               sum |-> SumOf(f, R), count |-> Cardinality(R)]
  BY DEF Holding, X
<1>8. Holding(f, RP, lo, hi) =
        [min |-> Min(X(lo) \cup {t}), max |-> Max(X(hi) \cup {t}),
         sum |-> SumOf(f, R) + t, count |-> Cardinality(R) + 1]
  BY <1>3, <1>4, <1>5 DEF Holding
<1> QED
  BY <1>6, <1>7, <1>8 DEF t

(***************************************************************************)
(* The map of a program that has read the rows R.  It has the type of the  *)
(* programs' maps, has an entry for the stations of R, and changes with    *)
(* every row, and with a disjoint set of rows, at their stations.          *)
(***************************************************************************)
LEMMA RowsOfFacts ==
  ASSUME NEW f, NEW R, IsRowSet(f, R), NEW n
  PROVE  IsRowSet(f, RowsOf(f, R, n)) /\ RowsOf(f, R, n) \in SUBSET R
<1>1. RowsOf(f, R, n) \in SUBSET R
  BY DEF RowsOf
<1> QED
  BY <1>1, RowSetFacts

LEMMA HeldType ==
  ASSUME NEW f, NEW R, IsRowSet(f, R), NEW lo \in Int, NEW hi \in Int
  PROVE  Held(f, R, lo, hi) \in [Names -> [min : Int, max : Int, sum : Int, count : Nat] \cup {Absent}]
<1>1. ASSUME NEW n \in Names
      PROVE  Holding(f, RowsOf(f, R, n), lo, hi) \in [min : Int, max : Int, sum : Int, count : Nat]
  BY RowsOfFacts, HoldingType
<1> QED
  BY <1>1 DEF Held

LEMMA HeldNothing ==
  ASSUME NEW f, NEW lo, NEW hi
  PROVE  Held(f, {}, lo, hi) = [n \in Names |-> Absent]
<1>1. \A n : RowsOf(f, {}, n) = {}
  BY DEF RowsOf
<1> QED
  BY <1>1 DEF Held

LEMMA HeldEntry ==
  ASSUME NEW f, NEW R, IsRowSet(f, R), NEW lo \in Int, NEW hi \in Int, NEW n \in Names,
         Absent \notin [min : Int, max : Int, sum : Int, count : Nat]
  PROVE  /\ Holding(f, RowsOf(f, R, n), lo, hi) \in [min : Int, max : Int, sum : Int, count : Nat]
         /\ Held(f, R, lo, hi)[n] = Absent <=> RowsOf(f, R, n) = {}
         /\ Held(f, R, lo, hi)[n] = Absent =>
              Holding(f, RowsOf(f, R, n), lo, hi) = [min |-> lo, max |-> hi, sum |-> 0, count |-> 0]
         /\ Held(f, R, lo, hi)[n] # Absent =>
              Holding(f, RowsOf(f, R, n), lo, hi) = Held(f, R, lo, hi)[n]
<1>1. Holding(f, RowsOf(f, R, n), lo, hi) \in [min : Int, max : Int, sum : Int, count : Nat]
  BY RowsOfFacts, HoldingType
<1>2. Held(f, R, lo, hi)[n] =
        IF RowsOf(f, R, n) = {} THEN Absent ELSE Holding(f, RowsOf(f, R, n), lo, hi)
  BY DEF Held
<1>3. Holding(f, {}, lo, hi) = [min |-> lo, max |-> hi, sum |-> 0, count |-> 0]
  BY HoldingNothing
<1> QED
  BY <1>1, <1>2, <1>3

LEMMA HeldRow ==
  ASSUME NEW f, NEW R, NEW p, IsRowSet(f, R \cup {p}), p \notin R,
         NEW lo \in Int, NEW hi \in Int,
         NEW n, n = f.row[p].name, NEW t, t = f.row[p].temp,
         NEW a, a = Holding(f, RowsOf(f, R, n), lo, hi),
         NEW h, h = Held(f, R, lo, hi)
  PROVE  Held(f, R \cup {p}, lo, hi) =
           [h EXCEPT ![n] = [min   |-> IF t < a.min THEN t ELSE a.min,
                             max   |-> IF t > a.max THEN t ELSE a.max,
                             sum   |-> a.sum + t,
                             count |-> a.count + 1]]
<1> DEFINE new == [min   |-> IF t < a.min THEN t ELSE a.min,
                   max   |-> IF t > a.max THEN t ELSE a.max,
                   sum   |-> a.sum + t,
                   count |-> a.count + 1]
<1>1. n \in Names
  BY DEF IsRowSet, Row
<1>2. RowsOf(f, R \cup {p}, n) = RowsOf(f, R, n) \cup {p} /\ p \notin RowsOf(f, R, n)
  BY DEF RowsOf
<1>3. Holding(f, RowsOf(f, R \cup {p}, n), lo, hi) = new
  <2> DEFINE Q == RowsOf(f, R, n)
  <2>1. IsRowSet(f, Q \cup {p}) /\ p \notin Q
    <3> DEFINE RP == R \cup {p}
    <3> HIDE DEF RP
    <3>1. IsRowSet(f, RowsOf(f, RP, n))
      BY RowsOfFacts DEF RP
    <3> QED
      BY <1>2, <3>1 DEF RP
  <2> HIDE DEF Q
  <2>2. Holding(f, Q \cup {p}, lo, hi) =
          LET b == Holding(f, Q, lo, hi)
          IN  [min   |-> IF t < b.min THEN t ELSE b.min,
               max   |-> IF t > b.max THEN t ELSE b.max,
               sum   |-> b.sum + t,
               count |-> b.count + 1]
    BY <2>1, HoldingRow
  <2> QED
    BY <1>2, <2>2 DEF Q
<1>4. \A m \in Names \ {n} : RowsOf(f, R \cup {p}, m) = RowsOf(f, R, m)
  BY DEF RowsOf
<1> HIDE DEF new
<1>5. \A m \in Names : Held(f, R \cup {p}, lo, hi)[m] =
        IF m = n THEN new ELSE Held(f, R, lo, hi)[m]
  <2> TAKE m \in Names
  <2>1. CASE m = n
    <3>1. RowsOf(f, R \cup {p}, n) # {}
      BY <1>2
    <3> QED
      BY <1>3, <2>1, <3>1 DEF Held
  <2>2. CASE m # n
    BY <1>4, <2>2 DEF Held
  <2> QED
    BY <2>1, <2>2
<1>6. Held(f, R \cup {p}, lo, hi) = [Held(f, R, lo, hi) EXCEPT ![n] = new]
  BY <1>1, <1>5 DEF Held
<1> QED
  BY <1>6 DEF new

LEMMA HeldUnion ==
  ASSUME NEW f, NEW R, NEW T, IsRowSet(f, R), IsRowSet(f, T), R \cap T = {},
         NEW lo \in Int, NEW hi \in Int, NEW n \in Names
  PROVE  /\ RowsOf(f, T, n) = {} =>
              Held(f, R \cup T, lo, hi)[n] = Held(f, R, lo, hi)[n]
         /\ RowsOf(f, R, n) = {} =>
              Held(f, R \cup T, lo, hi)[n] = Held(f, T, lo, hi)[n]
         /\ RowsOf(f, T, n) # {} =>
              Held(f, R \cup T, lo, hi)[n] =
                Both(Holding(f, RowsOf(f, R, n), lo, hi), Holding(f, RowsOf(f, T, n), lo, hi))
<1> DEFINE Q == RowsOf(f, R, n)
           P == RowsOf(f, T, n)
<1>1. RowsOf(f, R \cup T, n) = Q \cup P /\ Q \cap P = {}
  BY DEF RowsOf
<1>2. IsRowSet(f, Q) /\ IsRowSet(f, P)
  BY RowsOfFacts
<1>3. /\ Held(f, R \cup T, lo, hi)[n] =
           IF RowsOf(f, R \cup T, n) = {} THEN Absent
           ELSE Holding(f, RowsOf(f, R \cup T, n), lo, hi)
      /\ Held(f, R, lo, hi)[n] = IF Q = {} THEN Absent ELSE Holding(f, Q, lo, hi)
      /\ Held(f, T, lo, hi)[n] = IF P = {} THEN Absent ELSE Holding(f, P, lo, hi)
  BY DEF Held
<1> HIDE DEF Q, P
<1>4. Holding(f, Q \cup P, lo, hi) = Both(Holding(f, Q, lo, hi), Holding(f, P, lo, hi))
  BY <1>1, <1>2, HoldingUnion
<1>5. P = {} => Q \cup P = Q
  OBVIOUS
<1>6. Q = {} => Q \cup P = P
  OBVIOUS
<1>7. P # {} => Q \cup P # {}
  OBVIOUS
<1> QED
  BY <1>1, <1>3, <1>4, <1>5, <1>6, <1>7 DEF Q, P

(***************************************************************************)
(* What a program holds and what is so.                                    *)
(***************************************************************************)
LEMMA HoldingSummary ==
  ASSUME NEW f, NEW R, IsRowSet(f, R), R # {}, NEW lo \in Int, NEW hi \in Int
  PROVE  LET s == Summary(f, R)
         IN  /\ s \in [min : Int, max : Int, sum : Int, count : Nat]
             /\ -999 <= s.min /\ s.min <= 999 /\ -999 <= s.max /\ s.max <= 999
             /\ Holding(f, R, lo, hi) =
                  [min   |-> IF s.min < lo THEN s.min ELSE lo,
                   max   |-> IF s.max > hi THEN s.max ELSE hi,
                   sum   |-> s.sum,
                   count |-> s.count]
<1> DEFINE temps == TempsIn(f, R)
<1>1. /\ temps \in SUBSET Int /\ IsFiniteSet(temps)
      /\ \A x \in temps : -999 <= x /\ x <= 999
      /\ SumOf(f, R) \in Int /\ Cardinality(R) \in Nat
  BY RowSetFacts
<1>2. temps # {}
  BY DEF TempsIn
<1>3. Summary(f, R) = [min |-> Min(temps), max |-> Max(temps),
                       sum |-> SumOf(f, R), count |-> Cardinality(R)]
  BY DEF Summary, TempsIn, SumOf
<1>4. Holding(f, R, lo, hi) = [min |-> Min({lo} \cup temps), max |-> Max({hi} \cup temps),
                               sum |-> SumOf(f, R), count |-> Cardinality(R)]
  BY DEF Holding
<1> HIDE DEF temps
<1>5. /\ Min(temps) \in Int /\ -999 <= Min(temps) /\ Min(temps) <= 999
      /\ Max(temps) \in Int /\ -999 <= Max(temps) /\ Max(temps) <= 999
  <2>1. Min(temps) \in temps /\ Max(temps) \in temps
    BY <1>1, <1>2, LeastMember
  <2>2. \A x \in temps : x \in Int /\ -999 <= x /\ x <= 999
    BY <1>1
  <2> DEFINE low == -999
  <2>3. \A x \in temps : x \in Int /\ low <= x /\ x <= 999
    BY <2>2
  <2> HIDE DEF low
  <2>4. /\ Min(temps) \in Int /\ low <= Min(temps) /\ Min(temps) <= 999
        /\ Max(temps) \in Int /\ low <= Max(temps) /\ Max(temps) <= 999
    BY <2>1, <2>3
  <2> QED
    BY <2>4 DEF low
<1>6. ASSUME NEW x \in Int
      PROVE  /\ Min({x} \cup temps) = IF Min(temps) < x THEN Min(temps) ELSE x
             /\ Max({x} \cup temps) = IF Max(temps) > x THEN Max(temps) ELSE x
  <2> DEFINE T == {x}
  <2>1. /\ T \in SUBSET Int /\ IsFiniteSet(T) /\ T # {}
        /\ Min(T) = x /\ Max(T) = x
    BY MinOfOne
  <2> HIDE DEF T
  <2>2. /\ Min(T \cup temps) = IF Min(temps) < Min(T) THEN Min(temps) ELSE Min(T)
        /\ Max(T \cup temps) = IF Max(temps) > Max(T) THEN Max(temps) ELSE Max(T)
    BY <1>1, <1>2, <2>1, LeastOfUnion
  <2> QED
    BY <2>1, <2>2 DEF T
<1> QED
  BY <1>1, <1>3, <1>4, <1>5, <1>6

LEMMA HeldIsTally ==
  ASSUME NEW f, NEW R, IsRowSet(f, R), NEW lo \in Int, NEW hi \in Int, 999 <= lo, hi <= -999
  PROVE  Held(f, R, lo, hi) = Tally(f, R)
<1>1. ASSUME NEW n \in Names, RowsOf(f, R, n) # {}
      PROVE  Holding(f, RowsOf(f, R, n), lo, hi) = Summary(f, RowsOf(f, R, n))
  <2> DEFINE s == Summary(f, RowsOf(f, R, n))
  <2>1. IsRowSet(f, RowsOf(f, R, n))
    BY RowsOfFacts
  <2>2. /\ s \in [min : Int, max : Int, sum : Int, count : Nat]
        /\ -999 <= s.min /\ s.min <= 999 /\ -999 <= s.max /\ s.max <= 999
        /\ Holding(f, RowsOf(f, R, n), lo, hi) =
                  [min   |-> IF s.min < lo THEN s.min ELSE lo,
                   max   |-> IF s.max > hi THEN s.max ELSE hi,
                   sum   |-> s.sum,
                   count |-> s.count]
    BY <1>1, <2>1, HoldingSummary
  <2> HIDE DEF s
  <2>3. /\ (IF s.min < lo THEN s.min ELSE lo) = s.min
        /\ (IF s.max > hi THEN s.max ELSE hi) = s.max
    BY <2>2
  <2>4. s = [min |-> s.min, max |-> s.max, sum |-> s.sum, count |-> s.count]
    BY <2>2
  <2> QED
    BY <2>2, <2>3, <2>4 DEF s
<1> QED
  BY <1>1 DEF Held, Tally

(***************************************************************************)
(* The rows of a file, and those that end with a newline, are sets of rows *)
(* in this sense.                                                          *)
(***************************************************************************)
LEMMA RowsAreRows ==
  ASSUME NEW f, IsFile(f), NEW R \in SUBSET Rows(f)
  PROVE  IsRowSet(f, R) /\ f.newlines \in SUBSET Rows(f)
<1> DEFINE I == 0 .. f.size
<1>1. f.size \in Nat /\ f.newlines \in SUBSET (0 .. f.size - 1) /\ f.row \in [Rows(f) -> Row]
  BY DEF IsFile
<1>2. IsFiniteSet(I)
  BY <1>1, FS_Interval
<1>3. R \in SUBSET I
  BY <1>1 DEF Rows
<1> HIDE DEF I
<1>4. IsFiniteSet(R)
  BY <1>2, <1>3, FS_Subset
<1>5. f.newlines \in SUBSET Rows(f)
  BY DEF Rows
<1> QED
  BY <1>1, <1>4, <1>5 DEF IsRowSet

-----------------------------------------------------------------------------
(***************************************************************************)
(* The decimal notation of a temperature, and customFloatParse, which      *)
(* undoes it.                                                              *)
(***************************************************************************)
RowBytes == INSTANCE RowText

LEMMA Digits ==
  ASSUME NEW n \in 0 .. 999
  PROVE  /\ n \div 100 \in 0 .. 9 /\ (n \div 10) % 10 \in 0 .. 9 /\ n % 10 \in 0 .. 9
         /\ n = 100 * (n \div 100) + 10 * ((n \div 10) % 10) + (n % 10)
         /\ n < 100 => n \div 100 = 0
<1>1. n \div 10 \in 0 .. 99 /\ n = 10 * (n \div 10) + (n % 10) /\ n % 10 \in 0 .. 9
  BY SMT
<1>2. n \div 100 = (n \div 10) \div 10
  BY SMT
<1>3. PICK m : m = n \div 10
  OBVIOUS
<1>4. m \div 10 \in 0 .. 9 /\ m = 10 * (m \div 10) + (m % 10) /\ m % 10 \in 0 .. 9
  BY <1>1, <1>3, SMT
<1>5. n < 100 => n \div 100 = 0
  BY SMT
<1> QED
  BY <1>1, <1>2, <1>3, <1>4, <1>5

LEMMA ThreeMore ==
  ASSUME NEW y \in Seq(Int), NEW d \in Int, NEW p \in Int, NEW u \in Int
  PROVE  LET x == y \o <<d, p, u>>
         IN  /\ Len(x) = Len(y) + 3
             /\ \A k \in 1 .. Len(y) : x[k] = y[k]
             /\ x[Len(y) + 1] = d /\ x[Len(y) + 2] = p /\ x[Len(y) + 3] = u
<1>1. <<d, p, u>> \in Seq(Int) /\ Len(<<d, p, u>>) = 3
  OBVIOUS
<1>2. PICK s : s = <<d, p, u>>
  OBVIOUS
<1>3. s[1] = d /\ s[2] = p /\ s[3] = u
  BY <1>2
<1> QED
  BY <1>1, <1>2, <1>3

(***************************************************************************)
(* customFloatParse, the same algorithm in five of the programs, reads     *)
(* each temperature of the data set from its decimal notation, wherever it *)
(* stands and whatever bytes stand before and behind it.                   *)
(***************************************************************************)
THEOREM ParseUndoesDecimal ==
  ASSUME NEW b, NEW i \in Int, NEW t \in Int, -999 <= t, t <= 999,
         \A k \in 1 .. Len(RowBytes!Decimal(t)) : b[i + k - 1] = RowBytes!Decimal(t)[k]
  PROVE  RowBytes!customFloatParse(b, i) = t
<1> DEFINE n == RowBytes!Magnitude(t)
           h == n \div 100
           d == (n \div 10) % 10
           u == n % 10
           y == (IF t < 0 THEN <<-3>> ELSE <<>>) \o (IF n >= 100 THEN <<h>> ELSE <<>>)
<1>1. n \in 0 .. 999 /\ t = IF t < 0 THEN -n ELSE n
  <2>1. n = IF t < 0 THEN -t ELSE t
    BY DEF RowBytes!Magnitude
  <2> HIDE DEF n
  <2>2. CASE t < 0
    BY <2>1, <2>2
  <2>3. CASE t >= 0
    BY <2>1, <2>3
  <2> QED
    BY <2>2, <2>3
<1>2. RowBytes!Decimal(t) = y \o <<d, -2, u>>
  BY DEF RowBytes!Decimal, RowBytes!Minus, RowBytes!Dot
<1> HIDE DEF n
<1>3. /\ h \in 0 .. 9 /\ d \in 0 .. 9 /\ u \in 0 .. 9
      /\ n = 100 * h + 10 * d + u
      /\ n < 100 => h = 0
  BY <1>1, Digits
<1> HIDE DEF h, d, u
<1>4. h \in Int /\ d \in Int /\ u \in Int /\ h # -3 /\ d # -3 /\ d # -2
  BY <1>3
<1>5. /\ y \in Seq(Int)
      /\ t < 0 /\ n >= 100 => Len(y) = 2 /\ y[1] = -3 /\ y[2] = h
      /\ t < 0 /\ n < 100 => Len(y) = 1 /\ y[1] = -3
      /\ t >= 0 /\ n >= 100 => Len(y) = 1 /\ y[1] = h
      /\ t >= 0 /\ n < 100 => Len(y) = 0
  BY <1>1, <1>3
<1> HIDE DEF y
<1>6. PICK s : s = y \o <<d, -2, u>>
  BY ZenonT(30)
<1>7. /\ Len(s) = Len(y) + 3
      /\ \A k \in 1 .. Len(y) : s[k] = y[k]
      /\ s[Len(y) + 1] = d /\ s[Len(y) + 2] = -2 /\ s[Len(y) + 3] = u
  <2> DEFINE p == -2
  <2>1. p \in Int /\ d \in Int /\ u \in Int
    BY <1>3
  <2> HIDE DEF p
  <2>2. /\ Len(y \o <<d, p, u>>) = Len(y) + 3
        /\ \A k \in 1 .. Len(y) : (y \o <<d, p, u>>)[k] = y[k]
        /\ (y \o <<d, p, u>>)[Len(y) + 1] = d
        /\ (y \o <<d, p, u>>)[Len(y) + 2] = p
        /\ (y \o <<d, p, u>>)[Len(y) + 3] = u
    BY <1>5, <2>1, ThreeMore
  <2> QED
    BY <1>6, <2>2 DEF p
<1>8. \A k \in 1 .. Len(s) : b[i + k - 1] = s[k]
  BY <1>2, <1>6
<1>9. /\ i + 1 + 1 = i + 2 /\ i + 1 + 2 = i + 3 /\ i + 1 + 3 = i + 4
      /\ i + 1 - 1 = i /\ i + 2 - 1 = i + 1 /\ i + 3 - 1 = i + 2 /\ i + 4 - 1 = i + 3
      /\ i + 5 - 1 = i + 4
  OBVIOUS
<1>10. CASE t < 0 /\ n >= 100
  <2>1. Len(y) = 2 /\ y[1] = -3 /\ y[2] = h
    BY <1>5, <1>10
  <2>2. Len(s) = 5 /\ s[1] = -3 /\ s[2] = h /\ s[3] = d /\ s[4] = -2 /\ s[5] = u
    BY <1>7, <2>1
  <2>3. b[i] = -3 /\ b[i + 1] = h /\ b[i + 2] = d /\ b[i + 3] = -2 /\ b[i + 4] = u
    BY <1>8, <1>9, <2>2
  <2>4. RowBytes!customFloatParse(b, i) = -(100 * h + 10 * d + u)
    BY SMTT(30), <1>4, <1>9, <2>3 DEF RowBytes!customFloatParse, RowBytes!Minus, RowBytes!Dot
  <2> QED
    BY <1>1, <1>3, <1>10, <2>4
<1>11. CASE t < 0 /\ n < 100
  <2>1. Len(y) = 1 /\ y[1] = -3
    BY <1>5, <1>11
  <2>2. Len(s) = 4 /\ s[1] = -3 /\ s[2] = d /\ s[3] = -2 /\ s[4] = u
    BY <1>7, <2>1
  <2>3. b[i] = -3 /\ b[i + 1] = d /\ b[i + 2] = -2 /\ b[i + 3] = u
    BY <1>8, <1>9, <2>2
  <2>4. RowBytes!customFloatParse(b, i) = -(10 * d + u)
    BY <1>4, <1>9, <2>3 DEF RowBytes!customFloatParse, RowBytes!Minus, RowBytes!Dot
  <2> QED
    BY <1>1, <1>3, <1>11, <2>4
<1>12. CASE t >= 0 /\ n >= 100
  <2>1. Len(y) = 1 /\ y[1] = h
    BY <1>5, <1>12
  <2>2. Len(s) = 4 /\ s[1] = h /\ s[2] = d /\ s[3] = -2 /\ s[4] = u
    BY <1>7, <2>1
  <2>3. b[i] = h /\ b[i + 1] = d /\ b[i + 2] = -2 /\ b[i + 3] = u
    BY <1>8, <1>9, <2>2
  <2>4. RowBytes!customFloatParse(b, i) = 100 * h + 10 * d + u
    BY SMTT(30), <1>4, <1>9, <2>3 DEF RowBytes!customFloatParse, RowBytes!Minus, RowBytes!Dot
  <2> QED
    BY <1>1, <1>3, <1>12, <2>4
<1>13. CASE t >= 0 /\ n < 100
  <2>1. Len(y) = 0
    BY <1>5, <1>13
  <2>2. Len(s) = 3 /\ s[1] = d /\ s[2] = -2 /\ s[3] = u
    BY <1>7, <2>1
  <2>3. b[i] = d /\ b[i + 1] = -2 /\ b[i + 2] = u
    BY <1>8, <1>9, <2>2
  <2>4. RowBytes!customFloatParse(b, i) = 10 * d + u
    BY <1>4, <1>9, <2>3 DEF RowBytes!customFloatParse, RowBytes!Minus, RowBytes!Dot
  <2> QED
    BY <1>1, <1>3, <1>13, <2>4
<1> QED
  BY <1>1, <1>10, <1>11, <1>12, <1>13

-----------------------------------------------------------------------------
(***************************************************************************)
(* The texts up to the ends of the sequences of a list: each is the one    *)
(* before it with the next sequence behind it.                             *)
(***************************************************************************)
IsText(texts, n, seqs) ==
  \A i \in 1 .. n : texts[i] = IF i = 1 THEN seqs[i] ELSE texts[i - 1] \o seqs[i]

LEMMA TextsExist ==
  ASSUME NEW S, NEW n \in Nat, NEW seqs \in [1 .. n -> Seq(S)]
  PROVE  \E texts \in [1 .. n -> Seq(S)] : IsText(texts, n, seqs)
<1> DEFINE Exists(m) == \E t \in [1 .. m -> Seq(S)] : IsText(t, m, seqs)
           Bad == {m \in 0 .. n : ~ Exists(m)}
<1>1. Exists(0)
  <2>1. [i \in 1 .. 0 |-> <<>>] \in [1 .. 0 -> Seq(S)] /\ IsText([i \in 1 .. 0 |-> <<>>], 0, seqs)
    BY DEF IsText
  <2> QED
    BY <2>1
<1>2. ASSUME NEW m \in 0 .. n, m # 0, Exists(m - 1) PROVE Exists(m)
  <2>1. PICK t \in [1 .. m - 1 -> Seq(S)] : IsText(t, m - 1, seqs)
    BY <1>2
  <2> DEFINE last == IF m = 1 THEN seqs[m] ELSE t[m - 1] \o seqs[m]
             u == [i \in 1 .. m |-> IF i = m THEN last ELSE t[i]]
  <2>2. m \in 1 .. n /\ seqs[m] \in Seq(S) /\ (m # 1 => t[m - 1] \in Seq(S))
    BY <1>2, <2>1
  <2>3. last \in Seq(S)
    BY <2>2
  <2>4. u \in [1 .. m -> Seq(S)]
    BY <2>1, <2>2, <2>3
  <2>5. ASSUME NEW i \in 1 .. m
        PROVE  u[i] = IF i = 1 THEN seqs[i] ELSE u[i - 1] \o seqs[i]
    <3>1. CASE i = m
      BY <2>2, <3>1
    <3>2. CASE i # m
      <4>1. i \in 1 .. m - 1 /\ i - 1 # m /\ (i # 1 => i - 1 \in 1 .. m)
        BY <2>2, <3>2
      <4> QED
        BY <2>1, <3>2, <4>1 DEF IsText
    <3> QED
      BY <3>1, <3>2
  <2> QED
    BY <2>4, <2>5 DEF IsText
<1> HIDE DEF Exists
<1>3. Bad = {}
  <2>1. SUFFICES ASSUME Bad # {} PROVE FALSE
    OBVIOUS
  <2>2. PICK m \in Bad : \A k \in Bad : m <= k
    <3>1. Bad \in SUBSET Nat
      OBVIOUS
    <3> QED
      BY <2>1, <3>1, LeastNatural
  <2>3. m \in 0 .. n /\ m # 0 /\ ~ Exists(m)
    BY <1>1
  <2>4. m - 1 \in 0 .. n /\ m - 1 \notin Bad
    BY <2>2, <2>3
  <2> QED
    BY <1>2, <2>3, <2>4
<1>4. Exists(n)
  BY <1>3
<1> QED
  BY <1>4 DEF Exists

LEMMA TextsAgree ==
  ASSUME NEW m \in Nat, NEW n \in Nat, m <= n,
         NEW seqs, NEW t, NEW u, IsText(t, m, seqs), IsText(u, n, seqs)
  PROVE  \A i \in 1 .. m : t[i] = u[i]
<1> DEFINE Bad == {i \in 1 .. m : t[i] # u[i]}
<1>1. SUFFICES ASSUME Bad # {} PROVE FALSE
  OBVIOUS
<1>2. PICK i \in Bad : \A k \in Bad : i <= k
  <2>1. Bad \in SUBSET Nat
    OBVIOUS
  <2> QED
    BY <1>1, <2>1, LeastNatural
<1>3. i \in 1 .. m /\ i \in 1 .. n /\ t[i] # u[i]
  OBVIOUS
<1>4. i # 1 => i - 1 \in 1 .. m /\ i - 1 \notin Bad
  BY <1>2, <1>3
<1> QED
  BY <1>3, <1>4 DEF IsText

LEMMA FlattenedIsText ==
  ASSUME NEW S, NEW n \in Nat \ {0}, NEW seqs \in [1 .. n -> Seq(S)],
         NEW t, IsText(t, n, seqs)
  PROVE  RowBytes!FlattenSeq(seqs) = t[n]
<1>1. PICK u \in [1 .. n -> Seq(S)] : IsText(u, n, seqs)
  BY TextsExist
<1>2. seqs \in Seq(Seq(S)) /\ Len(seqs) = n
  OBVIOUS
<1> DEFINE Solves(f) == f = [i \in 1 .. Len(seqs) |-> IF i = 1 THEN seqs[i] ELSE f[i - 1] \o seqs[i]]
           flatten == CHOOSE f : Solves(f)
<1>3. u = [i \in 1 .. n |-> IF i = 1 THEN seqs[i] ELSE u[i - 1] \o seqs[i]]
  BY <1>1 DEF IsText
<1>4. Solves(u)
  BY <1>2, <1>3
<1> HIDE DEF Solves
<1>5. Solves(flatten)
  BY <1>4
<1>6. RowBytes!FlattenSeq(seqs) = flatten[n]
  BY <1>2 DEF RowBytes!FlattenSeq, Solves
<1> HIDE DEF flatten
<1>7. IsText(flatten, n, seqs)
  BY <1>2, <1>5 DEF Solves, IsText
<1>8. flatten[n] = t[n]
  BY <1>7, TextsAgree
<1> QED
  BY <1>6, <1>8

(***************************************************************************)
(* Where the sequences end in the text: ends[i] is the length of the first *)
(* i of them.                                                              *)
(***************************************************************************)
AreEnds(ends, n, seqs) ==
  /\ ends \in [0 .. n -> Nat] /\ ends[0] = 0
  /\ \A i \in 1 .. n : ends[i] = ends[i - 1] + Len(seqs[i])

FirstOf(seqs, m) == [i \in 1 .. m |-> seqs[i]]

LEMMA Concatenated ==
  ASSUME NEW S, NEW x \in Seq(S), NEW y \in Seq(S)
  PROVE  /\ x \o y \in Seq(S) /\ Len(x \o y) = Len(x) + Len(y)
         /\ \A k \in 1 .. Len(x) : (x \o y)[k] = x[k]
         /\ \A k \in 1 .. Len(y) : (x \o y)[Len(x) + k] = y[k]
<1>1. ASSUME NEW k \in 1 .. Len(y) PROVE (x \o y)[Len(x) + k] = y[k]
  OBVIOUS
<1> QED
  BY <1>1

LEMMA ConcatenatedInts ==
  \A x, y \in Seq(Int) :
    /\ x \o y \in Seq(Int) /\ Len(x \o y) = Len(x) + Len(y)
    /\ \A k \in 1 .. Len(x) : (x \o y)[k] = x[k]
    /\ \A k \in 1 .. Len(y) : (x \o y)[Len(x) + k] = y[k]
<1> SUFFICES ASSUME NEW x \in Seq(Int), NEW y \in Seq(Int)
             PROVE  /\ x \o y \in Seq(Int) /\ Len(x \o y) = Len(x) + Len(y)
                    /\ \A k \in 1 .. Len(x) : (x \o y)[k] = x[k]
                    /\ \A k \in 1 .. Len(y) : (x \o y)[Len(x) + k] = y[k]
  OBVIOUS
<1> QED
  BY Concatenated

LEMMA EndsGrow ==
  ASSUME NEW S, NEW n \in Nat, NEW seqs \in [1 .. n -> Seq(S)], NEW ends, AreEnds(ends, n, seqs)
  PROVE  \A i, j \in 0 .. n : i <= j => ends[i] <= ends[j]
<1> SUFFICES ASSUME NEW i \in 0 .. n PROVE \A j \in 0 .. n : i <= j => ends[i] <= ends[j]
  OBVIOUS
<1> DEFINE Bad == {j \in 0 .. n : i <= j /\ ~ (ends[i] <= ends[j])}
<1>1. SUFFICES ASSUME Bad # {} PROVE FALSE
  OBVIOUS
<1>2. PICK j \in Bad : \A k \in Bad : j <= k
  <2>1. Bad \in SUBSET Nat
    OBVIOUS
  <2> QED
    BY <1>1, <2>1, LeastNatural
<1>3. j \in 0 .. n /\ i <= j /\ ~ (ends[i] <= ends[j])
  OBVIOUS
<1>4. ends[i] \in Nat /\ ends[j] \in Nat
  BY <1>3 DEF AreEnds
<1>5. j # i
  BY <1>3, <1>4
<1>6. j \in 1 .. n /\ j - 1 \in 0 .. n /\ i <= j - 1 /\ j - 1 \notin Bad
  BY <1>2, <1>3, <1>5
<1>7. ends[i] <= ends[j - 1] /\ ends[j - 1] \in Nat
  BY <1>6 DEF AreEnds
<1>8. ends[j] = ends[j - 1] + Len(seqs[j]) /\ Len(seqs[j]) \in Nat
  BY <1>6 DEF AreEnds
<1> QED
  BY SMTT(30), <1>3, <1>4, <1>7, <1>8

IsLayout(seqs, n, ends) ==
  /\ AreEnds(ends, n, seqs)
  /\ \A m \in 0 .. n : Len(RowBytes!FlattenSeq(FirstOf(seqs, m))) = ends[m]
  /\ \A i \in 1 .. n : \A k \in 1 .. Len(seqs[i]) :
       RowBytes!FlattenSeq(seqs)[ends[i - 1] + k] = seqs[i][k]

LEMMA TextLayout ==
  ASSUME NEW S, NEW n \in Nat, NEW seqs \in [1 .. n -> Seq(S)]
  PROVE  /\ RowBytes!FlattenSeq(seqs) \in Seq(S)
         /\ \E ends : IsLayout(seqs, n, ends)
<1>1. PICK t \in [1 .. n -> Seq(S)] : IsText(t, n, seqs)
  BY TextsExist
<1>2. ASSUME NEW m \in 1 .. n
      PROVE  /\ t[m] \in Seq(S) /\ seqs[m] \in Seq(S)
             /\ m = 1 => t[m] = seqs[m]
             /\ m # 1 => m - 1 \in 1 .. n /\ t[m - 1] \in Seq(S) /\ t[m] = t[m - 1] \o seqs[m]
  BY SMTT(30), <1>1, <1>2 DEF IsText
<1>3. ASSUME NEW m \in 1 .. n
      PROVE  /\ Len(seqs[m]) \in Nat /\ Len(t[m]) \in Nat
             /\ m = 1 => Len(t[m]) = Len(seqs[m])
             /\ m # 1 => Len(t[m]) = Len(t[m - 1]) + Len(seqs[m])
  BY SMTT(30), <1>2, Concatenated
<1>4. PICK ends : ends = [m \in 0 .. n |-> IF m = 0 THEN 0 ELSE Len(t[m])]
  OBVIOUS
<1>5. /\ AreEnds(ends, n, seqs)
      /\ \A m \in 1 .. n : ends[m] = Len(t[m])
      /\ \A m \in 1 .. n : /\ ends[m] \in Nat /\ ends[m - 1] \in Nat /\ Len(seqs[m]) \in Nat
                          /\ ends[m] = ends[m - 1] + Len(seqs[m])
  <2>1. ends \in [0 .. n -> Nat] /\ ends[0] = 0
    BY <1>3, <1>4
  <2>2. ASSUME NEW m \in 1 .. n
        PROVE  ends[m] = Len(t[m]) /\ ends[m] = ends[m - 1] + Len(seqs[m])
    <3>1. m \in 0 .. n /\ m - 1 \in 0 .. n /\ m # 0
      OBVIOUS
    <3>2. ends[m] = Len(t[m]) /\ ends[m - 1] = IF m - 1 = 0 THEN 0 ELSE Len(t[m - 1])
      BY <1>4, <3>1
    <3>3. CASE m = 1
      BY <1>3, <3>2, <3>3
    <3>4. CASE m # 1
      BY <1>3, <3>2, <3>4
    <3> QED
      BY <3>3, <3>4
  <2>3. ASSUME NEW m \in 1 .. n PROVE m \in 0 .. n /\ m - 1 \in 0 .. n
    OBVIOUS
  <2> QED
    BY <1>3, <2>1, <2>2, <2>3 DEF AreEnds
<1>6. ASSUME NEW m \in 1 .. n PROVE RowBytes!FlattenSeq(FirstOf(seqs, m)) = t[m]
  <2>1. FirstOf(seqs, m) \in [1 .. m -> Seq(S)]
    BY <1>2 DEF FirstOf
  <2>2. IsText(t, m, FirstOf(seqs, m))
    <3>1. \A i \in 1 .. m : i \in 1 .. n /\ FirstOf(seqs, m)[i] = seqs[i]
      BY DEF FirstOf
    <3> QED
      BY <1>1, <3>1 DEF IsText
  <2> QED
    <3>1. m \in Nat \ {0}
      OBVIOUS
    <3> QED
      BY <2>1, <2>2, <3>1, FlattenedIsText, Zenon
<1>7. RowBytes!FlattenSeq(FirstOf(seqs, 0)) = <<>>
  <2>1. FirstOf(seqs, 0) = <<>>
    BY DEF FirstOf
  <2> QED
    BY <2>1 DEF RowBytes!FlattenSeq
<1>8. ASSUME NEW m \in 0 .. n PROVE Len(RowBytes!FlattenSeq(FirstOf(seqs, m))) = ends[m]
  <2>1. CASE m = 0
    <3>1. ends[0] = 0
      BY <1>5 DEF AreEnds
    <3> QED
      BY <1>7, <2>1, <3>1
  <2>2. CASE m # 0
    <3>1. m \in 1 .. n
      BY <2>2
    <3> QED
      BY <1>5, <1>6, <3>1
  <2> QED
    BY <2>1, <2>2
<1>9. FirstOf(seqs, n) = seqs
  BY DEF FirstOf
<1>10. RowBytes!FlattenSeq(seqs) \in Seq(S)
  <2>1. CASE n = 0
    <3>1. RowBytes!FlattenSeq(seqs) = <<>> /\ <<>> \in Seq(S)
      BY <1>7, <1>9, <2>1
    <3> QED
      BY <3>1
  <2>2. CASE n # 0
    <3>1. n \in 1 .. n
      BY <2>2
    <3> QED
      BY <1>2, <1>6, <1>9, <3>1
  <2> QED
    BY <2>1, <2>2
<1>11. \A i, j \in 0 .. n : i <= j => ends[i] <= ends[j]
  BY <1>5, EndsGrow, Zenon
<1> DEFINE Placed(m) == \A i \in 1 .. m : \A k \in 1 .. Len(seqs[i]) :
                          t[m][ends[i - 1] + k] = seqs[i][k]
           Bad == {m \in 1 .. n : ~ Placed(m)}
<1>12. ASSUME NEW m \in 1 .. n, m # 1 => Placed(m - 1) PROVE Placed(m)
  <2> SUFFICES ASSUME NEW i \in 1 .. m, NEW k \in 1 .. Len(seqs[i])
               PROVE  t[m][ends[i - 1] + k] = seqs[i][k]
    OBVIOUS
  <2>1. CASE m = 1
    <3>1. i = 1 /\ ends[i - 1] = 0 /\ t[m] = seqs[i] /\ Len(seqs[i]) \in Nat
      BY <1>2, <1>5, <2>1 DEF AreEnds
    <3> QED
      BY <3>1
  <2>2. CASE m # 1
    <3>1. /\ t[m - 1] \in Seq(S) /\ seqs[m] \in Seq(S) /\ t[m] = t[m - 1] \o seqs[m]
          /\ m - 1 \in 1 .. n
      BY <1>2, <2>2
    <3>2. Len(t[m - 1]) = ends[m - 1]
      BY <1>5, <3>1
    <3>3. CASE i = m
      <4>1. PICK x, y : x = t[m - 1] /\ y = seqs[m]
        OBVIOUS
      <4>2. x \in Seq(S) /\ y \in Seq(S) /\ k \in 1 .. Len(y)
        BY <3>1, <3>3, <4>1
      <4>3. (x \o y)[Len(x) + k] = y[k]
        BY <4>2, Concatenated
      <4> QED
        BY <3>1, <3>2, <3>3, <4>1, <4>3
    <3>4. CASE i # m
      <4>1. i \in 1 .. m - 1 /\ i \in 1 .. n /\ i - 1 \in 0 .. n /\ i \in 0 .. n /\ m - 1 \in 0 .. n
        BY <3>1, <3>4
      <4>2. ends[i] = ends[i - 1] + Len(seqs[i]) /\ ends[i - 1] \in Nat /\ ends[i] \in Nat
            /\ Len(seqs[i]) \in Nat /\ ends[m - 1] \in Nat
        BY <1>5, <3>1, <4>1
      <4>3. ends[i] <= ends[m - 1]
        BY <1>11, <4>1
      <4>4. ends[i - 1] + k \in 1 .. Len(t[m - 1])
        <5>1. PICK x, y, z, l : x = ends[i - 1] /\ y = ends[i] /\ z = ends[m - 1] /\ l = Len(seqs[i])
          OBVIOUS
        <5>2. /\ x \in Nat /\ y \in Nat /\ z \in Nat /\ l \in Nat /\ y = x + l /\ y <= z
              /\ k \in 1 .. l
          BY <4>2, <4>3, <5>1
        <5>3. x + k \in 1 .. z
          BY <5>2
        <5> QED
          BY <3>2, <5>1, <5>3
      <4>5. t[m][ends[i - 1] + k] = t[m - 1][ends[i - 1] + k]
        BY <3>1, <4>4, Concatenated
      <4> QED
        BY <1>12, <2>2, <4>1, <4>5
    <3> QED
      BY <3>3, <3>4
  <2> QED
    BY <2>1, <2>2
<1> HIDE DEF Placed
<1>13. Bad = {}
  <2>1. SUFFICES ASSUME Bad # {} PROVE FALSE
    OBVIOUS
  <2>2. PICK m \in Bad : \A k \in Bad : m <= k
    <3>1. Bad \in SUBSET Nat
      OBVIOUS
    <3> QED
      BY <2>1, <3>1, LeastNatural
  <2>3. m \in 1 .. n /\ ~ Placed(m) /\ (m # 1 => m - 1 \in 1 .. n)
    OBVIOUS
  <2>4. m # 1 => m - 1 \notin Bad
    BY <2>2, <2>3
  <2> QED
    BY <1>12, <2>3, <2>4
<1>14. ASSUME NEW i \in 1 .. n, NEW k \in 1 .. Len(seqs[i])
       PROVE  RowBytes!FlattenSeq(seqs)[ends[i - 1] + k] = seqs[i][k]
  <2>1. n \in 1 .. n
    OBVIOUS
  <2>2. Placed(n) /\ RowBytes!FlattenSeq(seqs) = t[n]
    BY <1>6, <1>9, <1>13, <2>1
  <2> QED
    BY <2>2 DEF Placed
<1>15. IsLayout(seqs, n, ends)
  BY <1>5, <1>8, <1>14 DEF IsLayout
<1> QED
  BY <1>10, <1>15

LEMMA FlattenedGrows ==
  ASSUME NEW S, NEW n \in Nat, NEW seqs \in [1 .. n -> Seq(S)], NEW m \in 0 .. n - 1
  PROVE  /\ RowBytes!FlattenSeq(FirstOf(seqs, m)) \in Seq(S)
         /\ RowBytes!FlattenSeq(FirstOf(seqs, m + 1))
              = RowBytes!FlattenSeq(FirstOf(seqs, m)) \o seqs[m + 1]
<1>1. PICK t \in [1 .. n -> Seq(S)] : IsText(t, n, seqs)
  BY TextsExist
<1>2. ASSUME NEW k \in 1 .. n
      PROVE  RowBytes!FlattenSeq(FirstOf(seqs, k)) = t[k] /\ t[k] \in Seq(S)
  <2>1. FirstOf(seqs, k) \in [1 .. k -> Seq(S)]
    <3>1. \A i \in 1 .. k : i \in 1 .. n
      OBVIOUS
    <3> QED
      BY <3>1 DEF FirstOf
  <2>2. IsText(t, k, FirstOf(seqs, k))
    <3>1. \A i \in 1 .. k : i \in 1 .. n /\ FirstOf(seqs, k)[i] = seqs[i]
      BY DEF FirstOf
    <3> QED
      BY <1>1, <3>1 DEF IsText
  <2>3. k \in Nat \ {0}
    OBVIOUS
  <2> QED
    BY <1>1, <2>1, <2>2, <2>3, FlattenedIsText, Zenon
<1>3. PICK k : k = m + 1
  OBVIOUS
<1>4. k \in 1 .. n /\ k - 1 = m /\ seqs[k] \in Seq(S) /\ m \in Nat
  BY <1>3
<1>5. t[k] = IF k = 1 THEN seqs[k] ELSE t[k - 1] \o seqs[k]
  BY <1>1, <1>4 DEF IsText
<1>6. CASE m = 0
  <2>1. FirstOf(seqs, 0) = <<>>
    BY DEF FirstOf
  <2>2. RowBytes!FlattenSeq(FirstOf(seqs, m)) = <<>>
    BY <1>6, <2>1 DEF RowBytes!FlattenSeq
  <2>3. <<>> \o seqs[k] = seqs[k] /\ <<>> \in Seq(S)
    BY <1>4
  <2>4. k = 1 /\ RowBytes!FlattenSeq(FirstOf(seqs, k)) = seqs[k]
    BY <1>2, <1>3, <1>4, <1>5, <1>6
  <2> QED
    BY <1>3, <2>2, <2>3, <2>4
<1>7. CASE m # 0
  <2>1. m \in 1 .. n /\ k # 1
    BY <1>4, <1>7
  <2> QED
    BY <1>2, <1>3, <1>4, <1>5, <2>1
<1> QED
  BY <1>6, <1>7

(***************************************************************************)
(* The bytes of a row: neither the name nor the number has one of those    *)
(* that the programs look for.                                             *)
(***************************************************************************)
Sought == {RowBytes!Zero, RowBytes!Newline, RowBytes!Semicolon}

HasNoneSought(s) == s \in Seq(Int) /\ \A k \in 1 .. Len(s) : s[k] \notin Sought

LEMMA DecimalShape ==
  ASSUME NEW t \in Int, -999 <= t, t <= 999
  PROVE  /\ HasNoneSought(RowBytes!Decimal(t))
         /\ Len(RowBytes!Decimal(t)) \in 3 .. 5
<1> DEFINE n == RowBytes!Magnitude(t)
           h == n \div 100
           d == (n \div 10) % 10
           u == n % 10
<1>1. n \in 0 .. 999
  <2>1. n = IF t < 0 THEN -t ELSE t
    BY DEF RowBytes!Magnitude
  <2> HIDE DEF n
  <2> QED
    BY <2>1
<1>2. RowBytes!Decimal(t) = (IF t < 0 THEN <<-3>> ELSE <<>>) \o (IF n >= 100 THEN <<h>> ELSE <<>>)
                              \o <<d, -2, u>>
  BY DEF RowBytes!Decimal, RowBytes!Minus, RowBytes!Dot
<1> HIDE DEF n
<1>3. h \in 0 .. 9 /\ d \in 0 .. 9 /\ u \in 0 .. 9
  BY <1>1, Digits
<1> HIDE DEF h, d, u
<1> DEFINE F == -3 .. 9
<1>4. PICK x, y, z : /\ x = IF t < 0 THEN <<-3>> ELSE <<>>
                     /\ y = IF n >= 100 THEN <<h>> ELSE <<>>
                     /\ z = <<d, -2, u>>
  BY ZenonT(30)
<1>5. /\ x \in Seq(Int) /\ Len(x) \in 0 .. 1 /\ \A k \in 1 .. Len(x) : x[k] \in F
      /\ y \in Seq(Int) /\ Len(y) \in 0 .. 1 /\ \A k \in 1 .. Len(y) : y[k] \in F
      /\ z \in Seq(Int) /\ Len(z) = 3 /\ \A k \in 1 .. Len(z) : z[k] \in F
  <2>1. /\ -3 \in F /\ -2 \in F /\ h \in F /\ d \in F /\ u \in F
        /\ -3 \in Int /\ -2 \in Int /\ h \in Int /\ d \in Int /\ u \in Int
    BY <1>3
  <2> HIDE DEF F
  <2>2. x \in Seq(Int) /\ Len(x) \in 0 .. 1 /\ \A k \in 1 .. Len(x) : x[k] \in F
    BY <1>4, <2>1
  <2>3. y \in Seq(Int) /\ Len(y) \in 0 .. 1 /\ \A k \in 1 .. Len(y) : y[k] \in F
    BY <1>4, <2>1
  <2>4. z \in Seq(Int) /\ Len(z) = 3 /\ z[1] \in F /\ z[2] \in F /\ z[3] \in F
    BY <1>4, <2>1
  <2> QED
    BY <2>2, <2>3, <2>4
<1> HIDE DEF F
<1>6. PICK w, s : w = x \o y /\ s = w \o z
  BY ZenonT(30)
<1>7. /\ w \in Seq(Int) /\ Len(w) = Len(x) + Len(y)
      /\ \A k \in 1 .. Len(x) : w[k] = x[k]
      /\ \A k \in 1 .. Len(y) : w[Len(x) + k] = y[k]
  BY <1>5, <1>6, ConcatenatedInts
<1>8. /\ s \in Seq(Int) /\ Len(s) = Len(w) + 3
      /\ \A k \in 1 .. Len(w) : s[k] = w[k]
      /\ \A k \in 1 .. 3 : s[Len(w) + k] = z[k]
  <2>1. /\ s \in Seq(Int) /\ Len(s) = Len(w) + Len(z)
        /\ \A k \in 1 .. Len(w) : s[k] = w[k]
        /\ \A k \in 1 .. Len(z) : s[Len(w) + k] = z[k]
    <3>1. w \in Seq(Int) /\ z \in Seq(Int) /\ s = w \o z
      BY <1>5, <1>6, <1>7
    <3> QED
      BY <3>1, ConcatenatedInts
  <2> QED
    BY <1>5, <2>1
<1>9. \A k \in 1 .. Len(w) : w[k] \in F
  <2> SUFFICES ASSUME NEW k \in 1 .. Len(w) PROVE w[k] \in F
    OBVIOUS
  <2>1. CASE k <= Len(x)
    <3>1. k \in 1 .. Len(x)
      BY <1>5, <1>7, <2>1
    <3>2. w[k] = x[k]
      BY <1>7, <3>1
    <3>3. x[k] \in F
      BY <1>5, <3>1
    <3> QED
      BY <3>2, <3>3
  <2>2. CASE k > Len(x)
    <3>1. PICK j : j = k - Len(x)
      OBVIOUS
    <3>2. j \in 1 .. Len(y) /\ k = Len(x) + j
      <4>1. PICK l, m : l = Len(x) /\ m = Len(y)
        BY ZenonT(30)
      <4>2. l \in Nat /\ m \in Nat /\ k \in 1 .. l + m /\ k > l /\ j = k - l
        BY <1>5, <1>7, <2>2, <3>1, <4>1
      <4>3. j \in 1 .. m /\ k = l + j
        BY <4>2
      <4> QED
        BY <4>1, <4>3
    <3>3. w[Len(x) + j] = y[j]
      BY <1>7, <3>2
    <3>4. y[j] \in F
      BY <1>5, <3>2
    <3> QED
      BY <3>2, <3>3, <3>4
  <2> QED
    BY <1>5, <2>1, <2>2
<1>10. \A k \in 1 .. Len(s) : s[k] \in F
  <2> SUFFICES ASSUME NEW k \in 1 .. Len(s) PROVE s[k] \in F
    OBVIOUS
  <2>1. CASE k <= Len(w)
    BY <1>7, <1>8, <1>9, <2>1
  <2>2. CASE k > Len(w)
    <3>1. PICK j : j = k - Len(w)
      OBVIOUS
    <3>2. j \in 1 .. 3 /\ k = Len(w) + j /\ j \in 1 .. Len(z)
      <4>1. PICK l : l = Len(w)
        OBVIOUS
      <4>2. l \in Nat /\ k \in 1 .. l + 3 /\ k > l /\ j = k - l
        BY <1>7, <1>8, <2>2, <3>1, <4>1
      <4>3. j \in 1 .. 3 /\ k = l + j
        BY <4>2
      <4> QED
        BY <1>5, <4>1, <4>3
    <3> QED
      BY <1>5, <1>8, <3>2
  <2> QED
    BY <1>7, <2>1, <2>2
<1>11. \A c \in F : c \notin Sought
  BY DEF F, Sought, RowBytes!Zero, RowBytes!Newline, RowBytes!Semicolon
<1>12. s = RowBytes!Decimal(t)
  BY <1>2, <1>4, <1>6
<1>13. Len(s) \in 3 .. 5
  <2>1. PICK l, m : l = Len(x) /\ m = Len(y)
    BY ZenonT(30)
  <2>2. l \in 0 .. 1 /\ m \in 0 .. 1 /\ Len(s) = l + m + 3
    BY ZenonT(30), <1>5, <1>7, <1>8, <2>1
  <2> QED
    BY <2>2
<1> QED
  BY ZenonT(30), <1>8, <1>10, <1>11, <1>12, <1>13 DEF HasNoneSought

LEMMA AppendedInt ==
  \A x \in Seq(Int), c \in Int :
    /\ x \o <<c>> \in Seq(Int) /\ Len(x \o <<c>>) = Len(x) + 1
    /\ \A k \in 1 .. Len(x) : (x \o <<c>>)[k] = x[k]
    /\ (x \o <<c>>)[Len(x) + 1] = c
<1> SUFFICES ASSUME NEW x \in Seq(Int), NEW c \in Int
             PROVE  /\ x \o <<c>> \in Seq(Int) /\ Len(x \o <<c>>) = Len(x) + 1
                    /\ \A k \in 1 .. Len(x) : (x \o <<c>>)[k] = x[k]
                    /\ (x \o <<c>>)[Len(x) + 1] = c
  OBVIOUS
<1>1. <<c>> \in Seq(Int) /\ Len(<<c>>) = 1 /\ 1 \in 1 .. 1 /\ <<c>>[1] = c
  OBVIOUS
<1>2. PICK y : y = <<c>>
  OBVIOUS
<1>3. y \in Seq(Int) /\ Len(y) = 1 /\ y[1] = c /\ 1 \in 1 .. Len(y)
  BY <1>1, <1>2
<1>4. /\ x \o y \in Seq(Int) /\ Len(x \o y) = Len(x) + Len(y)
      /\ \A k \in 1 .. Len(x) : (x \o y)[k] = x[k]
      /\ \A k \in 1 .. Len(y) : (x \o y)[Len(x) + k] = y[k]
  BY <1>3, ConcatenatedInts
<1>5. (x \o y)[Len(x) + 1] = y[1]
  BY <1>3, <1>4
<1> QED
  BY <1>2, <1>3, <1>4, <1>5

(***************************************************************************)
(* The text s of a row with the name x and the number y.                   *)
(***************************************************************************)
HasShape(s, x, y) ==
  /\ s \in Seq(Int) /\ Len(s) = Len(x) + Len(y) + 2
  /\ \A k \in 1 .. Len(x) : s[k] = x[k]
  /\ s[Len(x) + 1] = RowBytes!Semicolon
  /\ \A k \in 1 .. Len(y) : s[Len(x) + 1 + k] = y[k]
  /\ s[Len(x) + Len(y) + 2] = RowBytes!Newline

LEMMA Shaped ==
  ASSUME NEW x \in Seq(Int), NEW y \in Seq(Int)
  PROVE  HasShape(((x \o <<RowBytes!Semicolon>>) \o y) \o <<RowBytes!Newline>>, x, y)
<1>1. PICK c, e : c = RowBytes!Semicolon /\ e = RowBytes!Newline
  OBVIOUS
<1>2. c \in Int /\ e \in Int
  BY <1>1 DEF RowBytes!Semicolon, RowBytes!Newline
<1>3. PICK u : u = x \o <<c>>
  OBVIOUS
<1>4. PICK v : v = u \o y
  OBVIOUS
<1>5. PICK s : s = v \o <<e>>
  OBVIOUS
<1>6. PICK l, m : l = Len(x) /\ m = Len(y)
  OBVIOUS
<1>7. l \in Nat /\ m \in Nat
  BY <1>6
<1>8. /\ u \in Seq(Int) /\ Len(u) = Len(x) + 1
      /\ \A k \in 1 .. Len(x) : u[k] = x[k]
      /\ u[Len(x) + 1] = c
  BY <1>2, <1>3, AppendedInt
<1>9. /\ v \in Seq(Int) /\ Len(v) = Len(u) + Len(y)
      /\ \A k \in 1 .. Len(u) : v[k] = u[k]
      /\ \A k \in 1 .. Len(y) : v[Len(u) + k] = y[k]
  BY <1>4, <1>8, ConcatenatedInts
<1>10. /\ s \in Seq(Int) /\ Len(s) = Len(v) + 1
       /\ \A k \in 1 .. Len(v) : s[k] = v[k]
       /\ s[Len(v) + 1] = e
  BY <1>2, <1>5, <1>9, AppendedInt
<1>11. Len(u) = l + 1 /\ Len(v) = l + 1 + m /\ Len(s) = l + 1 + m + 1
  BY <1>6, <1>8, <1>9, <1>10
<1>12. l + 1 + m + 1 = l + m + 2
  BY <1>7
<1>13. \A k \in 1 .. l : s[k] = x[k]
  <2>1. \A k \in 1 .. l : k \in 1 .. l + 1 /\ k \in 1 .. l + 1 + m
    BY <1>7
  <2> QED
    BY <1>6, <1>8, <1>9, <1>10, <1>11, <2>1
<1>14. s[l + 1] = c
  <2>1. l + 1 \in 1 .. l + 1 /\ l + 1 \in 1 .. l + 1 + m
    BY <1>7
  <2> QED
    BY <1>6, <1>8, <1>9, <1>10, <1>11, <2>1
<1>15. \A k \in 1 .. m : s[l + 1 + k] = y[k]
  <2>1. \A k \in 1 .. m : l + 1 + k \in 1 .. l + 1 + m
    BY <1>7
  <2> QED
    BY <1>6, <1>9, <1>10, <1>11, <2>1
<1>16. HasShape(s, x, y)
  BY <1>1, <1>6, <1>10, <1>11, <1>12, <1>13, <1>14, <1>15 DEF HasShape
<1> QED
  BY <1>1, <1>3, <1>4, <1>5, <1>16

LEMMA TextShape ==
  \A row \in RowBytes!Measured :
    /\ HasNoneSought(row.name)
    /\ HasShape(RowBytes!Text(row), row.name, RowBytes!Decimal(row.tenths))
<1> SUFFICES ASSUME NEW row \in RowBytes!Measured
             PROVE  /\ HasNoneSought(row.name)
                    /\ HasShape(RowBytes!Text(row), row.name, RowBytes!Decimal(row.tenths))
  OBVIOUS
<1>1. row.name \in Seq(RowBytes!NameByte) /\ row.tenths \in -999 .. 999
  BY DEF RowBytes!Measured
<1>2. PICK x, y : x = row.name /\ y = RowBytes!Decimal(row.tenths)
  OBVIOUS
<1>3. HasNoneSought(x)
  <2>1. \A k \in RowBytes!NameByte : k \in Int /\ k \notin Sought
    BY DEF RowBytes!NameByte, Sought
  <2>2. x \in Seq(RowBytes!NameByte)
    BY <1>1, <1>2
  <2> QED
    BY <2>1, <2>2 DEF HasNoneSought
<1>4. y \in Seq(Int)
  <2>1. PICK t : t = row.tenths
    OBVIOUS
  <2>2. y = RowBytes!Decimal(t) /\ t \in Int /\ -999 <= t /\ t <= 999
    <3>1. t \in -999 .. 999 /\ y = RowBytes!Decimal(t)
      BY <1>1, <1>2, <2>1
    <3> QED
      BY <3>1
  <2>3. HasNoneSought(RowBytes!Decimal(t))
    BY <2>2, DecimalShape
  <2> QED
    BY <2>2, <2>3 DEF HasNoneSought
<1>5. HasShape(((x \o <<RowBytes!Semicolon>>) \o y) \o <<RowBytes!Newline>>, x, y)
  BY <1>3, <1>4, Shaped DEF HasNoneSought
<1>6. RowBytes!Text(row) = ((x \o <<RowBytes!Semicolon>>) \o y) \o <<RowBytes!Newline>>
  BY <1>2 DEF RowBytes!Text
<1> QED
  BY <1>2, <1>3, <1>5, <1>6

(***************************************************************************)
(* The bytes the programs look for, in the text of a row: no zero, one     *)
(* semicolon, which ends the name, and one newline, which ends the row.    *)
(***************************************************************************)
SoughtAt(s, l, m) ==
  /\ s \in Seq(Int) /\ l \in Nat /\ m \in 3 .. 5 /\ Len(s) = l + m + 2
  /\ \A k \in 1 .. l + m + 2 :
       /\ s[k] # RowBytes!Zero
       /\ s[k] = RowBytes!Semicolon <=> k = l + 1
       /\ s[k] = RowBytes!Newline <=> k = l + m + 2

LEMMA SoughtInText ==
  ASSUME NEW row \in RowBytes!Measured
  PROVE  SoughtAt(RowBytes!Text(row), Len(row.name), Len(RowBytes!Decimal(row.tenths)))
<1>1. PICK s, x, y : s = RowBytes!Text(row) /\ x = row.name /\ y = RowBytes!Decimal(row.tenths)
  OBVIOUS
<1>2. row.tenths \in -999 .. 999
  BY DEF RowBytes!Measured
<1>3. HasNoneSought(x) /\ HasShape(s, x, y)
  BY <1>1, TextShape
<1>4. HasNoneSought(y) /\ Len(y) \in 3 .. 5
  <2>1. PICK t : t = row.tenths
    OBVIOUS
  <2>2. t \in Int /\ -999 <= t /\ t <= 999
    <3>1. t \in -999 .. 999
      BY <1>2, <2>1
    <3> QED
      BY <3>1
  <2>3. HasNoneSought(RowBytes!Decimal(t)) /\ Len(RowBytes!Decimal(t)) \in 3 .. 5
    BY <2>2, DecimalShape
  <2> QED
    BY <1>1, <2>1, <2>3
<1>5. PICK l, m : l = Len(x) /\ m = Len(y)
  OBVIOUS
<1>6. l \in Nat /\ m \in 3 .. 5
  BY SMTT(30), <1>3, <1>4, <1>5 DEF HasNoneSought
<1>7. s \in Seq(Int) /\ Len(s) = l + m + 2
  BY <1>3, <1>5 DEF HasShape
<1>8. \A k \in 1 .. l : s[k] \notin Sought
  BY <1>3, <1>5 DEF HasShape, HasNoneSought
<1>9. \A k \in 1 .. m : s[l + 1 + k] \notin Sought
  BY <1>3, <1>4, <1>5 DEF HasShape, HasNoneSought
<1>10. s[l + 1] = RowBytes!Semicolon /\ s[l + m + 2] = RowBytes!Newline
  BY <1>3, <1>5 DEF HasShape
<1>11. /\ RowBytes!Semicolon # RowBytes!Newline /\ RowBytes!Semicolon # RowBytes!Zero
       /\ RowBytes!Newline # RowBytes!Zero
  BY DEF RowBytes!Semicolon, RowBytes!Newline, RowBytes!Zero
<1>12. ASSUME NEW k \in 1 .. l + m + 2
       PROVE  /\ s[k] # RowBytes!Zero
              /\ s[k] = RowBytes!Semicolon <=> k = l + 1
              /\ s[k] = RowBytes!Newline <=> k = l + m + 2
  <2>1. CASE k \in 1 .. l
    <3>1. k # l + 1 /\ k # l + m + 2
      BY <1>6, <2>1
    <3> QED
      BY <1>8, <2>1, <3>1 DEF Sought
  <2>2. CASE k = l + 1
    <3>1. k # l + m + 2
      BY <1>6, <2>2
    <3> QED
      BY <1>10, <1>11, <2>2, <3>1
  <2>3. CASE k = l + m + 2
    <3>1. k # l + 1
      BY <1>6, <2>3
    <3> QED
      BY <1>10, <1>11, <2>3, <3>1
  <2>4. CASE k \notin 1 .. l /\ k # l + 1 /\ k # l + m + 2
    <3>1. PICK j : j = k - (l + 1)
      OBVIOUS
    <3>2. j \in 1 .. m /\ k = l + 1 + j
      BY <1>6, <2>4, <3>1
    <3>3. s[k] \notin Sought
      BY <1>9, <3>2
    <3> QED
      BY <2>4, <3>3 DEF Sought
  <2> QED
    BY <2>1, <2>2, <2>3, <2>4
<1> QED
  BY <1>1, <1>5, <1>6, <1>7, <1>12 DEF SoughtAt

(***************************************************************************)
(* The bytes of the row stand at i in b, all but its newline.              *)
(***************************************************************************)
StandsAt(b, i, row) ==
  \A k \in 1 .. Len(RowBytes!Text(row)) - 1 :
    i + k - 1 \in DOMAIN b /\ b[i + k - 1] = RowBytes!Text(row)[k]

(***************************************************************************)
(* What a program finds where a row stands, whatever is before it and      *)
(* behind it: the first semicolon from its start on ends its name, no zero *)
(* is at its start or behind the semicolon, and the name and the number    *)
(* read from there are the row's.                                          *)
(***************************************************************************)
THEOREM RowFound ==
  ASSUME NEW b, NEW i \in Nat, NEW row \in RowBytes!Measured, StandsAt(b, i, row)
  PROVE  \E d \in Nat :
         /\ d = i + Len(row.name)
         /\ i <= d
         /\ b[i] # RowBytes!Zero
         /\ RowBytes!FirstAt(b, i, RowBytes!Semicolon, d)
         /\ d + 1 \in DOMAIN b /\ b[d + 1] # RowBytes!Zero
         /\ row = [name |-> RowBytes!Between(b, i, d),
                   tenths |-> RowBytes!customFloatParse(b, d + 1)]
<1>1. PICK s, l, m : /\ s = RowBytes!Text(row) /\ l = Len(row.name)
                     /\ m = Len(RowBytes!Decimal(row.tenths))
  OBVIOUS
<1>2. /\ l \in Nat /\ m \in 3 .. 5 /\ Len(s) = l + m + 2
      /\ \A k \in 1 .. l + m + 2 :
           /\ s[k] # RowBytes!Zero
           /\ s[k] = RowBytes!Semicolon <=> k = l + 1
           /\ s[k] = RowBytes!Newline <=> k = l + m + 2
  <2>1. SoughtAt(s, l, m)
    BY <1>1, SoughtInText
  <2> QED
    BY <2>1 DEF SoughtAt
<1>3. \A k \in 1 .. l + m + 1 : i + k - 1 \in DOMAIN b /\ b[i + k - 1] = s[k]
  <2>1. Len(s) - 1 = l + m + 1
    BY <1>2
  <2> QED
    BY <1>1, <2>1 DEF StandsAt
<1>4. PICK d \in Nat : d = i + l /\ i <= d
  BY <1>2
<1>5. ASSUME NEW q \in i .. i + l + m
      PROVE  /\ q \in DOMAIN b /\ b[q] # RowBytes!Zero
             /\ b[q] = RowBytes!Semicolon <=> q = d
  <2>1. PICK k : k = q - i + 1
    OBVIOUS
  <2>2. /\ k \in 1 .. l + m + 1 /\ k \in 1 .. l + m + 2 /\ q = i + k - 1
        /\ k = l + 1 <=> q = d
    BY <1>2, <1>4, <2>1
  <2>3. q \in DOMAIN b /\ b[q] = s[k]
    BY <1>3, <2>2
  <2> QED
    BY <1>2, <2>2, <2>3
<1>6. b[i] # RowBytes!Zero /\ d + 1 \in DOMAIN b /\ b[d + 1] # RowBytes!Zero
  <2>1. i \in i .. i + l + m /\ d + 1 \in i .. i + l + m
    BY <1>2, <1>4
  <2> QED
    BY <1>5, <2>1
<1>7. RowBytes!FirstAt(b, i, RowBytes!Semicolon, d)
  <2>1. d \in i .. i + l + m /\ \A k \in i .. d - 1 : k \in i .. i + l + m /\ k # d
    BY <1>2, <1>4
  <2> QED
    BY <1>4, <1>5, <2>1 DEF RowBytes!FirstAt
<1>8. PICK x, y : x = row.name /\ y = RowBytes!Decimal(row.tenths)
  OBVIOUS
<1>9. /\ x \in Seq(Int) /\ l = Len(x) /\ m = Len(y)
      /\ \A k \in 1 .. l : s[k] = x[k]
      /\ \A k \in 1 .. m : s[l + 1 + k] = y[k]
  BY <1>1, <1>8, TextShape DEF HasShape, HasNoneSought
<1>10. RowBytes!Between(b, i, d) = x
  <2>1. x = [k \in 1 .. l |-> x[k]]
    BY <1>9
  <2>2. d - i = l
    BY <1>2, <1>4
  <2>3. \A k \in 1 .. l : k \in 1 .. l + m + 1
    BY <1>2
  <2>4. \A k \in 1 .. l : b[i + k - 1] = x[k]
    BY <1>3, <1>9, <2>3
  <2> QED
    BY <2>1, <2>2, <2>4 DEF RowBytes!Between
<1>11. RowBytes!customFloatParse(b, d + 1) = row.tenths
  <2>1. PICK t : t = row.tenths
    OBVIOUS
  <2>2. t \in Int /\ -999 <= t /\ t <= 999
    <3>1. t \in -999 .. 999
      BY <2>1 DEF RowBytes!Measured
    <3> QED
      BY <3>1
  <2>3. PICK p : p = d + 1
    OBVIOUS
  <2>4. ASSUME NEW k \in 1 .. m PROVE b[p + k - 1] = y[k]
    <3>1. PICK j : j = l + 1 + k
      OBVIOUS
    <3>2. j \in 1 .. l + m + 1 /\ i + j - 1 = p + k - 1
      BY <1>2, <1>4, <2>3, <3>1
    <3> QED
      BY <1>3, <1>9, <3>1, <3>2
  <2>5. \A k \in 1 .. Len(RowBytes!Decimal(t)) : b[p + k - 1] = RowBytes!Decimal(t)[k]
    BY <1>8, <1>9, <2>1, <2>4
  <2>6. p \in Int
    BY <1>4, <2>3
  <2>7. RowBytes!customFloatParse(b, p) = t
    <3>1. t \in Int
      BY <2>2
    <3>2. -999 <= t /\ t <= 999
      BY <2>2
    <3> QED
      BY <2>5, <2>6, <3>1, <3>2, ParseUndoesDecimal
  <2> QED
    BY <2>1, <2>3, <2>7
<1>12. row = [name |-> row.name, tenths |-> row.tenths]
  BY DEF RowBytes!Measured
<1> QED
  BY <1>1, <1>4, <1>6, <1>7, <1>8, <1>10, <1>11, <1>12

LEMMA FirstIsOne ==
  ASSUME NEW b, NEW i \in Int, NEW t, NEW q \in Int, NEW r \in Int,
         RowBytes!FirstAt(b, i, t, q), RowBytes!FirstAt(b, i, t, r)
  PROVE  q = r
<1>1. /\ i <= q /\ b[q] = t /\ \A k \in i .. q - 1 : b[k] # t
      /\ i <= r /\ b[r] = t /\ \A k \in i .. r - 1 : b[k] # t
  BY DEF RowBytes!FirstAt
<1>2. ~ (q < r)
  <2>1. q < r => q \in i .. r - 1
    BY <1>1
  <2> QED
    BY <1>1, <2>1
<1>3. ~ (r < q)
  <2>1. r < q => r \in i .. q - 1
    BY <1>1
  <2> QED
    BY <1>1, <2>1
<1> QED
  BY <1>2, <1>3
=============================================================================
