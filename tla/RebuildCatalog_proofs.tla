----------------------- MODULE RebuildCatalog_proofs -----------------------
(***************************************************************************)
(* Proofs about the catalog: the index of a directory, whatever entries it *)
(* has and however their hashes collide, finds what the directory holds;   *)
(* and the count of dead bytes is what the transactions have made of it.   *)
(***************************************************************************)
EXTENDS Rebuild_proofs, FunctionTheorems, FiniteSetTheorems, WellFoundedInduction

----------------------------------------------------------------------------
(* Sorting a finite set.                                                   *)

\* R says of any two elements of S which one is first.
Orders(R, S) ==
    /\ \A x \in S : <<x, x>> \notin R
    /\ \A x, y \in S : x = y \/ <<x, y>> \in R \/ <<y, x>> \in R
    /\ \A x, y, z \in S : <<x, y>> \in R /\ <<y, z>> \in R => <<x, z>> \in R

\* What is sorted before x, and the place of x.
Below(S, R, x) == {y \in S : <<y, x>> \in R}
Place(S, R) == [x \in S |-> Cardinality(Below(S, R, x)) + 1]

\* No two elements have the same place, and the places are those there are.
LEMMA PlaceFacts ==
    ASSUME NEW S, IsFiniteSet(S), NEW R, Orders(R, S)
    PROVE  /\ \A x \in S : Place(S, R)[x] \in 1 .. Cardinality(S)
           /\ \A x, y \in S : <<x, y>> \in R => Place(S, R)[x] < Place(S, R)[y]
           /\ \A n \in 1 .. Cardinality(S) : \E x \in S : Place(S, R)[x] = n
<1> DEFINE N == Cardinality(S)
           f == Place(S, R)
<1>0. N \in Nat
  BY FS_CardinalityType
<1>1. ASSUME NEW x \in S
      PROVE  /\ f[x] = Cardinality(Below(S, R, x)) + 1
             /\ IsFiniteSet(Below(S, R, x)) /\ Cardinality(Below(S, R, x)) \in Nat
             /\ f[x] \in 1 .. N
  <2>1. Below(S, R, x) \in SUBSET (S \ {x})
    BY DEF Below, Orders
  <2>2. IsFiniteSet(S \ {x}) /\ Cardinality(S \ {x}) = N - 1
    BY FS_RemoveElement
  <2>3. IsFiniteSet(Below(S, R, x)) /\ Cardinality(Below(S, R, x)) <= N - 1
    BY <2>1, <2>2, FS_Subset
  <2>4. Cardinality(Below(S, R, x)) \in Nat
    BY <2>3, FS_CardinalityType
  <2>5. f[x] = Cardinality(Below(S, R, x)) + 1
    BY DEF Place
  <2> QED
    BY <1>0, <2>3, <2>4, <2>5
<1>2. ASSUME NEW x \in S, NEW y \in S, <<x, y>> \in R
      PROVE  f[x] < f[y]
  <2>1. Below(S, R, x) \in SUBSET Below(S, R, y)
    BY <1>2 DEF Below, Orders
  <2>2. x \in Below(S, R, y) /\ x \notin Below(S, R, x)
    BY <1>2 DEF Below, Orders
  <2>3. Cardinality(Below(S, R, x)) <= Cardinality(Below(S, R, y))
        /\ Cardinality(Below(S, R, y)) # Cardinality(Below(S, R, x))
    BY <1>1, <2>1, <2>2, FS_Subset
  <2> QED
    BY <1>1, <2>3
<1>3. ASSUME NEW x \in S, NEW y \in S, f[x] = f[y]
      PROVE  x = y
  <2>1. CASE <<x, y>> \in R
    BY <1>1, <1>2, <1>3, <2>1
  <2>2. CASE <<y, x>> \in R
    BY <1>1, <1>2, <1>3, <2>2
  <2> QED
    BY <2>1, <2>2 DEF Orders
<1>4. f \in [S -> 1 .. N]
  <2>1. f = [x \in S |-> f[x]]
    BY DEF Place
  <2> HIDE DEF f
  <2> QED
    BY <1>1, <2>1
<1>5. f \in Surjection(S, 1 .. N)
  <2>1. f \in Injection(S, 1 .. N)
    <3> HIDE DEF f
    <3> QED
      BY <1>3, <1>4 DEF Injection, IsInjective
  <2>2. IsFiniteSet(1 .. N) /\ Cardinality(1 .. N) = N
    BY <1>0, FS_Interval
  <2> HIDE DEF f
  <2> QED
    BY <2>1, <2>2, FS_Injection
<1>6. \A n \in 1 .. N : \E x \in S : f[x] = n
  BY <1>5 DEF Surjection
<1> QED
  BY <1>1, <1>2, <1>6

\* sort.Slice returns every element once, in order.
LEMMA SortedFacts ==
    ASSUME NEW S, IsFiniteSet(S), NEW R, Orders(R, S)
    PROVE  LET s == Sorted(S, R)
           IN  /\ Cardinality(S) \in Nat
               /\ s \in [1 .. Cardinality(S) -> S]
               /\ \A i, j \in 1 .. Cardinality(S) : i < j => <<s[i], s[j]>> \in R
               /\ \A x \in S : \E i \in 1 .. Cardinality(S) : s[i] = x
<1> DEFINE N == Cardinality(S)
           f == Place(S, R)
           g == [n \in 1 .. N |-> CHOOSE x \in S : f[x] = n]
           s == Sorted(S, R)
<1>0. N \in Nat
  BY FS_CardinalityType
<1>1. /\ \A x \in S : f[x] \in 1 .. N
      /\ \A x, y \in S : <<x, y>> \in R => f[x] < f[y]
      /\ \A n \in 1 .. N : \E x \in S : f[x] = n
  BY PlaceFacts
<1> HIDE DEF f
<1>2. \A n \in 1 .. N : g[n] \in S /\ f[g[n]] = n
  BY <1>1
<1>3. g \in [1 .. N -> S]
  BY <1>2
<1>4. ASSUME NEW i \in 1 .. N, NEW j \in 1 .. N, i < j
      PROVE  <<g[i], g[j]>> \in R
  <2>1. g[i] \in S /\ g[j] \in S /\ f[g[i]] = i /\ f[g[j]] = j
    BY <1>2
  <2> HIDE DEF g
  <2>2. g[i] # g[j]
    BY <1>4, <2>1
  <2>3. <<g[j], g[i]>> \notin R
    BY <1>0, <1>1, <1>4, <2>1
  <2> QED
    BY <2>1, <2>2, <2>3 DEF Orders
<1>5. s \in [1 .. N -> S] /\ \A i, j \in 1 .. N : i < j => <<s[i], s[j]>> \in R
  <2> HIDE DEF g
  <2>1. \E h \in [1 .. N -> S] : \A i, j \in 1 .. N : i < j => <<h[i], h[j]>> \in R
    BY <1>3, <1>4
  <2> QED
    BY <2>1 DEF Sorted
<1> HIDE DEF s
<1>6. s \in Surjection(1 .. N, S)
  <2>1. \A i, j \in 1 .. N : s[i] = s[j] => i = j
    <3> SUFFICES ASSUME NEW i \in 1 .. N, NEW j \in 1 .. N, s[i] = s[j], i # j
                 PROVE  FALSE
      OBVIOUS
    <3>1. <<s[i], s[i]>> \in R
      BY <1>0, <1>5
    <3> QED
      BY <1>5, <3>1 DEF Orders
  <2>2. s \in Injection(1 .. N, S)
    BY <1>5, <2>1 DEF Injection, IsInjective
  <2>3. Cardinality(1 .. N) = N
    BY <1>0, FS_Interval
  <2> QED
    BY <2>2, <2>3, FS_Injection
<1>7. \A x \in S : \E i \in 1 .. N : s[i] = x
  BY <1>6 DEF Surjection
<1> QED
  BY <1>0, <1>5, <1>7 DEF s

----------------------------------------------------------------------------
(* Rows.                                                                   *)

\* The paths are finitely many and ordered.
LEMMA PathFacts ==
    /\ IsFiniteSet(Paths)
    /\ \A L \in SUBSET Paths : IsFiniteSet(L) /\ Orders(PathBefore, L)
<1> DEFINE D == 1 .. Len(PathOrder)
<1>1. /\ Len(PathOrder) \in Nat /\ DOMAIN PathOrder = D
      /\ \A i, j \in D : PathOrder[i] = PathOrder[j] => i = j
  BY DirIndexAssumption
<1>2. PathOrder \in [D -> Paths]
  BY DirIndexAssumption
<1>3. \A x \in Paths : \E i \in D : PathOrder[i] = x
  BY <1>1 DEF Paths
<1>4. IsFiniteSet(Paths)
  <2>1. PathOrder \in Surjection(D, Paths)
    BY <1>2, <1>3 DEF Surjection
  <2>2. IsFiniteSet(D)
    BY <1>1, FS_Interval
  <2> QED
    BY <2>1, <2>2, FS_Surjection
<1>5. \A x, y \in Paths :
        <<x, y>> \in PathBefore <=> \E i, j \in D : i < j /\ PathOrder[i] = x /\ PathOrder[j] = y
  BY <1>1 DEF PathBefore
<1>6. ASSUME NEW x \in Paths
      PROVE  <<x, x>> \notin PathBefore
  BY <1>1, <1>5
<1>7. ASSUME NEW x \in Paths, NEW y \in Paths
      PROVE  x = y \/ <<x, y>> \in PathBefore \/ <<y, x>> \in PathBefore
  <2>1. PICK i \in D : PathOrder[i] = x
    BY <1>3
  <2>2. PICK j \in D : PathOrder[j] = y
    BY <1>3
  <2>3. i < j \/ j < i \/ i = j
    BY <1>1
  <2> QED
    BY <1>5, <2>1, <2>2, <2>3
<1>8. ASSUME NEW x \in Paths, NEW y \in Paths, NEW z \in Paths,
             <<x, y>> \in PathBefore, <<y, z>> \in PathBefore
      PROVE  <<x, z>> \in PathBefore
  <2>1. PICK i \in D, j \in D : i < j /\ PathOrder[i] = x /\ PathOrder[j] = y
    BY <1>5, <1>8
  <2>2. PICK k \in D, l \in D : k < l /\ PathOrder[k] = y /\ PathOrder[l] = z
    BY <1>5, <1>8
  <2>3. j = k /\ i < l
    BY <1>1, <2>1, <2>2
  <2> QED
    BY <1>5, <2>1, <2>2, <2>3
<1>9. \A L \in SUBSET Paths : Orders(PathBefore, L)
  BY <1>6, <1>7, <1>8 DEF Orders
<1> QED
  BY <1>4, <1>9, FS_Subset

\* The rows of a directory: every path it has once, under some row.
Rows(rows, n) ==
    /\ n \in Nat /\ rows \in [1 .. n -> Paths]
    /\ \A i, j \in 1 .. n : rows[i] = rows[j] => i = j

\* The rows of a directory are the paths that are in it, each once, in their
\* order.
LEMMA RowsFacts ==
    ASSUME NEW L \in SUBSET Paths
    PROVE  /\ Rows(EncodeDirectory(L), Cardinality(L))
           /\ \A i \in 1 .. Cardinality(L) : EncodeDirectory(L)[i] \in L
           /\ \A p \in L : \E i \in 1 .. Cardinality(L) : EncodeDirectory(L)[i] = p
<1> DEFINE n == Cardinality(L)
           rows == EncodeDirectory(L)
<1>1. IsFiniteSet(L) /\ Orders(PathBefore, L)
  BY PathFacts
<1>2. /\ n \in Nat /\ rows \in [1 .. n -> L]
      /\ \A i, j \in 1 .. n : i < j => <<rows[i], rows[j]>> \in PathBefore
      /\ \A p \in L : \E i \in 1 .. n : rows[i] = p
  BY <1>1, SortedFacts DEF EncodeDirectory
<1> HIDE DEF rows, n
<1>3. \A i, j \in 1 .. n : rows[i] = rows[j] => i = j
  <2> SUFFICES ASSUME NEW i \in 1 .. n, NEW j \in 1 .. n, rows[i] = rows[j], i # j
               PROVE  FALSE
    OBVIOUS
  <2>1. <<rows[i], rows[i]>> \in PathBefore
    BY <1>2
  <2> QED
    BY <1>1, <1>2, <2>1 DEF Orders
<1>4. rows \in [1 .. n -> Paths]
  BY <1>2
<1> QED
  BY <1>2, <1>3, <1>4 DEF Rows, rows, n

\* The length of rows, and their hashes are numbers.
LEMMA HashFacts ==
    ASSUME NEW rows, NEW n, Rows(rows, n)
    PROVE  /\ DOMAIN rows = 1 .. n /\ Len(rows) = n /\ n \in Nat
           /\ \A i \in 1 .. n : Hash(rows, i) = HashOf[rows[i]] /\ Hash(rows, i) \in Nat
<1>1. n \in Nat /\ rows \in [1 .. n -> Paths]
  BY DEF Rows
<1>2. HashOf \in [Paths -> Nat]
  BY DirIndexAssumption
<1> QED
  BY <1>1, <1>2 DEF Hash

----------------------------------------------------------------------------
(* Runs.                                                                   *)

\* A nonempty set of numbers has a least element, and a bounded one has a
\* greatest.
LEMMA LeastNumber ==
    ASSUME NEW T \in SUBSET Nat, T # {}
    PROVE  \E x \in T : \A y \in T : x <= y
<1>1. PICK x \in T : \A y \in T : ~(<<y, x>> \in OpToRel(<, Nat))
  BY WFMin, NatLessThanWellFounded
<1>2. \A y \in T : ~(y < x)
  BY <1>1 DEF OpToRel
<1> QED
  BY <1>2

\* A set of numbers that is not empty and has a bound has a greatest element.
LEMMA GreatestNumber ==
    ASSUME NEW m \in Nat, NEW T \in SUBSET (0 .. m), T # {}
    PROVE  \E x \in T : \A y \in T : y <= x
<1> DEFINE U == {n \in Nat : \E y \in T : n = m - y}
<1>1. U # {} /\ U \in SUBSET Nat
  <2>1. PICK y \in T : TRUE
    OBVIOUS
  <2>2. m - y \in U
    OBVIOUS
  <2> QED
    BY <2>2
<1>2. PICK u \in U : \A v \in U : u <= v
  <2> HIDE DEF U
  <2> QED
    BY <1>1, LeastNumber
<1>3. PICK x \in T : u = m - x
  OBVIOUS
<1>4. ASSUME NEW y \in T
      PROVE  y <= x
  <2>1. m - y \in U
    OBVIOUS
  <2>2. m - x <= m - y
    BY <1>2, <1>3, <2>1
  <2> QED
    BY <2>2
<1> QED
  BY <1>4

\* Every row is in a run.
LEMMA InSomeRun ==
    ASSUME NEW rows, NEW n, Rows(rows, n), NEW k \in 1 .. n
    PROVE  \E i, j \in 1 .. n : IsRun(rows, i, j) /\ k \in i .. j
<1> DEFINE Alike(a, b) == \A x \in a .. b : Hash(rows, x) = Hash(rows, k)
           A == {a \in 1 .. k : Alike(a, k)}
           B == {b \in k .. n : Alike(k, b)}
<1>0. /\ DOMAIN rows = 1 .. n /\ Len(rows) = n /\ n \in Nat
      /\ \A i \in 1 .. n : Hash(rows, i) \in Nat
  BY HashFacts
<1>1. k \in A /\ k \in B /\ A \in SUBSET Nat /\ B \in SUBSET (0 .. n)
  BY <1>0
<1>2. PICK a \in A : \A y \in A : a <= y
  <2> HIDE DEF A
  <2> QED
    BY <1>1, LeastNumber
<1>3. PICK b \in B : \A y \in B : y <= b
  <2> HIDE DEF B
  <2> QED
    BY <1>0, <1>1, GreatestNumber
<1>4. a \in 1 .. k /\ b \in k .. n /\ \A x \in a .. b : Hash(rows, x) = Hash(rows, k)
  BY <1>0
<1>5. a > 1 => Hash(rows, a - 1) # Hash(rows, k)
  <2> SUFFICES ASSUME a > 1, Hash(rows, a - 1) = Hash(rows, k)
               PROVE  FALSE
    OBVIOUS
  <2>1. a - 1 \in A
    BY <1>0, <1>4
  <2> QED
    BY <1>0, <1>2, <1>4, <2>1
<1>6. b < n => Hash(rows, b + 1) # Hash(rows, k)
  <2> SUFFICES ASSUME b < n, Hash(rows, b + 1) = Hash(rows, k)
               PROVE  FALSE
    OBVIOUS
  <2>1. b + 1 \in B
    BY <1>0, <1>4
  <2> QED
    BY <1>0, <1>3, <1>4, <2>1
<1>7. Hash(rows, a) = Hash(rows, k)
  BY <1>0, <1>4
<1>8. IsRun(rows, a, b)
  BY <1>0, <1>4, <1>5, <1>6, <1>7 DEF IsRun
<1> QED
  BY <1>0, <1>4, <1>8

\* Runs that share a row are the same.
LEMMA OneRun ==
    ASSUME NEW rows, NEW n, Rows(rows, n),
           NEW a \in 1 .. n, NEW b \in 1 .. n, IsRun(rows, a, b),
           NEW c \in 1 .. n, NEW d \in 1 .. n, IsRun(rows, c, d),
           NEW k \in 1 .. n, k \in a .. b, k \in c .. d
    PROVE  a = c /\ b = d
<1>0. Len(rows) = n /\ n \in Nat
  BY HashFacts
<1>1. /\ \A x \in a .. b : Hash(rows, x) = Hash(rows, k)
      /\ \A x \in c .. d : Hash(rows, x) = Hash(rows, k)
      /\ Hash(rows, a) = Hash(rows, k) /\ Hash(rows, c) = Hash(rows, k)
  BY DEF IsRun
<1>2. /\ a > 1 => Hash(rows, a - 1) # Hash(rows, k)
      /\ c > 1 => Hash(rows, c - 1) # Hash(rows, k)
      /\ b < n => Hash(rows, b + 1) # Hash(rows, k)
      /\ d < n => Hash(rows, d + 1) # Hash(rows, k)
  BY <1>0, <1>1 DEF IsRun
<1>3. ~(a < c) /\ ~(c < a)
  <2>1. a < c => c - 1 \in a .. b /\ c > 1
    BY <1>0
  <2>2. c < a => a - 1 \in c .. d /\ a > 1
    BY <1>0
  <2> QED
    BY <1>1, <1>2, <2>1, <2>2
<1>4. ~(b < d) /\ ~(d < b)
  <2>1. b < d => b + 1 \in c .. d /\ b < n
    BY <1>0
  <2>2. d < b => d + 1 \in a .. b /\ d < n
    BY <1>0
  <2> QED
    BY <1>1, <1>2, <2>1, <2>2
<1> QED
  BY <1>0, <1>3, <1>4

----------------------------------------------------------------------------
(* The index and the lookup through it.                                    *)

\* The ranges of an index: each is a run, and each run is in it, once, and
\* they are sorted by hash.
IsIndex(rows, n, s, m) ==
    /\ DOMAIN s = 1 .. m
    /\ \A i \in 1 .. m : \E a, b \in 1 .. n : IsRun(rows, a, b) /\ s[i] = HashRange(rows, a, b)
    /\ \A a, b \in 1 .. n : IsRun(rows, a, b) => \E i \in 1 .. m : s[i] = HashRange(rows, a, b)
    /\ \A i, j \in 1 .. m : i < j => s[i] # s[j] /\ s[i].hash <= s[j].hash

\* The ranges of an index are its runs in the order of hashes, and every row is
\* in exactly one of them.
LEMMA RangesFacts ==
    ASSUME NEW rows, NEW n, Rows(rows, n)
    PROVE  \E m \in Nat : IsIndex(rows, n, buildDirIndexHashRanges(rows), m)
<1> DEFINE D == 1 .. n
           runs == {x \in D \X D : IsRun(rows, x[1], x[2])}
           S == HashRanges(rows)
           R == RangeBefore(S)
           s == buildDirIndexHashRanges(rows)
           N == Cardinality(S)
           f == [x \in runs |-> HashRange(rows, x[1], x[2])]
<1>0. /\ DOMAIN rows = D /\ n \in Nat
      /\ \A i \in D : Hash(rows, i) \in Nat
  BY HashFacts
<1>1. S = {HashRange(rows, x[1], x[2]) : x \in runs}
  BY <1>0 DEF HashRanges
<1>2. IsFiniteSet(S)
  <2>1. IsFiniteSet(D)
    BY <1>0, FS_Interval
  <2>2. IsFiniteSet(D \X D)
    <3> HIDE DEF D
    <3> QED
      BY <2>1, FS_Product
  <2>3. IsFiniteSet(runs)
    BY <2>2, FS_Subset
  <2>4. f \in Surjection(runs, S)
    BY <1>1 DEF Surjection
  <2> HIDE DEF runs, f, S
  <2> QED
    BY <2>3, <2>4, FS_Surjection
<1>3. \A x \in S : \E a, b \in D : IsRun(rows, a, b) /\ x = HashRange(rows, a, b)
  BY <1>1
<1>4. \A a, b \in D : IsRun(rows, a, b) => HashRange(rows, a, b) \in S
  <2> SUFFICES ASSUME NEW a \in D, NEW b \in D, IsRun(rows, a, b)
               PROVE  HashRange(rows, a, b) \in S
    OBVIOUS
  <2>1. <<a, b>> \in runs /\ <<a, b>>[1] = a /\ <<a, b>>[2] = b
    OBVIOUS
  <2> HIDE DEF runs, S
  <2> QED
    BY <1>1, <2>1
<1> HIDE DEF runs, f, S, s, N
<1>5. \A a, b \in D : /\ HashRange(rows, a, b).hash = Hash(rows, a)
                      /\ HashRange(rows, a, b).first = a
  BY DEF HashRange
<1>6. \A x \in S : x.hash \in Nat /\ x.first \in Nat
  <2> SUFFICES ASSUME NEW x \in S
               PROVE  x.hash \in Nat /\ x.first \in Nat
    OBVIOUS
  <2>1. PICK a \in D, b \in D : x = HashRange(rows, a, b)
    BY <1>3
  <2> QED
    BY <1>0, <1>5, <2>1
<1>7. \A x, y \in S : x.first = y.first => x = y
  <2> SUFFICES ASSUME NEW x \in S, NEW y \in S, x.first = y.first
               PROVE  x = y
    OBVIOUS
  <2>1. PICK a \in D, b \in D : IsRun(rows, a, b) /\ x = HashRange(rows, a, b)
    BY <1>3
  <2>2. PICK c \in D, d \in D : IsRun(rows, c, d) /\ y = HashRange(rows, c, d)
    BY <1>3
  <2>3. a = c
    BY <1>5, <2>1, <2>2
  <2>4. a \in a .. b /\ a \in c .. d
    BY <1>0, <2>1, <2>2, <2>3 DEF IsRun
  <2>5. b = d
    BY <2>1, <2>2, <2>4, OneRun
  <2> QED
    BY <2>1, <2>2, <2>3, <2>5
<1>8. \A x, y \in S : <<x, y>> \in R <=> x.hash < y.hash \/ (x.hash = y.hash /\ x.first < y.first)
  BY DEF RangeBefore
<1> HIDE DEF R
<1>9. Orders(R, S)
  <2>1. \A x \in S : <<x, x>> \notin R
    BY <1>6, <1>8
  <2>2. \A x, y \in S : x = y \/ <<x, y>> \in R \/ <<y, x>> \in R
    <3> SUFFICES ASSUME NEW x \in S, NEW y \in S, x # y
                 PROVE  <<x, y>> \in R \/ <<y, x>> \in R
      OBVIOUS
    <3>1. x.first # y.first
      BY <1>7
    <3>2. x.hash \in Nat /\ x.first \in Nat /\ y.hash \in Nat /\ y.first \in Nat
      BY <1>6
    <3> QED
      BY <1>8, <3>1, <3>2
  <2>3. ASSUME NEW x \in S, NEW y \in S, NEW z \in S, <<x, y>> \in R, <<y, z>> \in R
        PROVE  <<x, z>> \in R
    <3>1. /\ x.hash \in Nat /\ x.first \in Nat /\ y.hash \in Nat
          /\ y.first \in Nat /\ z.hash \in Nat /\ z.first \in Nat
      BY <1>6
    <3> QED
      BY <1>8, <2>3, <3>1
  <2> QED
    BY <2>1, <2>2, <2>3 DEF Orders
<1>10. /\ N \in Nat /\ s \in [1 .. N -> S]
       /\ \A i, j \in 1 .. N : i < j => <<s[i], s[j]>> \in R
       /\ \A x \in S : \E i \in 1 .. N : s[i] = x
  <2>1. s = Sorted(S, R)
    BY DEF buildDirIndexHashRanges, s, S, R
  <2> QED
    BY <1>2, <1>9, <2>1, SortedFacts DEF N
<1>11. ASSUME NEW i \in 1 .. N, NEW j \in 1 .. N, i < j
       PROVE  s[i] # s[j] /\ s[i].hash <= s[j].hash
  <2>1. <<s[i], s[j]>> \in R /\ s[i] \in S /\ s[j] \in S
    BY <1>10, <1>11
  <2>2. s[i] # s[j]
    BY <1>9, <2>1 DEF Orders
  <2>3. s[i].hash < s[j].hash \/ s[i].hash = s[j].hash
    BY <1>8, <2>1
  <2>4. s[i].hash \in Nat /\ s[j].hash \in Nat
    BY <1>6, <2>1
  <2> QED
    BY <2>2, <2>3, <2>4
<1>12. DOMAIN s = 1 .. N /\ \A i \in 1 .. N : s[i] \in S
  BY <1>10
<1>13. \A i \in 1 .. N : \E a, b \in D : IsRun(rows, a, b) /\ s[i] = HashRange(rows, a, b)
  BY <1>3, <1>12
<1>14. \A a, b \in D : IsRun(rows, a, b) => \E i \in 1 .. N : s[i] = HashRange(rows, a, b)
  BY <1>4, <1>10
<1>15. IsIndex(rows, n, s, N)
  BY <1>11, <1>12, <1>13, <1>14 DEF IsIndex
<1> QED
  BY <1>10, <1>15 DEF s

\* What Open demands of an index holds of every index a commit writes.
LEMMA IndexValid ==
    ASSUME NEW rows, NEW n, Rows(rows, n)
    PROVE  validateDirIndexV1(rows, buildDirIndexHashRanges(rows))
<1> DEFINE s == buildDirIndexHashRanges(rows)
           RowsOf(x) == x.first .. x.first + x.span - 1
<1>0. /\ DOMAIN rows = 1 .. n /\ Len(rows) = n /\ n \in Nat
      /\ \A i \in 1 .. n : Hash(rows, i) \in Nat
  BY HashFacts
<1> HIDE DEF s
<1>a. PICK m \in Nat : IsIndex(rows, n, s, m)
  BY RangesFacts DEF s
<1>1. /\ DOMAIN s = 1 .. m
      /\ \A i \in 1 .. m : \E a, b \in 1 .. n : IsRun(rows, a, b) /\ s[i] = HashRange(rows, a, b)
      /\ \A i, j \in 1 .. m : i < j => s[i] # s[j] /\ s[i].hash <= s[j].hash
  BY <1>a DEF IsIndex
<1>2. ASSUME NEW i \in 1 .. m, NEW a \in 1 .. n, NEW b \in 1 .. n,
             IsRun(rows, a, b), s[i] = HashRange(rows, a, b)
      PROVE  /\ RowsOf(s[i]) = a .. b /\ s[i].span = b - a + 1 /\ a <= b
             /\ \A j \in a .. b : Hash(rows, j) = s[i].hash
  <2>1. s[i].first = a /\ s[i].span = b - a + 1 /\ s[i].hash = Hash(rows, a)
    BY <1>2 DEF HashRange
  <2>2. a <= b /\ \A j \in a .. b : Hash(rows, j) = Hash(rows, a)
    BY <1>2 DEF IsRun
  <2>3. a + (b - a + 1) - 1 = b
    BY <1>0
  <2> QED
    BY <2>1, <2>2, <2>3
<1>3. ASSUME NEW i \in 1 .. m
      PROVE  /\ s[i].span > 0
             /\ RowsOf(s[i]) \subseteq 1 .. n
             /\ \A j \in RowsOf(s[i]) : Hash(rows, j) = s[i].hash
             /\ i > 1 => s[i - 1].hash <= s[i].hash
  <2>1. PICK a \in 1 .. n, b \in 1 .. n : IsRun(rows, a, b) /\ s[i] = HashRange(rows, a, b)
    BY <1>1
  <2>2. /\ RowsOf(s[i]) = a .. b /\ s[i].span = b - a + 1 /\ a <= b
        /\ \A j \in a .. b : Hash(rows, j) = s[i].hash
    BY <1>2, <2>1
  <2>3. s[i].span > 0
    BY <1>0, <2>2
  <2>4. a .. b \subseteq 1 .. n
    BY <1>0
  <2>5. i > 1 => i - 1 \in 1 .. m /\ i - 1 < i
    OBVIOUS
  <2> QED
    BY <1>1, <2>2, <2>3, <2>4, <2>5
<1>4. ASSUME NEW i \in 1 .. m, NEW j \in 1 .. m, i < j
      PROVE  RowsOf(s[i]) \cap RowsOf(s[j]) = {}
  <2> SUFFICES ASSUME NEW k \in RowsOf(s[i]), k \in RowsOf(s[j])
               PROVE  FALSE
    OBVIOUS
  <2>1. PICK a \in 1 .. n, b \in 1 .. n : IsRun(rows, a, b) /\ s[i] = HashRange(rows, a, b)
    BY <1>1
  <2>2. PICK c \in 1 .. n, d \in 1 .. n : IsRun(rows, c, d) /\ s[j] = HashRange(rows, c, d)
    BY <1>1
  <2>3. RowsOf(s[i]) = a .. b /\ RowsOf(s[j]) = c .. d
    BY <1>2, <2>1, <2>2
  <2>4. k \in 1 .. n /\ k \in a .. b /\ k \in c .. d
    <3>1. k \in a .. b /\ k \in c .. d
      <4> HIDE DEF RowsOf
      <4> QED
        BY <2>3
    <3> QED
      BY <1>0, <3>1
  <2>5. a = c /\ b = d
    BY <2>1, <2>2, <2>4, OneRun
  <2> QED
    BY <1>1, <1>4, <2>1, <2>2, <2>5
<1>5. \A i, j \in 1 .. m : i # j => RowsOf(s[i]) \cap RowsOf(s[j]) = {}
  <2> SUFFICES ASSUME NEW i \in 1 .. m, NEW j \in 1 .. m, i # j
               PROVE  RowsOf(s[i]) \cap RowsOf(s[j]) = {}
    OBVIOUS
  <2>1. i < j \/ j < i
    OBVIOUS
  <2> HIDE DEF RowsOf
  <2> QED
    BY <1>4, <2>1
<1> QED
  BY <1>0, <1>1, <1>3, <1>5 DEF validateDirIndexV1, s

\* The lookup finds the rows of the path, all of them and no other.
LEMMA LookupFinds ==
    ASSUME NEW rows, NEW n, Rows(rows, n), NEW p \in Paths
    PROVE  findEntryByPathFromDirIndex(rows, buildDirIndexHashRanges(rows), p)
             = {j \in 1 .. n : rows[j] = p}
<1> DEFINE s == buildDirIndexHashRanges(rows)
           h == HashOf[p]
<1>0. /\ DOMAIN rows = 1 .. n /\ Len(rows) = n /\ n \in Nat
      /\ \A i \in 1 .. n : Hash(rows, i) = HashOf[rows[i]] /\ Hash(rows, i) \in Nat
  BY HashFacts
<1> HIDE DEF s
<1>a. PICK m \in Nat : IsIndex(rows, n, s, m)
  BY RangesFacts DEF s
<1>1. /\ DOMAIN s = 1 .. m
      /\ \A i \in 1 .. m : \E a, b \in 1 .. n : IsRun(rows, a, b) /\ s[i] = HashRange(rows, a, b)
      /\ \A a, b \in 1 .. n : IsRun(rows, a, b) => \E i \in 1 .. m : s[i] = HashRange(rows, a, b)
      /\ \A i, j \in 1 .. m : i < j => s[i].hash <= s[j].hash
  BY <1>a DEF IsIndex
<1>b. h \in Nat
  BY DirIndexAssumption
<1> HIDE DEF h
<1>2. \A i \in 1 .. m : s[i].hash \in Nat
  <2> SUFFICES ASSUME NEW i \in 1 .. m
               PROVE  s[i].hash \in Nat
    OBVIOUS
  <2>1. PICK a \in 1 .. n, b \in 1 .. n : s[i] = HashRange(rows, a, b)
    BY <1>1
  <2>2. s[i].hash = Hash(rows, a)
    BY <2>1 DEF HashRange
  <2> QED
    BY <1>0, <2>2
<1>3. ASSUME NEW j \in 1 .. n, rows[j] = p
      PROVE  \E i \in DOMAIN s :
                /\ \E t \in {x \in DOMAIN s : s[x].hash >= h /\ \A k \in 1 .. x - 1 : s[k].hash < h} :
                    t <= i /\ \A k \in t .. i : s[k].hash = h
                /\ j \in s[i].first .. s[i].first + s[i].span - 1
  <2>1. PICK a \in 1 .. n, b \in 1 .. n : IsRun(rows, a, b) /\ j \in a .. b
    BY <1>3, InSomeRun
  <2>2. PICK i \in 1 .. m : s[i] = HashRange(rows, a, b)
    BY <1>1, <2>1
  <2>3. s[i].hash = Hash(rows, a) /\ s[i].first = a /\ s[i].span = b - a + 1
    BY <2>2 DEF HashRange
  <2>4. Hash(rows, j) = Hash(rows, a)
    BY <2>1 DEF IsRun
  <2>5. s[i].hash = h
    BY <1>0, <1>3, <2>3, <2>4 DEF h
  <2>6. a + (b - a + 1) - 1 = b
    BY <1>0
  <2>7. j \in s[i].first .. s[i].first + s[i].span - 1
    BY <2>1, <2>3, <2>6
  <2> DEFINE T == {x \in 1 .. m : s[x].hash >= h}
  <2>8. i \in T /\ T \in SUBSET Nat
    BY <1>b, <2>5
  <2>9. PICK t \in T : \A y \in T : t <= y
    <3> HIDE DEF T
    <3> QED
      BY <2>8, LeastNumber
  <2>10. t \in 1 .. m /\ s[t].hash >= h /\ t <= i
    BY <2>8, <2>9
  <2>11. ASSUME NEW k \in 1 .. t - 1
         PROVE  s[k].hash < h
    <3>1. k \in 1 .. m /\ ~(t <= k)
      BY <2>10
    <3>2. k \notin T
      BY <2>9, <3>1
    <3> QED
      BY <1>2, <1>b, <3>1, <3>2
  <2>12. ASSUME NEW k \in t .. i
         PROVE  s[k].hash = h
    <3>1. k \in 1 .. m /\ t <= k /\ k <= i
      BY <2>10
    <3>2. s[k].hash <= s[i].hash
      <4>1. CASE k = i
        BY <1>2, <4>1
      <4>2. CASE k < i
        BY <1>1, <3>1, <4>2
      <4> QED
        BY <3>1, <4>1, <4>2
    <3>3. s[t].hash <= s[k].hash
      <4>1. CASE k = t
        BY <1>2, <2>10, <4>1
      <4>2. CASE t < k
        BY <1>1, <2>10, <3>1, <4>2
      <4> QED
        BY <2>10, <3>1, <4>1, <4>2
    <3>4. s[k].hash \in Nat /\ s[t].hash \in Nat
      BY <1>2, <2>10, <3>1
    <3> QED
      BY <1>b, <2>5, <2>10, <3>2, <3>3, <3>4
  <2>13. t \in {x \in DOMAIN s : s[x].hash >= h /\ \A k \in 1 .. x - 1 : s[k].hash < h}
    BY <1>1, <2>10, <2>11
  <2> HIDE DEF T
  <2> QED
    BY <1>1, <2>7, <2>10, <2>12, <2>13
<1>4. findEntryByPathFromDirIndex(rows, s, p) =
        {j \in DOMAIN rows :
            /\ rows[j] = p
            /\ \E i \in DOMAIN s :
                /\ \E t \in {x \in DOMAIN s : s[x].hash >= h /\ \A k \in 1 .. x - 1 : s[k].hash < h} :
                    t <= i /\ \A k \in t .. i : s[k].hash = h
                /\ j \in s[i].first .. s[i].first + s[i].span - 1}
  BY DEF findEntryByPathFromDirIndex, h
<1> QED
  BY <1>0, <1>3, <1>4 DEF s

\* Whatever entries a container has, its index is accepted by Open and finds
\* what the directory has.
THEOREM LookupAgreesHolds == Spec => []LookupAgrees
<1>1. LookupAgrees
  <2> DEFINE es == handle.dir.entries
             rows == IndexRows(es)
             n == Cardinality(Live(es))
  <2>1. Live(es) \in SUBSET Paths
    BY DEF Live
  <2>2. /\ Rows(rows, n)
        /\ \A i \in 1 .. n : rows[i] \in Live(es)
        /\ \A p \in Live(es) : \E i \in 1 .. n : rows[i] = p
    BY <2>1, RowsFacts DEF IndexRows
  <2>3. validateDirIndexV1(rows, IndexRanges(es))
    BY <2>2, IndexValid DEF IndexRanges
  <2>4. ASSUME NEW p \in Paths
        PROVE  Lookup(p) = {es[p]} \ {NoEntry}
    <3>1. CASE handle.state = "lazy"
      <4> DEFINE found == findEntryByPathFromDirIndex(rows, IndexRanges(es), p)
      <4>1. found = {j \in 1 .. n : rows[j] = p}
        BY <2>2, LookupFinds DEF IndexRanges
      <4>2. Lookup(p) = {es[rows[j]] : j \in found}
        BY <3>1 DEF Lookup
      <4> HIDE DEF rows, n, found, es
      <4>3. p \in Live(es) <=> es[p] # NoEntry
        BY DEF Live
      <4>4. CASE p \in Live(es)
        <5>1. PICK i \in 1 .. n : rows[i] = p
          BY <2>2, <4>4
        <5> QED
          BY <4>1, <4>2, <4>3, <4>4, <5>1
      <4>5. CASE p \notin Live(es)
        <5>1. found = {}
          BY <2>2, <4>1, <4>5
        <5> QED
          BY <4>2, <4>3, <4>5, <5>1
      <4> QED
        BY <4>4, <4>5
    <3>2. CASE handle.state # "lazy"
      BY <3>2 DEF Lookup
    <3> QED
      BY <3>1, <3>2
  <2> QED
    BY <2>3, <2>4 DEF LookupAgrees
<1> QED
  BY <1>1, PTL

----------------------------------------------------------------------------
(* Counting bytes on disk.                                                 *)

Bytes(es, p) == {p} \X (1 .. entryStoredBytes(es[p]))
AllBytes(es, S) == UNION {Bytes(es, p) : p \in S}

\* The bytes of some entries are finitely many.
LEMMA TotalFacts ==
    ASSUME NEW es, Sizes(es), NEW S \in SUBSET Paths
    PROVE  /\ IsFiniteSet(AllBytes(es, S))
           /\ TotalStored(es, S) = Cardinality(AllBytes(es, S))
           /\ TotalStored(es, S) \in Nat
<1>1. IsFiniteSet(S)
  BY PathFacts
<1>2. ASSUME NEW p \in S
      PROVE  IsFiniteSet(Bytes(es, p))
  <2>1. entryStoredBytes(es[p]) \in Nat
    BY DEF Sizes
  <2> DEFINE A == {p}
             B == 1 .. entryStoredBytes(es[p])
  <2>2. IsFiniteSet(A)
    BY FS_Singleton
  <2>3. IsFiniteSet(B)
    BY <2>1, FS_Interval
  <2>4. Bytes(es, p) = A \X B
    BY DEF Bytes
  <2> HIDE DEF A, B
  <2> QED
    BY <2>2, <2>3, <2>4, FS_Product
<1> DEFINE f == [p \in S |-> Bytes(es, p)]
           T == {Bytes(es, p) : p \in S}
<1>3. f \in Surjection(S, T)
  BY DEF Surjection
<1>4. IsFiniteSet(T)
  <2> HIDE DEF f, T
  <2> QED
    BY <1>1, <1>3, FS_Surjection
<1>5. \A X \in T : IsFiniteSet(X)
  BY <1>2
<1>6. IsFiniteSet(UNION T)
  <2> HIDE DEF T
  <2> QED
    BY <1>4, <1>5, FS_UNION
<1>7. IsFiniteSet(AllBytes(es, S))
  BY <1>6 DEF AllBytes
<1>8. TotalStored(es, S) = Cardinality(AllBytes(es, S))
  BY DEF TotalStored, AllBytes, Bytes
<1> QED
  BY <1>7, <1>8, FS_CardinalityType

\* Entries of the same sizes have the same bytes.
LEMMA SameTotal ==
    ASSUME NEW es, NEW fs, NEW S \in SUBSET Paths,
           \A p \in S : entryStoredBytes(es[p]) = entryStoredBytes(fs[p])
    PROVE  TotalStored(es, S) = TotalStored(fs, S)
<1>1. \A p \in S : Bytes(es, p) = Bytes(fs, p)
  BY DEF Bytes
<1>2. {Bytes(es, p) : p \in S} = {Bytes(fs, p) : p \in S}
  BY <1>1
<1> QED
  BY <1>2 DEF TotalStored, Bytes

\* What some entries have, and what the others have, is all there is.
LEMMA TotalSplit ==
    ASSUME NEW es, Sizes(es), NEW S \in SUBSET Paths
    PROVE  TotalStored(es, Paths) = TotalStored(es, S) + TotalStored(es, Paths \ S)
<1> DEFINE A == AllBytes(es, S)
           B == AllBytes(es, Paths \ S)
<1>1. /\ TotalStored(es, Paths) = Cardinality(AllBytes(es, Paths))
      /\ TotalStored(es, S) = Cardinality(A) /\ TotalStored(es, S) \in Nat
      /\ TotalStored(es, Paths \ S) = Cardinality(B) /\ TotalStored(es, Paths \ S) \in Nat
      /\ IsFiniteSet(A) /\ IsFiniteSet(B)
  BY TotalFacts
<1>2. AllBytes(es, Paths) = A \cup B
  BY DEF AllBytes
<1>3. A \cap B = {}
  BY DEF AllBytes, Bytes
<1> HIDE DEF A, B
<1>4. Cardinality(A \cup B) = Cardinality(A) + Cardinality(B)
  BY <1>1, <1>3, FS_Union, FS_EmptySet
<1> QED
  BY <1>1, <1>2, <1>4

\* The total of one path is the bytes of its entry.
LEMMA TotalOfOne ==
    ASSUME NEW es, Sizes(es), NEW p \in Paths
    PROVE  TotalStored(es, {p}) = entryStoredBytes(es[p])
<1> DEFINE n == entryStoredBytes(es[p])
<1>1. n \in Nat
  BY DEF Sizes
<1>2. AllBytes(es, {p}) = {p} \X (1 .. n)
  BY DEF AllBytes, Bytes
<1>3. TotalStored(es, {p}) = Cardinality({p} \X (1 .. n))
  BY <1>2, TotalFacts
<1> HIDE DEF n
<1> DEFINE A == {p}
           B == 1 .. n
<1>4. IsFiniteSet(A) /\ Cardinality(A) = 1
  BY FS_Singleton
<1>5. IsFiniteSet(B) /\ Cardinality(B) = n
  BY <1>1, FS_Interval
<1>6. TotalStored(es, {p}) = Cardinality(A \X B)
  BY <1>3
<1> HIDE DEF A, B
<1>7. Cardinality(A \X B) = 1 * n
  BY <1>4, <1>5, FS_Product
<1> QED
  BY <1>1, <1>6, <1>7 DEF n

\* The total of paths without entries is nothing.
LEMMA TotalOfNone ==
    ASSUME NEW es, NEW S, \A p \in S : es[p] = NoEntry
    PROVE  TotalStored(es, S) = 0
<1>1. \A p \in S : entryStoredBytes(es[p]) = 0
  BY DEF entryStoredBytes
<1>2. \A p \in S : 1 .. entryStoredBytes(es[p]) = {}
  BY <1>1
<1>3. \A p \in S : {p} \X (1 .. entryStoredBytes(es[p])) = {}
  BY <1>2
<1>4. UNION {{p} \X (1 .. entryStoredBytes(es[p])) : p \in S} = {}
  BY <1>3
<1> QED
  BY <1>4, FS_EmptySet DEF TotalStored

\* The first records of a payload have a size.
LEMMA PrefixFacts ==
    ASSUME NEW v \in Vals, NEW k \in 0 .. Len(ChunkEnds[v])
    PROVE  PrefixBytes(v, k) \in Nat
<1> DEFINE ends == ChunkEnds[v]
<1>1. IsCut(ends)
  BY CatalogAssumption
<1> HIDE DEF ends
<1>2. ends \in Seq(Nat \ {0}) /\ Len(ends) \in Nat /\ k \in 0 .. Len(ends)
  BY <1>1 DEF IsCut, ends
<1>3. RawOffset(ends, k + 1) \in Nat
  <2>1. CASE k = 0
    BY <2>1 DEF RawOffset
  <2>2. CASE k # 0
    <3>1. k \in 1 .. Len(ends) /\ k + 1 # 1 /\ k + 1 - 1 = k
      BY <1>2, <2>2
    <3>2. ends[k] \in Nat
      BY <1>2, <3>1
    <3> QED
      BY <3>1, <3>2 DEF RawOffset
  <2> QED
    BY <2>1, <2>2
<1> QED
  BY <1>2, <1>3 DEF PrefixBytes, ends

\* The entry a payload is recorded with has the payload's size, whether it is
\* good or not, and sound entries have sizes.
LEMMA SizeFacts ==
    /\ \A v \in Vals : \A m : entryStoredBytes(NewEntry(v, m)) = StoredBytes(v)
    /\ \A v \in Vals : StoredBytes(v) \in Nat
    /\ \A es, d : Sound(es, d) => Sizes(es)
<1>1. ASSUME NEW v \in Vals
      PROVE  StoredBytes(v) \in Nat
  <2>1. Len(ChunkEnds[v]) \in Nat
    BY CatalogAssumption DEF IsCut
  <2>2. PrefixBytes(v, Len(ChunkEnds[v])) \in Nat
    BY <2>1, PrefixFacts
  <2> QED
    BY <2>2 DEF PrefixBytes, StoredBytes, FileSize
<1>2. ASSUME NEW v \in Vals, NEW m
      PROVE  entryStoredBytes(NewEntry(v, m)) = StoredBytes(v)
  <2>1. NewEntry(v, m) # NoEntry
    BY NewEntryFacts
  <2>2. NewEntry(v, m).val = v
    BY DEF NewEntry
  <2> QED
    BY <2>1, <2>2 DEF entryStoredBytes
<1>3. ASSUME NEW es, NEW d, Sound(es, d)
      PROVE  Sizes(es)
  <2> SUFFICES ASSUME NEW p \in Paths
               PROVE  entryStoredBytes(es[p]) \in Nat
    BY DEF Sizes
  <2>1. EntryOK(es[p], d)
    BY <1>3 DEF Sound
  <2> QED
    BY <1>1, <2>1 DEF EntryOK, entryStoredBytes
<1> QED
  BY <1>1, <1>2, <1>3

----------------------------------------------------------------------------
(* Counting dead bytes.                                                    *)

\* Counting in two steps is counting at once: what is above the limit stays
\* there.
LEMMA Saturating ==
    ASSUME NEW x \in Nat, NEW y \in Nat
    PROVE  /\ saturatingAddUint64(0, x) \in Nat
           /\ saturatingAddUint64(saturatingAddUint64(0, x), y) = saturatingAddUint64(0, x + y)
           /\ saturatingAddUint64(saturatingAddUint64(0, x), saturatingAddUint64(0, y))
                = saturatingAddUint64(0, x + y)
BY CatalogAssumption DEF saturatingAddUint64

\* So a count that is exact up to the limit stays so when more is added.
LEMMA CountOn ==
    ASSUME NEW dead, NEW a \in Nat, NEW more \in Nat, dead = saturatingAddUint64(0, a)
    PROVE  /\ saturatingAddUint64(dead, more) = saturatingAddUint64(0, a + more)
           /\ saturatingAddUint64(dead, more) \in Nat
<1>1. saturatingAddUint64(saturatingAddUint64(0, a), more) = saturatingAddUint64(0, a + more)
  BY Saturating
<1>2. a + more \in Nat
  OBVIOUS
<1>3. saturatingAddUint64(0, a + more) \in Nat
  BY <1>2, Saturating
<1> QED
  BY <1>1, <1>3

\* What is stored and no longer listed grows by what is put away.
LEMMA PutAway ==
    ASSUME NEW e \in Nat, NEW before \in Nat, NEW after \in Nat, NEW wrote \in Nat,
           NEW lost \in Nat, NEW removed \in Nat, NEW added \in Nat,
           e + wrote - lost - before >= 0, after + removed = before + added
    PROVE  /\ e + wrote - lost - before \in Nat
           /\ e + (wrote + added) - lost - after = (e + wrote - lost - before) + removed
OBVIOUS

\* An operation that puts away removed bytes, writes added ones, and counts
\* those it put away.
LEMMA CountedPut ==
    ASSUME NEW t, NEW es, Sizes(es), CountedTx(t, es), NEW u, Sizes(u.entries),
           NEW removed \in Nat, NEW added \in Nat,
           TotalStored(u.entries, Paths) + removed = TotalStored(t.entries, Paths) + added,
           u.wrote = t.wrote + added, u.dead = saturatingAddUint64(t.dead, removed),
           u.lost = t.lost, u.over = t.over
    PROVE  CountedTx(u, es)
<1> DEFINE E == TotalStored(es, Paths)
           T == TotalStored(t.entries, Paths)
           U == TotalStored(u.entries, Paths)
           x == E + t.wrote - t.lost - T
           y == E + u.wrote - u.lost - U
<1>1. /\ t.wrote \in Nat /\ t.lost \in Nat /\ t.over \in Nat /\ x >= 0
      /\ t.dead = saturatingAddUint64(0, x + t.over)
      /\ Sizes(t.entries)
  BY DEF CountedTx
<1>2. E \in Nat /\ T \in Nat /\ U \in Nat
  BY <1>1, TotalFacts
<1>3. U + removed = T + added
  OBVIOUS
<1> HIDE DEF E, T, U
<1>4. /\ x \in Nat /\ u.wrote \in Nat
      /\ E + (t.wrote + added) - t.lost - U = x + removed
  BY <1>1, <1>2, <1>3, PutAway
<1>5. y = x + removed
  BY <1>4
<1> HIDE DEF x, y
<1>6. x + t.over \in Nat /\ y + u.over = (x + t.over) + removed /\ y >= 0
  BY <1>1, <1>4, <1>5
<1>7. /\ saturatingAddUint64(t.dead, removed) = saturatingAddUint64(0, (x + t.over) + removed)
      /\ saturatingAddUint64(t.dead, removed) \in Nat
  BY <1>1, <1>6, CountOn
<1>8. u.dead = saturatingAddUint64(0, y + u.over) /\ u.dead \in Nat
  BY <1>6, <1>7
<1> QED
  BY <1>1, <1>4, <1>6, <1>8 DEF CountedTx, y, E, U

\* One that failed after it had counted old bytes and appended n.
LEMMA CountedFail ==
    ASSUME NEW t, NEW es, Sizes(es), CountedTx(t, es), NEW u, NEW old \in Nat, NEW n \in Nat,
           u.entries = t.entries, u.wrote = t.wrote + n, u.lost = t.lost + n,
           u.over = t.over + old, u.dead = saturatingAddUint64(t.dead, old)
    PROVE  CountedTx(u, es)
<1> DEFINE E == TotalStored(es, Paths)
           T == TotalStored(t.entries, Paths)
           x == E + t.wrote - t.lost - T
<1>1. /\ t.wrote \in Nat /\ t.lost \in Nat /\ t.over \in Nat /\ x >= 0
      /\ t.dead = saturatingAddUint64(0, x + t.over)
      /\ Sizes(t.entries)
  BY DEF CountedTx
<1>2. E \in Nat /\ T \in Nat /\ T = TotalStored(u.entries, Paths)
  BY <1>1, TotalFacts
<1> HIDE DEF E, T
<1>3. x \in Nat /\ E + u.wrote - u.lost - T = x /\ u.wrote \in Nat /\ u.lost \in Nat
  BY <1>1, <1>2
<1> HIDE DEF x
<1>4. x + t.over \in Nat /\ x + u.over = (x + t.over) + old /\ u.over \in Nat
  BY <1>1, <1>3
<1>5. /\ saturatingAddUint64(t.dead, old) = saturatingAddUint64(0, (x + t.over) + old)
      /\ saturatingAddUint64(t.dead, old) \in Nat
  BY <1>1, <1>4, CountOn
<1>6. u.dead = saturatingAddUint64(0, x + u.over) /\ u.dead \in Nat
  BY <1>4, <1>5
<1> QED
  BY <1>1, <1>2, <1>3, <1>4, <1>6 DEF CountedTx, E

\* New metadata, or a chunk that goes bad, change no size.
LEMMA CountedSame ==
    ASSUME NEW t, NEW es, CountedTx(t, es), NEW u, Sizes(u.entries),
           TotalStored(u.entries, Paths) = TotalStored(t.entries, Paths),
           u.wrote = t.wrote, u.lost = t.lost, u.over = t.over, u.dead = t.dead
    PROVE  CountedTx(u, es)
BY DEF CountedTx

\* What a commit makes of a counted transaction is counted.
LEMMA CountedCommit ==
    ASSUME NEW c, Counted(c), NEW t, CountedTx(t, c.entries)
    PROVE  Counted(Committed(c, t))
<1> DEFINE d == Committed(c, t)
           E == TotalStored(c.entries, Paths)
           T == TotalStored(t.entries, Paths)
           x == c.written - E - c.lost
           y == E + t.wrote - t.lost - T
<1>1. /\ d.entries = t.entries /\ d.dead = saturatingAddUint64(c.dead, t.dead)
      /\ d.written = c.written + t.wrote /\ d.lost = c.lost + t.lost /\ d.over = c.over + t.over
  BY DEF Committed
<1>2. /\ c.written \in Nat /\ c.lost \in Nat /\ c.over \in Nat /\ E + c.lost <= c.written
      /\ c.dead = saturatingAddUint64(0, x + c.over)
      /\ Sizes(c.entries)
  BY DEF Counted, Accounted, Unreferenced
<1>3. /\ t.wrote \in Nat /\ t.lost \in Nat /\ t.over \in Nat /\ y >= 0
      /\ t.dead = saturatingAddUint64(0, y + t.over)
      /\ Sizes(t.entries)
  BY DEF CountedTx
<1>4. E \in Nat /\ T \in Nat
  BY <1>2, <1>3, TotalFacts
<1> HIDE DEF d, E, T
<1>5. /\ x \in Nat /\ y \in Nat /\ d.written - T - d.lost = x + y /\ T + d.lost <= d.written
      /\ d.written \in Nat /\ d.lost \in Nat /\ d.over \in Nat
  BY <1>1, <1>2, <1>3, <1>4
<1> HIDE DEF x, y
<1>6. /\ x + c.over \in Nat /\ y + t.over \in Nat
      /\ (d.written - T - d.lost) + d.over = (x + c.over) + (y + t.over)
  BY <1>1, <1>2, <1>3, <1>5
<1>7. d.dead = saturatingAddUint64(0, (d.written - T - d.lost) + d.over) /\ d.dead \in Nat
  <2> DEFINE a == x + c.over
             b == y + t.over
  <2>1. a \in Nat /\ b \in Nat /\ a + b \in Nat
        /\ d.dead = saturatingAddUint64(saturatingAddUint64(0, a), saturatingAddUint64(0, b))
    BY <1>1, <1>2, <1>3, <1>6
  <2> HIDE DEF a, b
  <2>2. d.dead = saturatingAddUint64(0, a + b) /\ saturatingAddUint64(0, a + b) \in Nat
    BY <2>1, Saturating
  <2> QED
    BY <1>6, <2>2 DEF a, b
<1>8. Accounted(d)
  BY <1>1, <1>7 DEF Accounted, Unreferenced, T
<1> QED
  BY <1>1, <1>3, <1>5, <1>7, <1>8 DEF Counted, d, T

----------------------------------------------------------------------------
(* The operations of a transaction.                                        *)

\* What Create leaves is counted, and so is a transaction that has just begun.
LEMMA EmptyCounted == Counted(EmptyContainer) /\ Sizes(EmptyContainer.entries)
<1> DEFINE c == EmptyContainer
           es == EmptyContainer.entries
           T == TotalStored(es, Paths)
<1>1. /\ c.entries = es /\ c.dead = 0 /\ c.written = 0 /\ c.lost = 0 /\ c.over = 0
      /\ \A p \in Paths : es[p] = NoEntry
  BY DEF EmptyContainer
<1> HIDE DEF c, es
<1>2. Sizes(es)
  BY <1>1 DEF Sizes, entryStoredBytes
<1>3. T = 0
  BY <1>1, TotalOfNone
<1>4. saturatingAddUint64(0, 0) = 0
  BY CatalogAssumption DEF saturatingAddUint64
<1>5. c.written - T - c.lost + c.over = 0 /\ T + c.lost <= c.written
  BY <1>1, <1>3
<1>6. Accounted(c)
  BY <1>1, <1>4, <1>5 DEF Accounted, Unreferenced, T
<1>7. Counted(c)
  BY <1>1, <1>2, <1>5, <1>6 DEF Counted, T
<1> QED
  BY <1>2, <1>7 DEF c, es

\* A transaction that has just begun has counted what it did so far.
LEMMA BeginCounted ==
    ASSUME NEW es, Sizes(es)
    PROVE  CountedTx(BeginWith(es), es)
<1> DEFINE t == BeginWith(es)
           T == TotalStored(es, Paths)
<1>1. t.entries = es /\ t.dead = 0 /\ t.wrote = 0 /\ t.lost = 0 /\ t.over = 0
  BY DEF BeginWith
<1> HIDE DEF t
<1>2. T \in Nat
  BY TotalFacts
<1>3. saturatingAddUint64(0, 0) = 0
  BY CatalogAssumption DEF saturatingAddUint64
<1>4. T + t.wrote - t.lost - T = 0 /\ 0 + t.over = 0
  BY <1>1, <1>2
<1> HIDE DEF T
<1>5. CountedTx(t, es)
  BY <1>1, <1>3, <1>4 DEF CountedTx, T
<1> QED
  BY <1>5 DEF t

\* What a put writes into the transaction.
LEMMA StoredCounts ==
    ASSUME NEW t, TxShape(t), NEW p, NEW v, NEW m
    PROVE  LET u == Stored(t, p, v, m)
           IN  /\ u.dead = saturatingAddUint64(t.dead, entryStoredBytes(t.entries[p]))
               /\ u.wrote = t.wrote + StoredBytes(v)
               /\ u.lost = t.lost /\ u.over = t.over
<1> DEFINE dead == saturatingAddUint64(t.dead, entryStoredBytes(t.entries[p]))
           u == [t EXCEPT !.dead = dead]
           wrote == t.wrote + StoredBytes(v)
<1>1. markObsolete(t, p) = u
  BY DEF markObsolete
<1>2. TxShape(u) /\ u.dead = dead /\ u.wrote = t.wrote /\ u.lost = t.lost /\ u.over = t.over
  <2> HIDE DEF dead
  <2> QED
    BY DEF TxShape
<1>3. Stored(t, p, v, m) = [u EXCEPT !.entries = [u.entries EXCEPT ![p] = NewEntry(v, m)],
                                     !.wrote = u.wrote + StoredBytes(v)]
  BY <1>1, <1>2 DEF Stored, TxShape
<1> HIDE DEF u, dead
<1>4. /\ Stored(t, p, v, m).dead = u.dead
      /\ Stored(t, p, v, m).lost = u.lost /\ Stored(t, p, v, m).over = u.over
      /\ Stored(t, p, v, m).wrote = u.wrote + StoredBytes(v)
  BY <1>2, <1>3 DEF TxShape
<1> QED
  BY <1>2, <1>4 DEF dead

\* One entry has another size.
LEMMA TotalPut ==
    ASSUME NEW es, Sizes(es), NEW fs, NEW p \in Paths,
           \A q \in Paths \ {p} : fs[q] = es[q], entryStoredBytes(fs[p]) \in Nat
    PROVE  /\ Sizes(fs)
           /\ TotalStored(fs, Paths) + entryStoredBytes(es[p])
                = TotalStored(es, Paths) + entryStoredBytes(fs[p])
<1>1. Sizes(fs)
  BY DEF Sizes
<1>2. {p} \in SUBSET Paths /\ Paths \ {p} \in SUBSET Paths
  OBVIOUS
<1>3. /\ TotalStored(es, Paths) = TotalStored(es, {p}) + TotalStored(es, Paths \ {p})
      /\ TotalStored(fs, Paths) = TotalStored(fs, {p}) + TotalStored(fs, Paths \ {p})
  BY <1>1, <1>2, TotalSplit
<1>4. TotalStored(es, {p}) = entryStoredBytes(es[p]) /\ TotalStored(fs, {p}) = entryStoredBytes(fs[p])
  BY <1>1, TotalOfOne
<1>5. TotalStored(es, Paths \ {p}) = TotalStored(fs, Paths \ {p})
  BY <1>2, SameTotal
<1>6. /\ TotalStored(es, Paths \ {p}) \in Nat /\ entryStoredBytes(es[p]) \in Nat
  BY <1>2, TotalFacts DEF Sizes
<1> QED
  BY <1>1, <1>3, <1>4, <1>5, <1>6

\* Add, Upsert and Replace count what they store and what they make obsolete.
LEMMA PutCounted ==
    ASSUME NEW t, NEW d, TxShape(t), Sound(t.entries, d), NEW es, Sizes(es), CountedTx(t, es),
           NEW p \in Paths, NEW v \in Vals, NEW m
    PROVE  CountedTx(Stored(t, p, v, m), es)
<1> DEFINE u == Stored(t, p, v, m)
<1>1. /\ u.entries[p] = NewEntry(v, m)
      /\ \A q \in Paths \ {p} : u.entries[q] = t.entries[q]
  BY PutSound
<1>2. /\ u.dead = saturatingAddUint64(t.dead, entryStoredBytes(t.entries[p]))
      /\ u.wrote = t.wrote + StoredBytes(v) /\ u.lost = t.lost /\ u.over = t.over
  BY StoredCounts
<1> HIDE DEF u
<1>3. entryStoredBytes(u.entries[p]) = StoredBytes(v) /\ StoredBytes(v) \in Nat
  BY <1>1, SizeFacts
<1>4. Sizes(t.entries) /\ entryStoredBytes(t.entries[p]) \in Nat
  BY DEF CountedTx, Sizes
<1>5. /\ Sizes(u.entries)
      /\ TotalStored(u.entries, Paths) + entryStoredBytes(t.entries[p])
           = TotalStored(t.entries, Paths) + StoredBytes(v)
  BY <1>1, <1>3, <1>4, TotalPut
<1>6. CountedTx(u, es)
  BY <1>2, <1>3, <1>4, <1>5, CountedPut
<1> QED
  BY <1>6 DEF u

\* An entry that is not what was meant is as large as if it were.
LEMMA PutEntryCounted ==
    ASSUME NEW t, NEW d, TxShape(t), Sound(t.entries, d), NEW es, Sizes(es), CountedTx(t, es),
           t = job.dst, NEW p \in Paths, NEW v \in Vals, NEW m, NEW good
    PROVE  CountedTx(PutEntry(p, v, m, good), es)
<1> DEFINE u == Stored(t, p, v, m)
           w == [u EXCEPT !.entries[p].good = FALSE]
<1>1. CountedTx(u, es)
  BY PutCounted
<1>2. /\ TxShape(u) /\ u.entries[p] = NewEntry(v, m)
      /\ u.entries = [q \in Paths |-> u.entries[q]]
  <2>1. TxShape(u) /\ Sound(u.entries, d) /\ u.entries[p] = NewEntry(v, m)
    <3> HIDE DEF w
    <3> QED
      BY PutSound
  <2> HIDE DEF u
  <2> QED
    BY <2>1 DEF Sound
<1>4. PutEntry(p, v, m, good) = IF good THEN u ELSE w
  BY DEF PutEntry
<1> HIDE DEF u
<1> DEFINE f == [NewEntry(v, m) EXCEPT !.good = FALSE]
           fs == [u.entries EXCEPT ![p] = f]
<1>5. w = [u EXCEPT !.entries = fs]
  BY <1>2 DEF TxShape
<1>6. w.entries = fs /\ w.dead = u.dead /\ w.wrote = u.wrote /\ w.lost = u.lost /\ w.over = u.over
  <2> HIDE DEF fs
  <2> QED
    BY <1>2, <1>5 DEF TxShape
<1>7. fs[p] = f /\ \A q \in Paths \ {p} : fs[q] = u.entries[q]
  BY <1>2
<1>8. entryStoredBytes(f) = StoredBytes(v) /\ StoredBytes(v) \in Nat
  <2>1. f.val = v /\ DOMAIN f = {"val", "meta", "good", "chunks"}
    BY DEF NewEntry
  <2>2. DOMAIN NoEntry = {"val"}
    BY DEF NoEntry
  <2>3. f # NoEntry
    BY <2>1, <2>2
  <2> QED
    BY <2>1, <2>3, SizeFacts DEF entryStoredBytes
<1>9. entryStoredBytes(u.entries[p]) = StoredBytes(v)
  BY <1>2, SizeFacts
<1>10. Sizes(u.entries)
  BY <1>1 DEF CountedTx
<1> HIDE DEF f, fs, w
<1>11. /\ Sizes(fs) /\ TotalStored(fs, Paths) = TotalStored(u.entries, Paths)
  <2>1. \A q \in Paths : entryStoredBytes(fs[q]) = entryStoredBytes(u.entries[q])
    BY <1>7, <1>8, <1>9
  <2> QED
    BY <1>10, <2>1, SameTotal DEF Sizes
<1>12. CountedTx(w, es)
  BY <1>1, <1>6, <1>11, CountedSame
<1> QED
  BY <1>1, <1>4, <1>12

----------------------------------------------------------------------------
(* The container between the jobs.                                         *)

\* So does every operation of an open transaction, whether it fails or not.
LEMMA OperationCounted ==
    ASSUME HandleOK, tx.open, NEW es, Sizes(es), CountedTx(tx, es),
           \/ \E p \in Paths, v \in Vals, m \in Metas : TxPut(p, v, m)
           \/ \E p \in Paths, v \in Vals : \E k \in 0 .. Len(ChunkEnds[v]) : TxPutFails(p, v, k)
           \/ \E S \in SUBSET Paths : TxRemove(S)
           \/ \E S \in SUBSET Paths, m \in Metas : TxSetMeta(S, m)
    PROVE  CountedTx(tx', es)
<1>0. TxShape(tx) /\ Sound(tx.entries, damage) /\ Sizes(tx.entries)
  BY DEF HandleOK, NoTx, CountedTx
<1>1. TxShape(tx') /\ Sound(tx'.entries, damage)
  BY OperationFacts DEF TxOK
<1>2. Sizes(tx'.entries)
  BY <1>1, SizeFacts
<1>3. ASSUME NEW p \in Paths, NEW v \in Vals, NEW m, TxPut(p, v, m)
      PROVE  CountedTx(tx', es)
  BY <1>0, <1>3, PutCounted DEF TxPut
<1>4. ASSUME NEW p \in Paths, NEW v \in Vals, NEW k \in 0 .. Len(ChunkEnds[v]), TxPutFails(p, v, k)
      PROVE  CountedTx(tx', es)
  <2> DEFINE old == entryStoredBytes(tx.entries[p])
             n == PrefixBytes(v, k)
             dead == saturatingAddUint64(tx.dead, old)
  <2>1. tx' = [[tx EXCEPT !.dead = dead] EXCEPT !.wrote = @ + n, !.lost = @ + n, !.over = @ + old]
    BY <1>4 DEF TxPutFails, markObsolete
  <2>2. old \in Nat /\ n \in Nat
    BY <1>0, PrefixFacts DEF Sizes
  <2> HIDE DEF dead, n, old
  <2>3. /\ tx'.entries = tx.entries /\ tx'.dead = dead
        /\ tx'.wrote = tx.wrote + n /\ tx'.lost = tx.lost + n /\ tx'.over = tx.over + old
    BY <1>0, <2>1 DEF TxShape
  <2>4. tx'.dead = saturatingAddUint64(tx.dead, old)
    BY <2>3 DEF dead
  <2> QED
    BY <2>2, <2>3, <2>4, CountedFail
<1>5. ASSUME NEW S \in SUBSET Paths, TxRemove(S)
      PROVE  CountedTx(tx', es)
  <2> DEFINE fs == [p \in Paths |-> IF p \in S THEN NoEntry ELSE tx.entries[p]]
             y == TotalStored(tx.entries, S)
             dead == saturatingAddUint64(tx.dead, y)
  <2>1. tx' = [tx EXCEPT !.dead = dead, !.entries = fs]
    BY <1>0, <1>5 DEF TxRemove, TxShape
  <2> HIDE DEF fs, dead
  <2>2. /\ tx'.entries = fs /\ tx'.wrote = tx.wrote /\ tx'.dead = dead
        /\ tx'.lost = tx.lost /\ tx'.over = tx.over
    BY <1>0, <2>1 DEF TxShape
  <2>3. Sizes(fs)
    BY <1>2, <2>2
  <2>4. /\ TotalStored(fs, Paths) = TotalStored(fs, S) + TotalStored(fs, Paths \ S)
        /\ TotalStored(tx.entries, Paths) = y + TotalStored(tx.entries, Paths \ S)
    BY <1>0, <2>3, TotalSplit
  <2>5. TotalStored(fs, S) = 0
    <3>1. \A p \in S : fs[p] = NoEntry
      BY DEF fs
    <3> QED
      BY <3>1, TotalOfNone
  <2>6. TotalStored(fs, Paths \ S) = TotalStored(tx.entries, Paths \ S)
    <3>1. \A p \in Paths \ S : fs[p] = tx.entries[p]
      BY DEF fs
    <3>2. Paths \ S \in SUBSET Paths
      OBVIOUS
    <3> QED
      BY <3>1, <3>2, SameTotal
  <2>7. y \in Nat /\ TotalStored(tx.entries, Paths \ S) \in Nat /\ tx.wrote \in Nat
    <3>1. Paths \ S \in SUBSET Paths
      OBVIOUS
    <3> QED
      BY <1>0, <3>1, TotalFacts DEF CountedTx
  <2> HIDE DEF y
  <2>8. /\ TotalStored(tx'.entries, Paths) + y = TotalStored(tx.entries, Paths) + 0
        /\ tx'.wrote = tx.wrote + 0
    BY <2>2, <2>4, <2>5, <2>6, <2>7
  <2>9. /\ tx'.dead = saturatingAddUint64(tx.dead, y) /\ Sizes(tx'.entries)
        /\ tx'.lost = tx.lost /\ tx'.over = tx.over
    BY <2>2, <2>3 DEF dead
  <2> QED
    BY <2>7, <2>8, <2>9, CountedPut
<1>6. ASSUME NEW S \in SUBSET Paths, NEW m, TxSetMeta(S, m)
      PROVE  CountedTx(tx', es)
  <2> DEFINE fs == [p \in Paths |-> IF p \in S THEN [tx.entries[p] EXCEPT !.meta = m]
                                                ELSE tx.entries[p]]
  <2>1. tx' = [tx EXCEPT !.entries = fs]
    BY <1>0, <1>6 DEF TxSetMeta, TxShape
  <2>2. ASSUME NEW p \in Paths
        PROVE  entryStoredBytes(fs[p]) = entryStoredBytes(tx.entries[p])
    <3>1. CASE p \notin S
      BY <3>1
    <3>2. CASE p \in S
      <4> DEFINE e == tx.entries[p]
                 f == [e EXCEPT !.meta = m]
      <4>1. e # NoEntry /\ EntryShape(e)
        BY <1>0, <1>6, <3>2 DEF TxSetMeta, Live, Sound, EntryOK
      <4>2. f.val = e.val /\ DOMAIN f = {"val", "meta", "good", "chunks"}
        BY <4>1 DEF EntryShape
      <4>3. f # NoEntry
        <5>1. DOMAIN NoEntry = {"val"}
          BY DEF NoEntry
        <5> QED
          BY <4>2, <5>1
      <4>4. fs[p] = f
        BY <3>2
      <4> HIDE DEF f, e, fs
      <4>5. entryStoredBytes(f) = entryStoredBytes(e)
        BY <4>1, <4>2, <4>3 DEF entryStoredBytes
      <4> QED
        BY <4>4, <4>5 DEF e
    <3> QED
      BY <3>1, <3>2
  <2> HIDE DEF fs
  <2>3. /\ tx'.entries = fs /\ tx'.wrote = tx.wrote /\ tx'.dead = tx.dead
        /\ tx'.lost = tx.lost /\ tx'.over = tx.over
    BY <1>0, <2>1 DEF TxShape
  <2>4. TotalStored(fs, Paths) = TotalStored(tx.entries, Paths)
    BY <2>2, SameTotal
  <2> QED
    BY <1>2, <2>3, <2>4, CountedSame
<1> QED
  BY <1>3, <1>4, <1>5, <1>6

\* What there is under the names and what the job has changes with them only.
LEMMA NamesCounted ==
    ASSUME Books, Counted(file)', tx' # NoTx => CountedTx(tx', file'.entries),
           other' = other, disk' = disk, job' = job
    PROVE  Books'
BY DEF Books

\* A step of somebody who uses the container keeps the books.
LEMMA UseBooks ==
    ASSUME Control, Content, Books, UseContainer
    PROVE  Books'
<1>0. /\ CatalogNext /\ UNCHANGED <<other, disk, job>>
      /\ HandleOK /\ Counted(file)
  BY DEF UseContainer, Content, Books
<1>1. handle.state # "closed" => handle.dir = file
  BY <1>0 DEF HandleOK
<1>2. tx.open => tx # NoTx /\ TxShape(tx) /\ handle.dir = file
  BY <1>0, <1>1 DEF HandleOK, NoTx
<1>3. Sizes(file.entries)
  BY <1>0 DEF Counted
<1>4. tx.open => CountedTx(tx, file.entries)
  BY <1>2 DEF Books
<1>5. Counted(file') /\ (tx' # NoTx => CountedTx(tx', file'.entries))
  <2>1. CASE Open \/ ensureEntriesLoaded \/ Close
    <3>1. file' = file /\ tx' = tx
      BY <2>1 DEF Open, ensureEntriesLoaded, Close
    <3> QED
      BY <3>1 DEF Books
  <2>2. CASE Begin
    <3>1. file' = file /\ tx' = BeginWith(file.entries)
      BY <1>1, <2>2 DEF Begin
    <3> QED
      BY <1>0, <1>3, <3>1, BeginCounted
  <2>3. CASE Rollback
    BY <1>0, <2>3 DEF Rollback
  <2>4. CASE Commit
    <3>1. tx.open /\ file' = Committed(file, tx) /\ tx' = NoTx
      BY <1>2, <2>4 DEF Commit
    <3> QED
      BY <1>0, <1>4, <3>1, CountedCommit
  <2>5. CASE \/ \E p \in Paths, v \in Vals, m \in Metas : TxPut(p, v, m)
             \/ \E p \in Paths, v \in Vals : \E k \in 0 .. Len(ChunkEnds[v]) : TxPutFails(p, v, k)
             \/ \E S \in SUBSET Paths : TxRemove(S)
             \/ \E S \in SUBSET Paths, m \in Metas : TxSetMeta(S, m)
    <3>1. tx.open /\ file' = file
      BY <2>5 DEF TxPut, TxPutFails, TxRemove, TxSetMeta
    <3>2. CountedTx(tx', file.entries)
      BY <1>0, <1>3, <1>4, <2>5, <3>1, OperationCounted
    <3> QED
      BY <1>0, <3>1, <3>2
  <2> QED
    BY <1>0, <2>1, <2>2, <2>3, <2>4, <2>5 DEF CatalogNext
<1> QED
  BY <1>0, <1>5, NamesCounted

----------------------------------------------------------------------------
(* The job.                                                                *)

\* A step of the job that leaves the container alone.
LEMMA JobCounted ==
    ASSUME Books, UNCHANGED <<file, tx>>,
           CountedIfAny(other'["tmp"]), CountedIfAny(other'["out"]),
           \A c \in disk' : CountedIfAny(c),
           job'.pc \in Filling => CountedTx(job'.dst, EmptyContainer.entries),
           job'.pc # "renamed"
    PROVE  Books'
BY DEF Books

\* What holds no entries, or is no container, needs no counting.
LEMMA NoneCounted == CountedIfAny(NoFile) /\ CountedIfAny(NotAContainer) /\ CountedIfAny(EmptyContainer)
BY ContainerFacts, EmptyCounted DEF CountedIfAny

\* The transaction as it is, committed.
LEMMA BuiltCounted ==
    ASSUME Books, job.pc \in Filling
    PROVE  Counted(Built)
<1>1. CountedTx(job.dst, EmptyContainer.entries)
  BY DEF Books
<1> QED
  BY <1>1, EmptyCounted, CountedCommit DEF Built

\* What may be seen under the target's name is counted.
LEMMA SeenCounted ==
    ASSUME Books
    PROVE  \A c \in Seen : CountedIfAny(c)
<1>1. At("commit") => CountedIfAny(Built)
  BY BuiltCounted DEF At, Filling, CountedIfAny
<1>2. CountedIfAny(other[Target])
  BY DEF Books, Target
<1> QED
  BY <1>1, <1>2, NoneCounted DEF Seen

\* A job that fails leaves what may be seen, or nothing.
LEMMA FailedBooks ==
    ASSUME Control, Books, Failed
    PROVE  Books'
<1>1. UNCHANGED <<file, tx>> /\ job'.pc = "finished"
  BY DEF Failed, catalogVars
<1>2. CountedIfAny(other'["tmp"]) /\ CountedIfAny(other'["out"])
  <2>1. \A c \in Seen \cup {NoFile} : CountedIfAny(c)
    BY SeenCounted, NoneCounted
  <2> QED
    BY <2>1 DEF Failed, Books
<1>3. \A c \in disk' : CountedIfAny(c)
  BY NoneCounted DEF Failed, Books
<1>4. job'.pc \notin Filling
  BY <1>1 DEF Filling, Copies
<1> QED
  BY <1>1, <1>2, <1>3, <1>4, JobCounted

\* A job starts on whatever is under the output's name.
LEMMA StartBooks ==
    ASSUME Control, Books,
           \/ \E o \in PackOpts : StartPack(o)
           \/ \E z \in Archives, b \in BOOLEAN : StartZip(z, b)
    PROVE  Books'
<1>1. \E n \in {"tmp", "out"} : disk' = {other[n]}
  BY DEF StartPack, StartZip
<1>2. UNCHANGED <<file, tx, other>>
  BY DEF StartPack, StartZip, UnchangedSource, catalogVars
<1>3. \A c \in disk' : CountedIfAny(c)
  BY <1>1 DEF Books
<1>4. job'.pc \in {"open", "create"}
  BY DEF StartPack, StartZip, NoJob
<1>5. job'.pc \notin Filling /\ job'.pc # "renamed"
  BY <1>4 DEF Filling, Copies
<1>6. CountedIfAny(other'["tmp"]) /\ CountedIfAny(other'["out"])
  BY <1>2 DEF Books
<1> QED
  BY <1>2, <1>3, <1>5, <1>6, JobCounted

\* Opening and listing the source counts nothing.
LEMMA SourceBooks ==
    ASSUME Control, Books, OpenSource \/ ListSource
    PROVE  Books'
<1>1. CASE OpenSource
  <2>1. job.pc # "none"
    BY <1>1 DEF OpenSource, At
  <2>2. CASE JobFails
    BY <2>1, <2>2, FailedFacts, FailedBooks
  <2>3. CASE ~JobFails
    <3>1. Goto("list") /\ UNCHANGED <<file, tx, other, disk>>
      BY <1>1, <2>3 DEF OpenSource, UnchangedSource, catalogVars
    <3>2. job'.pc = "list"
      BY <3>1, GotoFacts DEF Control
    <3> QED
      BY <3>1, <3>2, JobCounted DEF Books, Filling, Copies
  <2> QED
    BY <2>2, <2>3
<1>2. CASE ListSource
  <2>1. UNCHANGED <<file, tx, other, disk>>
    BY <1>2 DEF ListSource, UnchangedSource, catalogVars
  <2>2. job'.pc = "create"
    BY <1>2 DEF ListSource, Control, JobShape
  <2> QED
    BY <2>1, <2>2, JobCounted DEF Books, Filling, Copies
<1> QED
  BY <1>1, <1>2

\* A step along the way that gives the target's name new content, and its
\* transaction a new state.
LEMMA AlongCounted ==
    ASSUME Books, UNCHANGED <<file, tx>>, NEW c, CountedIfAny(c),
           \/ other' = other
           \/ /\ job.inPlace => other'["tmp"] = c /\ other'["out"] = other["out"]
              /\ ~job.inPlace => other'["out"] = c /\ other'["tmp"] = other["tmp"],
           \A d \in disk' : d \in disk \/ CountedIfAny(d),
           job'.pc \in Filling => CountedTx(job'.dst, EmptyContainer.entries),
           job'.pc # "renamed"
    PROVE  Books'
<1>1. CountedIfAny(other'["tmp"]) /\ CountedIfAny(other'["out"])
  BY DEF Books
<1>2. \A d \in disk' : CountedIfAny(d)
  BY DEF Books
<1> QED
  BY <1>1, <1>2, JobCounted

\* Create puts an empty container, or what is none yet, under the target's name.
LEMMA CreateBooks ==
    ASSUME Control, Books, Create \/ CreateEnds
    PROVE  Books'
<1>1. CASE Create
  <2>1. /\ UNCHANGED <<file, tx>> /\ job'.pc = "created"
        /\ job.inPlace => other'["tmp"] = NotAContainer /\ other'["out"] = other["out"]
        /\ ~job.inPlace => other'["out"] = NotAContainer /\ other'["tmp"] = other["tmp"]
        /\ disk' = disk \cup {NotAContainer, EmptyContainer}
    BY <1>1, CreateFacts DEF Along
  <2>2. job'.pc \notin Filling /\ job'.pc # "renamed"
    BY <2>1 DEF Filling, Copies
  <2>3. \A d \in disk' : d \in disk \/ CountedIfAny(d)
    BY <2>1, NoneCounted
  <2> QED
    BY <2>1, <2>2, <2>3, NoneCounted, AlongCounted
<1>2. CASE CreateEnds
  <2>1. /\ UNCHANGED <<file, tx>> /\ job'.pc = "next"
        /\ job'.dst = BeginWith(EmptyContainer.entries)
        /\ job.inPlace => other'["tmp"] = EmptyContainer /\ other'["out"] = other["out"]
        /\ ~job.inPlace => other'["out"] = EmptyContainer /\ other'["tmp"] = other["tmp"]
        /\ disk' \subseteq disk \cup {EmptyContainer}
    BY <1>2, CreateEndsFacts DEF Along
  <2>2. CountedTx(job'.dst, EmptyContainer.entries)
    BY <2>1, EmptyCounted, BeginCounted
  <2>3. \A d \in disk' : d \in disk \/ CountedIfAny(d)
    BY <2>1, NoneCounted
  <2> QED
    BY <2>1, <2>2, <2>3, NoneCounted, AlongCounted
<1> QED
  BY <1>1, <1>2

\* Copying changes the target's transaction only.
LEMMA QuietCounted ==
    ASSUME Books, Quiet, job'.pc # "renamed",
           CountedTx(job'.dst, EmptyContainer.entries)
    PROVE  Books'
BY JobCounted DEF Quiet, Along, Books

\* Every entry that is copied into the target is counted by its transaction.
LEMMA EntryBooks ==
    ASSUME Control, Content, Books,
           \/ \E j \in Rest : OpenEntry(j) \/ OpenMember(j)
           \/ \E n \in 1 .. BufSize : ReadStarts(n) \/ ReadCopies(n)
           \/ ReadReturns \/ PeekEnds \/ ReadEnds
    PROVE  Books'
<1>0. job.pc \in Copies =>
        /\ CountedTx(job.dst, EmptyContainer.entries)
        /\ TxShape(job.dst) /\ Sound(job.dst.entries, damage)
  BY DEF Books, Content, TargetOK, Filling
<1>1. ASSUME NEW j \in Rest, OpenEntry(j) \/ OpenMember(j)
      PROVE  Books'
  <2>1. job.pc = "next" /\ (Failed \/ (Quiet /\ job'.pc = "peek" /\ job'.dst = job.dst))
    BY <1>1, OpenEntryFacts, OpenMemberFacts DEF Opened
  <2> QED
    BY <1>0, <2>1, FailedBooks, QuietCounted DEF Copies
<1>2. CASE (\E n \in 1 .. BufSize : ReadStarts(n) \/ ReadCopies(n)) \/ ReadReturns \/ PeekEnds
  <2>1. Quiet /\ Reading /\ job'.pc \in {"peek", "read"} /\ job'.dst = job.dst
    BY <1>2, ReadFacts
  <2>2. job.pc \in Copies
    BY <2>1 DEF Reading, Copies
  <2> QED
    BY <1>0, <2>1, <2>2, QuietCounted
<1>3. CASE ReadEnds
  <2> DEFINE e == Original
             m == MetaOf(e)
             good == job.got = [len |-> FileSize(ChunkEnds[e.val]), same |-> TRUE] /\ e.good
  <2>1. /\ job.pc = "read"
        /\ \/ Failed
           \/ /\ Quiet /\ job'.pc = "next"
              /\ job'.dst = PutEntry(Copying, e.val, m, good)
    BY <1>3, ReadEndsFacts
  <2>2. job.pc \in Copies /\ Reading
    BY <2>1 DEF Copies, Reading
  <2>3. Copying \in Paths /\ e.val \in Vals
    BY <2>2, OriginalFacts
  <2>4. CASE Failed
    BY <2>4, FailedBooks
  <2>5. CASE ~Failed
    <3> DEFINE p == Copying
               v == e.val
    <3>1. p \in Paths /\ v \in Vals /\ job'.dst = PutEntry(p, v, m, good)
      BY <2>1, <2>3, <2>5
    <3>2. /\ CountedTx(job.dst, EmptyContainer.entries)
          /\ TxShape(job.dst) /\ Sound(job.dst.entries, damage)
      BY <1>0, <2>2
    <3> HIDE DEF p, v, m, good
    <3>3. CountedTx(job'.dst, EmptyContainer.entries)
      BY <3>1, <3>2, EmptyCounted, PutEntryCounted
    <3> QED
      BY <2>1, <2>5, <3>3, QuietCounted
  <2> QED
    BY <2>4, <2>5
<1> QED
  BY <1>1, <1>2, <1>3

\* The commit of the target adds to an empty container what was counted.
LEMMA CommitBooks ==
    ASSUME Control, Books, CommitStarts \/ CommitEnds
    PROVE  Books'
<1>1. Along /\ KeepsCopy /\ UNCHANGED <<file, tx>>
  BY CommitFacts DEF Along
<1>2. job.pc \in Filling
  BY CommitFacts DEF Filling, Copies
<1>3. CountedIfAny(Built) /\ CountedTx(job'.dst, EmptyContainer.entries)
  BY <1>1, <1>2, BuiltCounted DEF CountedIfAny, Books, KeepsCopy
<1>4. \/ /\ job'.pc = "commit" /\ other' = other /\ disk' = disk \cup {Built}
      \/ /\ job'.pc \in {"rename", "finished"}
         /\ job.inPlace => other'["tmp"] = Built /\ other'["out"] = other["out"]
         /\ ~job.inPlace => other'["out"] = Built /\ other'["tmp"] = other["tmp"]
         /\ disk' \in {disk, {Built}}
  BY CommitFacts
<1>5. \A d \in disk' : d \in disk \/ CountedIfAny(d)
  BY <1>3, <1>4
<1>6. job'.pc # "renamed"
  BY <1>4
<1> DEFINE c == Built
<1>7. /\ CountedIfAny(c)
      /\ \/ other' = other
         \/ /\ job.inPlace => other'["tmp"] = c /\ other'["out"] = other["out"]
            /\ ~job.inPlace => other'["out"] = c /\ other'["tmp"] = other["tmp"]
  BY <1>3, <1>4
<1> HIDE DEF c
<1> QED
  BY <1>1, <1>3, <1>5, <1>6, <1>7, AlongCounted

\* The container the input's name stands for after the rename is the one built.
LEMMA RenameBooks ==
    ASSUME Control, Content, Books, Rename
    PROVE  Books'
<1>1. /\ job'.src = file /\ KeepsCopy /\ job.pc = "rename" /\ job'.pc = "renamed"
      /\ file' = other["tmp"] /\ other'["tmp"] = NoFile /\ other'["out"] = other["out"]
      /\ UNCHANGED <<handle, tx, disk>>
  BY RenameFacts
<1>2. tx = NoTx
  BY <1>1 DEF Control, JobOK, Content, HandleOK
<1>3. other["tmp"] = Built
  BY <1>1 DEF Content, TargetOK
<1>4. Counted(file')
  BY <1>1, <1>3, BuiltCounted DEF Filling
<1>5. CountedIfAny(other'["tmp"]) /\ CountedIfAny(other'["out"])
  BY <1>1, NoneCounted DEF Books
<1>6. \A c \in disk' : CountedIfAny(c)
  BY <1>1 DEF Books
<1>7. Counted(job'.src) /\ job'.pc \notin Filling
  BY <1>1 DEF Books, Filling, Copies
<1> QED
  BY <1>1, <1>2, <1>4, <1>5, <1>6, <1>7 DEF Books

\* A job that is over leaves what was counted before.
LEMMA OverBooks ==
    ASSUME Books, Over, Counted(file'), tx' = tx, tx # NoTx => file' = file,
           CountedIfAny(other'["tmp"]), CountedIfAny(other'["out"]), disk' = {}
    PROVE  Books'
<1>1. job'.pc = "none"
  BY OverFacts
<1>2. job'.pc \notin Filling /\ job'.pc # "renamed"
  BY <1>1 DEF Filling, Copies
<1> QED
  BY <1>2 DEF Books

\* Whichever of its contents the target has in the end is one that was counted.
LEMMA EndBooks ==
    ASSUME Control, Content, Books, Trusted', Finish \/ Kill \/ PowerLoss
    PROVE  Books'
<1>0. /\ Over /\ disk' = {} /\ tx' = tx
      /\ Counted(file) /\ CountedIfAny(other["tmp"]) /\ CountedIfAny(other["out"])
      /\ \A c \in disk : CountedIfAny(c)
  BY DEF Finish, Kill, PowerLoss, UnchangedSource, catalogVars, Over, Books
<1>1. ASSUME NEW c, SetTarget(c), CountedIfAny(c)
      PROVE  CountedIfAny(other'["tmp"]) /\ CountedIfAny(other'["out"])
  BY <1>0, <1>1, TargetFacts DEF Control
<1>2. CASE Finish
  BY <1>0, <1>2, OverBooks DEF Finish, UnchangedSource, catalogVars
<1>3. CASE Kill
  <2>1. PICK c \in Seen : SetTarget(c) /\ file' = file
    BY <1>3 DEF Kill, UnchangedSource, catalogVars
  <2>2. CountedIfAny(other'["tmp"]) /\ CountedIfAny(other'["out"])
    BY <1>1, <2>1, SeenCounted
  <2> QED
    BY <1>0, <2>1, <2>2, OverBooks
<1>4. CASE PowerLoss
  <2>1. PICK c \in disk :
          IF At("renamed")
            THEN \/ file' = c /\ UNCHANGED <<other, handle, tx, ops>>
                 \/ file' = job.src /\ SetTarget(c) /\ UNCHANGED <<handle, tx, ops>>
            ELSE SetTarget(c) /\ UnchangedSource
    BY <1>4 DEF PowerLoss
  <2>2. CASE ~At("renamed")
    <3>1. SetTarget(c) /\ file' = file
      BY <2>1, <2>2 DEF UnchangedSource, catalogVars
    <3>2. CountedIfAny(c)
      BY <1>0
    <3>3. CountedIfAny(other'["tmp"]) /\ CountedIfAny(other'["out"])
      BY <1>1, <3>1, <3>2
    <3> QED
      BY <1>0, <3>1, <3>3, OverBooks
  <2>3. CASE At("renamed")
    <3>1. job.pc = "renamed" /\ tx = NoTx
      BY <2>3 DEF At, Control, JobOK, Content, HandleOK
    <3>2. CASE file' = c /\ UNCHANGED other
      <4>1. FileOK'
        BY <1>4, PowerContent DEF Content
      <4>2. IsContainer(c)
        BY <3>2, <4>1, ContainerFacts DEF FileOK
      <4>3. Counted(file')
        BY <1>0, <3>2, <4>2 DEF CountedIfAny
      <4> QED
        BY <1>0, <3>1, <3>2, <4>3, OverBooks
    <3>3. CASE file' = job.src /\ SetTarget(c)
      BY <1>0, <1>1, <3>1, <3>3, OverBooks DEF Books
    <3> QED
      BY <2>1, <2>3, <3>2, <3>3
  <2> QED
    BY <2>2, <2>3
<1> QED
  BY <1>2, <1>3, <1>4

----------------------------------------------------------------------------
\* A chunk that goes bad leaves the sizes.
LEMMA DamageBooks ==
    ASSUME Control, Content, Books, NEW p \in Live(file.entries),
           NEW k \in DOMAIN file.entries[p].chunks, NEW d, Damage(p, k, d)
    PROVE  Books'
<1>1. /\ handle.state = "closed" /\ job.pc # "renamed"
      /\ file' = [file EXCEPT !.entries[p].chunks[k] = d]
      /\ UNCHANGED <<tx, other, disk, job>>
  BY DEF Damage, At
<1>2. tx = NoTx
  BY <1>1 DEF Content, HandleOK
<1>3. ContainerShape(file) /\ Sound(file.entries, damage)
  BY DEF Content, FileOK
<1>4. p \in Paths /\ file.entries[p] # NoEntry /\ EntryOK(file.entries[p], damage)
  BY <1>3 DEF Live, Sound
<1> DEFINE e == file.entries[p]
           f == [e EXCEPT !.chunks = [e.chunks EXCEPT ![k] = d]]
           es == [file.entries EXCEPT ![p] = f]
<1>5. file' = [file EXCEPT !.entries = es]
  BY <1>1, <1>3, <1>4 DEF ContainerShape, EntryOK, EntryShape
<1>6. f.val = e.val /\ DOMAIN f = {"val", "meta", "good", "chunks"}
  BY <1>4 DEF EntryOK, EntryShape
<1>7. f # NoEntry
  <2>1. DOMAIN NoEntry = {"val"}
    BY DEF NoEntry
  <2> QED
    BY <1>6, <2>1
<1> HIDE DEF f
<1>8. entryStoredBytes(f) = entryStoredBytes(e)
  BY <1>4, <1>6, <1>7 DEF entryStoredBytes
<1>9. file.entries = [q \in Paths |-> file.entries[q]]
  BY <1>3 DEF Sound
<1>10. es[p] = f /\ \A q \in Paths \ {p} : es[q] = file.entries[q]
  BY <1>4, <1>9
<1>11. \A q \in Paths : entryStoredBytes(es[q]) = entryStoredBytes(file.entries[q])
  BY <1>8, <1>10
<1> HIDE DEF es
<1>12. /\ file'.entries = es /\ file'.dead = file.dead
       /\ file'.written = file.written /\ file'.lost = file.lost /\ file'.over = file.over
  BY <1>3, <1>5 DEF ContainerShape
<1>13. TotalStored(file'.entries, Paths) = TotalStored(file.entries, Paths)
  BY <1>11, <1>12, SameTotal
<1>14. Counted(file)
  BY DEF Books
<1>15. Sizes(file'.entries)
  BY <1>11, <1>12, <1>14 DEF Sizes, Counted
<1>16. Counted(file')
  BY <1>12, <1>13, <1>14, <1>15 DEF Counted, Accounted, Unreferenced
<1> QED
  BY <1>1, <1>2, <1>16, NamesCounted

----------------------------------------------------------------------------
(* The invariant.                                                          *)

\* Every step keeps the books.
LEMMA BooksStep ==
    ASSUME Control, Content, Books, Trusted', [Next]_vars
    PROVE  Books'
<1>1. CASE UNCHANGED vars
  BY <1>1 DEF vars, rebuildVars, catalogVars, Books
<1>2. CASE JobStep
  <2>1. CASE OpenSource \/ ListSource
    BY <2>1, SourceBooks
  <2>2. CASE Create \/ CreateEnds
    BY <2>2, CreateBooks
  <2>3. CASE \/ \E j \in Rest : OpenEntry(j) \/ OpenMember(j)
             \/ \E n \in 1 .. BufSize : ReadStarts(n) \/ ReadCopies(n)
             \/ ReadReturns \/ PeekEnds \/ ReadEnds
    BY <2>3, EntryBooks
  <2>4. CASE CommitStarts \/ CommitEnds
    BY <2>4, CommitBooks
  <2>5. CASE Rename
    BY <2>5, RenameBooks
  <2>6. CASE Finish
    BY <2>6, EndBooks
  <2> QED
    BY <1>2, <2>1, <2>2, <2>3, <2>4, <2>5, <2>6 DEF JobStep
<1>3. CASE CallFails
  <2>1. job.pc # "none" /\ JobFails
    BY <1>3 DEF CallFails, Active
  <2> QED
    BY <2>1, FailedFacts, FailedBooks
<1>4. CASE \E p \in Live(file.entries), d \in Damages :
              \E k \in DOMAIN file.entries[p].chunks : Damage(p, k, d)
  BY <1>4, DamageBooks
<1>5. CASE UseContainer
  BY <1>5, UseBooks
<1>6. CASE Kill \/ PowerLoss
  BY <1>6, EndBooks
<1>7. CASE (\E o \in PackOpts : StartPack(o)) \/ \E z \in Archives, b \in BOOLEAN : StartZip(z, b)
  BY <1>7, StartBooks
<1> QED
  BY <1>1, <1>2, <1>3, <1>4, <1>5, <1>6, <1>7, Zenon DEF Next

\* They are right at the start, also those of an output from before.
LEMMA BooksInit ==
    ASSUME Init
    PROVE  Books
<1>1. /\ file = EmptyContainer /\ tx = NoTx /\ disk = {} /\ job.pc = "none"
      /\ other["tmp"] = NoFile /\ (other["out"] = NoFile \/ other["out"] = OldOutput)
  BY DEF Init, CatalogInit, NoJob
<1>2. Counted(OldOutput)
  <2> DEFINE es == EmptyContainer.entries
             v == CHOOSE v \in Vals : ChunkEnds[v] # <<>>
             p == PathOrder[1]
             t == BeginWith(es)
  <2>1. v \in Vals
    BY RebuildAssumption
  <2>2. p \in Paths
    <3>1. 1 \in DOMAIN PathOrder
      BY DirIndexAssumption, RebuildAssumption
    <3> QED
      BY <3>1 DEF Paths
  <2>3. /\ TxShape(t) /\ Sound(t.entries, 0) /\ Sizes(es) /\ CountedTx(t, es)
    BY BeginFacts, EmptyFacts, EmptyCounted, BeginCounted
  <2>4. OldOutput = Committed(EmptyContainer, Stored(t, p, v, NoMeta))
    BY DEF OldOutput
  <2> HIDE DEF v, p, t, es
  <2>5. CountedTx(Stored(t, p, v, NoMeta), es)
    BY <2>1, <2>2, <2>3, PutCounted
  <2> QED
    BY <2>4, <2>5, EmptyCounted, CountedCommit DEF es
<1>3. CountedIfAny(other["tmp"]) /\ CountedIfAny(other["out"])
  BY <1>1, <1>2, NoneCounted DEF CountedIfAny
<1> QED
  BY <1>1, <1>3, EmptyCounted DEF Books, Filling, Copies

\* The counts are right as long as the media and the options can be trusted.
THEOREM BooksInvariance == Spec => []BooksInv
<1>1. Init => BooksInv
  BY BooksInit DEF BooksInv
<1>2. Inv /\ BooksInv /\ [Next]_vars => BooksInv'
  BY TrustedKept, BooksStep DEF Inv, BooksInv
<1> QED
  BY <1>1, <1>2, Invariance, PTL DEF Spec

\* Up to saturation the header's dead bytes are the bytes of the payloads that were
\* stored and that no entry refers to any more; without what was appended for an
\* Add, Upsert or Replace that failed, and with what that one was to replace; in
\* the container, through all transactions and packs, and in what Pack and
\* ConvertZIPToFBX leave under the output's name.
THEOREM DeadBytesAccountedHolds == Spec => []DeadBytesAccounted
<1>1. BooksInv => DeadBytesAccounted
  BY DEF BooksInv, Books, CountedIfAny, Counted, DeadBytesAccounted
<1> QED
  BY <1>1, BooksInvariance, PTL
=============================================================================
