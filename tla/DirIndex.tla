------------------------------ MODULE DirIndex ------------------------------
(***************************************************************************)
(* The directory index: the rows a directory is written with, the hash     *)
(* ranges of its index, what a reader demands of them, and the lookup of a *)
(* path that Stat and OpenReader do on a container just opened.            *)
(*                                                                         *)
(* Rows are sorted by path and ranges by hash, and different paths may     *)
(* have the same hash, so the rows of one hash need not be neighbours.     *)
(***************************************************************************)
EXTENDS Integers, Sequences, FiniteSets

CONSTANTS
    PathOrder,  \* every path, in the order of the strings
    HashOf      \* FNV1a64 of each path

Paths == {PathOrder[i] : i \in DOMAIN PathOrder}

ASSUME DirIndexAssumption ==
    /\ PathOrder \in Seq(Paths)
    /\ \A i, j \in DOMAIN PathOrder : PathOrder[i] = PathOrder[j] => i = j
    /\ HashOf \in [Paths -> Nat]

\* What sort.Slice makes of the elements of S, of which R says, for any two,
\* which one is first.
Sorted(S, R) ==
    CHOOSE f \in [1 .. Cardinality(S) -> S] :
        \A i, j \in 1 .. Cardinality(S) : i < j => <<f[i], f[j]>> \in R

PathBefore ==
    {x \in Paths \X Paths :
        \E i, j \in DOMAIN PathOrder : i < j /\ x = <<PathOrder[i], PathOrder[j]>>}

\* The paths of a directory's rows; a row is known by its path.
EncodeDirectory(live) == Sorted(live, PathBefore)

Hash(rows, i) == HashOf[rows[i]]

\* Rows i to j share a hash with each other and not with their neighbours.
IsRun(rows, i, j) ==
    /\ i <= j
    /\ \A k \in i .. j : Hash(rows, k) = Hash(rows, i)
    /\ i > 1 => Hash(rows, i - 1) # Hash(rows, i)
    /\ j < Len(rows) => Hash(rows, j + 1) # Hash(rows, i)

HashRange(rows, i, j) == [hash |-> Hash(rows, i), first |-> i, span |-> j - i + 1]

HashRanges(rows) ==
    LET runs == {x \in (DOMAIN rows) \X (DOMAIN rows) : IsRun(rows, x[1], x[2])}
    IN  {HashRange(rows, x[1], x[2]) : x \in runs}

RangeBefore(S) ==
    {x \in S \X S : \/ x[1].hash < x[2].hash
                    \/ x[1].hash = x[2].hash /\ x[1].first < x[2].first}

buildDirIndexHashRanges(rows) == Sorted(HashRanges(rows), RangeBefore(HashRanges(rows)))

\* What DecodeDirIndexV1 demands of an index before Open uses it.
validateDirIndexV1(rows, ranges) ==
    LET RowsOf(x) == x.first .. x.first + x.span - 1
    IN  /\ \A i \in DOMAIN ranges :
            /\ ranges[i].span > 0
            /\ RowsOf(ranges[i]) \subseteq DOMAIN rows
            /\ \A j \in RowsOf(ranges[i]) : Hash(rows, j) = ranges[i].hash
            /\ i > 1 => ranges[i - 1].hash <= ranges[i].hash
        /\ \A i, j \in DOMAIN ranges :
            i # j => RowsOf(ranges[i]) \cap RowsOf(ranges[j]) = {}

\* Mutant: only the first range of the hash is searched.
findEntryByPathFromDirIndex_FirstRange(rows, ranges, p) ==
    {j \in DOMAIN rows :
        /\ rows[j] = p
        /\ \E i \in DOMAIN ranges :
            /\ ranges[i].hash = HashOf[p]
            /\ \A k \in 1 .. i - 1 : ranges[k].hash < HashOf[p]
            /\ j \in ranges[i].first .. ranges[i].first + ranges[i].span - 1}

\* The rows that match p among the ranges from the first whose hash is not
\* smaller, as long as the hash is p's.
findEntryByPathFromDirIndex(rows, ranges, p) ==
    LET pos == {i \in DOMAIN ranges :
                    /\ ranges[i].hash >= HashOf[p]
                    /\ \A k \in 1 .. i - 1 : ranges[k].hash < HashOf[p]}
    IN  {j \in DOMAIN rows :
            /\ rows[j] = p
            /\ \E i \in DOMAIN ranges :
                /\ \E s \in pos : s <= i /\ \A k \in s .. i : ranges[k].hash = HashOf[p]
                /\ j \in ranges[i].first .. ranges[i].first + ranges[i].span - 1}
=============================================================================
