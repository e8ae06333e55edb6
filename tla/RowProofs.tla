------------------------------ MODULE RowProofs ------------------------------
(***************************************************************************)
(* Proofs about record numbering and the change report, for any number of  *)
(* bindings, queries, columns and rows.                                    *)
(*                                                                         *)
(* The orders first: comparing column by column is a weak order, breaking  *)
(* its ties by delivery makes it total, in a finite total order every rank *)
(* belongs to exactly one row, and so a sort is a permutation, the same    *)
(* one however its rows were delivered.  Then two inductive invariants:    *)
(* CacheInv (the cache holds fresh orders only), and ReportInv (what is    *)
(* remembered of a binding is the print of what it showed, and its stamp   *)
(* still tells that content).                                              *)
(*                                                                         *)
(* Under a key that names each row once, a row of the old result and a row *)
(* of the new one are paired when their keys agree (Paired), and what the  *)
(* review reports is read off the pairing: a row is inserted or removed    *)
(* when nothing is paired with it, updated when the two contents differ    *)
(* (MatchedRows).  Counts follow because a pairing that is unique both     *)
(* ways makes two finite sets as large as one another (PairedCounts).  A   *)
(* cell that differs is in a column the review names (DifferenceNamed), so *)
(* a binding that reads it is named too.                                   *)
(*                                                                         *)
(* The state enters the review by its types only: any results, keys,       *)
(* templates and bindings the calls can have left are compared rightly.    *)
(***************************************************************************)
EXTENDS RowReview, FiniteSetTheorems, FunctionTheorems, SequenceTheorems,
        NaturalsInduction, WellFoundedInduction, TLAPS

USE ReportAssumption

-----------------------------------------------------------------------------
(* Ranks in a finite strict order.                                         *)

\* The members of 1..n that R puts before i.
Below(R, n, i) == {j \in 1..n : <<j, i>> \in R}

StrictOrder(R, n) ==
    /\ \A i \in 1..n : <<i, i>> \notin R
    /\ \A i, j, k \in 1..n : <<i, j>> \in R /\ <<j, k>> \in R => <<i, k>> \in R
    /\ \A i, j \in 1..n : i # j => <<i, j>> \in R \/ <<j, i>> \in R

\* The number of members before i is a number below n.
LEMMA BelowSize ==
    ASSUME NEW n \in Nat, NEW R, StrictOrder(R, n), NEW i \in 1..n
    PROVE  /\ IsFiniteSet(Below(R, n, i)) /\ Cardinality(Below(R, n, i)) \in Nat
           /\ Cardinality(Below(R, n, i)) < n
<1>1. IsFiniteSet(1..n) /\ Cardinality(1..n) = n
    BY FS_Interval
<1>2. Below(R, n, i) \subseteq (1..n) \ {i}
    BY DEF Below, StrictOrder
<1>3. IsFiniteSet((1..n) \ {i}) /\ Cardinality((1..n) \ {i}) = n - 1
    <2> DEFINE D == 1..n
    <2>1. IsFiniteSet(D) /\ Cardinality(D) = n /\ i \in D
        BY <1>1
    <2> HIDE DEF D
    <2>2. IsFiniteSet(D \ {i}) /\ Cardinality(D \ {i}) = n - 1
        BY <2>1, FS_RemoveElement
    <2> QED
        BY <2>2 DEF D
<1>4. IsFiniteSet(Below(R, n, i)) /\ Cardinality(Below(R, n, i)) <= n - 1
    BY <1>2, <1>3, FS_Subset
<1>5. Cardinality(Below(R, n, i)) \in Nat
    BY <1>4, FS_CardinalityType
<1> QED
    BY <1>4, <1>5

\* It grows with the order.
LEMMA BelowGrows ==
    ASSUME NEW n \in Nat, NEW R, StrictOrder(R, n), NEW i \in 1..n, NEW j \in 1..n, <<i, j>> \in R
    PROVE  Cardinality(Below(R, n, i)) < Cardinality(Below(R, n, j))
<1>1. i \notin Below(R, n, i) /\ Below(R, n, i) \cup {i} \subseteq Below(R, n, j)
    BY DEF Below, StrictOrder
<1>2. Cardinality(Below(R, n, i) \cup {i}) = Cardinality(Below(R, n, i)) + 1
    BY <1>1, BelowSize, FS_AddElement
<1>3. Cardinality(Below(R, n, i) \cup {i}) <= Cardinality(Below(R, n, j))
    BY <1>1, BelowSize, FS_Subset
<1> QED
    BY <1>2, <1>3, BelowSize

\* So every rank belongs to exactly one member.
LEMMA RankOfOrder ==
    ASSUME NEW n \in Nat, NEW R, StrictOrder(R, n)
    PROVE  /\ \A i, j \in 1..n : Cardinality(Below(R, n, i)) = Cardinality(Below(R, n, j)) => i = j
           /\ \A k \in 1..n : \E i \in 1..n : Cardinality(Below(R, n, i)) = k - 1
<1>1. \A i, j \in 1..n : Cardinality(Below(R, n, i)) = Cardinality(Below(R, n, j)) => i = j
    <2> SUFFICES ASSUME NEW i \in 1..n, NEW j \in 1..n, i # j
                 PROVE  Cardinality(Below(R, n, i)) # Cardinality(Below(R, n, j))
        OBVIOUS
    <2>1. Cardinality(Below(R, n, i)) \in Nat /\ Cardinality(Below(R, n, j)) \in Nat
        BY BelowSize
    <2>2. CASE <<i, j>> \in R
        BY <2>1, <2>2, BelowGrows
    <2>3. CASE <<j, i>> \in R
        BY <2>1, <2>3, BelowGrows
    <2> QED
        BY <2>2, <2>3 DEF StrictOrder
<1> DEFINE rank == [i \in 1..n |-> Cardinality(Below(R, n, i)) + 1]
<1>2. rank \in [1..n -> 1..n]
    BY BelowSize
<1>3. \A i, j \in 1..n : rank[i] = rank[j] => i = j
    <2> SUFFICES ASSUME NEW i \in 1..n, NEW j \in 1..n, rank[i] = rank[j]
                 PROVE  i = j
        OBVIOUS
    <2>1. Cardinality(Below(R, n, i)) \in Nat /\ Cardinality(Below(R, n, j)) \in Nat
        BY BelowSize
    <2> QED
        BY <1>1, <2>1
<1>4. rank \in Injection(1..n, 1..n)
    BY <1>2, <1>3, Fun_IsInj
<1>5. IsFiniteSet(1..n)
    BY FS_Interval
<1>6. rank \in Surjection(1..n, 1..n)
    BY <1>4, <1>5, FS_Injection
<1>7. ASSUME NEW k \in 1..n
      PROVE  \E i \in 1..n : Cardinality(Below(R, n, i)) = k - 1
    <2>1. PICK i \in 1..n : rank[i] = k
        BY <1>6 DEF Surjection
    <2>2. Cardinality(Below(R, n, i)) \in Nat
        BY BelowSize
    <2> QED
        BY <2>1, <2>2
<1> QED
    BY <1>1, <1>7

-----------------------------------------------------------------------------
(* Rows compared column by column.                                         *)

\* Rows i and j agree on every column of cols the result has.
Agree(res, i, j, cols) ==
    \A k \in DOMAIN cols : res.rows[i][cols[k]] = res.rows[j][cols[k]]

\* What a result is made of: cells are numbers, and absent ones agree.
LEMMA ResultCells ==
    ASSUME NEW res \in Result
    PROVE  /\ Len(res.rows) \in Nat /\ res.schema \in Schema /\ res.schema \in Seq(Column)
           /\ res.rows \in [Rows(res) -> [Column -> Value \cup {Absent}]]
           /\ \A i \in Rows(res), c \in ColumnsOf(res.schema) : res.rows[i][c] \in Nat
           /\ \A i, j \in Rows(res), c \in Column :
                  c \notin ColumnsOf(res.schema) => res.rows[i][c] = res.rows[j][c]
<1>1. PICK n \in 0..MaxRows : res.rows \in [1..n -> [Column -> Value \cup {Absent}]]
    BY DEF Result
<1>2. n \in Nat /\ res.rows \in Seq([Column -> Value \cup {Absent}])
    BY <1>1
<1>3. Len(res.rows) = n
    BY <1>1, <1>2
<1>4. res.schema \in Schema /\ res.schema \in Seq(Column)
    BY DEF Result
<1>5. \A i \in Rows(res), c \in Column : res.rows[i][c] = Absent <=> c \notin ColumnsOf(res.schema)
    BY <1>1, <1>3 DEF Result, Rows
<1>6. ColumnsOf(res.schema) \subseteq Column
    BY <1>4 DEF ColumnsOf
<1>7. res.rows \in [Rows(res) -> [Column -> Value \cup {Absent}]]
    BY <1>1, <1>3 DEF Rows
<1>8. ASSUME NEW i \in Rows(res), NEW c \in ColumnsOf(res.schema)
      PROVE  res.rows[i][c] \in Nat
    <2>1. c \in Column /\ res.rows[i] \in [Column -> Value \cup {Absent}]
        BY <1>6, <1>7
    <2>2. res.rows[i][c] \in Value
        BY <1>5, <2>1
    <2> QED
        BY <2>2
<1> QED
    BY <1>2, <1>3, <1>4, <1>5, <1>7, <1>8

\* A cell of a key is a number, or absent from both rows.
LEMMA CellsCompare ==
    ASSUME NEW res \in Result, NEW cols \in Seq(Column),
           NEW i \in Rows(res), NEW j \in Rows(res), NEW k \in DOMAIN cols
    PROVE  \/ /\ cols[k] \in ColumnsOf(res.schema)
              /\ res.rows[i][cols[k]] \in Nat /\ res.rows[j][cols[k]] \in Nat
           \/ /\ cols[k] \notin ColumnsOf(res.schema)
              /\ res.rows[i][cols[k]] = res.rows[j][cols[k]]
<1>1. cols[k] \in Column
    OBVIOUS
<1> QED
    BY <1>1, ResultCells

\* No row is before itself.
LEMMA BeforeIrreflexive ==
    ASSUME NEW res \in Result, NEW cols \in Seq(Column), NEW i \in Rows(res)
    PROVE  ~Before(res, i, i, cols)
BY CellsCompare DEF Before

\* Rows that agree are placed alike.
LEMMA BeforeCongruent ==
    ASSUME NEW res \in Result, NEW cols \in Seq(Column),
           NEW i \in Rows(res), NEW j \in Rows(res), NEW x \in Rows(res), NEW y \in Rows(res),
           Agree(res, i, x, cols), Agree(res, j, y, cols), Before(res, i, j, cols)
    PROVE  Before(res, x, y, cols)
<1>1. PICK k \in DOMAIN cols :
        /\ cols[k] \in ColumnsOf(res.schema)
        /\ res.rows[i][cols[k]] < res.rows[j][cols[k]]
        /\ \A m \in 1..(k - 1) : res.rows[i][cols[m]] = res.rows[j][cols[m]]
    BY DEF Before
<1>2. \A m \in 1..(k - 1) : m \in DOMAIN cols
    BY LenProperties
<1>3. \A m \in 1..(k - 1) : res.rows[x][cols[m]] = res.rows[y][cols[m]]
    BY <1>1, <1>2 DEF Agree
<1>4. res.rows[x][cols[k]] < res.rows[y][cols[k]]
    BY <1>1 DEF Agree
<1> QED
    BY <1>1, <1>3, <1>4 DEF Before

LEMMA BeforeTransitive ==
    ASSUME NEW res \in Result, NEW cols \in Seq(Column),
           NEW i \in Rows(res), NEW j \in Rows(res), NEW l \in Rows(res),
           Before(res, i, j, cols), Before(res, j, l, cols)
    PROVE  Before(res, i, l, cols)
<1>1. PICK k \in DOMAIN cols :
        /\ cols[k] \in ColumnsOf(res.schema)
        /\ res.rows[i][cols[k]] < res.rows[j][cols[k]]
        /\ \A m \in 1..(k - 1) : res.rows[i][cols[m]] = res.rows[j][cols[m]]
    BY DEF Before
<1>2. PICK h \in DOMAIN cols :
        /\ cols[h] \in ColumnsOf(res.schema)
        /\ res.rows[j][cols[h]] < res.rows[l][cols[h]]
        /\ \A m \in 1..(h - 1) : res.rows[j][cols[m]] = res.rows[l][cols[m]]
    BY DEF Before
<1>3. k \in Nat /\ h \in Nat /\ 1 <= k /\ 1 <= h
    BY LenProperties
<1>4. CASE k < h
    <2>1. res.rows[i][cols[k]] < res.rows[l][cols[k]]
        BY <1>1, <1>2, <1>3, <1>4
    <2>2. \A m \in 1..(k - 1) : res.rows[i][cols[m]] = res.rows[l][cols[m]]
        BY <1>1, <1>2, <1>3, <1>4
    <2> QED
        BY <1>1, <2>1, <2>2 DEF Before
<1>5. CASE h < k
    <2>1. res.rows[i][cols[h]] < res.rows[l][cols[h]]
        BY <1>1, <1>2, <1>3, <1>5
    <2>2. \A m \in 1..(h - 1) : res.rows[i][cols[m]] = res.rows[l][cols[m]]
        BY <1>1, <1>2, <1>3, <1>5
    <2> QED
        BY <1>2, <2>1, <2>2 DEF Before
<1>6. CASE h = k
    <2>1. res.rows[i][cols[k]] < res.rows[l][cols[k]]
        BY <1>1, <1>2, <1>6, ResultCells
    <2>2. \A m \in 1..(k - 1) : res.rows[i][cols[m]] = res.rows[l][cols[m]]
        BY <1>1, <1>2, <1>6
    <2> QED
        BY <1>1, <2>1, <2>2 DEF Before
<1> QED
    BY <1>3, <1>4, <1>5, <1>6

\* Of some numbers one is the least.
LEMMA LeastNumber ==
    ASSUME NEW S, S \subseteq Nat, S # {}
    PROVE  \E k \in S : \A m \in S : k <= m
<1> DEFINE R == OpToRel(<, Nat)
<1>1. IsWellFoundedOn(R, Nat)
    BY NatLessThanWellFounded
<1> HIDE DEF R
<1>2. \E x \in S : \A y \in S : ~(<<y, x>> \in R)
    BY <1>1, WFMin, ZenonT(60)
<1>3. PICK k \in S : \A m \in S : ~(<<m, k>> \in R)
    BY <1>2
<1>4. \A m \in S : ~(m < k)
    BY <1>3 DEF OpToRel, R
<1> QED
    BY <1>4

\* Rows neither of which is before the other agree.
LEMMA BeforeTotal ==
    ASSUME NEW res \in Result, NEW cols \in Seq(Column),
           NEW i \in Rows(res), NEW j \in Rows(res), ~Agree(res, i, j, cols)
    PROVE  Before(res, i, j, cols) \/ Before(res, j, i, cols)
<1> DEFINE Differ == {k \in DOMAIN cols : res.rows[i][cols[k]] # res.rows[j][cols[k]]}
<1>1. Differ # {} /\ Differ \subseteq Nat
    BY LenProperties DEF Agree
<1> HIDE DEF Differ
<1>2. PICK k \in Differ : \A m \in Differ : k <= m
    BY <1>1, LeastNumber
<1>3. \A m \in Differ : ~(m < k)
    BY <1>1, <1>2
<1> USE DEF Differ
<1>4. k \in Nat /\ \A m \in 1..(k - 1) : m \in DOMAIN cols /\ m < k
    BY LenProperties
<1>5. \A m \in 1..(k - 1) : res.rows[i][cols[m]] = res.rows[j][cols[m]]
    BY <1>3, <1>4
<1>6. /\ cols[k] \in ColumnsOf(res.schema)
      /\ res.rows[i][cols[k]] \in Nat /\ res.rows[j][cols[k]] \in Nat
    BY CellsCompare
<1>7. \/ res.rows[i][cols[k]] < res.rows[j][cols[k]]
      \/ res.rows[j][cols[k]] < res.rows[i][cols[k]]
    BY <1>6
<1> QED
    BY <1>5, <1>6, <1>7 DEF Before

-----------------------------------------------------------------------------
(* A stable sort is a permutation of the rows, and the only one of its     *)
(* ranks.                                                                  *)

RowOrder(res, cols) == {x \in Rows(res) \X Rows(res) : Precedes(res, x[1], x[2], cols)}

LEMMA PrecedesTransitive ==
    ASSUME NEW res \in Result, NEW cols \in Seq(Column),
           NEW i \in Rows(res), NEW j \in Rows(res), NEW k \in Rows(res),
           Precedes(res, i, j, cols), Precedes(res, j, k, cols)
    PROVE  Precedes(res, i, k, cols)
<1> USE BeforeIrreflexive, BeforeTransitive DEF Precedes
<1>1. i \in Int /\ j \in Int /\ k \in Int
    BY ResultCells DEF Rows
<1>2. \A x \in Rows(res) : Agree(res, x, x, cols)
    BY DEF Agree
<1>3. CASE Before(res, i, j, cols) /\ Before(res, j, k, cols)
    BY <1>3
<1>4. CASE Before(res, i, j, cols) /\ ~Before(res, j, k, cols)
    <2>1. Agree(res, j, k, cols)
        BY <1>4, BeforeTotal
    <2> QED
        BY <1>2, <1>4, <2>1, BeforeCongruent
<1>5. CASE ~Before(res, i, j, cols) /\ Before(res, j, k, cols)
    <2>1. Agree(res, j, i, cols)
        BY <1>5, BeforeTotal DEF Agree
    <2> QED
        BY <1>2, <1>5, <2>1, BeforeCongruent
<1>6. CASE ~Before(res, i, j, cols) /\ ~Before(res, j, k, cols)
    <2>1. Agree(res, i, j, cols) /\ Agree(res, j, k, cols)
        BY <1>6, BeforeTotal
    <2>2. Agree(res, k, i, cols)
        BY <2>1 DEF Agree
    <2>3. ~Before(res, k, i, cols)
        BY <1>2, <2>2, BeforeCongruent
    <2> QED
        BY <1>1, <1>6, <2>3
<1> QED
    BY <1>3, <1>4, <1>5, <1>6

LEMMA PrecedesIsOrder ==
    ASSUME NEW res \in Result, NEW cols \in Seq(Column)
    PROVE  /\ Len(res.rows) \in Nat
           /\ StrictOrder(RowOrder(res, cols), Len(res.rows))
           /\ \A i \in Rows(res) :
                  {j \in Rows(res) : Precedes(res, j, i, cols)} = Below(RowOrder(res, cols), Len(res.rows), i)
<1>1. Len(res.rows) \in Nat /\ Rows(res) = 1..Len(res.rows)
    BY ResultCells DEF Rows
<1>2. \A i, j \in Rows(res) : <<i, j>> \in RowOrder(res, cols) <=> Precedes(res, i, j, cols)
    BY DEF RowOrder
<1>3. \A i \in Rows(res) : ~Precedes(res, i, i, cols)
    BY <1>1, BeforeIrreflexive DEF Precedes
<1>4. \A i, j, k \in Rows(res) :
        Precedes(res, i, j, cols) /\ Precedes(res, j, k, cols) => Precedes(res, i, k, cols)
    BY PrecedesTransitive
<1>5. \A i, j \in Rows(res) : i # j => Precedes(res, i, j, cols) \/ Precedes(res, j, i, cols)
    BY <1>1 DEF Precedes
<1>6. StrictOrder(RowOrder(res, cols), Len(res.rows))
    BY <1>1, <1>2, <1>3, <1>4, <1>5 DEF StrictOrder
<1>7. \A i \in Rows(res) :
        {j \in Rows(res) : Precedes(res, j, i, cols)} = Below(RowOrder(res, cols), Len(res.rows), i)
    BY <1>1, <1>2 DEF Below
<1> QED
    BY <1>1, <1>6, <1>7

\* The record at a place of a sort: the one row with as many rows before it.
LEMMA SortedAt ==
    ASSUME NEW res \in Result, NEW cols \in Seq(Column), NEW n \in Rows(res)
    PROVE  /\ SortedBy(res, cols)[n] \in Rows(res)
           /\ \A i \in Rows(res) :
                  Cardinality({j \in Rows(res) : Precedes(res, j, i, cols)}) = n - 1
                      <=> i = SortedBy(res, cols)[n]
<1> DEFINE Rank(i) == Cardinality({j \in Rows(res) : Precedes(res, j, i, cols)})
<1>1. \A i \in Rows(res) : Rank(i) = Cardinality(Below(RowOrder(res, cols), Len(res.rows), i))
    BY PrecedesIsOrder
<1>2. Rows(res) = 1..Len(res.rows)
    BY DEF Rows
<1>3. \A i, j \in Rows(res) : Rank(i) = Rank(j) => i = j
    BY <1>1, <1>2, PrecedesIsOrder, RankOfOrder
<1>4. \E i \in Rows(res) : Rank(i) = n - 1
    <2>1. \A k \in 1..Len(res.rows) :
            \E i \in 1..Len(res.rows) : Cardinality(Below(RowOrder(res, cols), Len(res.rows), i)) = k - 1
        BY PrecedesIsOrder, RankOfOrder
    <2>2. PICK i \in Rows(res) : Cardinality(Below(RowOrder(res, cols), Len(res.rows), i)) = n - 1
        BY <1>2, <2>1
    <2> QED
        BY <1>1, <2>2
<1>5. SortedBy(res, cols)[n] = CHOOSE i \in Rows(res) : Rank(i) = n - 1
    BY DEF SortedBy
<1> HIDE DEF Rank
<1>6. SortedBy(res, cols)[n] \in Rows(res) /\ Rank(SortedBy(res, cols)[n]) = n - 1
    BY <1>4, <1>5
<1>7. \A i \in Rows(res) : Rank(i) = n - 1 <=> i = SortedBy(res, cols)[n]
    BY <1>3, <1>6
<1> QED
    BY <1>6, <1>7 DEF Rank

\* As delivered: without columns a stable sort moves nothing.
LEMMA DeliveredUnsorted ==
    ASSUME NEW res \in Result
    PROVE  DeliveredOrder(res, <<>>) = [n \in Rows(res) |-> n]
<1>1. <<>> \in Seq(Column)
    OBVIOUS
<1>2. \A i, j \in Rows(res) : ~Before(res, i, j, <<>>)
    BY DEF Before
<1>3. ASSUME NEW n \in Rows(res)
      PROVE  SortedBy(res, <<>>)[n] = n
    <2>1. n \in Int /\ 1 <= n /\ Rows(res) = 1..Len(res.rows) /\ Len(res.rows) \in Nat
        BY ResultCells DEF Rows
    <2>2. {j \in Rows(res) : Precedes(res, j, n, <<>>)} = 1..(n - 1)
        BY <1>2, <2>1 DEF Precedes
    <2>3. Cardinality(1..(n - 1)) = n - 1
        BY <2>1, FS_Interval
    <2>4. Cardinality({j \in Rows(res) : Precedes(res, j, n, <<>>)}) = n - 1
        BY <2>2, <2>3
    <2>5. \A i \in Rows(res) :
            Cardinality({j \in Rows(res) : Precedes(res, j, i, <<>>)}) = n - 1
                <=> i = SortedBy(res, <<>>)[n]
        BY <1>1, SortedAt
    <2> QED
        BY <2>4, <2>5
<1>4. SortedBy(res, <<>>) = [n \in Rows(res) |-> SortedBy(res, <<>>)[n]]
    <2> DEFINE at(n) == CHOOSE i \in Rows(res) :
                            Cardinality({j \in Rows(res) : Precedes(res, j, i, <<>>)}) = n - 1
    <2>1. SortedBy(res, <<>>) = [n \in Rows(res) |-> at(n)]
        BY DEF SortedBy
    <2> HIDE DEF at
    <2> QED
        BY <2>1
<1> QED
    BY <1>3, <1>4 DEF DeliveredOrder

\* The scan finds the first record of the full sort.
LEMMA ScanFindsFirst ==
    ASSUME NEW res \in Result, Rows(res) # {}
    PROVE  FirstStableRow(res) = StableOrder(res, <<>>)[1]
<1> DEFINE Least(i) == \A j \in Rows(res) : \/ Before(res, i, j, res.schema)
                                            \/ ~Before(res, j, i, res.schema) /\ i <= j
           first == StableOrder(res, <<>>)[1]
<1>1. res.schema \in Seq(Column) /\ Rows(res) = 1..Len(res.rows) /\ Len(res.rows) \in Nat
    BY ResultCells DEF Rows
<1>2. 1 \in Rows(res)
    BY <1>1
<1>3. first = SortedBy(res, res.schema)[1]
    <2>1. <<>> \o res.schema = res.schema
        BY <1>1, ConcatEmptySeq
    <2> QED
        BY <2>1 DEF StableOrder
<1>4. ASSUME NEW i \in Rows(res)
      PROVE  Least(i) <=> i = first
    <2> DEFINE Under == {j \in Rows(res) : Precedes(res, j, i, res.schema)}
    <2>1. IsFiniteSet(Under)
        <3>1. Under = Below(RowOrder(res, res.schema), Len(res.rows), i)
            BY <1>1, PrecedesIsOrder
        <3>2. StrictOrder(RowOrder(res, res.schema), Len(res.rows))
            BY <1>1, PrecedesIsOrder
        <3>3. IsFiniteSet(Below(RowOrder(res, res.schema), Len(res.rows), i))
            BY <1>1, <3>2, BelowSize
        <3> QED
            BY <3>1, <3>3
    <2>2. i = first <=> Cardinality(Under) = 0
        <3>1. \A k \in Rows(res) :
                Cardinality({j \in Rows(res) : Precedes(res, j, k, res.schema)}) = 1 - 1
                    <=> k = SortedBy(res, res.schema)[1]
            <4> HIDE DEF Under
            <4>1. 1 \in Rows(res) /\ res.schema \in Seq(Column)
                BY <1>1, <1>2
            <4> QED
                BY <4>1, SortedAt
        <3>2. Cardinality(Under) = 1 - 1 <=> i = SortedBy(res, res.schema)[1]
            BY <3>1
        <3> QED
            BY <1>3, <3>2
    <2>3. i = first <=> Under = {}
        BY <2>1, <2>2, FS_EmptySet
    <2>4. \A j \in Rows(res) : i # j => Precedes(res, i, j, res.schema) \/ Precedes(res, j, i, res.schema)
        BY <1>1 DEF Precedes
    <2>6. ~Before(res, i, i, res.schema)
        BY <1>1, BeforeIrreflexive
    <2>8. ~Precedes(res, i, i, res.schema)
        BY <1>1, <2>6 DEF Precedes
    <2>5. \A j \in Rows(res) : ~(Precedes(res, i, j, res.schema) /\ Precedes(res, j, i, res.schema))
        BY <1>1, <2>8, PrecedesTransitive
    <2>7. ASSUME NEW j \in Rows(res)
          PROVE  (Before(res, i, j, res.schema) \/ (~Before(res, j, i, res.schema) /\ i <= j))
                    <=> ~Precedes(res, j, i, res.schema)
        <3>1. CASE j = i
            BY <1>1, <2>6, <3>1 DEF Precedes
        <3>2. CASE j # i
            BY <1>1, <2>4, <2>5, <3>2 DEF Precedes
        <3> QED
            BY <3>1, <3>2
    <2> QED
        BY <2>3, <2>7
<1>5. first \in Rows(res)
    BY <1>1, <1>2, <1>3, SortedAt
<1> HIDE DEF Least
<1>6. (CHOOSE i \in Rows(res) : Least(i)) = first
    BY <1>4, <1>5
<1> QED
    BY <1>6 DEF FirstStableRow, Least

-----------------------------------------------------------------------------
(* The same rows delivered in another order.                               *)

\* The ways to deliver the rows of a result.
Deliveries(res) ==
    {f \in [Rows(res) -> Rows(res)] : {f[i] : i \in Rows(res)} = Rows(res)}

LEMMA PermutedResult ==
    ASSUME NEW res \in Result, NEW p \in Deliveries(res)
    PROVE  /\ Permuted(res, p) \in Result /\ Permuted(res, p).schema = res.schema
           /\ Rows(Permuted(res, p)) = Rows(res)
           /\ \A i \in Rows(res) : Permuted(res, p).rows[i] = res.rows[p[i]] /\ p[i] \in Rows(res)
<1> DEFINE other == Permuted(res, p)
           Cells == [Column -> Value \cup {Absent}]
<1>1. PICK n \in 0..MaxRows : res.rows \in [1..n -> Cells]
    BY DEF Result
<1>2. n \in Nat /\ Len(res.rows) = n /\ Rows(res) = 1..n
    BY <1>1 DEF Rows
<1>3. p \in [1..n -> 1..n]
    BY <1>2 DEF Deliveries
<1> DEFINE moved == [i \in 1..n |-> res.rows[p[i]]]
           Records == [schema : Schema, rows : UNION {[1..m -> Cells] : m \in 0..MaxRows}]
<1>4. res \in Records /\ moved \in UNION {[1..m -> Cells] : m \in 0..MaxRows}
    <2>1. res \in Records
        BY DEF Result
    <2>2. moved \in [1..n -> Cells] /\ [1..n -> Cells] \in {[1..m -> Cells] : m \in 0..MaxRows}
        BY <1>1, <1>3
    <2> QED
        BY <2>1, <2>2
<1>5. other = [res EXCEPT !.rows = moved]
    BY <1>2 DEF Permuted
<1>6. other.rows = [i \in 1..n |-> res.rows[p[i]]] /\ other.schema = res.schema
    <2> HIDE DEF moved
    <2>1. other.rows = moved /\ other.schema = res.schema
        BY <1>4, <1>5
    <2> QED
        BY <2>1 DEF moved
<1>7. other.rows \in [1..n -> Cells]
    BY <1>1, <1>3, <1>6
<1>8. Rows(other) = Rows(res)
    BY <1>2, <1>7 DEF Rows
<1>9. \A i \in DOMAIN other.rows, c \in Column :
        other.rows[i][c] = Absent <=> c \notin ColumnsOf(other.schema)
    <2>1. \A i \in 1..n, c \in Column : res.rows[i][c] = Absent <=> c \notin ColumnsOf(res.schema)
        BY <1>1 DEF Result
    <2>2. DOMAIN other.rows = 1..n /\ \A i \in 1..n : other.rows[i] = res.rows[p[i]] /\ p[i] \in 1..n
        BY <1>3, <1>6
    <2> QED
        BY <1>6, <2>1, <2>2
<1>10. other \in Records
    <2> HIDE DEF moved
    <2> QED
        BY <1>4, <1>5
<1>11. other \in Result
    BY <1>9, <1>10 DEF Result
<1> QED
    BY <1>2, <1>3, <1>6, <1>8, <1>11

LEMMA PermutedBefore ==
    ASSUME NEW res \in Result, NEW p \in Deliveries(res), NEW cols \in Seq(Column),
           NEW i \in Rows(res), NEW j \in Rows(res)
    PROVE  Before(Permuted(res, p), i, j, cols) <=> Before(res, p[i], p[j], cols)
<1>1. /\ Permuted(res, p).schema = res.schema
      /\ Permuted(res, p).rows[i] = res.rows[p[i]] /\ Permuted(res, p).rows[j] = res.rows[p[j]]
    BY PermutedResult
<1> QED
    BY <1>1 DEF Before

LEMMA DeliveryIsBijection ==
    ASSUME NEW res \in Result, NEW p \in Deliveries(res)
    PROVE  /\ \A i, j \in Rows(res) : p[i] = p[j] => i = j
           /\ \A k \in Rows(res) : \E i \in Rows(res) : p[i] = k
<1>1. p \in [Rows(res) -> Rows(res)] /\ \A k \in Rows(res) : \E i \in Rows(res) : p[i] = k
    BY DEF Deliveries
<1>2. p \in Surjection(Rows(res), Rows(res))
    BY <1>1, Fun_IsSurj
<1>3. IsFiniteSet(Rows(res))
    BY ResultCells, FS_Interval DEF Rows
<1>4. p \in Injection(Rows(res), Rows(res))
    BY <1>2, <1>3, FS_Surjection
<1> QED
    BY <1>1, <1>4 DEF Injection, IsInjective

\* The rows before the record at place n: with it, they are n.
Under(res, cols, n) == {j \in Rows(res) : Precedes(res, j, SortedBy(res, cols)[n], cols)}

LEMMA SortedRank ==
    ASSUME NEW res \in Result, NEW cols \in Seq(Column), NEW n \in Rows(res)
    PROVE  /\ SortedBy(res, cols)[n] \in Rows(res) /\ SortedBy(res, cols)[n] \notin Under(res, cols, n)
           /\ IsFiniteSet(Under(res, cols, n))
           /\ Cardinality(Under(res, cols, n)) \in Nat /\ Cardinality(Under(res, cols, n)) < n
           /\ Cardinality(Under(res, cols, n) \cup {SortedBy(res, cols)[n]}) = n
<1> DEFINE i == SortedBy(res, cols)[n]
           under == Under(res, cols, n)
<1>1. i \in Rows(res) /\ Rows(res) = 1..Len(res.rows) /\ Len(res.rows) \in Nat
    BY SortedAt, ResultCells DEF Rows
<1>2. IsFiniteSet(Rows(res)) /\ under \in SUBSET Rows(res)
    BY <1>1, FS_Interval DEF Under
<1>3. IsFiniteSet(under)
    BY <1>2, FS_Subset
<1>4. ~Precedes(res, i, i, cols)
    BY <1>1, BeforeIrreflexive DEF Precedes
<1>5. Cardinality(under) = n - 1
    <2>1. \A k \in Rows(res) :
            Cardinality({j \in Rows(res) : Precedes(res, j, k, cols)}) = n - 1
                <=> k = SortedBy(res, cols)[n]
        BY SortedAt
    <2> QED
        BY <1>1, <2>1 DEF Under
<1>6. i \notin under
    BY <1>4 DEF Under
<1> HIDE DEF under
<1>7. Cardinality(under \cup {i}) = Cardinality(under) + 1
    BY <1>3, <1>6, FS_AddElement
<1>8. Cardinality(under \cup {i}) = n
    BY <1>1, <1>5, <1>7
<1> QED
    BY <1>1, <1>3, <1>5, <1>6, <1>8 DEF under

\* A set whose rows all come from another is no larger.
LEMMA DeliveredCount ==
    ASSUME NEW res \in Result, NEW p \in Deliveries(res),
           NEW U \in SUBSET Rows(res), NEW V \in SUBSET Rows(res),
           \A k \in V : \E i \in U : p[i] = k
    PROVE  Cardinality(V) <= Cardinality(U)
<1> DEFINE W == {i \in U : p[i] \in V}
           f == [i \in W |-> p[i]]
<1>1. Rows(res) = 1..Len(res.rows) /\ Len(res.rows) \in Nat
    BY ResultCells DEF Rows
<1>2. IsFiniteSet(Rows(res))
    BY <1>1, FS_Interval
<1>3. IsFiniteSet(U)
    BY <1>2, FS_Subset
<1>4. IsFiniteSet(W) /\ Cardinality(W) <= Cardinality(U)
    BY <1>3, FS_Subset
<1>5. f \in [W -> V] /\ \A k \in V : \E i \in W : f[i] = k
    OBVIOUS
<1> HIDE DEF W, f
<1>6. f \in Surjection(W, V)
    BY <1>5, Fun_IsSurj
<1>7. IsFiniteSet(V) /\ Cardinality(V) <= Cardinality(W)
    BY <1>4, <1>6, FS_Surjection
<1> QED
    BY <1>3, <1>4, <1>7, FS_CardinalityType

\* A sort puts rows that agree at the same place, however they were delivered.
LEMMA PermutedSort ==
    ASSUME NEW res \in Result, NEW p \in Deliveries(res), NEW cols \in Seq(Column),
           NEW n \in Rows(res)
    PROVE  /\ SortedBy(Permuted(res, p), cols)[n] \in Rows(res)
           /\ SortedBy(res, cols)[n] \in Rows(res)
           /\ Agree(res, p[SortedBy(Permuted(res, p), cols)[n]], SortedBy(res, cols)[n], cols)
<1> DEFINE other == Permuted(res, p)
           a == SortedBy(other, cols)[n]
           b == SortedBy(res, cols)[n]
           underA == Under(other, cols, n)
           underB == Under(res, cols, n)
<1>1. /\ other \in Result /\ Rows(other) = Rows(res)
      /\ \A i \in Rows(res) : p[i] \in Rows(res)
    BY PermutedResult
<1>2. n \in Nat
    BY ResultCells DEF Rows
<1>3. /\ a \in Rows(res) /\ a \notin underA
      /\ Cardinality(underA) \in Nat /\ Cardinality(underA) < n /\ Cardinality(underA \cup {a}) = n
    <2> HIDE DEF other
    <2>2. other \in Result /\ n \in Rows(other)
        BY <1>1
    <2>3. a \in Rows(other) /\ a \notin underA
        BY <1>2, <2>2, SortedRank
    <2>4. Cardinality(underA) \in Nat /\ Cardinality(underA) < n
        BY <1>2, <2>2, SortedRank
    <2>5. Cardinality(underA \cup {a}) = n
        BY <1>2, <2>2, SortedRank
    <2>1. /\ a \in Rows(other) /\ a \notin underA
          /\ Cardinality(underA) \in Nat /\ Cardinality(underA) < n /\ Cardinality(underA \cup {a}) = n
        BY <2>3, <2>4, <2>5
    <2> QED
        BY <1>1, <2>1
<1>4. /\ b \in Rows(res) /\ b \notin underB
      /\ Cardinality(underB) \in Nat /\ Cardinality(underB) < n /\ Cardinality(underB \cup {b}) = n
    <2>1. b \in Rows(res) /\ b \notin underB
        BY SortedRank
    <2>2. Cardinality(underB) \in Nat /\ Cardinality(underB) < n
        BY <1>2, SortedRank
    <2>3. Cardinality(underB \cup {b}) = n
        BY <1>2, SortedRank
    <2> QED
        BY <2>1, <2>2, <2>3
<1>10. /\ underA = {j \in Rows(res) : Precedes(other, j, a, cols)}
       /\ underB = {j \in Rows(res) : Precedes(res, j, b, cols)}
    BY <1>1 DEF Under
<1>5. p[a] \in Rows(res)
    BY <1>1, <1>3
<1>6. \A i, j \in Rows(res) : Before(other, i, j, cols) <=> Before(res, p[i], p[j], cols)
    BY PermutedBefore
<1>7. \A k \in Rows(res) : \E i \in Rows(res) : p[i] = k
    BY DeliveryIsBijection
<1> HIDE DEF other, a, b, underA, underB
<1>8. CASE Before(res, p[a], b, cols)
    <2>1. ASSUME NEW i \in underA \cup {a}
          PROVE  p[i] \in underB
        <3>1. i \in Rows(res) /\ p[i] \in Rows(res)
            BY <1>1, <1>3, <1>10
        <3>2. ~Before(res, p[a], p[i], cols)
            BY <1>1, <1>3, <1>5, <1>6, <1>10, <3>1, BeforeIrreflexive, BeforeTransitive DEF Precedes
        <3>3. Before(res, p[i], b, cols)
            <4>1. CASE Before(res, p[i], p[a], cols)
                BY <1>4, <1>5, <1>8, <3>1, <4>1, BeforeTransitive
            <4>2. CASE ~Before(res, p[i], p[a], cols)
                <5>1. Agree(res, p[a], p[i], cols)
                    BY <1>5, <3>1, <3>2, <4>2, BeforeTotal
                <5>2. Agree(res, b, b, cols)
                    BY DEF Agree
                <5> QED
                    BY <1>4, <1>5, <1>8, <3>1, <5>1, <5>2, BeforeCongruent
            <4> QED
                BY <4>1, <4>2
        <3> QED
            BY <1>10, <3>1, <3>3 DEF Precedes
    <2> DEFINE f == [i \in underA \cup {a} |-> p[i]]
    <2>2. f \in [underA \cup {a} -> underB]
        BY <2>1
    <2>3. \A i, j \in underA \cup {a} : f[i] = f[j] => i = j
        BY <1>3, <1>10, DeliveryIsBijection
    <2>4. IsFiniteSet(underB)
        BY SortedRank DEF underB
    <2> HIDE DEF f
    <2>5. f \in Injection(underA \cup {a}, underB)
        BY <2>2, <2>3, Fun_IsInj
    <2>6. Cardinality(underA \cup {a}) <= Cardinality(underB)
        BY <2>4, <2>5, FS_Injection
    <2> QED
        BY <1>2, <1>3, <1>4, <2>6
<1>9. CASE Before(res, b, p[a], cols)
    <2>1. ASSUME NEW k \in underB \cup {b}
          PROVE  \E i \in underA : p[i] = k
        <3>1. k \in Rows(res)
            BY <1>4, <1>10
        <3>2. PICK i \in Rows(res) : p[i] = k
            BY <1>7, <3>1
        <3>3. ~Before(res, b, k, cols)
            BY <1>4, <1>10, <3>1, BeforeIrreflexive, BeforeTransitive DEF Precedes
        <3>4. Before(res, k, p[a], cols)
            <4>1. CASE Before(res, k, b, cols)
                BY <1>4, <1>5, <1>9, <3>1, <4>1, BeforeTransitive
            <4>2. CASE ~Before(res, k, b, cols)
                <5>1. Agree(res, b, k, cols)
                    BY <1>4, <3>1, <3>3, <4>2, BeforeTotal
                <5>2. Agree(res, p[a], p[a], cols)
                    BY DEF Agree
                <5> QED
                    BY <1>4, <1>5, <1>9, <3>1, <5>1, <5>2, BeforeCongruent
            <4> QED
                BY <4>1, <4>2
        <3>5. Precedes(other, i, a, cols)
            BY <1>3, <1>6, <3>2, <3>4 DEF Precedes
        <3> QED
            BY <1>10, <3>2, <3>5
    <2>2. underA \in SUBSET Rows(res) /\ underB \cup {b} \in SUBSET Rows(res)
        BY <1>4, <1>10
    <2>3. Cardinality(underB \cup {b}) <= Cardinality(underA)
        BY <2>1, <2>2, DeliveredCount
    <2> QED
        BY <1>2, <1>3, <1>4, <2>3
<1> QED
    BY <1>3, <1>4, <1>5, <1>8, <1>9, BeforeTotal DEF other, a, b

-----------------------------------------------------------------------------
(* The orders in use.                                                      *)

StateOK ==
    /\ ordered \in [QueryId -> BOOLEAN]
    /\ bindings \in [BindingId -> Definition \cup {NoDefinition}]
    /\ templates \in [TemplateRef -> Fields \cup {NoTemplate}]
    /\ results \in [QueryId -> Result \cup {NoResult}]
    /\ orderCache = [k \in QueryId \X SortKeys |-> orderCache[k]]

LEMMA KeysAreColumns == SortKeys \subseteq Seq(Column) /\ <<>> \in SortKeys
<1>1. \A d \in Definition : d.keys \in Seq(Column)
    OBVIOUS
<1>2. <<>> \in Seq(Column)
    OBVIOUS
<1> HIDE DEF ReportAssumption
<1> QED
    BY <1>1, <1>2, Zenon DEF SortKeys

\* The columns a fresh order sorts by.
LEMMA FreshOrderSorts ==
    ASSUME StateOK, NEW q \in QueryId, results[q] # NoResult, NEW keys \in SortKeys
    PROVE  /\ results[q] \in Result
           /\ \E cols \in Seq(Column) : FreshOrder(q, keys) = SortedBy(results[q], cols)
<1>1. results[q] \in Result
    BY DEF StateOK
<1>2. keys \in Seq(Column) /\ results[q].schema \in Seq(Column)
    BY <1>1, KeysAreColumns, ResultCells
<1>3. keys \o results[q].schema \in Seq(Column)
    BY <1>2, ConcatProperties
<1>4. \/ FreshOrder(q, keys) = SortedBy(results[q], keys)
      \/ FreshOrder(q, keys) = SortedBy(results[q], keys \o results[q].schema)
    BY DEF FreshOrder, StableOrder, DeliveredOrder
<1> QED
    BY <1>1, <1>2, <1>3, <1>4

\* It is a permutation of the rows.
LEMMA FreshOrderRows ==
    ASSUME StateOK, NEW q \in QueryId, results[q] # NoResult, NEW keys \in SortKeys
    PROVE  FreshOrder(q, keys) \in [Rows(results[q]) -> Rows(results[q])]
<1>1. PICK cols \in Seq(Column) : FreshOrder(q, keys) = SortedBy(results[q], cols)
    BY FreshOrderSorts
<1>2. results[q] \in Result
    BY FreshOrderSorts
<1>3. \A n \in Rows(results[q]) : SortedBy(results[q], cols)[n] \in Rows(results[q])
    BY <1>2, SortedAt
<1>4. SortedBy(results[q], cols) = [n \in Rows(results[q]) |-> SortedBy(results[q], cols)[n]]
    <2> DEFINE at(n) == CHOOSE i \in Rows(results[q]) :
                            Cardinality({j \in Rows(results[q]) : Precedes(results[q], j, i, cols)}) = n - 1
    <2>1. SortedBy(results[q], cols) = [n \in Rows(results[q]) |-> at(n)]
        BY DEF SortedBy
    <2> HIDE DEF at
    <2> QED
        BY <2>1
<1>5. SortedBy(results[q], cols) \in [Rows(results[q]) -> Rows(results[q])]
    BY <1>3, <1>4
<1> QED
    BY <1>1, <1>5

\* Record N by any way is record N of a fresh sort.
LEMMA RecordIsSorted ==
    ASSUME StateOK, CacheFresh, NEW q \in QueryId, results[q] # NoResult, NEW n \in Rows(results[q])
    PROVE  RecordRow(q, n) = FreshOrder(q, <<>>)[n] /\ CachedOrder(q, <<>>) = FreshOrder(q, <<>>)
<1>1. results[q] \in Result /\ <<>> \in SortKeys
    BY KeysAreColumns DEF StateOK
<1>2. CachedOrder(q, <<>>) = FreshOrder(q, <<>>)
    BY <1>1 DEF CacheFresh, CachedOrder
<1>3. CASE ordered[q]
    <2>1. FreshOrder(q, <<>>)[n] = n
        BY <1>1, <1>3, DeliveredUnsorted DEF FreshOrder
    <2>2. RecordRow(q, n) = n
        BY <1>3 DEF RecordRow
    <2> QED
        BY <1>2, <2>1, <2>2
<1>4. CASE ~ordered[q] /\ n = 1
    <2>1. FirstStableRow(results[q]) = FreshOrder(q, <<>>)[n]
        BY <1>1, <1>4, ScanFindsFirst DEF FreshOrder
    <2>2. RecordRow(q, n) = FirstStableRow(results[q]) \/ RecordRow(q, n) = CachedOrder(q, <<>>)[1]
        BY <1>4 DEF RecordRow, CachedOrder
    <2> QED
        BY <1>2, <1>4, <2>1, <2>2
<1>5. CASE ~ordered[q] /\ n # 1
    <2>1. RecordRow(q, n) = CachedOrder(q, <<>>)[n]
        BY <1>5 DEF RecordRow
    <2> QED
        BY <1>2, <2>1
<1> QED
    BY <1>3, <1>4, <1>5

-----------------------------------------------------------------------------
(* Orders kept.                                                            *)

CacheInv == StateOK /\ CacheFresh

LEMMA CacheInvInit == Init => CacheInv
<1> SUFFICES ASSUME Init PROVE CacheInv
    OBVIOUS
<1>1. StateOK
    BY DEF Init, StateOK
<1>2. \A q \in QueryId, keys \in SortKeys : orderCache[<<q, keys>>] = NoOrder
    BY DEF Init
<1> QED
    BY <1>1, <1>2 DEF CacheInv, CacheFresh

LEMMA ClearedCache ==
    ASSUME StateOK, NEW q \in QueryId, NEW keys \in SortKeys, NEW p \in QueryId
    PROVE  WithoutOrdersOf(p)[<<q, keys>>] = IF q = p THEN NoOrder ELSE orderCache[<<q, keys>>]
BY DEF StateOK, WithoutOrdersOf

\* Asking for orders keeps every cached order fresh.
LEMMA WithOrdersFresh ==
    ASSUME CacheInv, NEW K \in SUBSET (QueryId \X SortKeys),
           orderCache' = WithOrders(K), UNCHANGED <<ordered, bindings, templates, results>>
    PROVE  CacheInv'
<1>1. DOMAIN orderCache = QueryId \X SortKeys
    BY DEF CacheInv, StateOK
<1>2. StateOK'
    BY <1>1 DEF CacheInv, StateOK, WithOrders
<1>3. ASSUME NEW q \in QueryId, NEW keys \in SortKeys,
             orderCache'[<<q, keys>>] # NoOrder, orderCache'[<<q, keys>>].content = results[q]
      PROVE  orderCache'[<<q, keys>>].order = FreshOrder(q, keys)
    <2>1. CASE <<q, keys>> \in K
        <3>1. orderCache'[<<q, keys>>] = [content |-> results[q], order |-> CachedOrder(q, keys)]
            BY <1>1, <2>1 DEF WithOrders
        <3>2. CachedOrder(q, keys) = FreshOrder(q, keys)
            BY DEF CacheInv, CacheFresh, CachedOrder
        <3> QED
            BY <3>1, <3>2
    <2>2. CASE <<q, keys>> \notin K
        <3>1. orderCache'[<<q, keys>>] = orderCache[<<q, keys>>]
            BY <1>1, <2>2 DEF WithOrders
        <3> QED
            BY <1>3, <3>1 DEF CacheInv, CacheFresh
    <2> QED
        BY <2>1, <2>2
<1>4. \A q \in QueryId, keys \in SortKeys : FreshOrder(q, keys)' = FreshOrder(q, keys)
    BY DEF FreshOrder
<1> QED
    BY <1>2, <1>3, <1>4 DEF CacheInv, CacheFresh

LEMMA CacheInvKept == CacheInv /\ [Next]_vars => CacheInv'
<1> SUFFICES ASSUME CacheInv, [Next]_vars PROVE CacheInv'
    OBVIOUS
<1>0. StateOK /\ CacheFresh
    BY DEF CacheInv
<1>1. ASSUME NEW q \in QueryId, NEW o \in BOOLEAN, AddQuery(q, o)
      PROVE  CacheInv'
    <2>1. StateOK'
        BY <1>0, <1>1 DEF AddQuery, StateOK, WithoutOrdersOf
    <2>2. \A p \in QueryId, keys \in SortKeys : p # q => FreshOrder(p, keys)' = FreshOrder(p, keys)
        BY <1>0, <1>1 DEF AddQuery, StateOK, FreshOrder
    <2> QED
        BY <1>0, <1>1, <2>1, <2>2, ClearedCache DEF AddQuery, CacheInv, CacheFresh
<1>2. ASSUME NEW q \in QueryId, NEW res \in Deliverable, SetResult(q, res)
      PROVE  CacheInv'
    <2>1. StateOK'
        BY <1>0, <1>2 DEF SetResult, StateOK, WithoutOrdersOf
    <2>2. \A p \in QueryId, keys \in SortKeys :
            p # q \/ res = results[q] => FreshOrder(p, keys)' = FreshOrder(p, keys) /\ results'[p] = results[p]
        BY <1>0, <1>2 DEF SetResult, StateOK, FreshOrder
    <2> QED
        BY <1>0, <1>2, <2>1, <2>2, ClearedCache DEF SetResult, CacheInv, CacheFresh
<1>3. ASSUME NEW q \in QueryId, NEW keys \in SortKeys, UseOrder(q, keys)
      PROVE  CacheInv'
    <2>1. {<<q, keys>>} \in SUBSET (QueryId \X SortKeys)
        OBVIOUS
    <2> QED
        BY <1>3, <2>1, WithOrdersFresh DEF UseOrder
<1>4. ASSUME RefreshChangeReport
      PROVE  CacheInv'
    <2>1. OrdersReported \in SUBSET (QueryId \X SortKeys)
        BY <1>0 DEF StateOK, OrdersReported, Defined, SortKeys
    <2> QED
        BY <1>4, <2>1, WithOrdersFresh DEF RefreshChangeReport
<1>5. ASSUME LoadPayload
      PROVE  CacheInv'
    <2>1. StateOK'
        BY <1>0, <1>5 DEF LoadPayload, StateOK
    <2>2. \A q \in QueryId, keys \in SortKeys : orderCache'[<<q, keys>>] = NoOrder
        BY <1>0, <1>5 DEF LoadPayload, StateOK
    <2> QED
        BY <2>1, <2>2 DEF CacheInv, CacheFresh
<1>6. ASSUME StateOK', UNCHANGED <<ordered, results, orderCache>>
      PROVE  CacheInv'
    BY <1>0, <1>6 DEF CacheInv, CacheFresh, FreshOrder
<1>7. ASSUME \/ \E b \in BindingId, d \in Definition : AddBinding(b, d)
             \/ \E b \in BindingId : RemoveBinding(b)
             \/ \E t \in TemplateRef, fields \in Fields : AddTemplate(t, fields)
             \/ \E p \in Param : SetParam(p)
             \/ \E l \in Locale : SetLocale(l)
             \/ \E b \in BindingId, l \in Locale \cup {NoLocale} : SetBindingLocale(b, l)
             \/ UNCHANGED vars
      PROVE  CacheInv'
    <2>1. StateOK' /\ UNCHANGED <<ordered, results, orderCache>>
        BY <1>0, <1>7 DEF StateOK, AddBinding, RemoveBinding, AddTemplate, SetParam, SetLocale,
                          SetBindingLocale, vars
    <2> QED
        BY <1>6, <2>1
<1> QED
    BY <1>1, <1>2, <1>3, <1>4, <1>5, <1>7 DEF Next

LEMMA CacheInvHolds == Spec => []CacheInv
BY CacheInvInit, CacheInvKept, PTL DEF Spec

\* Whatever the cache holds for a query's current content is the order a fresh
\* sort of that content would give (cached_order_entry, data-query).
THEOREM CachedOrdersAreFresh == Spec => []CacheFresh
<1>1. CacheInv => CacheFresh
    BY DEF CacheInv
<1> QED
    BY <1>1, CacheInvHolds, PTL

\* Record N is one and the same row to the preview stepper, with its shortcuts,
\* and to tables, rules and batch plans (record_row against record_order).
THEOREM RecordsNumberedAlike == Spec => []NumberingAgrees
<1>1. CacheInv => NumberingAgrees
    BY RecordIsSorted DEF CacheInv, NumberingAgrees
<1> QED
    BY <1>1, CacheInvHolds, PTL

\* Sorted by keys and then by every column, the same rows delivered in another
\* order come out the same.
LEMMA StableUnderDelivery ==
    ASSUME NEW res \in Result, NEW p \in Deliveries(res), NEW keys \in Seq(Column),
           NEW n \in Rows(res)
    PROVE  Permuted(res, p).rows[StableOrder(Permuted(res, p), keys)[n]]
               = res.rows[StableOrder(res, keys)[n]]
<1> DEFINE cols == keys \o res.schema
           a == SortedBy(Permuted(res, p), cols)[n]
           b == SortedBy(res, cols)[n]
<1>1. /\ res.schema \in Seq(Column)
      /\ res.rows \in [Rows(res) -> [Column -> Value \cup {Absent}]]
      /\ \A i, j \in Rows(res), c \in Column :
             c \notin ColumnsOf(res.schema) => res.rows[i][c] = res.rows[j][c]
    BY ResultCells
<1>2. /\ cols \in Seq(Column) /\ DOMAIN cols = 1..(Len(keys) + Len(res.schema))
      /\ \A k \in 1..Len(res.schema) : cols[Len(keys) + k] = res.schema[k]
    BY <1>1, ConcatProperties, LenProperties
<1>3. /\ StableOrder(res, keys)[n] = b
      /\ StableOrder(Permuted(res, p), keys)[n] = a
    BY PermutedResult DEF StableOrder
<1>4. a \in Rows(res) /\ b \in Rows(res) /\ Agree(res, p[a], b, cols)
    BY <1>2, PermutedSort
<1>5. p[a] \in Rows(res) /\ Permuted(res, p).rows[a] = res.rows[p[a]]
    BY <1>4, PermutedResult
<1>6. ASSUME NEW c \in Column
      PROVE  res.rows[p[a]][c] = res.rows[b][c]
    <2>1. CASE c \notin ColumnsOf(res.schema)
        BY <1>1, <1>4, <1>5, <2>1
    <2>2. CASE c \in ColumnsOf(res.schema)
        <3>1. PICK k \in 1..Len(res.schema) : c = res.schema[k]
            BY <1>1, <2>2, LenProperties DEF ColumnsOf
        <3>2. Len(keys) + k \in DOMAIN cols /\ cols[Len(keys) + k] = c
            BY <1>1, <1>2, <3>1, LenProperties
        <3> QED
            BY <1>4, <3>2 DEF Agree
    <2> QED
        BY <2>1, <2>2
<1>7. res.rows[p[a]] = res.rows[b]
    <2>1. /\ res.rows[p[a]] \in [Column -> Value \cup {Absent}]
          /\ res.rows[b] \in [Column -> Value \cup {Absent}]
        BY <1>1, <1>4, <1>5
    <2> HIDE DEF a, b
    <2> QED
        BY <1>6, <2>1
<1> QED
    BY <1>3, <1>5, <1>7

\* A sorted result is numbered the same in whatever order the query engine
\* delivered its rows ("so record N is the same row", record_row).
THEOREM NumberedAlikeUnderDelivery == Spec => []DeliveryOrderIrrelevant
<1>1. CacheInv => DeliveryOrderIrrelevant
    <2> SUFFICES ASSUME CacheInv, NEW q \in QueryId, results[q] # NoResult, NEW keys \in SortKeys,
                        NEW p \in Deliveries(results[q]), NEW n \in Rows(results[q])
                 PROVE  Permuted(results[q], p).rows[StableOrder(Permuted(results[q], p), keys)[n]]
                            = results[q].rows[StableOrder(results[q], keys)[n]]
        BY DEF DeliveryOrderIrrelevant, Deliveries
    <2>1. results[q] \in Result /\ keys \in Seq(Column)
        BY KeysAreColumns DEF CacheInv, StateOK
    <2> QED
        BY <2>1, StableUnderDelivery
<1> QED
    BY <1>1, CacheInvHolds, PTL

-----------------------------------------------------------------------------
(* What a stamp says of the content.                                       *)

\* The rows and the displayed columns of a stamp.
RowsFrom(data) ==
    [n \in DOMAIN data.rows |-> [c \in DOMAIN data.columns |->
        IF data.columns[c] = <<Absent>> THEN Absent ELSE data.columns[c][data.rows[n]]]]

ColumnsFrom(stamp) ==
    IF stamp.definition.kind = "flow" THEN stamp.template \cup ColumnsOf(stamp.definition.keys)
    ELSE stamp.definition.reads

\* The content a dependency stamp was taken of.
ContentFrom(stamp) ==
    LET rows == RowsFrom(stamp.data)
    IN  IF stamp.definition.kind = "flow" /\ stamp.template = NoTemplate THEN NoContent
        ELSE [definition |-> stamp.definition, params |-> stamp.params, locale |-> stamp.locale,
              cells |-> [n \in DOMAIN rows |-> [c \in ColumnsFrom(stamp) |-> rows[n][c]]],
              footers |-> [n \in DOMAIN rows |-> FooterAt(stamp.definition, rows, n)]]

HasValue(b) == Defined(b) /\ results[bindings[b].query] # NoResult

LEMMA DefinedBinding ==
    ASSUME CacheInv, NEW b \in BindingId, HasValue(b)
    PROVE  /\ bindings[b].kind \in {"record", "table", "flow"} /\ bindings[b].query \in QueryId
           /\ bindings[b].keys \in SortKeys /\ results[bindings[b].query] \in Result
           /\ Resolvable(b) => DisplayColumns(b) \subseteq Column
           /\ bindings[b].sums \subseteq Column
           /\ bindings[b].kind # "flow" => bindings[b].sums = {}
<1>1. bindings[b] \in Definition
    BY DEF CacheInv, StateOK, HasValue, Defined
<1>2. /\ bindings[b].kind \in {"record", "table", "flow"} /\ bindings[b].query \in QueryId
      /\ bindings[b].sums \subseteq Column /\ (bindings[b].kind # "flow" => bindings[b].sums = {})
      /\ bindings[b].reads \subseteq Column /\ bindings[b].keys \in Seq(Column)
      /\ bindings[b].template \in TemplateRef
    BY <1>1
<1>3. bindings[b].keys \in SortKeys
    BY <1>1 DEF SortKeys
<1>4. results[bindings[b].query] \in Result
    BY <1>2 DEF CacheInv, StateOK, HasValue
<1>5. ColumnsOf(bindings[b].keys) \subseteq Column
    BY <1>2 DEF ColumnsOf
<1>6. ASSUME Resolvable(b)
      PROVE  DisplayColumns(b) \subseteq Column
    <2>1. CASE bindings[b].kind # "flow"
        BY <1>2, <2>1 DEF DisplayColumns
    <2>2. CASE bindings[b].kind = "flow"
        <3>1. templates[bindings[b].template] \in Fields
            BY <1>2, <1>6, <2>2 DEF Resolvable, CacheInv, StateOK
        <3> QED
            BY <1>5, <2>2, <3>1 DEF DisplayColumns
    <2> QED
        BY <2>1, <2>2
<1> QED
    BY <1>2, <1>3, <1>4, <1>6

\* The rows read, by way of the cache and of the scan, are those of fresh sorts.
LEMMA RowsReadFresh ==
    ASSUME CacheInv, NEW b \in BindingId, HasValue(b)
    PROVE  LET q == bindings[b].query
           IN  /\ RowsRead(b) = CASE bindings[b].kind # "record" -> FreshOrder(q, bindings[b].keys)
                                  [] bindings[b].kind = "record" ->
                                        [n \in Rows(results[q]) \cap {1} |-> FreshOrder(q, <<>>)[n]]
               /\ \A n \in DOMAIN RowsRead(b) : RowsRead(b)[n] \in Rows(results[q])
<1> DEFINE q == bindings[b].query
           first == [n \in Rows(results[q]) \cap {1} |-> FreshOrder(q, <<>>)[n]]
<1>1. q \in QueryId /\ results[q] # NoResult /\ results[q] \in Result /\ bindings[b].keys \in SortKeys
    BY DefinedBinding DEF HasValue
<1>2. StateOK /\ CacheFresh /\ <<>> \in SortKeys
    BY KeysAreColumns DEF CacheInv
<1>3. CASE bindings[b].kind # "record"
    <2>1. RowsRead(b) = CachedOrder(q, bindings[b].keys)
        BY <1>3 DEF RowsRead
    <2>2. RowsRead(b) = FreshOrder(q, bindings[b].keys)
        BY <1>1, <1>2, <2>1 DEF CachedOrder, CacheFresh
    <2>3. FreshOrder(q, bindings[b].keys) \in [Rows(results[q]) -> Rows(results[q])]
        BY <1>1, <1>2, FreshOrderRows
    <2> QED
        BY <1>3, <2>2, <2>3
<1>4. CASE bindings[b].kind = "record" /\ Rows(results[q]) # {}
    <2>1. 1 \in Rows(results[q])
        BY <1>1, <1>4, ResultCells DEF Rows
    <2>2. RecordRow(q, 1) = FreshOrder(q, <<>>)[1]
        BY <1>1, <1>2, <2>1, RecordIsSorted
    <2>3. FreshOrder(q, <<>>)[1] \in Rows(results[q])
        BY <1>1, <1>2, <2>1, FreshOrderRows
    <2>4. RowsRead(b) = <<RecordRow(q, 1)>>
        BY <1>4 DEF RowsRead
    <2>5. first = [n \in {1} |-> FreshOrder(q, <<>>)[1]]
        BY <2>1
    <2> DEFINE row == FreshOrder(q, <<>>)[1]
    <2>6. <<row>> = [n \in {1} |-> row]
        <3> HIDE DEF row
        <3> QED
            OBVIOUS
    <2>7. RowsRead(b) = first /\ \A n \in DOMAIN RowsRead(b) : RowsRead(b)[n] \in Rows(results[q])
        BY <2>2, <2>3, <2>4, <2>5, <2>6
    <2> QED
        BY <1>4, <2>7
<1>5. CASE bindings[b].kind = "record" /\ Rows(results[q]) = {}
    <2>1. RowsRead(b) = <<>> /\ first = <<>>
        BY <1>5 DEF RowsRead
    <2> QED
        BY <1>5, <2>1
<1> QED
    BY <1>3, <1>4, <1>5

\* So a binding commits what it would commit without any cache.
LEMMA ContentIsTrue ==
    ASSUME CacheInv, NEW b \in BindingId, HasValue(b)
    PROVE  Content(b) = TrueContent(b)
BY RowsReadFresh DEF Content, TrueContent

\* One cell, from the column hashed into the stamp.
LEMMA CellFromHash ==
    ASSUME NEW q \in QueryId, results[q] \in Result, NEW c \in Column, NEW i \in Rows(results[q])
    PROVE  (IF ColumnHash(q, c) = <<Absent>> THEN Absent ELSE ColumnHash(q, c)[i]) = results[q].rows[i][c]
<1>1. /\ results[q].rows \in [Rows(results[q]) -> [Column -> Value \cup {Absent}]]
      /\ Rows(results[q]) = 1..Len(results[q].rows) /\ Len(results[q].rows) \in Nat
    BY ResultCells DEF Rows
<1>2. \A j \in Rows(results[q]), x \in Column :
        results[q].rows[j][x] = Absent <=> x \notin ColumnsOf(results[q].schema)
    BY <1>1 DEF Result
<1>3. CASE c \in ColumnsOf(results[q].schema)
    <2>1. ColumnHash(q, c) = [j \in Rows(results[q]) |-> results[q].rows[j][c]]
        BY <1>3 DEF ColumnHash
    <2>2. 1 \in Rows(results[q])
        BY <1>1
    <2>3. ColumnHash(q, c)[1] # Absent
        BY <1>2, <1>3, <2>1, <2>2
    <2>4. ColumnHash(q, c) # <<Absent>>
        BY <2>3
    <2> QED
        BY <2>1, <2>4
<1>4. CASE c \notin ColumnsOf(results[q].schema)
    BY <1>2, <1>4 DEF ColumnHash
<1> QED
    BY <1>3, <1>4

\* Footers read the keys and the columns they aggregate, and nothing else.
LEMMA FooterReads ==
    ASSUME NEW d, NEW F, NEW G, DOMAIN F = DOMAIN G, NEW n \in DOMAIN F,
           \A m \in DOMAIN F : \A c \in d.sums \cup ColumnsOf(d.keys) : F[m][c] = G[m][c]
    PROVE  FooterAt(d, F, n) = FooterAt(d, G, n)
<1>1. ASSUME NEW c \in d.sums
      PROVE  GroupNumbers(F, n, d.keys, c) = GroupNumbers(G, n, d.keys, c)
    <2> DEFINE groupF == {m \in DOMAIN F : \A k \in ColumnsOf(d.keys) : F[m][k] = F[n][k]}
               groupG == {m \in DOMAIN G : \A k \in ColumnsOf(d.keys) : G[m][k] = G[n][k]}
               numF == {g \in groupF : F[g][c] \notin Blob \cup {Absent}}
               numG == {g \in groupG : G[g][c] \notin Blob \cup {Absent}}
    <2>1. groupF = groupG
        OBVIOUS
    <2>2. numF = numG /\ \A m \in numF : F[m][c] = G[m][c]
        BY <2>1
    <2>3. /\ GroupNumbers(F, n, d.keys, c) = [m \in numF |-> F[m][c]]
          /\ GroupNumbers(G, n, d.keys, c) = [m \in numG |-> G[m][c]]
        BY DEF GroupNumbers
    <2> HIDE DEF numF, numG
    <2> QED
        BY <2>2, <2>3
<1> QED
    BY <1>1 DEF FooterAt

\* A dependency stamp determines the content: whatever it leaves out is not read.
LEMMA StampDecides ==
    ASSUME CacheInv, NEW b \in BindingId, HasValue(b)
    PROVE  ContentFrom(DependencyStamp(b)) = Content(b)
<1> DEFINE q == bindings[b].query
           stamp == DependencyStamp(b)
<1>1. /\ q \in QueryId /\ results[q] \in Result /\ (Resolvable(b) => DisplayColumns(b) \subseteq Column)
      /\ bindings[b].sums \subseteq Column /\ (bindings[b].kind # "flow" => bindings[b].sums = {})
    BY DefinedBinding
<1>2. /\ stamp.definition = bindings[b] /\ stamp.params = params /\ stamp.locale = LocaleFor(b)
      /\ stamp.template = TemplateOf(b) /\ stamp.data = DataStamp(b)
    BY DEF DependencyStamp
<1>3. CASE ~Resolvable(b)
    <2>1. bindings[b].kind = "flow" /\ templates[bindings[b].template] = NoTemplate
        BY <1>3 DEF Resolvable, HasValue
    <2>2. stamp.template = NoTemplate
        BY <1>2, <2>1 DEF TemplateOf
    <2> QED
        BY <1>2, <1>3, <2>1, <2>2 DEF ContentFrom, Content
<1>4. CASE Resolvable(b)
    <2> DEFINE named == bindings[b].sums \cup DisplayColumns(b)
               columns == [c \in named |-> ColumnHash(q, c)]
               order == RowsRead(b)
               rows == [n \in DOMAIN order |-> results[q].rows[order[n]]]
               rebuilt == RowsFrom(stamp.data)
    <2>1. ~(bindings[b].kind = "flow" /\ stamp.template = NoTemplate)
        BY <1>2, <1>4 DEF Resolvable, TemplateOf
    <2>2. stamp.data = [rows |-> order, columns |-> columns]
        BY <1>2, <1>4 DEF DataStamp
    <2>3. rebuilt = [n \in DOMAIN order |-> [c \in named |->
                        IF ColumnHash(q, c) = <<Absent>> THEN Absent ELSE ColumnHash(q, c)[order[n]]]]
        <3>1. stamp.data.rows = order /\ stamp.data.columns = columns
            BY <2>2
        <3>2. DOMAIN columns = named /\ \A c \in named : columns[c] = ColumnHash(q, c)
            OBVIOUS
        <3>3. rebuilt = [n \in DOMAIN order |-> [c \in DOMAIN columns |->
                            IF columns[c] = <<Absent>> THEN Absent ELSE columns[c][order[n]]]]
            BY <3>1 DEF RowsFrom
        <3> HIDE DEF columns, named, order, q, stamp, rebuilt
        <3> QED
            BY <3>2, <3>3
    <2>4. ASSUME NEW n \in DOMAIN order, NEW c \in named
          PROVE  rebuilt[n][c] = rows[n][c]
        <3>1. order[n] \in Rows(results[q]) /\ c \in Column
            <4>1. c \in Column
                BY <1>1, <1>4
            <4>2. RowsRead(b)[n] \in Rows(results[q])
                BY RowsReadFresh
            <4> QED
                BY <4>1, <4>2
        <3>2. (IF ColumnHash(q, c) = <<Absent>> THEN Absent ELSE ColumnHash(q, c)[order[n]])
                  = results[q].rows[order[n]][c]
            BY <1>1, <3>1, CellFromHash
        <3> QED
            BY <2>3, <3>2
    <2>5. DOMAIN rebuilt = DOMAIN order /\ DOMAIN rows = DOMAIN order
        BY <2>3
    <2>6. ColumnsFrom(stamp) = DisplayColumns(b)
        BY <1>2 DEF ColumnsFrom, DisplayColumns, TemplateOf
    <2>7. ASSUME NEW n \in DOMAIN order
          PROVE  FooterAt(bindings[b], rebuilt, n) = FooterAt(bindings[b], rows, n)
        <3>1. bindings[b].kind = "flow" => ColumnsOf(bindings[b].keys) \subseteq DisplayColumns(b)
            BY DEF DisplayColumns
        <3>2. CASE bindings[b].kind = "flow"
            <4>1. bindings[b].sums \cup ColumnsOf(bindings[b].keys) \subseteq named
                BY <3>1, <3>2
            <4> HIDE DEF rebuilt, rows, named, order
            <4>2. \A m \in DOMAIN rebuilt : \A c \in bindings[b].sums \cup ColumnsOf(bindings[b].keys) :
                      rebuilt[m][c] = rows[m][c]
                BY <2>4, <2>5, <4>1
            <4> QED
                <5>1. PICK d, F, G : d = bindings[b] /\ F = rebuilt /\ G = rows
                    OBVIOUS
                <5>2. DOMAIN F = DOMAIN G /\ n \in DOMAIN F
                    BY <2>5, <2>7, <5>1
                <5>3. \A m \in DOMAIN F : \A c \in d.sums \cup ColumnsOf(d.keys) : F[m][c] = G[m][c]
                    BY <4>2, <5>1
                <5>4. FooterAt(d, F, n) = FooterAt(d, G, n)
                    BY <5>2, <5>3, FooterReads
                <5> QED
                    BY <5>1, <5>4
        <3>3. CASE bindings[b].kind # "flow"
            <4>1. bindings[b].sums = {}
                BY <1>1, <3>3
            <4> HIDE DEF rebuilt, rows
            <4> QED
                BY <4>1 DEF FooterAt
        <3> QED
            BY <3>2, <3>3
    <2>8. ContentFrom(stamp) =
              [definition |-> bindings[b], params |-> params, locale |-> LocaleFor(b),
               cells |-> [n \in DOMAIN rebuilt |-> [c \in DisplayColumns(b) |-> rebuilt[n][c]]],
               footers |-> [n \in DOMAIN rebuilt |-> FooterAt(bindings[b], rebuilt, n)]]
        BY <1>2, <2>1, <2>6 DEF ContentFrom
    <2>9. Content(b) =
              [definition |-> bindings[b], params |-> params, locale |-> LocaleFor(b),
               cells |-> [n \in DOMAIN rows |-> [c \in DisplayColumns(b) |-> rows[n][c]]],
               footers |-> [n \in DOMAIN rows |-> FooterAt(bindings[b], rows, n)]]
        BY <1>4 DEF Content, ContentOver
    <2> HIDE DEF rebuilt, rows, order
    <2>10. [n \in DOMAIN rebuilt |-> [c \in DisplayColumns(b) |-> rebuilt[n][c]]]
               = [n \in DOMAIN rows |-> [c \in DisplayColumns(b) |-> rows[n][c]]]
        BY <2>4, <2>5
    <2>11. [n \in DOMAIN rebuilt |-> FooterAt(bindings[b], rebuilt, n)]
               = [n \in DOMAIN rows |-> FooterAt(bindings[b], rows, n)]
        BY <2>5, <2>7
    <2> QED
        BY <2>8, <2>9, <2>10, <2>11
<1> QED
    BY <1>3, <1>4

-----------------------------------------------------------------------------
(* What is remembered of the last report.                                  *)

\* The print of each binding is that of what it showed then, which its stamp
\* still tells.
Remembered ==
    \A b \in BindingId :
        /\ snapshot[b].print = PrintOf(shown[b])
        /\ snapshot[b].stamp # NoEntry => snapshot[b].print = PrintOf(ContentFrom(snapshot[b].stamp))

ReportInv == CacheInv /\ Remembered

\* An entry taken over from the last report is the one resolving again would give.
LEMMA NextEntryTrue ==
    ASSUME ReportInv, NEW b \in BindingId
    PROVE  /\ NextEntry(b).print = PrintOf(TrueContent(b))
           /\ NextEntry(b).stamp # NoEntry => NextEntry(b).print = PrintOf(ContentFrom(NextEntry(b).stamp))
<1>1. CASE ~HasValue(b)
    <2>1. NextEntry(b) = EmptyEntry
        BY <1>1 DEF NextEntry, HasValue
    <2>2. TrueContent(b) = NoContent
        BY <1>1 DEF TrueContent, Resolvable, HasValue
    <2> QED
        BY <2>1, <2>2 DEF EmptyEntry, PrintOf
<1>2. CASE HasValue(b)
    <2>1. NextEntry(b) = [stamp |-> DependencyStamp(b),
                          print |-> IF snapshot[b].stamp # NoEntry /\ snapshot[b].stamp = DependencyStamp(b)
                                    THEN snapshot[b].print ELSE PrintOf(Content(b))]
        BY <1>2 DEF NextEntry, HasValue
    <2>2. Content(b) = TrueContent(b) /\ ContentFrom(DependencyStamp(b)) = Content(b)
        BY <1>2, ContentIsTrue, StampDecides DEF ReportInv
    <2>3. NextEntry(b).stamp = DependencyStamp(b)
        BY <2>1
    <2>4. NextEntry(b).print = PrintOf(Content(b))
        <3>1. CASE snapshot[b].stamp # NoEntry /\ snapshot[b].stamp = DependencyStamp(b)
            <4>1. NextEntry(b).print = snapshot[b].print
                BY <2>1, <3>1
            <4>2. snapshot[b].print = PrintOf(ContentFrom(DependencyStamp(b)))
                BY <3>1 DEF ReportInv, Remembered
            <4> QED
                BY <2>2, <4>1, <4>2
        <3>2. CASE ~(snapshot[b].stamp # NoEntry /\ snapshot[b].stamp = DependencyStamp(b))
            BY <2>1, <3>2
        <3> QED
            BY <3>1, <3>2
    <2> QED
        BY <2>2, <2>3, <2>4
<1> QED
    BY <1>1, <1>2

LEMMA ReportInvInit == Init => ReportInv
<1> SUFFICES ASSUME Init PROVE ReportInv
    OBVIOUS
<1>1. \A b \in BindingId : snapshot[b] = EmptyEntry /\ shown[b] = NoContent
    BY DEF Init
<1>2. Remembered
    BY <1>1 DEF Remembered, EmptyEntry, PrintOf
<1> QED
    BY <1>2, CacheInvInit DEF ReportInv

LEMMA ReportInvKept == ReportInv /\ [Next]_vars => ReportInv'
<1> SUFFICES ASSUME ReportInv, [Next]_vars PROVE ReportInv'
    OBVIOUS
<1>1. CacheInv'
    BY CacheInvKept DEF ReportInv
<1>2. CASE RefreshChangeReport
    <2>1. \A b \in BindingId : snapshot'[b] = NextEntry(b) /\ shown'[b] = TrueContent(b)
        BY <1>2 DEF RefreshChangeReport
    <2>2. ASSUME NEW b \in BindingId
          PROVE  /\ snapshot'[b].print = PrintOf(shown'[b])
                 /\ snapshot'[b].stamp # NoEntry =>
                        snapshot'[b].print = PrintOf(ContentFrom(snapshot'[b].stamp))
        BY <2>1, NextEntryTrue
    <2>3. Remembered'
        BY <2>2 DEF Remembered
    <2> QED
        BY <1>1, <2>3 DEF ReportInv
<1>3. CASE LoadPayload
    <2>1. \A b \in BindingId : snapshot'[b] = EmptyEntry /\ shown'[b] = NoContent
        BY <1>3 DEF LoadPayload
    <2>2. Remembered'
        BY <2>1 DEF Remembered, EmptyEntry, PrintOf
    <2> QED
        BY <1>1, <2>2 DEF ReportInv
<1>4. CASE UNCHANGED <<snapshot, shown>>
    BY <1>1, <1>4 DEF ReportInv, Remembered
<1>5. RefreshChangeReport \/ LoadPayload \/ UNCHANGED <<snapshot, shown>>
    BY DEF Next, AddQuery, AddBinding, RemoveBinding, AddTemplate, SetParam, SetLocale, SetBindingLocale,
           SetResult, UseOrder, reportVars, vars
<1> QED
    BY <1>2, <1>3, <1>4, <1>5

\* An incremental report is the full one: what it says of each binding is what
\* comparing all contents, resolved anew now and at the last report, would say
\* (fingerprint_incremental, diff_resolved).
THEOREM IncrementalIsFull == Spec => ReportExact
<1>1. ReportInv => [RefreshChangeReport =>
          \A b \in BindingId : report'[b] = Kind(PrintOf(shown[b]), PrintOf(TrueContent(b)))]_vars
    <2> SUFFICES ASSUME ReportInv, RefreshChangeReport, NEW b \in BindingId
                 PROVE  report'[b] = Kind(PrintOf(shown[b]), PrintOf(TrueContent(b)))
        OBVIOUS
    <2>1. report'[b] = Kind(snapshot[b].print, NextEntry(b).print)
        BY DEF RefreshChangeReport
    <2>2. snapshot[b].print = PrintOf(shown[b])
        BY DEF ReportInv, Remembered
    <2> QED
        BY <2>1, <2>2, NextEntryTrue
<1> QED
    BY <1>1, ReportInvInit, ReportInvKept, PTL DEF Spec, ReportExact

-----------------------------------------------------------------------------
(* The review.                                                             *)

USE ReviewAssumption

-----------------------------------------------------------------------------
(* The columns of a key.                                                   *)

\* In a finite set of numbers every rank is that of one member.
LEMMA RankedMembers ==
    ASSUME NEW S, S \subseteq Nat, IsFiniteSet(S)
    PROVE  /\ \A n \in 1..Cardinality(S) :
                  \E p \in S : Cardinality({q \in S : q < p}) = n - 1
           /\ \A p \in S : \E n \in 1..Cardinality(S) : Cardinality({q \in S : q < p}) = n - 1
           /\ \A p, r \in S : Cardinality({q \in S : q < p}) = Cardinality({q \in S : q < r}) => p = r
<1> DEFINE Lesser(p) == {q \in S : q < p}
           rank == [p \in S |-> Cardinality(Lesser(p)) + 1]
           c == Cardinality(S)
<1>1. c \in Nat /\ IsFiniteSet(1..c) /\ Cardinality(1..c) = c
    BY FS_CardinalityType, FS_Interval
<1>2. ASSUME NEW p \in S
      PROVE  /\ IsFiniteSet(Lesser(p)) /\ Cardinality(Lesser(p)) \in Nat
             /\ Cardinality(Lesser(p)) + 1 <= c
    <2>1. Lesser(p) \subseteq S /\ p \notin Lesser(p)
        OBVIOUS
    <2> HIDE DEF Lesser, c
    <2>2. IsFiniteSet(Lesser(p))
        BY <2>1, FS_Subset
    <2>3. Cardinality(Lesser(p) \cup {p}) = Cardinality(Lesser(p)) + 1
        BY <2>1, <2>2, FS_AddElement
    <2>4. Lesser(p) \cup {p} \subseteq S
        BY <2>1
    <2>5. Cardinality(Lesser(p) \cup {p}) <= Cardinality(S)
        BY <2>4, FS_Subset
    <2> QED
        BY <2>2, <2>3, <2>5, FS_CardinalityType DEF c
<1>3. ASSUME NEW p \in S, NEW q \in S, p < q
      PROVE  Cardinality(Lesser(p)) < Cardinality(Lesser(q))
    <2>1. p \in Nat /\ q \in Nat /\ \A x \in S : x \in Nat
        OBVIOUS
    <2>2. \A x \in S : x < p => x < q
        BY <1>3, <2>1
    <2>3. Lesser(p) \cup {p} \subseteq Lesser(q) /\ p \notin Lesser(p)
        <3>1. p \in Lesser(q)
            BY <1>3
        <3>2. Lesser(p) \subseteq Lesser(q)
            BY <2>2
        <3>3. p \notin Lesser(p)
            BY <2>1
        <3> QED
            BY <3>1, <3>2, <3>3
    <2> HIDE DEF Lesser
    <2>4. Cardinality(Lesser(p) \cup {p}) = Cardinality(Lesser(p)) + 1
        BY <1>2, <2>3, FS_AddElement
    <2>5. Cardinality(Lesser(p) \cup {p}) <= Cardinality(Lesser(q))
        BY <1>2, <2>3, FS_Subset
    <2> QED
        BY <1>2, <2>4, <2>5
<1>4. rank \in [S -> 1..c]
    <2> SUFFICES ASSUME NEW p \in S PROVE Cardinality(Lesser(p)) + 1 \in 1..c
        OBVIOUS
    <2> HIDE DEF Lesser, c
    <2> QED
        BY <1>1, <1>2
<1>5. \A p, q \in S : Cardinality(Lesser(p)) = Cardinality(Lesser(q)) => p = q
    <2> SUFFICES ASSUME NEW p \in S, NEW q \in S, p # q
                 PROVE  Cardinality(Lesser(p)) # Cardinality(Lesser(q))
        OBVIOUS
    <2>1. p < q \/ q < p
        OBVIOUS
    <2> HIDE DEF Lesser
    <2> QED
        BY <1>2, <1>3, <2>1
<1>6. \A p, q \in S : rank[p] = rank[q] => p = q
    <2> HIDE DEF Lesser
    <2> QED
        BY <1>2, <1>5
<1>7. rank \in Injection(S, 1..c)
    BY <1>4, <1>6, Fun_IsInj
<1>8. rank \in Surjection(S, 1..c)
    <2> HIDE DEF rank
    <2>1. Cardinality(S) = Cardinality(1..c)
        BY <1>1
    <2> HIDE DEF c
    <2> QED
        BY <1>1, <1>7, <2>1, FS_Injection
<1>9. ASSUME NEW n \in 1..c
      PROVE  \E p \in S : Cardinality(Lesser(p)) = n - 1
    <2>1. PICK p \in S : rank[p] = n
        BY <1>8 DEF Surjection
    <2>2. Cardinality(Lesser(p)) + 1 = n
        BY <2>1
    <2> HIDE DEF Lesser, c
    <2> QED
        BY <1>1, <1>2, <2>2
<1>10. ASSUME NEW p \in S
       PROVE  \E n \in 1..c : Cardinality(Lesser(p)) = n - 1
    <2> HIDE DEF Lesser, c
    <2>1. Cardinality(Lesser(p)) + 1 \in 1..c
        BY <1>1, <1>2
    <2>2. Cardinality(Lesser(p)) = (Cardinality(Lesser(p)) + 1) - 1
        BY <1>2
    <2> QED
        BY <2>1, <2>2
<1> QED
    BY <1>5, <1>9, <1>10

\* The key columns are the columns of the key that are there.
LEMMA KeyColumnsAre ==
    ASSUME NEW key \in Seq(Column), NEW cs
    PROVE  /\ \A n \in DOMAIN KeyColumns(key, cs) :
                  KeyColumns(key, cs)[n] \in cs /\ \E k \in DOMAIN key : KeyColumns(key, cs)[n] = key[k]
           /\ \A k \in DOMAIN key : key[k] \in cs =>
                  \E n \in DOMAIN KeyColumns(key, cs) : KeyColumns(key, cs)[n] = key[k]
<1> DEFINE present == {k \in DOMAIN key : key[k] \in cs}
           at(n) == CHOOSE k \in present : Cardinality({m \in present : m < k}) = n - 1
<1>1. present \subseteq Nat /\ IsFiniteSet(present)
    <2>1. Len(key) \in Nat /\ DOMAIN key = 1..Len(key)
        BY LenProperties
    <2>2. present \subseteq 1..Len(key)
        BY <2>1
    <2> HIDE DEF present
    <2>3. IsFiniteSet(1..Len(key))
        BY <2>1, FS_Interval
    <2>4. IsFiniteSet(present)
        BY <2>2, <2>3, FS_Subset
    <2>5. 1..Len(key) \subseteq Nat
        BY <2>1
    <2> QED
        BY <2>2, <2>4, <2>5
<1>2. /\ DOMAIN KeyColumns(key, cs) = 1..Cardinality(present)
      /\ \A n \in 1..Cardinality(present) : KeyColumns(key, cs)[n] = key[at(n)]
    BY DEF KeyColumns
<1>3. \A k \in present : k \in DOMAIN key /\ key[k] \in cs
    OBVIOUS
<1>4. \A k \in DOMAIN key : key[k] \in cs => k \in present
    OBVIOUS
<1> HIDE DEF present
<1>5. /\ \A n \in 1..Cardinality(present) :
              \E p \in present : Cardinality({q \in present : q < p}) = n - 1
      /\ \A p \in present : \E n \in 1..Cardinality(present) :
              Cardinality({q \in present : q < p}) = n - 1
      /\ \A p, r \in present :
              Cardinality({q \in present : q < p}) = Cardinality({q \in present : q < r}) => p = r
    BY <1>1, RankedMembers
<1>6. \A n \in 1..Cardinality(present) :
          at(n) \in present /\ Cardinality({q \in present : q < at(n)}) = n - 1
    BY <1>5
<1>7. \A p \in present : \E n \in 1..Cardinality(present) : at(n) = p
    <2> SUFFICES ASSUME NEW p \in present
                 PROVE  \E n \in 1..Cardinality(present) : at(n) = p
        OBVIOUS
    <2>1. PICK n \in 1..Cardinality(present) : Cardinality({q \in present : q < p}) = n - 1
        BY <1>5
    <2>2. at(n) \in present /\ Cardinality({q \in present : q < at(n)}) = n - 1
        BY <1>6
    <2> HIDE DEF at
    <2> QED
        BY <1>5, <2>1, <2>2
<1> HIDE DEF at
<1> QED
    BY <1>2, <1>3, <1>4, <1>6, <1>7

-----------------------------------------------------------------------------
(* Rows and their keys.                                                    *)

\* A result, or none at all: cells in the columns of the schema and no other.
Tabular(res) ==
    /\ res.schema \in Seq(Column)
    /\ res.rows \in Seq([Column -> Value \cup {Absent}])
    /\ \A i \in Rows(res), c \in Column : res.rows[i][c] = Absent <=> c \notin ColumnsOf(res.schema)

LEMMA ResultsAreTabular ==
    ASSUME NEW res \in Result \cup {EmptyResult}
    PROVE  Tabular(res)
<1>1. CASE res = EmptyResult
    <2>1. res.schema = <<>> /\ res.rows = <<>>
        BY <1>1 DEF EmptyResult
    <2>2. Rows(res) = {}
        BY <2>1 DEF Rows
    <2> QED
        BY <2>1, <2>2 DEF Tabular
<1>2. CASE res \in Result
    <2>1. /\ res.schema \in Schema
          /\ res.rows \in UNION {[1..n -> [Column -> Value \cup {Absent}]] : n \in 0..MaxRows}
          /\ \A i \in DOMAIN res.rows, c \in Column :
                 res.rows[i][c] = Absent <=> c \notin ColumnsOf(res.schema)
        BY <1>2 DEF Result
    <2>2. PICK n \in 0..MaxRows : res.rows \in [1..n -> [Column -> Value \cup {Absent}]]
        BY <2>1
    <2>3. res.rows \in Seq([Column -> Value \cup {Absent}])
        <3>1. n \in Nat
            OBVIOUS
        <3> QED
            BY <2>2, <3>1, SeqDef
    <2>4. DOMAIN res.rows = Rows(res)
        BY <2>3, LenProperties DEF Rows
    <2> QED
        BY <2>1, <2>3, <2>4 DEF Tabular
<1> QED
    BY <1>1, <1>2

LEMMA SameCells ==
    ASSUME NEW a, NEW b, NEW i, NEW j, NEW cols
    PROVE  CellsOf(a, i, cols) = CellsOf(b, j, cols)
             <=> \A k \in DOMAIN cols : a.rows[i][cols[k]] = b.rows[j][cols[k]]
<1>1. ASSUME CellsOf(a, i, cols) = CellsOf(b, j, cols), NEW k \in DOMAIN cols
      PROVE  a.rows[i][cols[k]] = b.rows[j][cols[k]]
    <2>1. CellsOf(a, i, cols)[k] = CellsOf(b, j, cols)[k]
        BY <1>1
    <2> QED
        BY <2>1 DEF CellsOf
<1>2. ASSUME \A k \in DOMAIN cols : a.rows[i][cols[k]] = b.rows[j][cols[k]]
      PROVE  CellsOf(a, i, cols) = CellsOf(b, j, cols)
    BY <1>2 DEF CellsOf
<1> QED
    BY <1>1, <1>2

\* Of results with the same columns, the key that drops the missing columns
\* and the one that keeps them tell the same rows apart.
LEMMA SameKey ==
    ASSUME NEW a, NEW b, Tabular(a), Tabular(b), ColumnsOf(a.schema) = ColumnsOf(b.schema),
           NEW key \in Seq(Column), key # <<>>, NEW i \in Rows(a), NEW j \in Rows(b)
    PROVE  RowKey(a, i, key) = RowKey(b, j, key) <=> IndexKey(a, i, key) = IndexKey(b, j, key)
<1>0. PICK cs, cols : cs = ColumnsOf(a.schema) /\ cols = KeyColumns(key, cs)
    OBVIOUS
<1>1. /\ \A n \in DOMAIN cols : cols[n] \in cs /\ \E k \in DOMAIN key : cols[n] = key[k]
      /\ \A k \in DOMAIN key : key[k] \in cs => \E n \in DOMAIN cols : cols[n] = key[k]
    BY <1>0, KeyColumnsAre
<1>2. RowKey(a, i, key) = CellsOf(a, i, cols) /\ RowKey(b, j, key) = CellsOf(b, j, cols)
    BY <1>0 DEF RowKey
<1>3. IndexKey(a, i, key) = CellsOf(a, i, key) /\ IndexKey(b, j, key) = CellsOf(b, j, key)
    BY DEF IndexKey
<1>4. \A k \in DOMAIN key : key[k] \in Column
    <2>1. DOMAIN key = 1..Len(key) /\ key \in [1..Len(key) -> Column]
        BY LenProperties
    <2> QED
        BY <2>1
<1>5. \A c \in Column : c \notin cs => a.rows[i][c] = b.rows[j][c]
    BY <1>0 DEF Tabular
<1>6. /\ CellsOf(a, i, cols) = CellsOf(b, j, cols)
           <=> \A n \in DOMAIN cols : a.rows[i][cols[n]] = b.rows[j][cols[n]]
      /\ CellsOf(a, i, key) = CellsOf(b, j, key)
           <=> \A k \in DOMAIN key : a.rows[i][key[k]] = b.rows[j][key[k]]
    BY SameCells
<1>7. (\A n \in DOMAIN cols : a.rows[i][cols[n]] = b.rows[j][cols[n]])
        <=> \A k \in DOMAIN key : a.rows[i][key[k]] = b.rows[j][key[k]]
    <2>1. ASSUME \A n \in DOMAIN cols : a.rows[i][cols[n]] = b.rows[j][cols[n]],
                 NEW k \in DOMAIN key
          PROVE  a.rows[i][key[k]] = b.rows[j][key[k]]
        BY <1>1, <1>4, <1>5, <2>1
    <2>2. ASSUME \A k \in DOMAIN key : a.rows[i][key[k]] = b.rows[j][key[k]],
                 NEW n \in DOMAIN cols
          PROVE  a.rows[i][cols[n]] = b.rows[j][cols[n]]
        BY <1>1, <2>2
    <2> QED
        BY <2>1, <2>2
<1> QED
    BY <1>2, <1>3, <1>6, <1>7

\* Under the same columns in the same order, content tells the row.
LEMMA SameRow ==
    ASSUME NEW a, NEW b, Tabular(a), Tabular(b), a.schema = b.schema,
           NEW i \in Rows(a), NEW j \in Rows(b), RowContent(a, i) = RowContent(b, j)
    PROVE  a.rows[i] = b.rows[j]
<1>1. a.rows[i] \in [Column -> Value \cup {Absent}] /\ b.rows[j] \in [Column -> Value \cup {Absent}]
    BY ElementOfSeq DEF Tabular, Rows
<1>2. \A k \in DOMAIN a.schema : a.rows[i][a.schema[k]] = b.rows[j][a.schema[k]]
    BY SameCells DEF RowContent
<1>3. \A c \in Column : a.rows[i][c] = b.rows[j][c]
    <2> SUFFICES ASSUME NEW c \in Column
                 PROVE  a.rows[i][c] = b.rows[j][c]
        OBVIOUS
    <2>1. CASE c \in ColumnsOf(a.schema)
        BY <1>2, <2>1 DEF ColumnsOf
    <2>2. CASE c \notin ColumnsOf(a.schema)
        BY <2>2 DEF Tabular
    <2> QED
        BY <2>1, <2>2
<1> QED
    BY <1>1, <1>3

-----------------------------------------------------------------------------
(* The rows of comparable results, matched.                                *)

UniqueKeys(res, key) ==
    \A i, j \in Rows(res) : RowKey(res, i, key) = RowKey(res, j, key) => i = j

\* Row i of new and row j of old have the same key.
Paired(old, new, key, i, j) ==
    i \in Rows(new) /\ j \in Rows(old) /\ RowKey(old, j, key) = RowKey(new, i, key)

LEMMA ComparableKeys ==
    ASSUME NEW old, NEW new, NEW key, Comparable(old, new, key)
    PROVE  /\ ColumnsOf(old.schema) = ColumnsOf(new.schema) /\ key # <<>>
           /\ UniqueKeys(old, key) /\ UniqueKeys(new, key)
BY DEF Comparable, UniqueKeys

LEMMA UniqueMatches ==
    ASSUME NEW old, NEW new, NEW key, UniqueKeys(old, key), Len(old.rows) \in Nat
    PROVE  /\ OldMap(old, key) = Rows(old)
           /\ \A i \in Rows(new) : \A j : j \in Matches(old, new, i, key) <=> Paired(old, new, key, i, j)
           /\ \A i, j : Paired(old, new, key, i, j) => Matched(old, new, i, key) = j
<1>1. OldMap(old, key) = Rows(old)
    <2>1. \A k \in Rows(old) : k <= k
        BY DEF Rows
    <2> QED
        BY <2>1 DEF OldMap, UniqueKeys
<1>2. \A i \in Rows(new) : \A j : j \in Matches(old, new, i, key) <=> Paired(old, new, key, i, j)
    BY <1>1 DEF Matches, Paired
<1>3. ASSUME NEW i, NEW j, Paired(old, new, key, i, j)
      PROVE  Matched(old, new, i, key) = j
    <2>1. i \in Rows(new) /\ j \in Matches(old, new, i, key)
        BY <1>2, <1>3 DEF Paired
    <2>2. \A k \in Matches(old, new, i, key) : k = j
        BY <1>2, <1>3, <2>1 DEF Paired, UniqueKeys
    <2> QED
        BY <2>1, <2>2 DEF Matched
<1> QED
    BY <1>1, <1>2, <1>3

\* What the three kinds of row come to.
LEMMA MatchedRows ==
    ASSUME NEW old, NEW new, NEW key, UniqueKeys(old, key), Len(old.rows) \in Nat
    PROVE  /\ \A i : i \in Rows(new) \ Inserted(old, new, key)
                  <=> \E j : Paired(old, new, key, i, j)
           /\ \A j : j \in Rows(old) \ Removed(old, new, key)
                  <=> \E i : Paired(old, new, key, i, j)
           /\ \A i, j : Paired(old, new, key, i, j) =>
                  (i \in Updated(old, new, key) <=> RowContent(old, j) # RowContent(new, i))
           /\ Inserted(old, new, key) \subseteq Rows(new)
           /\ Removed(old, new, key) \subseteq Rows(old)
           /\ Updated(old, new, key) \subseteq Rows(new) \ Inserted(old, new, key)
<1>1. /\ OldMap(old, key) = Rows(old)
      /\ \A i \in Rows(new) : \A j : j \in Matches(old, new, i, key) <=> Paired(old, new, key, i, j)
      /\ \A i, j : Paired(old, new, key, i, j) => Matched(old, new, i, key) = j
    BY UniqueMatches
<1>2. \A i : i \in Rows(new) \ Inserted(old, new, key) <=> \E j : Paired(old, new, key, i, j)
    <2>1. \A i : \A j : Paired(old, new, key, i, j) => i \in Rows(new)
        BY DEF Paired
    <2> QED
        BY <1>1, <2>1 DEF Inserted
<1>3. \A j : j \in Rows(old) \ Removed(old, new, key) <=> \E i : Paired(old, new, key, i, j)
    BY <1>1 DEF Removed, Paired
<1>4. ASSUME NEW i, NEW j, Paired(old, new, key, i, j)
      PROVE  i \in Updated(old, new, key) <=> RowContent(old, j) # RowContent(new, i)
    <2>1. i \in Rows(new) \ Inserted(old, new, key) /\ Matched(old, new, i, key) = j
        BY <1>1, <1>2, <1>4
    <2> QED
        BY <2>1 DEF Updated
<1>5. /\ Inserted(old, new, key) \subseteq Rows(new)
      /\ Removed(old, new, key) \subseteq Rows(old)
      /\ Updated(old, new, key) \subseteq Rows(new) \ Inserted(old, new, key)
    BY <1>1 DEF Inserted, Removed, Updated
<1> QED
    BY <1>2, <1>3, <1>4, <1>5

\* A relation between two finite sets that pairs each member of the one with
\* exactly one of the other: as many.
LEMMA PairedCounts ==
    ASSUME NEW A, NEW B, IsFiniteSet(A), NEW R, R \subseteq A \X B,
           \A x \in A : \E y \in B : <<x, y>> \in R,
           \A y \in B : \E x \in A : <<x, y>> \in R,
           \A x \in A : \A y, z \in B : <<x, y>> \in R /\ <<x, z>> \in R => y = z,
           \A y \in B : \A x, z \in A : <<x, y>> \in R /\ <<z, y>> \in R => x = z
    PROVE  Cardinality(A) = Cardinality(B) /\ IsFiniteSet(B)
<1> DEFINE f == [x \in A |-> CHOOSE y \in B : <<x, y>> \in R]
<1>1. \A x \in A : f[x] \in B /\ <<x, f[x]>> \in R
    OBVIOUS
<1>2. f \in [A -> B]
    BY <1>1
<1> HIDE DEF f
<1>3. \A x, z \in A : f[x] = f[z] => x = z
    BY <1>1
<1>4. \A y \in B : \E x \in A : f[x] = y
    <2> SUFFICES ASSUME NEW y \in B PROVE \E x \in A : f[x] = y
        OBVIOUS
    <2>1. PICK x \in A : <<x, y>> \in R
        OBVIOUS
    <2>2. f[x] \in B /\ <<x, f[x]>> \in R
        BY <1>1
    <2> QED
        BY <2>1, <2>2
<1>5. f \in Bijection(A, B)
    BY <1>2, <1>3, <1>4 DEF Bijection, Injection, IsInjective, Surjection
<1>6. ExistsBijection(A, B)
    BY <1>5 DEF ExistsBijection
<1> QED
    BY <1>6, FS_Bijection

-----------------------------------------------------------------------------
(* The counts.                                                             *)

LEMMA RowsAreFinite ==
    ASSUME NEW res, Tabular(res)
    PROVE  /\ Len(res.rows) \in Nat
           /\ Cardinality(Rows(res)) = Len(res.rows)
           /\ \A S \in SUBSET Rows(res) :
                  /\ IsFiniteSet(S) /\ Cardinality(S) \in Nat
                  /\ Cardinality(Rows(res) \ S) = Len(res.rows) - Cardinality(S)
<1>1. Len(res.rows) \in Nat
    BY LenProperties DEF Tabular
<1>2. PICK n \in Nat : n = Len(res.rows)
    BY <1>1
<1>3. IsFiniteSet(1..n) /\ Cardinality(1..n) = n
    BY FS_Interval
<1>4. ASSUME NEW S \in SUBSET (1..n)
      PROVE  /\ IsFiniteSet(S) /\ Cardinality(S) \in Nat
             /\ Cardinality((1..n) \ S) = n - Cardinality(S)
    <2>1. IsFiniteSet(S) /\ Cardinality(S) \in Nat
        BY <1>3, FS_Subset, FS_CardinalityType
    <2>2. Cardinality((1..n) \ S) = Cardinality(1..n) - Cardinality((1..n) \cap S)
        BY <1>3, FS_Difference
    <2>3. (1..n) \cap S = S
        OBVIOUS
    <2> QED
        BY <1>3, <2>1, <2>2, <2>3
<1> QED
    BY <1>1, <1>2, <1>3, <1>4 DEF Rows

\* As many rows stay in the old result as in the new one.
LEMMA KeptAlike ==
    ASSUME NEW old, NEW new, NEW key, Tabular(old), Tabular(new), Comparable(old, new, key)
    PROVE  Len(old.rows) - Cardinality(Removed(old, new, key))
             = Len(new.rows) - Cardinality(Inserted(old, new, key))
<1> DEFINE A == Rows(new) \ Inserted(old, new, key)
           B == Rows(old) \ Removed(old, new, key)
           R == {x \in A \X B : Paired(old, new, key, x[1], x[2])}
<1>1. UniqueKeys(old, key) /\ UniqueKeys(new, key)
    BY ComparableKeys
<1>2. Len(old.rows) \in Nat
    BY RowsAreFinite
<1>3. /\ \A i : i \in A <=> \E j : Paired(old, new, key, i, j)
      /\ \A j : j \in B <=> \E i : Paired(old, new, key, i, j)
      /\ Inserted(old, new, key) \subseteq Rows(new)
      /\ Removed(old, new, key) \subseteq Rows(old)
    BY <1>1, <1>2, MatchedRows
<1>4. IsFiniteSet(A)
    <2>1. A \in SUBSET Rows(new)
        OBVIOUS
    <2> HIDE DEF A
    <2> QED
        BY <2>1, RowsAreFinite
<1> HIDE DEF A, B
<1>5. R \subseteq A \X B /\ \A i \in A, j \in B : <<i, j>> \in R <=> Paired(old, new, key, i, j)
    OBVIOUS
<1> HIDE DEF R
<1>6. /\ \A i \in A : \E j \in B : <<i, j>> \in R
      /\ \A j \in B : \E i \in A : <<i, j>> \in R
    BY <1>3, <1>5
<1>7. /\ \A i \in A : \A j, k \in B : <<i, j>> \in R /\ <<i, k>> \in R => j = k
      /\ \A j \in B : \A i, k \in A : <<i, j>> \in R /\ <<k, j>> \in R => i = k
    BY <1>1, <1>5 DEF Paired, UniqueKeys
<1>8. Cardinality(A) = Cardinality(B)
    BY <1>4, <1>5, <1>6, <1>7, PairedCounts
<1>9. /\ Cardinality(A) = Len(new.rows) - Cardinality(Inserted(old, new, key))
      /\ Cardinality(B) = Len(old.rows) - Cardinality(Removed(old, new, key))
    BY <1>3, RowsAreFinite DEF A, B
<1> QED
    BY <1>8, <1>9

\* Under the same schema the unchanged rows are those both results have.
LEMMA UnchangedCounted ==
    ASSUME NEW old, NEW new, NEW key, Tabular(old), Tabular(new), Comparable(old, new, key),
           old.schema = new.schema
    PROVE  Cardinality(Rows(new) \ (Inserted(old, new, key) \cup Updated(old, new, key)))
             = Cardinality({RowContent(new, i) : i \in Rows(new)}
                           \cap {RowContent(old, j) : j \in Rows(old)})
<1> DEFINE A == Rows(new) \ (Inserted(old, new, key) \cup Updated(old, new, key))
           B == {RowContent(new, i) : i \in Rows(new)} \cap {RowContent(old, j) : j \in Rows(old)}
           R == {x \in A \X B : RowContent(new, x[1]) = x[2]}
<1>1. UniqueKeys(old, key) /\ UniqueKeys(new, key) /\ Len(old.rows) \in Nat
    BY ComparableKeys, RowsAreFinite
<1>2. /\ \A i : i \in Rows(new) \ Inserted(old, new, key) <=> \E j : Paired(old, new, key, i, j)
      /\ \A i, j : Paired(old, new, key, i, j) =>
             (i \in Updated(old, new, key) <=> RowContent(old, j) # RowContent(new, i))
    BY <1>1, MatchedRows
<1>3. IsFiniteSet(A)
    <2>1. A \in SUBSET Rows(new)
        OBVIOUS
    <2> HIDE DEF A
    <2> QED
        BY <2>1, RowsAreFinite
<1>4. ASSUME NEW i \in Rows(new), NEW j \in Rows(old), RowContent(new, i) = RowContent(old, j)
      PROVE  Paired(old, new, key, i, j)
    <2>1. new.rows[i] = old.rows[j]
        BY <1>4, SameRow
    <2> QED
        BY <2>1 DEF Paired, RowKey, CellsOf
<1>5. ASSUME NEW i \in Rows(new), NEW k \in Rows(new), RowContent(new, i) = RowContent(new, k)
      PROVE  i = k
    <2>1. new.rows[i] = new.rows[k]
        BY <1>5, SameRow
    <2>2. RowKey(new, i, key) = RowKey(new, k, key)
        BY <2>1 DEF RowKey, CellsOf
    <2> QED
        BY <1>1, <2>2 DEF UniqueKeys
<1>6. \A i \in A : i \in Rows(new) /\ RowContent(new, i) \in B
    <2> SUFFICES ASSUME NEW i \in A PROVE i \in Rows(new) /\ RowContent(new, i) \in B
        OBVIOUS
    <2>1. i \in Rows(new) \ Inserted(old, new, key) /\ i \notin Updated(old, new, key)
        OBVIOUS
    <2>2. PICK j : Paired(old, new, key, i, j)
        BY <1>2, <2>1
    <2>3. RowContent(old, j) = RowContent(new, i) /\ j \in Rows(old)
        BY <1>2, <2>1, <2>2 DEF Paired
    <2> QED
        BY <2>1, <2>3
<1>7. \A y \in B : \E i \in A : RowContent(new, i) = y
    <2> SUFFICES ASSUME NEW y \in B PROVE \E i \in A : RowContent(new, i) = y
        OBVIOUS
    <2>1. PICK i \in Rows(new), j \in Rows(old) : y = RowContent(new, i) /\ y = RowContent(old, j)
        OBVIOUS
    <2>2. Paired(old, new, key, i, j)
        BY <1>4, <2>1
    <2>3. i \in Rows(new) \ Inserted(old, new, key) /\ i \notin Updated(old, new, key)
        BY <1>2, <2>1, <2>2
    <2> QED
        BY <2>1, <2>3
<1> HIDE DEF A, B
<1>8. R \subseteq A \X B /\ \A i \in A, y \in B : <<i, y>> \in R <=> RowContent(new, i) = y
    OBVIOUS
<1> HIDE DEF R
<1>9. /\ \A i \in A : \E y \in B : <<i, y>> \in R
      /\ \A y \in B : \E i \in A : <<i, y>> \in R
    BY <1>6, <1>7, <1>8
<1>10. /\ \A i \in A : \A y, z \in B : <<i, y>> \in R /\ <<i, z>> \in R => y = z
       /\ \A y \in B : \A i, k \in A : <<i, y>> \in R /\ <<k, y>> \in R => i = k
    BY <1>5, <1>6, <1>8
<1>11. Cardinality(A) = Cardinality(B)
    BY <1>3, <1>8, <1>9, <1>10, PairedCounts
<1> QED
    BY <1>11 DEF A, B

RowsOf(res) == {res.rows[i] : i \in Rows(res)}

NothingMoved(old, new, key) ==
    Inserted(old, new, key) = {} /\ Removed(old, new, key) = {} /\ Updated(old, new, key) = {}

\* Nothing reported under the same schema: the same rows.
LEMMA NothingReported ==
    ASSUME NEW old, NEW new, NEW key, Tabular(old), Tabular(new), Comparable(old, new, key),
           old.schema = new.schema, NothingMoved(old, new, key)
    PROVE  RowsOf(old) = RowsOf(new)
<1>1. UniqueKeys(old, key) /\ Len(old.rows) \in Nat
    BY ComparableKeys, RowsAreFinite
<1>0. Inserted(old, new, key) = {} /\ Removed(old, new, key) = {} /\ Updated(old, new, key) = {}
    BY DEF NothingMoved
<1>2. /\ \A i : i \in Rows(new) \ Inserted(old, new, key) <=> \E j : Paired(old, new, key, i, j)
      /\ \A j : j \in Rows(old) \ Removed(old, new, key) <=> \E i : Paired(old, new, key, i, j)
      /\ \A i, j : Paired(old, new, key, i, j) =>
             (i \in Updated(old, new, key) <=> RowContent(old, j) # RowContent(new, i))
    BY <1>1, MatchedRows
<1>3. ASSUME NEW i, NEW j, Paired(old, new, key, i, j)
      PROVE  i \in Rows(new) /\ j \in Rows(old) /\ old.rows[j] = new.rows[i]
    <2>1. i \in Rows(new) /\ j \in Rows(old)
        BY <1>3 DEF Paired
    <2>2. RowContent(old, j) = RowContent(new, i)
        BY <1>0, <1>2, <1>3
    <2> QED
        BY <2>1, <2>2, SameRow
<1>4. \A i \in Rows(new) : \E j \in Rows(old) : old.rows[j] = new.rows[i]
    BY <1>0, <1>2, <1>3
<1>5. \A j \in Rows(old) : \E i \in Rows(new) : old.rows[j] = new.rows[i]
    BY <1>0, <1>2, <1>3
<1> QED
    BY <1>4, <1>5 DEF RowsOf

-----------------------------------------------------------------------------
(* The cells a binding shows.                                              *)

\* Lists whose places are paired with equal cells count the same cells alike.
LEMMA CountedAlike ==
    ASSUME NEW F, NEW G, IsFiniteSet(DOMAIN F), NEW R, R \subseteq (DOMAIN F) \X (DOMAIN G),
           \A x \in DOMAIN F : \E y \in DOMAIN G : <<x, y>> \in R,
           \A y \in DOMAIN G : \E x \in DOMAIN F : <<x, y>> \in R,
           \A x \in DOMAIN F : \A y, z \in DOMAIN G : <<x, y>> \in R /\ <<x, z>> \in R => y = z,
           \A y \in DOMAIN G : \A x, z \in DOMAIN F : <<x, y>> \in R /\ <<z, y>> \in R => x = z,
           \A x \in DOMAIN F, y \in DOMAIN G : <<x, y>> \in R => F[x] = G[y]
    PROVE  Counted(F) = Counted(G)
<1>1. {F[n] : n \in DOMAIN F} = {G[n] : n \in DOMAIN G}
    <2>1. \A x \in DOMAIN F : \E y \in DOMAIN G : F[x] = G[y]
        OBVIOUS
    <2>2. \A y \in DOMAIN G : \E x \in DOMAIN F : F[x] = G[y]
        OBVIOUS
    <2> QED
        BY <2>1, <2>2
<1>2. ASSUME NEW v
      PROVE  Cardinality({n \in DOMAIN F : F[n] = v}) = Cardinality({n \in DOMAIN G : G[n] = v})
    <2> DEFINE A == {n \in DOMAIN F : F[n] = v}
               B == {n \in DOMAIN G : G[n] = v}
               Q == R \cap (A \X B)
    <2>1. IsFiniteSet(A)
        <3>1. A \subseteq DOMAIN F
            OBVIOUS
        <3> HIDE DEF A
        <3> QED
            BY <3>1, FS_Subset
    <2>2. /\ \A x \in A : x \in DOMAIN F /\ F[x] = v
          /\ \A x \in DOMAIN F : F[x] = v => x \in A
          /\ \A y \in B : y \in DOMAIN G /\ G[y] = v
          /\ \A y \in DOMAIN G : G[y] = v => y \in B
        OBVIOUS
    <2> HIDE DEF A, B
    <2>3. Q \subseteq A \X B /\ \A x \in A, y \in B : <<x, y>> \in Q <=> <<x, y>> \in R
        OBVIOUS
    <2> HIDE DEF Q
    <2>4. \A x \in A : \E y \in B : <<x, y>> \in Q
        BY <2>2, <2>3
    <2>5. \A y \in B : \E x \in A : <<x, y>> \in Q
        BY <2>2, <2>3
    <2>6. /\ \A x \in A : \A y, z \in B : <<x, y>> \in Q /\ <<x, z>> \in Q => y = z
          /\ \A y \in B : \A x, z \in A : <<x, y>> \in Q /\ <<z, y>> \in Q => x = z
        BY <2>2, <2>3
    <2>7. Cardinality(A) = Cardinality(B)
        BY <2>1, <2>3, <2>4, <2>5, <2>6, PairedCounts
    <2> QED
        BY <2>7 DEF A, B
<1> DEFINE S == {F[n] : n \in DOMAIN F}
           inF(v) == Cardinality({n \in DOMAIN F : F[n] = v})
           inG(v) == Cardinality({n \in DOMAIN G : G[n] = v})
<1>3. Counted(F) = [v \in S |-> inF(v)]
    BY DEF Counted
<1>4. Counted(G) = [v \in S |-> inG(v)]
    BY <1>1 DEF Counted
<1>5. \A v : inF(v) = inG(v)
    BY <1>2
<1> HIDE DEF S, inF, inG
<1>6. [v \in S |-> inF(v)] = [v \in S |-> inG(v)]
    BY <1>5
<1> QED
    BY <1>3, <1>4, <1>6

\* A cell of a row that differs from the one in the row it is paired with is
\* in a column the review names.
LEMMA DifferenceNamed ==
    ASSUME NEW old, NEW new, NEW key \in Seq(Column), Tabular(old), Tabular(new),
           Comparable(old, new, key), ~ColumnsSwapped(old, new, key),
           NEW i, NEW j, Paired(old, new, key, i, j),
           NEW c \in Column, new.rows[i][c] # old.rows[j][c]
    PROVE  /\ c \in ColumnsOf(new.schema)
           /\ i \in Updated(old, new, key)
           /\ j \in IndexMatches(old, new, i, key)
<1>1. /\ ColumnsOf(old.schema) = ColumnsOf(new.schema) /\ key # <<>>
      /\ UniqueKeys(old, key) /\ Len(old.rows) \in Nat
    BY ComparableKeys, RowsAreFinite
<1>2. i \in Rows(new) /\ j \in Rows(old) /\ RowKey(old, j, key) = RowKey(new, i, key)
    BY DEF Paired
<1>3. c \in ColumnsOf(new.schema)
    BY <1>1, <1>2 DEF Tabular
<1>4. RowContent(old, j) # RowContent(new, i)
    BY <1>2, <1>3 DEF ColumnsSwapped
<1>5. i \in Updated(old, new, key)
    BY <1>1, <1>4, MatchedRows
<1>6. IndexKey(old, j, key) = IndexKey(new, i, key)
    BY <1>1, <1>2, SameKey
<1>7. ASSUME NEW k \in Rows(old), IndexKey(old, k, key) = IndexKey(new, i, key)
      PROVE  k <= j
    <2>1. RowKey(old, k, key) = RowKey(new, i, key)
        BY <1>1, <1>2, <1>7, SameKey
    <2>2. k = j
        BY <1>1, <1>2, <2>1 DEF UniqueKeys
    <2>3. k \in Nat
        BY <1>7 DEF Rows
    <2> QED
        BY <2>2, <2>3
<1> QED
    BY <1>2, <1>3, <1>5, <1>6, <1>7 DEF IndexMatches

-----------------------------------------------------------------------------
(* The states of a review.                                                 *)

RowTypeOK ==
    /\ bindings \in [BindingId -> Definition \cup {NoDefinition}]
    /\ results \in [QueryId -> Result \cup {NoResult}]
    /\ applied \in [QueryId -> Result \cup {NoResult}]
    /\ diffKey \in [QueryId -> Seq(Column) \cup {NoEntry}]
    /\ templates \in [TemplateRef -> Fields \cup {NoTemplate}]

LEMMA RowTypeInit == RowInit => RowTypeOK
BY DEF RowInit, Init, RowTypeOK

LEMMA RowTypeStep ==
    ASSUME RowTypeOK, [RowNext]_rowVars
    PROVE  RowTypeOK'
<1> USE DEF RowTypeOK
<1>1. ASSUME NEW q \in QueryId, NEW res \in Deliverable, Deliver(q, res)
      PROVE  RowTypeOK'
    BY <1>1 DEF Deliver, SetResult, reviewVars
<1>2. ASSUME NEW b \in BindingId, Redefine(b)
      PROVE  RowTypeOK'
    <2>1. CASE \E d \in Definition : AddBinding(b, d)
        BY <1>2, <2>1 DEF Redefine, AddBinding
    <2>2. CASE RemoveBinding(b)
        BY <1>2, <2>2 DEF Redefine, RemoveBinding
    <2> QED
        BY <1>2, <2>1, <2>2 DEF Redefine
<1>3. ASSUME NEW t \in TemplateRef, NEW fields \in Fields, DefineTemplate(t, fields)
      PROVE  RowTypeOK'
    BY <1>3 DEF DefineTemplate, AddTemplate, reviewVars
<1>4. ASSUME NEW q \in QueryId, NEW o \in BOOLEAN, DefineQuery(q, o)
      PROVE  RowTypeOK'
    BY <1>4 DEF DefineQuery, AddQuery, reviewVars
<1>5. ASSUME NEW q \in QueryId, NEW key \in DiffKeys, SetDiffKey(q, key)
      PROVE  RowTypeOK'
    BY <1>5 DEF SetDiffKey, vars
<1>6. ASSUME applied' = MarkedApplied, UNCHANGED <<vars, diffKey>>
      PROVE  RowTypeOK'
    BY <1>6 DEF MarkedApplied, vars
<1>7. ASSUME UNCHANGED rowVars
      PROVE  RowTypeOK'
    BY <1>7 DEF rowVars, vars, reviewVars
<1> QED
    BY <1>1, <1>2, <1>3, <1>4, <1>5, <1>6, <1>7
    DEF RowNext, LoweringSteps, LowerAll, RefreshFields

\* What is compared: two results, by a key over the columns.
LEMMA Reviewed ==
    ASSUME RowTypeOK, NEW q \in QueryId, results[q] # NoResult
    PROVE  /\ Tabular(OldRows(q)) /\ Tabular(results[q])
           /\ DiffKeyOf(q) \in Seq(Column)
<1>1. Tabular(OldRows(q)) /\ Tabular(results[q])
    <2>1. results[q] \in Result
        BY DEF RowTypeOK
    <2>2. OldRows(q) \in Result \cup {EmptyResult}
        BY DEF RowTypeOK, OldRows
    <2> QED
        BY <2>1, <2>2, ResultsAreTabular
<1>2. DefaultKey(OldRows(q), results[q]) \in Seq(Column)
    <2> DEFINE unique == {k \in DOMAIN results[q].schema :
                              /\ UniqueIn(results[q], results[q].schema[k])
                              /\ UniqueIn(OldRows(q), results[q].schema[k])}
               first == CHOOSE k \in unique : \A m \in unique : k <= m
    <2>1. /\ results[q].schema \in Seq(Column)
          /\ \A k \in DOMAIN results[q].schema : k \in Nat /\ results[q].schema[k] \in Column
        <3>1. results[q].schema \in Seq(Column)
            BY <1>1 DEF Tabular
        <3> QED
            BY <3>1, LenProperties
    <2>2. CASE unique = {}
        BY <2>2 DEF DefaultKey
    <2>3. CASE unique # {}
        <3>1. unique \subseteq Nat
            BY <2>1
        <3>2. \A k \in unique : results[q].schema[k] \in Column
            BY <2>1
        <3>3. DefaultKey(OldRows(q), results[q]) = <<results[q].schema[first]>>
            BY <2>3 DEF DefaultKey
        <3> HIDE DEF unique
        <3>4. \E k \in unique : \A m \in unique : k <= m
            BY <2>3, <3>1, LeastNumber
        <3>5. first \in unique
            BY <3>4
        <3> HIDE DEF first
        <3> QED
            BY <3>2, <3>3, <3>5
    <2> QED
        BY <2>2, <2>3
<1>3. DiffKeyOf(q) \in Seq(Column)
    BY <1>2 DEF DiffKeyOf, RowTypeOK
<1> QED
    BY <1>1, <1>3

\* The types of what is compared hold in every state.
THEOREM ReviewTyped == RowSpec => []RowTypeOK
<1>1. RowInit => RowTypeOK
    BY RowTypeInit
<1>2. RowTypeOK /\ [RowNext]_rowVars => RowTypeOK'
    BY RowTypeStep
<1> QED
    BY <1>1, <1>2, PTL DEF RowSpec

-----------------------------------------------------------------------------
(* Every row is accounted for.                                             *)

LEMMA ReviewAccounts ==
    ASSUME RowTypeOK
    PROVE  RowsAccounted
<1> SUFFICES ASSUME NEW q \in QueryId, results[q] # NoResult,
                    Comparable(OldRows(q), results[q], DiffKeyOf(q))
             PROVE  LET d == QueryRowDiff(q)
                        old == OldRows(q)
                        new == results[q]
                    IN  /\ Len(old.rows) - Cardinality(d.removed) = Len(new.rows) - Cardinality(d.inserted)
                        /\ old.schema = new.schema =>
                             d.unchanged = Cardinality({RowContent(new, i) : i \in Rows(new)}
                                                       \cap {RowContent(old, j) : j \in Rows(old)})
                        /\ d.inserted = {} /\ d.removed = {} /\ d.updated = {} /\ old.schema = new.schema
                             => {old.rows[i] : i \in Rows(old)} = {new.rows[i] : i \in Rows(new)}
    BY DEF RowsAccounted
<1> DEFINE d == QueryRowDiff(q)
           old == OldRows(q)
           new == results[q]
           key == DiffKeyOf(q)
<1>1. Tabular(old) /\ Tabular(new) /\ Comparable(old, new, key)
    BY Reviewed
<1>2. /\ d.inserted = Inserted(old, new, key)
      /\ d.removed = Removed(old, new, key)
      /\ d.updated = Updated(old, new, key)
      /\ d.unchanged = Cardinality(Rows(new) \ (Inserted(old, new, key) \cup Updated(old, new, key)))
    BY DEF QueryRowDiff
<1> HIDE DEF d, old, new, key
<1>3. Len(old.rows) - Cardinality(d.removed) = Len(new.rows) - Cardinality(d.inserted)
    BY <1>1, <1>2, KeptAlike
<1>4. ASSUME old.schema = new.schema
      PROVE  d.unchanged = Cardinality({RowContent(new, i) : i \in Rows(new)}
                                       \cap {RowContent(old, j) : j \in Rows(old)})
    BY <1>1, <1>2, <1>4, UnchangedCounted
<1>5. ASSUME d.inserted = {}, d.removed = {}, d.updated = {}, old.schema = new.schema
      PROVE  {old.rows[i] : i \in Rows(old)} = {new.rows[i] : i \in Rows(new)}
    <2>1. NothingMoved(old, new, key)
        BY <1>2, <1>5 DEF NothingMoved
    <2>2. RowsOf(old) = RowsOf(new)
        BY <1>1, <1>5, <2>1, NothingReported
    <2> QED
        BY <2>2 DEF RowsOf
<1> QED
    BY <1>3, <1>4, <1>5 DEF d, old, new

\* Of comparable results the counts the review shows account for every row
\* (QueryRowDiff, diff.rs).
THEOREM EveryRowAccounted == RowSpec => []RowsAccounted
<1>1. RowTypeOK => RowsAccounted
    BY ReviewAccounts
<1> QED
    BY <1>1, ReviewTyped, PTL

-----------------------------------------------------------------------------
(* Every reader of what changed is named.                                  *)

\* A binding that resolves shows columns, and all it shows it reads.
LEMMA ShownIsRead ==
    ASSUME RowTypeOK, NEW b \in BindingId, Resolvable(b)
    PROVE  /\ bindings[b] \in Definition /\ bindings[b].query \in QueryId
           /\ results[bindings[b].query] # NoResult
           /\ DisplayColumns(b) \subseteq Column /\ DisplayColumns(b) = BindingReads(b)
           /\ bindings[b].sums # {} => ColumnsOf(bindings[b].keys) \subseteq DisplayColumns(b)
<1>1. /\ bindings[b] \in Definition
      /\ bindings[b] \in [kind : {"record", "table", "flow"}, query : QueryId,
                          reads : SUBSET Column, keys : Seq(Column), template : TemplateRef,
                          sums : SUBSET Column]
      /\ (bindings[b].kind # "flow" => bindings[b].sums = {})
      /\ results[bindings[b].query] # NoResult
    BY DEF RowTypeOK, Resolvable, Defined
<1>2. bindings[b].query \in QueryId /\ bindings[b].reads \subseteq Column
    BY <1>1
<1>3. ColumnsOf(bindings[b].keys) \subseteq Column
    <2>1. bindings[b].keys \in Seq(Column)
        BY <1>1
    <2> QED
        BY <2>1, LenProperties DEF ColumnsOf
<1>4. CASE bindings[b].kind = "flow"
    <2>1. templates[bindings[b].template] \in Fields /\ templates[bindings[b].template] # NoTemplate
        BY <1>1, <1>4 DEF Resolvable, RowTypeOK
    <2> QED
        BY <1>1, <1>2, <1>3, <1>4, <2>1 DEF DisplayColumns, BindingReads
<1>5. CASE bindings[b].kind # "flow"
    BY <1>1, <1>2, <1>5 DEF DisplayColumns, BindingReads
<1> QED
    BY <1>4, <1>5

OldOf(b) == OldRows(bindings[b].query)
NewOf(b) == results[bindings[b].query]
KeyOf(b) == DiffKeyOf(bindings[b].query)

\* What AffectedComplete asks of b and of the results it is compared over.
Compared(b) ==
    /\ Resolvable(b) /\ FooterRead(b) /\ Comparable(OldOf(b), NewOf(b), KeyOf(b))
    /\ ~ColumnsSwapped(OldOf(b), NewOf(b), KeyOf(b))

PairedFor(b, i, j) == Paired(OldOf(b), NewOf(b), KeyOf(b), i, j)
CellsIn(b, res, i) == [c \in DisplayColumns(b) |-> res.rows[i][c]]
ShownIn(b, res, i) == [cells |-> CellsIn(b, res, i), footer |-> FooterAt(bindings[b], res.rows, i)]

\* A row whose cells b shows and that reads otherwise than the row it is
\* paired with.
LEMMA ReaderNamed ==
    ASSUME RowTypeOK, NEW b \in BindingId, Compared(b), NEW i, NEW j, PairedFor(b, i, j),
           CellsIn(b, NewOf(b), i) # CellsIn(b, OldOf(b), j)
    PROVE  Affected(b)
<1>1. PICK c \in DisplayColumns(b) : NewOf(b).rows[i][c] # OldOf(b).rows[j][c]
    BY DEF CellsIn
<1>2. PICK q \in QueryId : q = bindings[b].query
    BY ShownIsRead DEF Compared
<1>3. results[q] # NoResult /\ c \in Column /\ c \in BindingReads(b)
    BY <1>1, <1>2, ShownIsRead DEF Compared
<1>4. Tabular(OldOf(b)) /\ Tabular(NewOf(b)) /\ KeyOf(b) \in Seq(Column)
    BY <1>2, <1>3, Reviewed DEF OldOf, NewOf, KeyOf
<1>5. /\ c \in ColumnsOf(NewOf(b).schema) /\ i \in Updated(OldOf(b), NewOf(b), KeyOf(b))
      /\ j \in IndexMatches(OldOf(b), NewOf(b), i, KeyOf(b))
    BY <1>1, <1>3, <1>4, DifferenceNamed DEF Compared, PairedFor
<1>6. c \in ChangedColumns(q)
    <2> DEFINE old == OldRows(q)
               new == results[q]
               key == DiffKeyOf(q)
    <2>1. OldOf(b) = old /\ NewOf(b) = new /\ KeyOf(b) = key
        BY <1>2 DEF OldOf, NewOf, KeyOf
    <2>2. ChangedColumns(q) =
              {x \in ColumnsOf(new.schema) :
                  \E h \in Updated(old, new, key) : \E k \in IndexMatches(old, new, h, key) :
                      new.rows[h][x] # old.rows[k][x]}
        BY DEF ChangedColumns
    <2> HIDE DEF old, new, key
    <2> QED
        BY <1>1, <1>5, <2>1, <2>2
<1> QED
    BY <1>2, <1>3, <1>6 DEF Affected, Compared, Resolvable

\* The pairs there are between two sets of rows.
LEMMA PairsBetween ==
    ASSUME NEW b, NEW A, NEW B
    PROVE  \E R \in SUBSET (A \X B) : \A n \in A, m \in B : <<n, m>> \in R <=> PairedFor(b, n, m)
<1> DEFINE R == {x \in A \X B : PairedFor(b, x[1], x[2])}
<1>1. R \in SUBSET (A \X B) /\ \A n \in A, m \in B : <<n, m>> \in R <=> PairedFor(b, n, m)
    OBVIOUS
<1> QED
    BY <1>1

\* When every row is paired with one that shows the same cells, the groups of
\* two paired rows have the same numbers, and their footers are the same.
LEMMA PairedFooters ==
    ASSUME RowTypeOK, NEW b \in BindingId, Resolvable(b), FooterRead(b),
           Tabular(OldOf(b)), Tabular(NewOf(b)), NEW i, NEW j, PairedFor(b, i, j),
           \A n \in Rows(NewOf(b)) : \E m : PairedFor(b, n, m),
           \A m \in Rows(OldOf(b)) : \E n : PairedFor(b, n, m),
           \A n, m : PairedFor(b, n, m) => n \in Rows(NewOf(b)) /\ m \in Rows(OldOf(b)),
           \A n, m, k : PairedFor(b, n, m) /\ PairedFor(b, n, k) => m = k,
           \A n, m, k : PairedFor(b, n, m) /\ PairedFor(b, k, m) => n = k,
           \A n, m : PairedFor(b, n, m) => CellsIn(b, NewOf(b), n) = CellsIn(b, OldOf(b), m)
    PROVE  FooterAt(bindings[b], NewOf(b).rows, i) = FooterAt(bindings[b], OldOf(b).rows, j)
<1>1. ASSUME NEW c \in bindings[b].sums
      PROVE  Counted(GroupNumbers(NewOf(b).rows, i, bindings[b].keys, c))
                 = Counted(GroupNumbers(OldOf(b).rows, j, bindings[b].keys, c))
    <2> DEFINE F == GroupNumbers(NewOf(b).rows, i, bindings[b].keys, c)
               G == GroupNumbers(OldOf(b).rows, j, bindings[b].keys, c)
               counts(v) == v \notin Blob \cup {Absent}
    <2>1. DOMAIN NewOf(b).rows = Rows(NewOf(b)) /\ DOMAIN OldOf(b).rows = Rows(OldOf(b))
        BY LenProperties DEF Tabular, Rows
    <2>2. c \in DisplayColumns(b) /\ ColumnsOf(bindings[b].keys) \subseteq DisplayColumns(b)
        BY <1>1, ShownIsRead DEF FooterRead
    <2>3. ASSUME NEW n, NEW m, PairedFor(b, n, m)
          PROVE  \A x \in DisplayColumns(b) : NewOf(b).rows[n][x] = OldOf(b).rows[m][x]
        <3>1. CellsIn(b, NewOf(b), n) = CellsIn(b, OldOf(b), m)
            BY <2>3
        <3> QED
            BY <3>1 DEF CellsIn
    <2>4. /\ DOMAIN F = {n \in Rows(NewOf(b)) :
                            /\ \A k \in ColumnsOf(bindings[b].keys) :
                                  NewOf(b).rows[n][k] = NewOf(b).rows[i][k]
                            /\ counts(NewOf(b).rows[n][c])}
          /\ \A n \in DOMAIN F : F[n] = NewOf(b).rows[n][c]
        BY <2>1 DEF GroupNumbers
    <2>5. /\ DOMAIN G = {m \in Rows(OldOf(b)) :
                            /\ \A k \in ColumnsOf(bindings[b].keys) :
                                  OldOf(b).rows[m][k] = OldOf(b).rows[j][k]
                            /\ counts(OldOf(b).rows[m][c])}
          /\ \A m \in DOMAIN G : G[m] = OldOf(b).rows[m][c]
        BY <2>1 DEF GroupNumbers
    <2>6. ASSUME NEW n, NEW m, PairedFor(b, n, m)
          PROVE  n \in DOMAIN F <=> m \in DOMAIN G
        <3>1. n \in Rows(NewOf(b)) /\ m \in Rows(OldOf(b))
            BY <2>6
        <3>2. NewOf(b).rows[n][c] = OldOf(b).rows[m][c]
            BY <2>2, <2>3, <2>6
        <3>3. \A k \in ColumnsOf(bindings[b].keys) :
                  NewOf(b).rows[n][k] = OldOf(b).rows[m][k] /\ NewOf(b).rows[i][k] = OldOf(b).rows[j][k]
            BY <2>2, <2>3, <2>6
        <3> HIDE DEF F, G, counts
        <3> QED
            BY <2>4, <2>5, <3>1, <3>2, <3>3
    <2>7. IsFiniteSet(DOMAIN F)
        <3>1. DOMAIN F \in SUBSET Rows(NewOf(b))
            BY <2>4
        <3> HIDE DEF F
        <3> QED
            BY <3>1, RowsAreFinite
    <2> HIDE DEF F, G
    <2>8. PICK A, B : A = DOMAIN F /\ B = DOMAIN G
        OBVIOUS
    <2> HIDE DEF counts
    <2>9. PICK R \in SUBSET (A \X B) : \A n \in A, m \in B : <<n, m>> \in R <=> PairedFor(b, n, m)
        BY PairsBetween
    <2>10. \A n \in A : \E m \in B : <<n, m>> \in R
        <3> SUFFICES ASSUME NEW n \in A PROVE \E m \in B : <<n, m>> \in R
            OBVIOUS
        <3>1. PICK m : PairedFor(b, n, m)
            BY <2>4, <2>8
        <3> QED
            BY <2>6, <2>8, <2>9, <3>1
    <2>11. \A m \in B : \E n \in A : <<n, m>> \in R
        <3> SUFFICES ASSUME NEW m \in B PROVE \E n \in A : <<n, m>> \in R
            OBVIOUS
        <3>1. PICK n : PairedFor(b, n, m)
            BY <2>5, <2>8
        <3> QED
            BY <2>6, <2>8, <2>9, <3>1
    <2>12. \A n \in A : \A m, k \in B : <<n, m>> \in R /\ <<n, k>> \in R => m = k
        BY <2>9
    <2>13. \A m \in B : \A n, k \in A : <<n, m>> \in R /\ <<k, m>> \in R => n = k
        <3> SUFFICES ASSUME NEW m \in B, NEW n \in A, NEW k \in A, <<n, m>> \in R, <<k, m>> \in R
                     PROVE  n = k
            OBVIOUS
        <3>1. PairedFor(b, n, m) /\ PairedFor(b, k, m)
            BY <2>9
        <3> QED
            BY <3>1
    <2>14. \A n \in A, m \in B : <<n, m>> \in R => F[n] = G[m]
        <3> SUFFICES ASSUME NEW n \in A, NEW m \in B, <<n, m>> \in R PROVE F[n] = G[m]
            OBVIOUS
        <3>1. F[n] = NewOf(b).rows[n][c]
            BY <2>4, <2>8
        <3>2. G[m] = OldOf(b).rows[m][c]
            BY <2>5, <2>8
        <3>3. NewOf(b).rows[n][c] = OldOf(b).rows[m][c]
            BY <2>2, <2>3, <2>9
        <3> QED
            BY <3>1, <3>2, <3>3
    <2>15. Counted(F) = Counted(G)
        <3>1. PICK f, g : f = F /\ g = G
            OBVIOUS
        <3>2. DOMAIN f = A /\ DOMAIN g = B /\ IsFiniteSet(DOMAIN f) /\ R \subseteq (DOMAIN f) \X (DOMAIN g)
            BY <2>7, <2>8, <2>9, <3>1
        <3>3. /\ \A n \in DOMAIN f : \E m \in DOMAIN g : <<n, m>> \in R
              /\ \A m \in DOMAIN g : \E n \in DOMAIN f : <<n, m>> \in R
            BY <2>10, <2>11, <3>2
        <3>4. /\ \A n \in DOMAIN f : \A m, k \in DOMAIN g : <<n, m>> \in R /\ <<n, k>> \in R => m = k
              /\ \A m \in DOMAIN g : \A n, k \in DOMAIN f : <<n, m>> \in R /\ <<k, m>> \in R => n = k
            BY <2>12, <2>13, <3>2
        <3>5. \A n \in DOMAIN f, m \in DOMAIN g : <<n, m>> \in R => f[n] = g[m]
            BY <2>14, <3>1, <3>2
        <3>6. Counted(f) = Counted(g)
            BY <3>2, <3>3, <3>4, <3>5, CountedAlike
        <3> QED
            BY <3>1, <3>6
    <2> QED
        BY <2>15 DEF F, G
<1> QED
    BY <1>1 DEF FooterAt

\* A binding that is not named shows the same cells and footers, in some
\* order.
LEMMA NotNamedSameCells ==
    ASSUME RowTypeOK, NEW b \in BindingId, Compared(b), ~Affected(b)
    PROVE  ShownCells(b, OldOf(b)) = ShownCells(b, NewOf(b))
<1> DEFINE F == [i \in Rows(NewOf(b)) |-> ShownIn(b, NewOf(b), i)]
           G == [j \in Rows(OldOf(b)) |-> ShownIn(b, OldOf(b), j)]
           R == {x \in Rows(NewOf(b)) \X Rows(OldOf(b)) : PairedFor(b, x[1], x[2])}
<1>1. PICK q \in QueryId : q = bindings[b].query /\ results[q] # NoResult
    BY ShownIsRead DEF Compared
<1>2. Tabular(OldOf(b)) /\ Tabular(NewOf(b))
    BY <1>1, Reviewed DEF OldOf, NewOf
<1>3. UniqueKeys(OldOf(b), KeyOf(b)) /\ UniqueKeys(NewOf(b), KeyOf(b)) /\ Len(OldOf(b).rows) \in Nat
    BY <1>2, ComparableKeys, RowsAreFinite DEF Compared
<1>4. Inserted(OldOf(b), NewOf(b), KeyOf(b)) = {} /\ Removed(OldOf(b), NewOf(b), KeyOf(b)) = {}
    BY <1>1 DEF Affected, RowsMoved, Compared, Resolvable, OldOf, NewOf, KeyOf
<1>5. /\ \A i \in Rows(NewOf(b)) : \E j : PairedFor(b, i, j)
      /\ \A j \in Rows(OldOf(b)) : \E i : PairedFor(b, i, j)
      /\ \A i, j : PairedFor(b, i, j) => i \in Rows(NewOf(b)) /\ j \in Rows(OldOf(b))
    BY <1>3, <1>4, MatchedRows DEF PairedFor, Paired
<1>6. /\ \A i, j, k : PairedFor(b, i, j) /\ PairedFor(b, i, k) => j = k
      /\ \A i, j, k : PairedFor(b, i, j) /\ PairedFor(b, k, j) => i = k
    BY <1>3 DEF PairedFor, Paired, UniqueKeys
<1>7. \A i, j : PairedFor(b, i, j) => ShownIn(b, NewOf(b), i) = ShownIn(b, OldOf(b), j)
    <2> SUFFICES ASSUME NEW i, NEW j, PairedFor(b, i, j)
                 PROVE  ShownIn(b, NewOf(b), i) = ShownIn(b, OldOf(b), j)
        OBVIOUS
    <2>1. /\ \A n, m : PairedFor(b, n, m) => CellsIn(b, NewOf(b), n) = CellsIn(b, OldOf(b), m)
          /\ CellsIn(b, NewOf(b), i) = CellsIn(b, OldOf(b), j)
        BY ReaderNamed
    <2>2. FooterAt(bindings[b], NewOf(b).rows, i) = FooterAt(bindings[b], OldOf(b).rows, j)
        <3>1. Resolvable(b) /\ FooterRead(b)
            BY DEF Compared
        <3> QED
            BY <1>2, <1>5, <1>6, <2>1, <3>1, PairedFooters
    <2> QED
        BY <2>1, <2>2 DEF ShownIn
<1>8. /\ DOMAIN F = Rows(NewOf(b)) /\ \A i \in DOMAIN F : F[i] = ShownIn(b, NewOf(b), i)
      /\ DOMAIN G = Rows(OldOf(b)) /\ \A j \in DOMAIN G : G[j] = ShownIn(b, OldOf(b), j)
    OBVIOUS
<1>9. /\ R \subseteq Rows(NewOf(b)) \X Rows(OldOf(b))
      /\ \A i \in Rows(NewOf(b)), j \in Rows(OldOf(b)) : <<i, j>> \in R <=> PairedFor(b, i, j)
    OBVIOUS
<1>10. ShownCells(b, NewOf(b)) = Counted(F) /\ ShownCells(b, OldOf(b)) = Counted(G)
    BY DEF ShownCells, ShownIn, CellsIn
<1> HIDE DEF F, G, R
<1>11. IsFiniteSet(DOMAIN F) /\ R \subseteq (DOMAIN F) \X (DOMAIN G)
    BY <1>2, <1>8, <1>9, RowsAreFinite
<1>12. /\ \A i \in DOMAIN F : \E j \in DOMAIN G : <<i, j>> \in R
       /\ \A j \in DOMAIN G : \E i \in DOMAIN F : <<i, j>> \in R
    BY <1>5, <1>8, <1>9
<1>13. /\ \A i \in DOMAIN F : \A j, k \in DOMAIN G : <<i, j>> \in R /\ <<i, k>> \in R => j = k
       /\ \A j \in DOMAIN G : \A i, k \in DOMAIN F : <<i, j>> \in R /\ <<k, j>> \in R => i = k
    BY <1>6, <1>8, <1>9
<1>14. \A i \in DOMAIN F, j \in DOMAIN G : <<i, j>> \in R => F[i] = G[j]
    BY <1>7, <1>8, <1>9
<1>15. Counted(F) = Counted(G)
    BY <1>11, <1>12, <1>13, <1>14, CountedAlike
<1> QED
    BY <1>10, <1>15

LEMMA ReadersNamed ==
    ASSUME RowTypeOK
    PROVE  AffectedComplete
<1> SUFFICES ASSUME NEW b \in BindingId, Compared(b)
             PROVE  /\ bindings[b].kind # "record" /\ ShownCells(b, OldOf(b)) # ShownCells(b, NewOf(b))
                        => Affected(b)
                    /\ bindings[b].kind = "record" =>
                         \A i \in Rows(NewOf(b)), j \in Rows(OldOf(b)) :
                             /\ RowKey(NewOf(b), i, KeyOf(b)) = RowKey(OldOf(b), j, KeyOf(b))
                             /\ \E c \in DisplayColumns(b) :
                                    NewOf(b).rows[i][c] # OldOf(b).rows[j][c]
                             => Affected(b)
    BY DEF AffectedComplete, ReaderListed, Compared, OldOf, NewOf, KeyOf
<1>1. ShownCells(b, OldOf(b)) # ShownCells(b, NewOf(b)) => Affected(b)
    BY NotNamedSameCells
<1>2. ASSUME NEW i \in Rows(NewOf(b)), NEW j \in Rows(OldOf(b)),
             RowKey(NewOf(b), i, KeyOf(b)) = RowKey(OldOf(b), j, KeyOf(b)),
             NEW c \in DisplayColumns(b), NewOf(b).rows[i][c] # OldOf(b).rows[j][c]
      PROVE  Affected(b)
    <2>1. PairedFor(b, i, j)
        BY <1>2 DEF PairedFor, Paired
    <2>2. CellsIn(b, NewOf(b), i)[c] # CellsIn(b, OldOf(b), j)[c]
        BY <1>2 DEF CellsIn
    <2>3. CellsIn(b, NewOf(b), i) # CellsIn(b, OldOf(b), j)
        BY <2>2
    <2> QED
        BY <2>1, <2>3, ReaderNamed
<1> QED
    BY <1>1, <1>2

\* "Which bindings on query read what changed" (affected_bindings, review.rs):
\* none that shows other cells, or footers of other sums, than it did is left
\* out, unless columns traded places.  A flow whose sum_field nothing else of
\* it reads is not covered: the review does not read that field.
THEOREM EveryReaderNamed == RowSpec => []AffectedComplete
<1>1. RowTypeOK => AffectedComplete
    BY ReadersNamed
<1> QED
    BY <1>1, ReviewTyped, PTL
=============================================================================
