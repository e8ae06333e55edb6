----------------------------- MODULE MergeProofs -----------------------------
(***************************************************************************)
(* Proofs about Data Merge, for any template, table, margin box and merge  *)
(* options, and any characters of the texts.                               *)
(*                                                                         *)
(* MergeInv is inductive: the records so far are the plan's.  The rest is  *)
(* arithmetic of the plan: a page's records are an interval of the table,  *)
(* a slot's row and column are the quotient and the remainder of its       *)
(* number, a slot ends before the next one starts, and the slots of a side *)
(* fill it.                                                                *)
(*                                                                         *)
(* The placeholders a scan of a line returns are its pairs of markers,     *)
(* each the first from where the last one ended (ScanFinds).  What was     *)
(* measured is of the records so far (OversetInv), and a line wraps word   *)
(* by word as it is set (CountIsSet).                                      *)
(***************************************************************************)
EXTENDS MergePlan, FiniteSetTheorems, FunctionTheorems, SequenceTheorems,
        NaturalsInduction, WellFoundedInduction, TLAPS

-----------------------------------------------------------------------------
(* Data Merge: the numbers of a grid.                                      *)

LEMMA ProductMonotonic ==
    ASSUME NEW x \in Int, NEW y \in Int, NEW d \in Nat, x <= y
    PROVE  x * d <= y * d
    OBVIOUS

LEMMA Quotient ==
    ASSUME NEW a \in Int, NEW d \in Nat \ {0}
    PROVE  /\ a \div d \in Int /\ a % d \in 0..(d - 1)
           /\ (a \div d) * d <= a /\ a < (a \div d) * d + d
           /\ a = (a \div d) * d + (a % d)
<1>1. a \div d \in Int
    OBVIOUS
<1>2. a % d \in 0..(d - 1)
    OBVIOUS
<1>3. (a \div d) * d <= a
    OBVIOUS
<1>4. a < (a \div d) * d + d
    OBVIOUS
<1>5. a % d = a - (a \div d) * d
    OBVIOUS
<1>6. (a \div d) * d \in Int
    BY <1>1
<1>7. a = (a \div d) * d + (a % d)
    BY <1>5, <1>6
<1> QED
    BY <1>1, <1>2, <1>3, <1>4, <1>7

LEMMA QuotientOnly ==
    ASSUME NEW a \in Int, NEW d \in Nat \ {0}, NEW q \in Int
    PROVE  a \div d = q <=> q * d <= a /\ a < q * d + d
<1> DEFINE p == a \div d
<1>1. p \in Int /\ p * d \in Int /\ q * d \in Int /\ p * d <= a /\ a < p * d + d
    BY Quotient
<1>2. ASSUME q * d <= a, a < q * d + d
      PROVE  p = q
    <2>1. ASSUME p < q PROVE FALSE
        <3>1. (p + 1) * d <= q * d
            BY <1>1, <2>1, ProductMonotonic
        <3>2. (p + 1) * d = p * d + d
            BY <1>1
        <3> HIDE DEF p
        <3> QED
            BY <1>1, <1>2, <3>1, <3>2
    <2>2. ASSUME q < p PROVE FALSE
        <3>1. (q + 1) * d <= p * d
            BY <1>1, <2>2, ProductMonotonic
        <3>2. (q + 1) * d = q * d + d
            OBVIOUS
        <3> HIDE DEF p
        <3> QED
            BY <1>1, <1>2, <3>1, <3>2
    <2> HIDE DEF p
    <2> QED
        BY <1>1, <2>1, <2>2
<1> QED
    BY <1>1, <1>2

\* Along one side: the slots fit, if one does, and another would not.
LEMMA SlotsFill ==
    ASSUME NEW room \in Int, NEW size \in Int, NEW spacing \in Int, size + spacing > 0
    PROVE  /\ Slots(room, size, spacing) \in Nat \ {0}
           /\ ~RoomFor(Slots(room, size, spacing) + 1, room, size, spacing)
           /\ size <= room => \A i \in 0..(Slots(room, size, spacing) - 1) :
                  i * (size + spacing) + size <= room
<1> DEFINE d == size + spacing
           q == (room + spacing) \div d
           n == Slots(room, size, spacing)
<1>1. d \in Nat \ {0} /\ room + spacing \in Int
    OBVIOUS
<1>2. q \in Int /\ q * d \in Int /\ q * d <= room + spacing /\ room + spacing < q * d + d
    <2> HIDE DEF d
    <2>1. q \in Int /\ q * d <= room + spacing /\ room + spacing < q * d + d
        BY <1>1, Quotient
    <2> QED
        BY <1>1, <2>1
<1>3. n = IF q < 1 THEN 1 ELSE q
    BY DEF Slots
<1> HIDE DEF n, q
<1>4. n \in Nat \ {0} /\ q <= n
    BY <1>2, <1>3
<1>5. q * d <= n * d /\ n * d \in Int
    <2> HIDE DEF d
    <2> QED
        BY <1>1, <1>2, <1>4, ProductMonotonic
<1>6. (n + 1) * size + (n + 1 - 1) * spacing = n * d + size
    <2>1. n * d = n * size + n * spacing
        BY <1>4
    <2>2. (n + 1) * size = n * size + size
        BY <1>4
    <2>3. n + 1 - 1 = n /\ n * size \in Int /\ n * spacing \in Int
        BY <1>4
    <2> QED
        BY <2>1, <2>2, <2>3
<1>7. ~RoomFor(n + 1, room, size, spacing)
    <2> SUFFICES ASSUME RoomFor(n + 1, room, size, spacing) PROVE FALSE
        OBVIOUS
    <2>1. (n + 1) * size + (n + 1 - 1) * spacing <= room
        BY <1>4 DEF RoomFor
    <2>2. n * d + size <= room
        BY <1>6, <2>1, Zenon
    <2> HIDE DEF d
    <2> QED
        BY <1>1, <1>2, <1>5, <2>2 DEF d
<1>8. ASSUME size <= room, NEW i \in 0..(n - 1)
      PROVE  i * d + size <= room
    <2>1. q >= 1
        <3>1. ASSUME q <= 0 PROVE FALSE
            <4>1. q * d <= 0 * d
                <5> HIDE DEF d
                <5> QED
                    BY <1>1, <1>2, <3>1, ProductMonotonic
            <4>2. 0 * d = 0
                OBVIOUS
            <4> QED
                BY <1>2, <1>8, <4>1, <4>2
        <3> QED
            BY <1>2, <3>1
    <2>2. i + 1 \in Int /\ i \in Int /\ i + 1 <= q
        BY <1>2, <1>3, <1>8, <2>1
    <2>3. (i + 1) * d <= q * d
        <3> HIDE DEF d
        <3> QED
            BY <1>1, <1>2, <2>2, ProductMonotonic
    <2>4. (i + 1) * d = i * d + d /\ i * d \in Int
        BY <2>2
    <2> QED
        BY <1>2, <2>3, <2>4
<1> QED
    BY <1>4, <1>7, <1>8 DEF n

LEMMA LeastNumber ==
    ASSUME NEW S, S \subseteq Nat, S # {}
    PROVE  \E k \in S : \A m \in S : k <= m
<1> DEFINE R == OpToRel(<, Nat)
<1>1. IsWellFoundedOn(R, Nat)
    BY NatLessThanWellFounded
<1> HIDE DEF R
<1>2. \E x \in S : \A y \in S : ~(<<y, x>> \in R)
    BY <1>1, WFMin, ZenonT(60)
<1>3. PICK k \in S : \A m \in S : ~(<<m, k>> \in R)
    BY <1>2
<1>4. \A m \in S : ~(m < k)
    BY <1>3 DEF OpToRel, R
<1> QED
    BY <1>4

\* Of finitely many numbers one is the least and one the greatest.
LEMMA LeastValue ==
    ASSUME NEW n \in Nat \ {0}, NEW f \in [1..n -> Int]
    PROVE  \E i \in 1..n : \A j \in 1..n : f[i] <= f[j]
<1> DEFINE Under(i) == {j \in 1..n : f[j] < f[i]}
           S == {Cardinality(Under(i)) : i \in 1..n}
<1>1. IsFiniteSet(1..n) /\ 1 \in 1..n
    BY FS_Interval
<1>2. ASSUME NEW i \in 1..n
      PROVE  IsFiniteSet(Under(i)) /\ Cardinality(Under(i)) \in Nat
    <2>1. Under(i) \subseteq 1..n
        OBVIOUS
    <2> HIDE DEF Under
    <2> QED
        BY <1>1, <2>1, FS_Subset, FS_CardinalityType
<1>3. PICK i \in 1..n : \A j \in 1..n : ~(Cardinality(Under(j)) < Cardinality(Under(i)))
    <2>1. S \subseteq Nat /\ S # {}
        <3> HIDE DEF Under
        <3> QED
            BY <1>1, <1>2
    <2> HIDE DEF S, Under
    <2>2. PICK k \in S : \A m \in S : k <= m
        BY <2>1, LeastNumber
    <2>3. k \in Nat /\ \A m \in S : m \in Nat /\ ~(m < k)
        BY <2>1, <2>2
    <2> QED
        BY <2>3 DEF S
<1>4. ASSUME NEW j \in 1..n, f[j] < f[i]
      PROVE  FALSE
    <2>1. f[i] \in Int /\ f[j] \in Int /\ \A k \in 1..n : f[k] \in Int
        OBVIOUS
    <2>2. Under(j) \subseteq Under(i) /\ j \in Under(i) /\ j \notin Under(j)
        BY <1>4, <2>1
    <2>3. Under(j) \cup {j} \subseteq Under(i)
        BY <2>2
    <2> HIDE DEF Under
    <2>4. Cardinality(Under(j) \cup {j}) = Cardinality(Under(j)) + 1
        BY <1>2, <2>2, FS_AddElement
    <2>5. Cardinality(Under(j) \cup {j}) <= Cardinality(Under(i))
        BY <1>2, <2>3, FS_Subset
    <2> QED
        BY <1>2, <1>3, <2>4, <2>5
<1>5. \A j \in 1..n : f[i] \in Int /\ f[j] \in Int
    OBVIOUS
<1>6. \A j \in 1..n : f[i] <= f[j]
    <2> SUFFICES ASSUME NEW j \in 1..n PROVE f[i] <= f[j]
        OBVIOUS
    <2>1. f[i] \in Int /\ f[j] \in Int /\ ~(f[j] < f[i])
        BY <1>4, <1>5
    <2> QED
        BY <2>1
<1> QED
    BY <1>6

LEMMA EdgesTyped ==
    ASSUME NEW n \in Nat \ {0}, NEW f \in [1..n -> Int]
    PROVE  Lowest({f[i] : i \in 1..n}) \in Int /\ Highest({f[i] : i \in 1..n}) \in Int
<1> DEFINE g == [i \in 1..n |-> -f[i]]
           S == {f[i] : i \in 1..n}
<1>1. S \subseteq Int /\ \A i \in 1..n : f[i] \in S
    OBVIOUS
<1>2. PICK i \in 1..n : \A j \in 1..n : f[i] <= f[j]
    BY LeastValue
<1>3. g \in [1..n -> Int]
    OBVIOUS
<1>4. PICK k \in 1..n : \A j \in 1..n : g[k] <= g[j]
    <2> HIDE DEF g
    <2> QED
        BY <1>3, LeastValue
<1>5. \A j \in 1..n : f[k] >= f[j]
    <2> SUFFICES ASSUME NEW j \in 1..n PROVE f[k] >= f[j]
        OBVIOUS
    <2>1. f[k] \in Int /\ f[j] \in Int /\ g[k] = -f[k] /\ g[j] = -f[j] /\ g[k] <= g[j]
        BY <1>4
    <2> HIDE DEF g
    <2> QED
        BY <2>1
<1>6. (\A y \in S : f[i] <= y) /\ (\A y \in S : f[k] >= y)
    BY <1>2, <1>5
<1> HIDE DEF S
<1>7. Lowest(S) \in S
    BY <1>1, <1>6 DEF Lowest
<1>8. Highest(S) \in S
    BY <1>1, <1>6 DEF Highest
<1> QED
    BY <1>1, <1>7, <1>8 DEF S

LEMMA CellTyped ==
    ASSUME NEW s \in MergeSpec, s.frames # <<>>
    PROVE  /\ CellOf(s.frames) \in Bounds
           /\ Height(CellOf(s.frames)) \in Int /\ Width(CellOf(s.frames)) \in Int
           /\ s.marginBox \in Bounds /\ Height(s.marginBox) \in Int /\ Width(s.marginBox) \in Int
           /\ s.spacing[1] \in Int /\ s.spacing[2] \in Int
<1> DEFINE n == Len(s.frames)
           side(e) == [i \in 1..n |-> s.frames[i].bounds[e]]
<1>1. s.frames \in Seq(MergeTemplateFrame) /\ s.marginBox \in Bounds /\ s.spacing \in Int \X Int
    BY DEF MergeSpec
<1>2. n \in Nat \ {0} /\ DOMAIN s.frames = 1..n /\ \A i \in 1..n : s.frames[i] \in MergeTemplateFrame
    BY <1>1, LenProperties, EmptySeq
<1>3. \A i \in 1..n : s.frames[i].bounds \in Bounds
    BY <1>2 DEF MergeTemplateFrame
<1>4. \A b \in Bounds : b[1] \in Int /\ b[2] \in Int /\ b[3] \in Int /\ b[4] \in Int
    BY DEF Bounds
<1> HIDE DEF n
<1>5. side(1) \in [1..n -> Int] /\ side(2) \in [1..n -> Int]
      /\ side(3) \in [1..n -> Int] /\ side(4) \in [1..n -> Int]
    BY <1>3, <1>4
<1>6. ASSUME NEW e \in 1..4, side(e) \in [1..n -> Int]
      PROVE  /\ Lowest({s.frames[i].bounds[e] : i \in DOMAIN s.frames}) \in Int
             /\ Highest({s.frames[i].bounds[e] : i \in DOMAIN s.frames}) \in Int
    <2>1. {side(e)[i] : i \in 1..n} = {s.frames[i].bounds[e] : i \in DOMAIN s.frames}
        BY <1>2
    <2> HIDE DEF side
    <2>2. Lowest({side(e)[i] : i \in 1..n}) \in Int /\ Highest({side(e)[i] : i \in 1..n}) \in Int
        BY <1>2, <1>6, EdgesTyped
    <2> QED
        BY <2>1, <2>2
<1> HIDE DEF side
<1>7. CellOf(s.frames) \in Bounds
    BY <1>5, <1>6 DEF CellOf, Bounds
<1>8. \A b \in Bounds : Height(b) \in Int /\ Width(b) \in Int
    BY <1>4 DEF Height, Width
<1> QED
    BY <1>1, <1>7, <1>8

LEMMA GridTyped ==
    ASSUME NEW s \in MergeSpec, s.frames # <<>>, ~DegenerateCell(s)
    PROVE  /\ MergeGrid(s).rows \in Nat \ {0} /\ MergeGrid(s).columns \in Nat \ {0}
           /\ PerPage(s) \in Nat \ {0}
<1>1. MergeGrid(s).rows \in Nat \ {0} /\ MergeGrid(s).columns \in Nat \ {0}
    <2>1. CASE ~Multiple(s)
        BY <2>1 DEF MergeGrid
    <2>2. CASE Multiple(s)
        <3>1. /\ Height(CellOf(s.frames)) + s.spacing[1] > 0
              /\ Width(CellOf(s.frames)) + s.spacing[2] > 0
            BY <2>2, CellTyped DEF DegenerateCell
        <3>2. /\ Slots(Height(s.marginBox), Height(CellOf(s.frames)), s.spacing[1]) \in Nat \ {0}
              /\ Slots(Width(s.marginBox), Width(CellOf(s.frames)), s.spacing[2]) \in Nat \ {0}
            BY <3>1, CellTyped, SlotsFill
        <3> QED
            BY <2>2, <3>2 DEF MergeGrid
    <2> QED
        BY <2>1, <2>2
<1>2. \A x, y \in Nat \ {0} : x * y \in Nat \ {0}
    OBVIOUS
<1> QED
    BY <1>1, <1>2 DEF PerPage

LEMMA PlaceInGrid ==
    ASSUME NEW rows \in Nat \ {0}, NEW columns \in Nat \ {0}, NEW x \in Nat, x < rows * columns
    PROVE  x \div columns \in 0..(rows - 1) /\ x % columns \in 0..(columns - 1)
<1> DEFINE q == x \div columns
<1>1. q \in Int /\ q * columns <= x /\ x < q * columns + columns /\ x % columns \in 0..(columns - 1)
      /\ q * columns \in Int
    BY Quotient
<1> HIDE DEF q
<1>2. ASSUME q < 0 PROVE FALSE
    <2>1. (q + 1) * columns <= 0 * columns
        BY <1>1, <1>2, ProductMonotonic
    <2>2. (q + 1) * columns = q * columns + columns
        BY <1>1
    <2> QED
        BY <1>1, <2>1, <2>2
<1>3. ASSUME q >= rows PROVE FALSE
    <2>1. rows * columns <= q * columns
        BY <1>1, <1>3, ProductMonotonic
    <2>2. rows * columns \in Int
        OBVIOUS
    <2> QED
        BY <1>1, <2>1, <2>2
<1>4. q \in 0..(rows - 1)
    BY <1>1, <1>2, <1>3
<1> QED
    BY <1>1, <1>4 DEF q

LEMMA SlotsPlaced ==
    ASSUME NEW s \in MergeSpec, s.frames # <<>>, ~DegenerateCell(s), NEW x \in 0..(PerPage(s) - 1)
    PROVE  /\ SlotOf(s, x)[1] \in 0..(MergeGrid(s).rows - 1)
           /\ SlotOf(s, x)[2] \in 0..(MergeGrid(s).columns - 1)
<1> DEFINE rows == MergeGrid(s).rows
           columns == MergeGrid(s).columns
<1>1. rows \in Nat \ {0} /\ columns \in Nat \ {0} /\ PerPage(s) \in Nat
    BY GridTyped
<1>2. PerPage(s) = rows * columns
    BY DEF PerPage
<1>3. x \in Nat /\ x < rows * columns
    BY <1>1, <1>2
<1> HIDE DEF rows, columns
<1>4. rows * columns = columns * rows
    BY <1>1
<1>5. x \div columns \in 0..(rows - 1) /\ x % columns \in 0..(columns - 1)
    BY <1>1, <1>3, PlaceInGrid
<1>6. x \div rows \in 0..(columns - 1) /\ x % rows \in 0..(rows - 1)
    BY <1>1, <1>3, <1>4, PlaceInGrid
<1> QED
    BY <1>5, <1>6 DEF SlotOf, rows, columns

\* Two slots of a page are not in one place.
LEMMA SlotsDiffer ==
    ASSUME NEW s \in MergeSpec, s.frames # <<>>, ~DegenerateCell(s),
           NEW x \in 0..(PerPage(s) - 1), NEW y \in 0..(PerPage(s) - 1), SlotOf(s, x) = SlotOf(s, y)
    PROVE  x = y
<1>1. MergeGrid(s).rows \in Nat \ {0} /\ MergeGrid(s).columns \in Nat \ {0} /\ PerPage(s) \in Nat
    BY GridTyped
<1>2. ASSUME NEW d \in Nat \ {0}, x \div d = y \div d, x % d = y % d
      PROVE  x = y
    <2>1. x \in Int /\ y \in Int
        BY <1>1
    <2>2. x = (x \div d) * d + (x % d) /\ y = (y \div d) * d + (y % d)
        BY <2>1, Quotient
    <2> QED
        BY <1>2, <2>2
<1>3. CASE s.arrange = "rows"
    <2>1. /\ x \div MergeGrid(s).columns = y \div MergeGrid(s).columns
          /\ x % MergeGrid(s).columns = y % MergeGrid(s).columns
        BY <1>3 DEF SlotOf
    <2> QED
        BY <1>1, <1>2, <2>1
<1>4. CASE s.arrange # "rows"
    <2>1. /\ x \div MergeGrid(s).rows = y \div MergeGrid(s).rows
          /\ x % MergeGrid(s).rows = y % MergeGrid(s).rows
        BY <1>4 DEF SlotOf
    <2> QED
        BY <1>1, <1>2, <2>1
<1> QED
    BY <1>3, <1>4

\* The cell of a record at a place of a page.
PlacedAt(s, row, column) == Moved(CellOf(s.frames), Offset(s, <<row, column>>))

LEMMA PlacedEdges ==
    ASSUME NEW s \in MergeSpec, s.frames # <<>>, Multiple(s), NEW row \in Int, NEW column \in Int
    PROVE  LET c  == CellOf(s.frames)
               dy == row * (Height(c) + s.spacing[1])
               dx == column * (Width(c) + s.spacing[2])
           IN  /\ dy \in Int /\ dx \in Int
               /\ PlacedAt(s, row, column)[1] = s.marginBox[1] + dy
               /\ PlacedAt(s, row, column)[2] = s.marginBox[2] + dx
               /\ PlacedAt(s, row, column)[3] = s.marginBox[1] + dy + Height(c)
               /\ PlacedAt(s, row, column)[4] = s.marginBox[2] + dx + Width(c)
<1> DEFINE c  == CellOf(s.frames)
           dy == row * (Height(c) + s.spacing[1])
           dx == column * (Width(c) + s.spacing[2])
           m == s.marginBox
<1>1. c \in Bounds /\ m \in Bounds /\ Height(c) \in Int /\ Width(c) \in Int
      /\ s.spacing[1] \in Int /\ s.spacing[2] \in Int
    BY CellTyped
<1>2. dy \in Int /\ dx \in Int
    <2> DEFINE down == Height(c) + s.spacing[1]
               over == Width(c) + s.spacing[2]
    <2>1. down \in Int /\ over \in Int
        BY <1>1
    <2> HIDE DEF down, over
    <2>2. row * down \in Int /\ column * over \in Int
        BY <2>1
    <2> QED
        BY <2>2 DEF down, over
<1>3. PlacedAt(s, row, column) = Moved(c, <<m[1] + dy - c[1], m[2] + dx - c[2]>>)
    BY DEF PlacedAt, Offset
<1>4. PICK c1, c2, c3, c4, m1, m2 \in Int :
        /\ c[1] = c1 /\ c[2] = c2 /\ c[3] = c3 /\ c[4] = c4 /\ m[1] = m1 /\ m[2] = m2
        /\ Height(c) = c3 - c1 /\ Width(c) = c4 - c2
    <2> HIDE DEF c, m
    <2> QED
        BY <1>1 DEF Bounds, Height, Width
<1> HIDE DEF dy, dx, c, m
<1>5. PlacedAt(s, row, column) = <<c1 + (m1 + dy - c1), c2 + (m2 + dx - c2),
                                   c3 + (m1 + dy - c1), c4 + (m2 + dx - c2)>>
    BY <1>3, <1>4, Zenon DEF Moved
<1>6. /\ c1 + (m1 + dy - c1) = m1 + dy /\ c2 + (m2 + dx - c2) = m2 + dx
      /\ c3 + (m1 + dy - c1) = m1 + dy + (c3 - c1)
      /\ c4 + (m2 + dx - c2) = m2 + dx + (c4 - c2)
    BY <1>2
<1>7. PlacedAt(s, row, column) = <<m1 + dy, m2 + dx, m1 + dy + (c3 - c1), m2 + dx + (c4 - c2)>>
    BY <1>5, <1>6, Zenon
<1>8. /\ PlacedAt(s, row, column)[1] = m[1] + dy /\ PlacedAt(s, row, column)[2] = m[2] + dx
      /\ PlacedAt(s, row, column)[3] = m[1] + dy + Height(c)
      /\ PlacedAt(s, row, column)[4] = m[2] + dx + Width(c)
    BY <1>4, <1>7
<1> QED
    BY <1>2, <1>8 DEF dy, dx, c, m

\* A slot ends before the next one starts.
LEMMA SlotsFollow ==
    ASSUME NEW i \in Int, NEW k \in Int, i < k, NEW size \in Int, NEW spacing \in Int, Spaced(size, spacing)
    PROVE  i * (size + spacing) + size <= k * (size + spacing)
<1> DEFINE d == size + spacing
<1>1. d \in Nat /\ size <= d
    BY DEF Spaced
<1> HIDE DEF d
<1>2. (i + 1) * d <= k * d
    BY <1>1, ProductMonotonic
<1>3. (i + 1) * d = i * d + d /\ i * d \in Int /\ k * d \in Int
    BY <1>1
<1>4. i * d + size <= k * d
    BY <1>1, <1>2, <1>3
<1> QED
    BY <1>4 DEF d

LEMMA PlacesApart ==
    ASSUME NEW s \in MergeSpec, s.frames # <<>>, Multiple(s),
           Spaced(Height(CellOf(s.frames)), s.spacing[1]), Spaced(Width(CellOf(s.frames)), s.spacing[2]),
           NEW row \in Int, NEW column \in Int, NEW row2 \in Int, NEW column2 \in Int,
           row # row2 \/ column # column2
    PROVE  Apart(PlacedAt(s, row, column), PlacedAt(s, row2, column2))
<1> DEFINE c == CellOf(s.frames)
           h == Height(c)
           w == Width(c)
           py == h + s.spacing[1]
           px == w + s.spacing[2]
           a == PlacedAt(s, row, column)
           b == PlacedAt(s, row2, column2)
           y == row * py
           y2 == row2 * py
           x == column * px
           x2 == column2 * px
<1>1. h \in Int /\ w \in Int /\ s.spacing[1] \in Int /\ s.spacing[2] \in Int /\ s.marginBox \in Bounds
    BY CellTyped
<1>2. s.marginBox[1] \in Int /\ s.marginBox[2] \in Int
    BY <1>1 DEF Bounds
<1>3. /\ y \in Int /\ x \in Int
      /\ a[1] = s.marginBox[1] + y /\ a[3] = s.marginBox[1] + y + h
      /\ a[2] = s.marginBox[2] + x /\ a[4] = s.marginBox[2] + x + w
    BY PlacedEdges
<1>4. /\ y2 \in Int /\ x2 \in Int
      /\ b[1] = s.marginBox[1] + y2 /\ b[3] = s.marginBox[1] + y2 + h
      /\ b[2] = s.marginBox[2] + x2 /\ b[4] = s.marginBox[2] + x2 + w
    BY PlacedEdges
<1>5. /\ row < row2 => y + h <= y2
      /\ row2 < row => y2 + h <= y
      /\ column < column2 => x + w <= x2
      /\ column2 < column => x2 + w <= x
    <2> HIDE DEF h, w
    <2> QED
        BY <1>1, SlotsFollow DEF h, w
<1>6. row < row2 \/ row2 < row \/ column < column2 \/ column2 < column
    OBVIOUS
<1> HIDE DEF a, b, x, y, x2, y2, py, px, h, w, c
<1>7. a[3] <= b[1] \/ b[3] <= a[1] \/ a[4] <= b[2] \/ b[4] <= a[2]
    <2>0. \A o, p, q, v \in Int : p + v <= q => o + p + v <= o + q
        OBVIOUS
    <2>1. ASSUME row < row2 PROVE a[3] <= b[1]
        <3>1. s.marginBox[1] + y + h <= s.marginBox[1] + y2
            BY <1>1, <1>2, <1>3, <1>4, <1>5, <2>0, <2>1, Zenon
        <3> QED
            BY <1>3, <1>4, <3>1, Zenon
    <2>2. ASSUME row2 < row PROVE b[3] <= a[1]
        <3>1. s.marginBox[1] + y2 + h <= s.marginBox[1] + y
            BY <1>1, <1>2, <1>3, <1>4, <1>5, <2>0, <2>2, Zenon
        <3> QED
            BY <1>3, <1>4, <3>1, Zenon
    <2>3. ASSUME column < column2 PROVE a[4] <= b[2]
        <3>1. s.marginBox[2] + x + w <= s.marginBox[2] + x2
            BY <1>1, <1>2, <1>3, <1>4, <1>5, <2>0, <2>3, Zenon
        <3> QED
            BY <1>3, <1>4, <3>1, Zenon
    <2>4. ASSUME column2 < column PROVE b[4] <= a[2]
        <3>1. s.marginBox[2] + x2 + w <= s.marginBox[2] + x
            BY <1>1, <1>2, <1>3, <1>4, <1>5, <2>0, <2>4, Zenon
        <3> QED
            BY <1>3, <1>4, <3>1, Zenon
    <2> QED
        BY <1>6, <2>1, <2>2, <2>3, <2>4
<1> QED
    BY <1>7 DEF Apart, a, b

\* A record of a page lies in the margin box, along a side that has room.
LEMMA PlacesInside ==
    ASSUME NEW s \in MergeSpec, s.frames # <<>>, Multiple(s), ~DegenerateCell(s),
           NEW row \in 0..(MergeGrid(s).rows - 1), NEW column \in 0..(MergeGrid(s).columns - 1)
    PROVE  /\ Height(CellOf(s.frames)) <= Height(s.marginBox)
                => /\ PlacedAt(s, row, column)[1] >= s.marginBox[1]
                   /\ PlacedAt(s, row, column)[3] <= s.marginBox[3]
           /\ Width(CellOf(s.frames)) <= Width(s.marginBox)
                => /\ PlacedAt(s, row, column)[2] >= s.marginBox[2]
                   /\ PlacedAt(s, row, column)[4] <= s.marginBox[4]
<1> DEFINE c == CellOf(s.frames)
           h == Height(c)
           w == Width(c)
           py == h + s.spacing[1]
           px == w + s.spacing[2]
           m == s.marginBox
           a == PlacedAt(s, row, column)
           y == row * py
           x == column * px
<1>1. /\ h \in Int /\ w \in Int /\ s.spacing[1] \in Int /\ s.spacing[2] \in Int /\ m \in Bounds
      /\ Height(m) \in Int /\ Width(m) \in Int
    BY CellTyped
<1>2. /\ m[1] \in Int /\ m[2] \in Int /\ m[3] \in Int /\ m[4] \in Int
      /\ Height(m) = m[3] - m[1] /\ Width(m) = m[4] - m[2]
    BY <1>1 DEF Bounds, Height, Width
<1>3. py > 0 /\ px > 0 /\ py \in Nat /\ px \in Nat
    <2>1. py > 0 /\ px > 0
        <3>1. ~(py <= 0) /\ ~(px <= 0)
            BY DEF DegenerateCell
        <3>2. py \in Int /\ px \in Int
            BY <1>1
        <3> HIDE DEF py, px
        <3> QED
            BY <3>1, <3>2
    <2>2. py \in Int /\ px \in Int
        BY <1>1
    <2> HIDE DEF py, px
    <2> QED
        BY <2>1, <2>2
<1>4. /\ MergeGrid(s).rows = Slots(Height(m), h, s.spacing[1])
      /\ MergeGrid(s).columns = Slots(Width(m), w, s.spacing[2])
    BY DEF MergeGrid
<1>5. /\ row \in Nat /\ column \in Nat
      /\ h <= Height(m) => y + h <= Height(m)
      /\ w <= Width(m) => x + w <= Width(m)
    <2>1. row \in Nat /\ column \in Nat
        BY GridTyped
    <2>2. ASSUME h <= Height(m) PROVE row * py + h <= Height(m)
        <3> HIDE DEF h, m
        <3> QED
            BY <1>1, <1>3, <1>4, <2>2, SlotsFill
    <2>3. ASSUME w <= Width(m) PROVE column * px + w <= Width(m)
        <3> HIDE DEF w, m
        <3> QED
            BY <1>1, <1>3, <1>4, <2>3, SlotsFill
    <2> QED
        BY <2>1, <2>2, <2>3
<1>6. /\ y \in Int /\ x \in Int
      /\ a[1] = m[1] + y /\ a[3] = m[1] + y + h
      /\ a[2] = m[2] + x /\ a[4] = m[2] + x + w
    <2>1. row \in Int /\ column \in Int
        BY <1>5
    <2> QED
        BY <2>1, PlacedEdges
<1>7. y >= 0 /\ x >= 0
    <2> HIDE DEF py, px
    <2>1. 0 * py <= row * py /\ 0 * px <= column * px /\ 0 * py = 0 /\ 0 * px = 0
        BY <1>3, <1>5, ProductMonotonic
    <2> QED
        BY <2>1
<1> HIDE DEF a, x, y, py, px, h, w, c, m
<1>8. \A o, p, v, e \in Int : p + v <= e - o => o + p + v <= e
    OBVIOUS
<1>9. ASSUME h <= Height(m) PROVE a[1] >= m[1] /\ a[3] <= m[3]
    <2>1. a[1] >= m[1]
        BY <1>2, <1>6, <1>7
    <2>2. y + h <= m[3] - m[1]
        BY <1>2, <1>5, <1>9
    <2>3. a[3] <= m[3]
        <3>1. m[1] + y + h <= m[3]
            BY <1>1, <1>2, <1>6, <1>8, <2>2, Zenon
        <3> QED
            BY <1>6, <3>1, Zenon
    <2> QED
        BY <2>1, <2>3
<1>10. ASSUME w <= Width(m) PROVE a[2] >= m[2] /\ a[4] <= m[4]
    <2>1. a[2] >= m[2]
        BY <1>2, <1>6, <1>7
    <2>2. x + w <= m[4] - m[2]
        BY <1>2, <1>5, <1>10
    <2>3. a[4] <= m[4]
        <3>1. m[2] + x + w <= m[4]
            BY <1>1, <1>2, <1>6, <1>8, <2>2, Zenon
        <3> QED
            BY <1>6, <3>1, Zenon
    <2> QED
        BY <2>1, <2>3
<1> QED
    BY <1>9, <1>10 DEF a, h, w, c, m

\* The page before a record's holds as many records as a page does.
LEMMA PageBefore ==
    ASSUME NEW n \in Nat \ {0}, NEW k \in Nat \ {0}, NEW p \in Nat \ {0}, (k - 1) \div n = p
    PROVE  Cardinality({m \in 1..(k - 1) : (m - 1) \div n = p - 1}) = n
<1> DEFINE from == (p - 1) * n
           to == p * n
           before == {m \in 1..(k - 1) : (m - 1) \div n = p - 1}
<1>1. from \in Int /\ to \in Int /\ to = from + n /\ k - 1 \in Int /\ p - 1 \in Nat
    <2>1. (p - 1) * n = p * n - n
        OBVIOUS
    <2> QED
        BY <2>1
<1>2. 0 <= from
    <2>1. 0 * n <= (p - 1) * n /\ 0 * n = 0
        BY <1>1, ProductMonotonic
    <2> QED
        BY <2>1
<1>3. to <= k - 1
    BY <1>1, Quotient
<1>4. \A m \in Int : (m - 1) \div n = p - 1 <=> from <= m - 1 /\ m - 1 < from + n
    <2> TAKE m \in Int
    <2>1. m - 1 \in Int /\ p - 1 \in Int
        BY <1>1
    <2> HIDE DEF from
    <2> QED
        BY <2>1, QuotientOnly DEF from
<1> HIDE DEF from, to
<1>5. before = (from + 1)..to
    <2>1. ASSUME NEW m \in before PROVE m \in (from + 1)..to
        <3>1. m \in Int /\ from <= m - 1 /\ m - 1 < from + n
            BY <1>4
        <3> QED
            BY <1>1, <3>1
    <2>2. ASSUME NEW m \in (from + 1)..to PROVE m \in before
        <3>1. m \in Int /\ from <= m - 1 /\ m - 1 < from + n /\ m \in 1..(k - 1)
            BY <1>1, <1>2, <1>3
        <3> QED
            BY <1>4, <3>1
    <2> QED
        BY <2>1, <2>2
<1>6. Cardinality((from + 1)..to) = n
    <2>1. from + 1 \in Int /\ ~(from + 1 > to) /\ to - (from + 1) + 1 = n
        BY <1>1
    <2> QED
        BY <1>1, <2>1, FS_Interval
<1> QED
    BY <1>5, <1>6

-----------------------------------------------------------------------------
(* Data Merge: what the plan holds.                                        *)

\* The records merged so far are those of the plan, in order, of a template
\* whose record cell has some size.
MergeInv ==
    /\ stage = "idle" => spec = NoStory /\ merged = <<>>
    /\ spec # NoStory => spec \in MergeSpec /\ ~DegenerateCell(spec)
    /\ stage # "idle" => spec # NoStory
    /\ merged \in Seq({MergedRecord(spec, table, k) : k \in Nat})
    /\ \A k \in 1..Len(merged) : merged[k] = MergedRecord(spec, table, k)

LEMMA PlanStep ==
    ASSUME MergeInv, NEW s \in MergeSpec, NEW t, PlanMerge(s, t)
    PROVE  MergeInv'
<1>1. merged' = <<>> /\ spec' = s /\ stage' = "merging" /\ s # NoStory /\ ~DegenerateCell(s)
    BY MergeAssumption DEF MergeInv, PlanMerge
<1>2. ~DegenerateCell(spec)'
    BY <1>1 DEF DegenerateCell, Multiple
<1>3. merged' \in Seq({MergedRecord(spec', table', k) : k \in Nat}) /\ 1..Len(merged') = {}
    BY <1>1, EmptySeq
<1> QED
    BY <1>1, <1>2, <1>3 DEF MergeInv

LEMMA MergeRecordStep ==
    ASSUME MergeInv, MergeRecord
    PROVE  MergeInv'
<1> DEFINE S == {MergedRecord(spec, table, k) : k \in Nat}
           n == Len(merged)
           r == MergedRecord(spec, table, n + 1)
<1>1. /\ merged \in Seq(S) /\ \A k \in 1..n : merged[k] = MergedRecord(spec, table, k)
      /\ spec # NoStory /\ spec \in MergeSpec /\ ~DegenerateCell(spec) /\ stage = "merging"
    BY DEF MergeInv, MergeRecord
<1>2. merged' = Append(merged, r) /\ spec' = spec /\ table' = table /\ stage' = stage
    BY DEF MergeRecord
<1>3. n \in Nat /\ r \in S
    <2>1. n \in Nat
        <3> HIDE DEF S
        <3> QED
            BY <1>1, LenProperties
    <2>2. n + 1 \in Nat
        BY <2>1
    <2> HIDE DEF n
    <2> QED
        BY <2>1, <2>2
<1>4. /\ merged' \in Seq(S) /\ Len(merged') = n + 1 /\ merged'[n + 1] = r
      /\ \A k \in 1..n : merged'[k] = merged[k]
    <2> HIDE DEF S, r
    <2> QED
        BY <1>1, <1>2, <1>3, AppendProperties
<1>5. \A k \in 1..(n + 1) : merged'[k] = MergedRecord(spec, table, k)
    <2> HIDE DEF n
    <2>1. \A k \in 1..(n + 1) : k \in 1..n \/ k = n + 1
        BY <1>3
    <2>2. merged'[n + 1] = MergedRecord(spec, table, n + 1)
        BY <1>4
    <2> QED
        BY <1>1, <1>4, <2>1, <2>2, Zenon
<1> HIDE DEF n, r
<1>6. merged' \in Seq({MergedRecord(spec', table', k) : k \in Nat})
    BY <1>2, <1>4
<1>7. \A k \in 1..Len(merged') : merged'[k] = MergedRecord(spec', table', k)
    BY <1>2, <1>4, <1>5
<1>8. (stage = "idle" => spec = NoStory /\ merged = <<>>)'
    BY <1>1, <1>2
<1>9. (spec # NoStory => spec \in MergeSpec /\ ~DegenerateCell(spec))'
    BY <1>1, <1>2 DEF DegenerateCell, Multiple
<1>10. (stage # "idle" => spec # NoStory)'
    BY <1>1, <1>2
<1> QED
    BY <1>6, <1>7, <1>8, <1>9, <1>10 DEF MergeInv

LEMMA AfterwardsStep ==
    ASSUME MergeInv, UNCHANGED <<spec, table, merged>>,
           stage' = stage \/ (stage # "idle" /\ stage' \notin {"idle", "merging"})
    PROVE  MergeInv'
<1>1. spec' = spec /\ table' = table /\ merged' = merged
    OBVIOUS
<1> QED
    BY <1>1 DEF MergeInv, DegenerateCell, Multiple

LEMMA MergingTyped == Merging => []MergeInv
<1>1. MergeInit => MergeInv
    <2> SUFFICES ASSUME MergeInit PROVE MergeInv
        OBVIOUS
    <2>1. merged \in Seq({MergedRecord(spec, table, k) : k \in Nat}) /\ 1..Len(merged) = {}
        BY EmptySeq DEF MergeInit
    <2> QED
        BY <2>1 DEF MergeInit, MergeInv
<1>2. MergeInv /\ [MergeNext]_mergeVars => MergeInv'
    <2> SUFFICES ASSUME MergeInv, [MergeNext]_mergeVars PROVE MergeInv'
        OBVIOUS
    <2>1. ASSUME NEW s \in MergeSpec, NEW t \in MergeTable, PlanMerge(s, t) PROVE MergeInv'
        BY <2>1, PlanStep
    <2>2. CASE MergeRecord
        BY <2>2, MergeRecordStep
    <2>3. CASE PlanDone
        BY <2>3, AfterwardsStep DEF PlanDone
    <2>4. CASE ListWords
        BY <2>4, AfterwardsStep DEF ListWords
    <2>5. ASSUME NEW space, NEW leading, CheckOverset(space, leading) PROVE MergeInv'
        BY <2>5, AfterwardsStep DEF CheckOverset
    <2>6. CASE UNCHANGED mergeVars
        BY <2>6, AfterwardsStep DEF mergeVars
    <2> QED
        BY <2>1, <2>2, <2>3, <2>4, <2>5, <2>6 DEF MergeNext, MergeSteps
<1> QED
    BY <1>1, <1>2, PTL DEF Merging

-----------------------------------------------------------------------------
(* The placeholders of a line.                                             *)

Starts(line, at) == {i \in at..Len(line) : line[i] = Open}
StartAt(line, at) == Seqs!Min(Starts(line, at))
Closes(line, at) == {i \in (StartAt(line, at) + 1)..Len(line) : line[i] = Close}
CloseAt(line, at) == Seqs!Min(Closes(line, at))
Inner(line, at) == {i \in (StartAt(line, at) + 1)..(CloseAt(line, at) - 1) : line[i] = Open}

\* What the scan finds from a place on, given what it finds further on.
ScanStep(line, at, scan) ==
    IF Starts(line, at) = {} \/ Closes(line, at) = {} THEN <<>>
    ELSE IF Inner(line, at) # {} THEN scan[Seqs!Max(Inner(line, at))]
    ELSE <<[start |-> StartAt(line, at), end |-> CloseAt(line, at)]>> \o scan[CloseAt(line, at) + 1]

LEMMA GreatestNumber ==
    ASSUME NEW n \in Nat, NEW S, S \subseteq 1..n, S # {}
    PROVE  \E k \in S : \A m \in S : k >= m
<1> DEFINE D == {n - k : k \in S}
<1>1. D \subseteq Nat /\ D # {}
    <2>1. \A k \in S : n - k \in Nat
        OBVIOUS
    <2> QED
        BY <2>1
<1>2. PICK d \in D : \A e \in D : d <= e
    <2> HIDE DEF D
    <2> QED
        BY <1>1, LeastNumber
<1>3. PICK k \in S : d = n - k
    OBVIOUS
<1>4. ASSUME NEW m \in S PROVE k >= m
    <2>0. n - m \in D /\ k \in 1..n /\ m \in 1..n
        OBVIOUS
    <2> HIDE DEF D
    <2>1. n - k <= n - m
        BY <1>2, <1>3, <2>0
    <2> QED
        BY <2>0, <2>1
<1> QED
    BY <1>4

\* The places a step of the scan stands at.
LEMMA ScanPlaces ==
    ASSUME NEW line \in Seq(Token), NEW at \in 1..(Len(line) + 1), Starts(line, at) # {}
    PROVE  /\ StartAt(line, at) \in Starts(line, at)
           /\ \A i \in Starts(line, at) : StartAt(line, at) <= i
           /\ Closes(line, at) # {} =>
                  /\ CloseAt(line, at) \in Closes(line, at)
                  /\ \A i \in Closes(line, at) : CloseAt(line, at) <= i
                  /\ Inner(line, at) # {} =>
                         /\ Seqs!Max(Inner(line, at)) \in Inner(line, at)
                         /\ \A i \in Inner(line, at) : Seqs!Max(Inner(line, at)) >= i
<1> DEFINE n == Len(line)
           S == Starts(line, at)
           start == StartAt(line, at)
           C == Closes(line, at)
           close == CloseAt(line, at)
           I == Inner(line, at)
<1>1. n \in Nat /\ at \in Nat /\ at >= 1
    BY LenProperties
<1>2. S \subseteq Nat
    BY <1>1 DEF Starts
<1>3. start \in S /\ \A i \in S : start <= i
    <2> HIDE DEF S
    <2>1. \E k \in S : \A m \in S : k <= m
        BY <1>2, LeastNumber DEF S
    <2> QED
        BY <2>1 DEF StartAt, Seqs!Min, S
<1>4. ASSUME C # {}
      PROVE  close \in C /\ \A i \in C : close <= i
    <2>1. C \subseteq Nat
        BY <1>1, <1>2, <1>3 DEF Closes
    <2> HIDE DEF C
    <2>2. \E k \in C : \A m \in C : k <= m
        BY <1>4, <2>1, LeastNumber
    <2> QED
        BY <2>2 DEF CloseAt, Seqs!Min, C
<1>5. ASSUME C # {}, I # {}
      PROVE  Seqs!Max(I) \in I /\ \A i \in I : Seqs!Max(I) >= i
    <2>1. start \in Nat /\ start >= 1
        <3>1. start \in at..n
            BY <1>3 DEF Starts
        <3> QED
            BY <1>1, <3>1
    <2>2. close \in Nat /\ close <= n
        <3>1. close \in (start + 1)..n
            BY <1>4, <1>5 DEF Closes
        <3> QED
            BY <1>1, <2>1, <3>1
    <2>3. I \subseteq 1..n
        BY <1>1, <2>1, <2>2 DEF Inner
    <2> HIDE DEF I, n
    <2>4. \E k \in I : \A m \in I : k >= m
        BY <1>1, <1>5, <2>3, GreatestNumber
    <2> QED
        BY <2>4 DEF Seqs!Max
<1> QED
    BY <1>3, <1>4, <1>5

\* In numbers.
Bracketed(line, at) ==
    LET s == StartAt(line, at)
        c == CloseAt(line, at)
    IN  /\ s \in at..Len(line) /\ line[s] = Open
        /\ c \in (s + 1)..Len(line) /\ line[c] = Close
        /\ \A i \in at..Len(line) : line[i] = Open => s <= i
        /\ \A i \in (s + 1)..Len(line) : line[i] = Close => c <= i

LEMMA ScanBrackets ==
    ASSUME NEW line \in Seq(Token), NEW at \in 1..(Len(line) + 1),
           Starts(line, at) # {}, Closes(line, at) # {}
    PROVE  /\ Bracketed(line, at)
           /\ Inner(line, at) # {} =>
                LET m == Seqs!Max(Inner(line, at))
                IN  m \in (StartAt(line, at) + 1)..(CloseAt(line, at) - 1) /\ line[m] = Open
<1>1. /\ StartAt(line, at) \in Starts(line, at)
      /\ \A i \in Starts(line, at) : StartAt(line, at) <= i
      /\ CloseAt(line, at) \in Closes(line, at)
      /\ \A i \in Closes(line, at) : CloseAt(line, at) <= i
    BY ScanPlaces
<1>2. Inner(line, at) # {} => Seqs!Max(Inner(line, at)) \in Inner(line, at)
    BY ScanPlaces
<1>3. Bracketed(line, at)
    BY <1>1 DEF Bracketed, Starts, Closes
<1> QED
    BY <1>2, <1>3 DEF Inner

\* A step reads the scan further on only.
LEMMA ScanAgrees ==
    ASSUME NEW line \in Seq(Token), NEW at \in 1..(Len(line) + 1), NEW f, NEW g,
           \A i \in (at + 1)..(Len(line) + 1) : f[i] = g[i]
    PROVE  ScanStep(line, at, f) = ScanStep(line, at, g)
<1> DEFINE n == Len(line)
           s == StartAt(line, at)
           c == CloseAt(line, at)
           m == Seqs!Max(Inner(line, at))
<1>1. n \in Nat /\ at \in Nat
    BY LenProperties
<1>2. CASE Starts(line, at) = {} \/ Closes(line, at) = {}
    BY <1>2 DEF ScanStep
<1>3. CASE Starts(line, at) # {} /\ Closes(line, at) # {} /\ Inner(line, at) # {}
    <2>1. s \in at..n /\ c \in (s + 1)..n /\ m \in (s + 1)..(c - 1)
        BY <1>3, ScanBrackets DEF Bracketed
    <2> HIDE DEF n, s, c, m
    <2>2. m \in (at + 1)..(n + 1)
        BY <1>1, <2>1
    <2>3. f[m] = g[m]
        BY <2>2 DEF n
    <2> QED
        BY <1>3, <2>3 DEF ScanStep, m
<1>4. CASE Starts(line, at) # {} /\ Closes(line, at) # {} /\ Inner(line, at) = {}
    <2>1. s \in at..n /\ c \in (s + 1)..n
        BY <1>4, ScanBrackets DEF Bracketed
    <2> HIDE DEF n, s, c
    <2>2. c + 1 \in (at + 1)..(n + 1)
        BY <1>1, <2>1
    <2>3. f[c + 1] = g[c + 1]
        BY <2>2 DEF n
    <2> QED
        BY <1>4, <2>3 DEF ScanStep, c
<1> QED
    BY <1>2, <1>3, <1>4

\* The scan of the last k places and the end.
ScanFrom(line, k, f) ==
    \A i \in (Len(line) + 2 - k)..(Len(line) + 1) : f[i] = ScanStep(line, i, f)
Scanned(line, k) == \E f : ScanFrom(line, k, f)

LEMMA ScanExists ==
    ASSUME NEW line \in Seq(Token)
    PROVE  Scanned(line, Len(line) + 1)
<1> DEFINE n == Len(line)
           Bad == {k \in 0..(n + 1) : ~ Scanned(line, k)}
<1>1. n \in Nat
    BY LenProperties
<1>2. Scanned(line, 0)
    <2>1. \A i \in (n + 2 - 0)..(n + 1) : FALSE
        BY <1>1
    <2> QED
        BY <2>1 DEF Scanned, ScanFrom
<1>3. ASSUME NEW k \in 1..(n + 1), Scanned(line, k - 1)
      PROVE  Scanned(line, k)
    <2> DEFINE a == n + 2 - k
    <2>1. k \in Nat /\ a \in 1..(n + 1) /\ n + 2 - (k - 1) = a + 1
        BY <1>1
    <2>2. PICK f : ScanFrom(line, k - 1, f)
        BY <1>3 DEF Scanned
    <2>3. \A i \in (a + 1)..(n + 1) : f[i] = ScanStep(line, i, f)
        BY <2>1, <2>2 DEF ScanFrom
    <2> HIDE DEF a
    <2> DEFINE g == [i \in 1..(n + 1) |-> IF i = a THEN ScanStep(line, a, f) ELSE f[i]]
    <2>4. \A i \in (a + 1)..(n + 1) : g[i] = f[i]
        BY <1>1, <2>1
    <2>5. g[a] = ScanStep(line, a, f)
        BY <2>1
    <2> HIDE DEF g
    <2>6. g[a] = ScanStep(line, a, g)
        BY <2>1, <2>4, <2>5, ScanAgrees
    <2>7. ASSUME NEW i \in (a + 1)..(n + 1)
          PROVE  g[i] = ScanStep(line, i, g)
        <3>1. i \in 1..(n + 1) /\ \A j \in (i + 1)..(n + 1) : j \in (a + 1)..(n + 1)
            BY <1>1, <2>1
        <3>2. ScanStep(line, i, f) = ScanStep(line, i, g)
            BY <2>4, <3>1, ScanAgrees
        <3> QED
            BY <2>3, <2>4, <3>2
    <2>8. \A i \in a..(n + 1) : i = a \/ i \in (a + 1)..(n + 1)
        BY <1>1, <2>1
    <2>9. ScanFrom(line, k, g)
        BY <2>6, <2>7, <2>8 DEF ScanFrom, a
    <2> QED
        BY <2>9 DEF Scanned
<1>4. Bad = {}
    <2> SUFFICES ASSUME Bad # {} PROVE FALSE
        OBVIOUS
    <2>1. Bad \subseteq Nat
        OBVIOUS
    <2>2. PICK k \in Bad : \A i \in Bad : k <= i
        <3> HIDE DEF Bad
        <3> QED
            BY <2>1, LeastNumber
    <2>3. k \in 0..(n + 1) /\ ~ Scanned(line, k) /\ k # 0
        BY <1>2
    <2>4. k \in 1..(n + 1) /\ k - 1 \in 0..(n + 1) /\ ~(k <= k - 1)
        BY <1>1, <2>3
    <2>5. Scanned(line, k - 1)
        BY <2>2, <2>4
    <2> QED
        BY <1>3, <2>3, <2>4, <2>5
<1> QED
    BY <1>1, <1>4

\* The placeholders are what the scan finds from the first place on.
LEMMA PlaceholdersScanned ==
    ASSUME NEW line \in Seq(Token)
    PROVE  \E f : ScanFrom(line, Len(line) + 1, f) /\ Placeholders(line) = f[1]
<1> DEFINE n == Len(line)
           Fixed(s) == s = [at \in 1..(n + 1) |-> ScanStep(line, at, s)]
           c == CHOOSE s : Fixed(s)
<1>1. n \in Nat /\ 1 \in 1..(n + 1)
    BY LenProperties
<1>2. PICK f : ScanFrom(line, n + 1, f)
    BY ScanExists DEF Scanned
<1>3. \A i \in 1..(n + 1) : f[i] = ScanStep(line, i, f)
    BY <1>1, <1>2 DEF ScanFrom
<1> DEFINE g == [i \in 1..(n + 1) |-> f[i]]
<1>4. Fixed(g)
    <2> DEFINE h == [at \in 1..(n + 1) |-> ScanStep(line, at, g)]
    <2>1. \A i \in 1..(n + 1) : g[i] = f[i]
        OBVIOUS
    <2>2. ASSUME NEW i \in 1..(n + 1)
          PROVE  g[i] = ScanStep(line, i, g)
        <3>1. \A j \in (i + 1)..(n + 1) : j \in 1..(n + 1)
            BY <1>1
        <3> HIDE DEF g
        <3>2. \A j \in (i + 1)..(n + 1) : g[j] = f[j]
            BY <2>1, <3>1
        <3>3. ScanStep(line, i, g) = ScanStep(line, i, f)
            BY <3>2, ScanAgrees
        <3> QED
            BY <1>3, <2>1, <3>3
    <2>3. g = h
        <3> SUFFICES ASSUME NEW i \in 1..(n + 1) PROVE g[i] = h[i]
            OBVIOUS
        <3>1. h[i] = ScanStep(line, i, g)
            OBVIOUS
        <3> HIDE DEF g, h
        <3> QED
            BY <2>2, <3>1
    <2> QED
        BY <2>3
<1>5. Fixed(c)
    <2> HIDE DEF Fixed, g
    <2> QED
        BY <1>4
<1>6. Placeholders(line) = c[1]
    BY DEF Placeholders, ScanStep, Starts, StartAt, Closes, CloseAt, Inner
<1>7. \A i \in 1..(n + 1) : c[i] = ScanStep(line, i, c)
    <2>1. c = [at \in 1..(n + 1) |-> ScanStep(line, at, c)]
        <3> HIDE DEF c
        <3> QED
            BY <1>5
    <2> HIDE DEF c
    <2> QED
        BY <2>1
<1>8. ScanFrom(line, n + 1, c)
    <2> HIDE DEF c
    <2> QED
        BY <1>1, <1>7 DEF ScanFrom
<1> QED
    BY <1>6, <1>8

\* A pair of markers, from a place on, with none between them.
Paired(line, x) ==
    /\ x[1] < x[2] /\ line[x[1]] = Open /\ line[x[2]] = Close
    /\ \A c \in (x[1] + 1)..(x[2] - 1) : line[c] \notin {Open, Close}
PairsFrom(line, at) == {x \in (at..Len(line)) \X (at..Len(line)) : Paired(line, x)}
PairsOf(spans) == {<<p.start, p.end>> : p \in Seqs!Range(spans)}
SpanRecord == [start : Nat, end : Nat]

\* Without both markers from a place on there is no pair.
LEMMA NoPair ==
    ASSUME NEW line \in Seq(Token), NEW at \in 1..(Len(line) + 1),
           Starts(line, at) = {} \/ Closes(line, at) = {}
    PROVE  PairsFrom(line, at) = {}
<1> SUFFICES ASSUME NEW x \in PairsFrom(line, at) PROVE FALSE
    OBVIOUS
<1> DEFINE n == Len(line)
           a == x[1]
           b == x[2]
<1>1. n \in Nat /\ at \in Nat
    BY LenProperties
<1>2. /\ a \in at..n /\ b \in at..n /\ a < b /\ line[a] = Open /\ line[b] = Close
    BY DEF PairsFrom, Paired
<1> HIDE DEF n, a, b
<1>3. a \in Starts(line, at)
    BY <1>2 DEF Starts, n
<1>4. /\ StartAt(line, at) \in Starts(line, at)
      /\ \A i \in Starts(line, at) : StartAt(line, at) <= i
    BY <1>3, ScanPlaces
<1>5. StartAt(line, at) \in at..n /\ StartAt(line, at) <= a
    BY <1>3, <1>4 DEF Starts, n
<1>6. b \in (StartAt(line, at) + 1)..n
    BY <1>1, <1>2, <1>5
<1>7. b \in Closes(line, at)
    BY <1>2, <1>6 DEF Closes, n
<1> QED
    BY <1>3, <1>7

\* A marker inside a name makes the pairs those from the last such marker on.
LEMMA InnerPairs ==
    ASSUME NEW line \in Seq(Token), NEW at \in 1..(Len(line) + 1),
           Starts(line, at) # {}, Closes(line, at) # {}, Inner(line, at) # {}
    PROVE  LET m == Seqs!Max(Inner(line, at))
           IN  m \in (at + 1)..Len(line) /\ PairsFrom(line, at) = PairsFrom(line, m)
<1> DEFINE n == Len(line)
           s == StartAt(line, at)
           c == CloseAt(line, at)
           m == Seqs!Max(Inner(line, at))
<1>1. n \in Nat /\ at \in Nat
    BY LenProperties
<1>2. /\ s \in at..n /\ c \in (s + 1)..n
      /\ \A i \in at..n : line[i] = Open => s <= i
      /\ \A i \in (s + 1)..n : line[i] = Close => c <= i
      /\ m \in (s + 1)..(c - 1) /\ line[m] = Open
    BY ScanBrackets DEF Bracketed
<1> HIDE DEF n, s, c, m
<1>3. m \in (at + 1)..n /\ m \in Nat /\ s \in Nat /\ c \in Nat
    BY <1>1, <1>2
<1>4. ASSUME NEW a \in at..n, NEW b \in at..n, Paired(line, <<a, b>>)
      PROVE  a \in m..n /\ b \in m..n
    <2>1. /\ a < b /\ line[a] = Open /\ line[b] = Close
          /\ \A i \in (a + 1)..(b - 1) : line[i] \notin {Open, Close}
        BY <1>4 DEF Paired
    <2>2. s <= a
        BY <1>2, <2>1
    <2>3. b \in (s + 1)..n
        BY <1>1, <1>3, <2>1, <2>2
    <2>4. c <= b
        BY <1>2, <2>1, <2>3
    <2>5. ~(a < m)
        <3> SUFFICES ASSUME a < m PROVE FALSE
            OBVIOUS
        <3>1. m \in (a + 1)..(b - 1)
            BY <1>1, <1>2, <1>3, <2>4
        <3> QED
            BY <1>2, <2>1, <3>1
    <2> QED
        BY <1>1, <1>3, <2>1, <2>5
<1>5. \A a, b : a \in m..n /\ b \in m..n => a \in at..n /\ b \in at..n
    BY <1>1, <1>3
<1>6. PairsFrom(line, at) = PairsFrom(line, m)
    <2>1. \A x \in PairsFrom(line, at) : x \in PairsFrom(line, m)
        BY <1>4 DEF PairsFrom, n
    <2>2. \A x \in PairsFrom(line, m) : x \in PairsFrom(line, at)
        BY <1>5 DEF PairsFrom, n
    <2> QED
        BY <2>1, <2>2
<1> QED
    BY <1>3, <1>6 DEF m, n

\* Else the first markers are a pair, and the others come after them.
LEMMA FirstPair ==
    ASSUME NEW line \in Seq(Token), NEW at \in 1..(Len(line) + 1),
           Starts(line, at) # {}, Closes(line, at) # {}, Inner(line, at) = {}
    PROVE  LET s == StartAt(line, at)
               c == CloseAt(line, at)
           IN  /\ s \in 1..Len(line) /\ c \in (at + 1)..Len(line)
               /\ PairsFrom(line, at) = {<<s, c>>} \cup PairsFrom(line, c + 1)
<1> DEFINE n == Len(line)
           s == StartAt(line, at)
           c == CloseAt(line, at)
<1>1. n \in Nat /\ at \in Nat /\ at >= 1
    BY LenProperties
<1>2. /\ s \in at..n /\ line[s] = Open /\ c \in (s + 1)..n /\ line[c] = Close
      /\ \A i \in at..n : line[i] = Open => s <= i
      /\ \A i \in (s + 1)..n : line[i] = Close => c <= i
    BY ScanBrackets DEF Bracketed
<1>3. \A i \in (s + 1)..(c - 1) : line[i] # Open
    BY DEF Inner
<1> HIDE DEF n, s, c
<1>4. s \in Nat /\ c \in Nat /\ s \in 1..n /\ c \in (at + 1)..n /\ c \in at..n
    BY <1>1, <1>2
<1>5. Paired(line, <<s, c>>)
    <2>1. ASSUME NEW i \in (s + 1)..(c - 1) PROVE line[i] \notin {Open, Close}
        <3>1. i \in (s + 1)..n /\ ~(c <= i)
            BY <1>1, <1>4
        <3> QED
            BY <1>2, <1>3, <3>1
    <2>2. s < c
        BY <1>1, <1>2, <1>4
    <2> QED
        BY <1>2, <2>1, <2>2 DEF Paired
<1>6. ASSUME NEW a \in at..n, NEW b \in at..n, Paired(line, <<a, b>>), <<a, b>> # <<s, c>>
      PROVE  a \in (c + 1)..n /\ b \in (c + 1)..n
    <2>1. /\ a < b /\ line[a] = Open /\ line[b] = Close
          /\ \A i \in (a + 1)..(b - 1) : line[i] \notin {Open, Close}
        BY <1>6 DEF Paired
    <2>2. s <= a /\ a \in Nat /\ b \in Nat
        BY <1>1, <1>2, <2>1
    <2>3. b \in (s + 1)..n
        BY <1>1, <1>4, <2>1, <2>2
    <2>4. c <= b
        BY <1>2, <2>1, <2>3
    <2>5. ~(a <= c)
        <3> SUFFICES ASSUME a <= c PROVE FALSE
            OBVIOUS
        <3>1. a # c
            BY <1>2, <2>1, MergeAssumption
        <3>2. CASE a = s
            <4>1. b # c
                BY <1>6, <3>2
            <4>2. c \in (a + 1)..(b - 1)
                BY <1>2, <1>4, <2>2, <2>4, <3>2, <4>1
            <4> QED
                BY <1>2, <2>1, <4>2
        <3>3. CASE a # s
            <4>1. a \in (s + 1)..(c - 1)
                BY <1>4, <2>2, <3>1, <3>3
            <4> QED
                BY <1>3, <2>1, <4>1
        <3> QED
            BY <3>2, <3>3
    <2> QED
        BY <1>1, <1>4, <2>1, <2>2, <2>5
<1>7. \A a : a \in (c + 1)..n => a \in at..n
    BY <1>1, <1>4
<1>8. PairsFrom(line, at) = {<<s, c>>} \cup PairsFrom(line, c + 1)
    <2>1. \A x \in PairsFrom(line, at) : x = <<s, c>> \/ x \in PairsFrom(line, c + 1)
        BY <1>6 DEF PairsFrom, n
    <2>2. \A x \in PairsFrom(line, c + 1) : x \in PairsFrom(line, at)
        BY <1>7 DEF PairsFrom, n
    <2>3. <<s, c>> \in PairsFrom(line, at)
        BY <1>2, <1>4, <1>5 DEF PairsFrom, n
    <2> QED
        BY <2>1, <2>2, <2>3
<1> QED
    BY <1>4, <1>8 DEF s, c, n

LEMMA OneMoreSpan ==
    ASSUME NEW p \in SpanRecord, NEW r \in Seq(SpanRecord)
    PROVE  /\ <<p>> \o r \in Seq(SpanRecord)
           /\ PairsOf(<<p>> \o r) = {<<p.start, p.end>>} \cup PairsOf(r)
<1> DEFINE w == <<p>> \o r
<1>1. w \in Seq(SpanRecord) /\ Len(w) = Len(r) + 1 /\ Len(r) \in Nat
      /\ DOMAIN w = 1..(Len(r) + 1) /\ DOMAIN r = 1..Len(r)
    BY LenProperties
<1>2. w[1] = p /\ \A i \in 1..Len(r) : w[i + 1] = r[i]
    OBVIOUS
<1> HIDE DEF w
<1>3. \A i \in DOMAIN w : i = 1 \/ (i - 1 \in DOMAIN r /\ w[i] = r[i - 1])
    <2> SUFFICES ASSUME NEW i \in DOMAIN w, i # 1
                 PROVE  i - 1 \in DOMAIN r /\ w[i] = r[i - 1]
        OBVIOUS
    <2> DEFINE j == i - 1
    <2>1. j \in 1..Len(r) /\ j + 1 = i
        BY <1>1
    <2> HIDE DEF j
    <2>2. w[j + 1] = r[j]
        BY <1>2, <2>1
    <2> QED
        BY <1>1, <2>1, <2>2 DEF j
<1>4. \A i \in DOMAIN r : i + 1 \in DOMAIN w /\ w[i + 1] = r[i]
    BY <1>1, <1>2
<1>5. 1 \in DOMAIN w
    BY <1>1
<1>6. \A q : q \in Seqs!Range(w) <=> q = p \/ q \in Seqs!Range(r)
    BY <1>2, <1>3, <1>4, <1>5 DEF Seqs!Range
<1>7. PairsOf(w) = {<<p.start, p.end>>} \cup PairsOf(r)
    BY <1>6 DEF PairsOf
<1> QED
    BY <1>1, <1>7 DEF w

\* The scan finds the pairs, from every place on.
Finds(line, at, f) == f[at] \in Seq(SpanRecord) /\ PairsOf(f[at]) = PairsFrom(line, at)

LEMMA ScanFinds ==
    ASSUME NEW line \in Seq(Token), NEW f, ScanFrom(line, Len(line) + 1, f)
    PROVE  Finds(line, 1, f)
<1> DEFINE n == Len(line)
           Bad == {k \in 0..n : ~ Finds(line, n + 1 - k, f)}
<1>1. n \in Nat
    BY LenProperties
<1>2. \A i \in 1..(n + 1) : f[i] = ScanStep(line, i, f)
    BY <1>1 DEF ScanFrom
<1>3. ASSUME NEW at \in 1..(n + 1), \A j \in (at + 1)..(n + 1) : Finds(line, j, f)
      PROVE  Finds(line, at, f)
    <2>0. at \in Nat /\ f[at] = ScanStep(line, at, f)
        BY <1>2
    <2>1. CASE Starts(line, at) = {} \/ Closes(line, at) = {}
        <3>1. f[at] = <<>>
            BY <2>0, <2>1 DEF ScanStep
        <3>2. PairsOf(f[at]) = {}
            BY <3>1 DEF PairsOf, Seqs!Range
        <3>3. PairsFrom(line, at) = {}
            BY <2>1, NoPair
        <3> QED
            BY <3>1, <3>2, <3>3 DEF Finds
    <2>2. CASE Starts(line, at) # {} /\ Closes(line, at) # {} /\ Inner(line, at) # {}
        <3> DEFINE m == Seqs!Max(Inner(line, at))
        <3>1. f[at] = f[m]
            BY <2>0, <2>2 DEF ScanStep
        <3>2. m \in (at + 1)..n /\ PairsFrom(line, at) = PairsFrom(line, m)
            BY <2>2, InnerPairs
        <3> HIDE DEF m, n
        <3>3. m \in (at + 1)..(n + 1)
            BY <1>1, <2>0, <3>2
        <3> QED
            BY <1>3, <3>1, <3>2, <3>3 DEF Finds
    <2>3. CASE Starts(line, at) # {} /\ Closes(line, at) # {} /\ Inner(line, at) = {}
        <3> DEFINE s == StartAt(line, at)
                   c == CloseAt(line, at)
                   p == [start |-> s, end |-> c]
        <3>1. f[at] = <<p>> \o f[c + 1]
            BY <2>0, <2>3 DEF ScanStep
        <3>2. /\ s \in 1..n /\ c \in (at + 1)..n
              /\ PairsFrom(line, at) = {<<s, c>>} \cup PairsFrom(line, c + 1)
            BY <2>3, FirstPair
        <3> HIDE DEF s, c, n
        <3>3. c + 1 \in (at + 1)..(n + 1) /\ s \in Nat /\ c \in Nat
            BY <1>1, <2>0, <3>2
        <3>4. p \in SpanRecord /\ p.start = s /\ p.end = c
            BY <3>3 DEF SpanRecord
        <3>5. f[c + 1] \in Seq(SpanRecord) /\ PairsOf(f[c + 1]) = PairsFrom(line, c + 1)
            BY <1>3, <3>3 DEF Finds
        <3> HIDE DEF p
        <3>6. /\ <<p>> \o f[c + 1] \in Seq(SpanRecord)
              /\ PairsOf(<<p>> \o f[c + 1]) = {<<p.start, p.end>>} \cup PairsOf(f[c + 1])
            BY <3>4, <3>5, OneMoreSpan
        <3> QED
            BY <3>1, <3>2, <3>4, <3>5, <3>6 DEF Finds
    <2> QED
        BY <2>1, <2>2, <2>3
<1>4. Bad = {}
    <2> SUFFICES ASSUME Bad # {} PROVE FALSE
        OBVIOUS
    <2>1. Bad \subseteq Nat
        OBVIOUS
    <2>2. PICK k \in Bad : \A i \in Bad : k <= i
        <3> HIDE DEF Bad
        <3> QED
            BY <2>1, LeastNumber
    <2> DEFINE at == n + 1 - k
    <2>3. k \in 0..n /\ ~ Finds(line, at, f) /\ at \in 1..(n + 1)
        BY <1>1
    <2>4. ASSUME NEW j \in (at + 1)..(n + 1)
          PROVE  Finds(line, j, f)
        <3> DEFINE i == n + 1 - j
        <3>1. i \in 0..n /\ ~(k <= i) /\ n + 1 - i = j
            BY <1>1, <2>3
        <3>2. i \notin Bad
            BY <2>2, <3>1
        <3> HIDE DEF i, at
        <3> QED
            BY <3>1, <3>2
    <2> HIDE DEF at
    <2> QED
        BY <1>3, <2>3, <2>4
<1>5. n \in 0..n /\ n + 1 - n = 1
    BY <1>1
<1> HIDE DEF n
<1> QED
    BY <1>4, <1>5

\* The placeholders of any line are its pairs of markers.
LEMMA PlaceholdersOfLine ==
    ASSUME NEW line \in Seq(Token)
    PROVE  /\ Placeholders(line) \in Seq(SpanRecord)
           /\ PairsOf(Placeholders(line)) = PairsFrom(line, 1)
<1>1. PICK f : ScanFrom(line, Len(line) + 1, f) /\ Placeholders(line) = f[1]
    BY PlaceholdersScanned
<1> QED
    BY <1>1, ScanFinds DEF Finds

\* The placeholders of every text are its nearest pairs of << and >>, whatever
\* stray markers it holds: no placeholder is lost or invented (placeholders,
\* data-lower/src/merge.rs).
THEOREM EveryPlaceholderFound == Merging => []PlaceholdersPaired
<1>1. MergeInv => PlaceholdersPaired
    <2> SUFFICES ASSUME MergeInv, stage # "idle",
                        NEW i \in DOMAIN spec.frames, spec.frames[i].kind = "text",
                        NEW l \in DOMAIN spec.frames[i].text
                 PROVE  LET line == spec.frames[i].text[l]
                        IN  {<<p.start, p.end>> : p \in Seqs!Range(Placeholders(line))} =
                            {x \in (DOMAIN line) \X (DOMAIN line) :
                                /\ x[1] < x[2] /\ line[x[1]] = Open /\ line[x[2]] = Close
                                /\ \A c \in (x[1] + 1)..(x[2] - 1) : line[c] \notin {Open, Close}}
        BY DEF PlaceholdersPaired
    <2> DEFINE template == spec.frames[i]
               line     == template.text[l]
    <2>1. spec \in MergeSpec
        BY DEF MergeInv
    <2>2. template \in MergeTemplateFrame
        <3>1. spec.frames \in Seq(MergeTemplateFrame)
            BY <2>1 DEF MergeSpec
        <3> QED
            BY <3>1
    <2>3. line \in Seq(Token)
        <3>1. template.text \in Seq(Seq(Token))
            BY <2>2 DEF MergeTemplateFrame
        <3> HIDE DEF template
        <3> QED
            BY <3>1 DEF template
    <2> HIDE DEF line
    <2>4. DOMAIN line = 1..Len(line)
        BY <2>3, LenProperties
    <2>5. PairsOf(Placeholders(line)) = PairsFrom(line, 1)
        BY <2>3, PlaceholdersOfLine
    <2> QED
        BY <2>4, <2>5 DEF PairsOf, PairsFrom, Paired, line
<1> QED
    BY <1>1, MergingTyped, PTL

-----------------------------------------------------------------------------
(* Data Merge: a record and those before it.                               *)

\* Where the plan puts record k.
LEMMA RecordPlaced ==
    ASSUME NEW s \in MergeSpec, NEW t, s.frames # <<>>, ~DegenerateCell(s), NEW k \in Nat \ {0}
    PROVE  /\ MergedRecord(s, t, k).page = (k - 1) \div PerPage(s)
           /\ MergedRecord(s, t, k).row = SlotOf(s, (k - 1) % PerPage(s))[1]
           /\ MergedRecord(s, t, k).column = SlotOf(s, (k - 1) % PerPage(s))[2]
           /\ (k - 1) % PerPage(s) \in 0..(PerPage(s) - 1)
           /\ MergedRecord(s, t, k).row \in 0..(MergeGrid(s).rows - 1)
           /\ MergedRecord(s, t, k).column \in 0..(MergeGrid(s).columns - 1)
<1>1. /\ MergedRecord(s, t, k).page = (k - 1) \div PerPage(s)
      /\ MergedRecord(s, t, k).row = SlotOf(s, (k - 1) % PerPage(s))[1]
      /\ MergedRecord(s, t, k).column = SlotOf(s, (k - 1) % PerPage(s))[2]
    BY Zenon DEF MergedRecord
<1>2. (k - 1) % PerPage(s) \in 0..(PerPage(s) - 1)
    <2>1. k - 1 \in Int /\ PerPage(s) \in Nat \ {0}
        BY GridTyped
    <2> QED
        BY <2>1, Quotient
<1>3. /\ SlotOf(s, (k - 1) % PerPage(s))[1] \in 0..(MergeGrid(s).rows - 1)
      /\ SlotOf(s, (k - 1) % PerPage(s))[2] \in 0..(MergeGrid(s).columns - 1)
    BY <1>2, SlotsPlaced
<1> QED
    BY <1>1, <1>2, <1>3

\* Two records of one page are not in one place.
LEMMA RecordsDiffer ==
    ASSUME NEW s \in MergeSpec, NEW t, s.frames # <<>>, ~DegenerateCell(s),
           NEW k \in Nat \ {0}, NEW m \in Nat \ {0}, m < k,
           MergedRecord(s, t, m).page = MergedRecord(s, t, k).page
    PROVE  \/ MergedRecord(s, t, m).row # MergedRecord(s, t, k).row
           \/ MergedRecord(s, t, m).column # MergedRecord(s, t, k).column
<1> DEFINE n == PerPage(s)
           x == (m - 1) % n
           y == (k - 1) % n
<1>1. /\ MergedRecord(s, t, m).page = (m - 1) \div n /\ MergedRecord(s, t, k).page = (k - 1) \div n
      /\ MergedRecord(s, t, m).row = SlotOf(s, x)[1] /\ MergedRecord(s, t, m).column = SlotOf(s, x)[2]
      /\ MergedRecord(s, t, k).row = SlotOf(s, y)[1] /\ MergedRecord(s, t, k).column = SlotOf(s, y)[2]
      /\ x \in 0..(n - 1) /\ y \in 0..(n - 1)
    BY RecordPlaced
<1>2. m - 1 \in Int /\ k - 1 \in Int /\ n \in Nat \ {0}
    BY GridTyped
<1>3. m - 1 = ((m - 1) \div n) * n + x /\ k - 1 = ((k - 1) \div n) * n + y
    BY <1>2, Quotient
<1> HIDE DEF n, x, y
<1>4. x # y
    <2>1. ASSUME x = y PROVE FALSE
        <3>1. m - 1 = k - 1
            BY <1>1, <1>3, <2>1, Zenon
        <3> QED
            BY <3>1
    <2> QED
        BY <2>1
<1>5. SlotOf(s, x) # SlotOf(s, y)
    BY <1>1, <1>4, SlotsDiffer DEF n
<1>6. \A z : SlotOf(s, z) = <<SlotOf(s, z)[1], SlotOf(s, z)[2]>>
    BY DEF SlotOf
<1>7. SlotOf(s, x)[1] # SlotOf(s, y)[1] \/ SlotOf(s, x)[2] # SlotOf(s, y)[2]
    BY <1>5, <1>6, Zenon
<1> QED
    BY <1>1, <1>7, Zenon

LEMMA RecordsOfPageApart ==
    ASSUME NEW s \in MergeSpec, NEW t, s.frames # <<>>, ~DegenerateCell(s),
           NEW k \in Nat \ {0}, NEW m \in Nat \ {0}, m < k,
           MergedRecord(s, t, m).page = MergedRecord(s, t, k).page,
           Spaced(Height(CellOf(s.frames)), s.spacing[1]), Spaced(Width(CellOf(s.frames)), s.spacing[2])
    PROVE  Apart(PlacedAt(s, MergedRecord(s, t, m).row, MergedRecord(s, t, m).column),
                 PlacedAt(s, MergedRecord(s, t, k).row, MergedRecord(s, t, k).column))
<1> DEFINE q == MergedRecord(s, t, m)
           r == MergedRecord(s, t, k)
           shape == MergeGrid(s)
<1>1. q.row # r.row \/ q.column # r.column
    BY RecordsDiffer
<1>2. /\ q.row \in 0..(shape.rows - 1) /\ q.column \in 0..(shape.columns - 1)
      /\ r.row \in 0..(shape.rows - 1) /\ r.column \in 0..(shape.columns - 1)
    BY RecordPlaced
<1>3. shape.rows \in Nat \ {0} /\ shape.columns \in Nat \ {0}
    BY GridTyped
<1> HIDE DEF q, r, shape
<1>4. q.row \in Int /\ q.column \in Int /\ r.row \in Int /\ r.column \in Int
    BY <1>2, <1>3
<1>5. CASE Multiple(s)
    BY <1>1, <1>4, <1>5, PlacesApart DEF q, r
<1>6. CASE ~Multiple(s)
    <2>1. shape.rows = 1 /\ shape.columns = 1
        BY <1>6 DEF shape, MergeGrid
    <2> QED
        BY <1>1, <1>2, <2>1
<1> QED
    BY <1>5, <1>6

LEMMA RecordInBox ==
    ASSUME NEW s \in MergeSpec, NEW t, s.frames # <<>>, ~DegenerateCell(s), Multiple(s), NEW k \in Nat \ {0}
    PROVE  LET c == PlacedAt(s, MergedRecord(s, t, k).row, MergedRecord(s, t, k).column)
           IN  /\ Height(CellOf(s.frames)) <= Height(s.marginBox)
                    => c[1] >= s.marginBox[1] /\ c[3] <= s.marginBox[3]
               /\ Width(CellOf(s.frames)) <= Width(s.marginBox)
                    => c[2] >= s.marginBox[2] /\ c[4] <= s.marginBox[4]
<1>1. /\ MergedRecord(s, t, k).row \in 0..(MergeGrid(s).rows - 1)
      /\ MergedRecord(s, t, k).column \in 0..(MergeGrid(s).columns - 1)
    BY RecordPlaced
<1> QED
    BY <1>1, PlacesInside

\* Neither another row nor another column of records has room on a page.
LEMMA PageIsFull ==
    ASSUME NEW s \in MergeSpec, s.frames # <<>>, ~DegenerateCell(s), Multiple(s)
    PROVE  \E rows, columns \in 1..PerPage(s) :
               /\ rows * columns = PerPage(s)
               /\ ~RoomFor(rows + 1, Height(s.marginBox), Height(CellOf(s.frames)), s.spacing[1])
               /\ ~RoomFor(columns + 1, Width(s.marginBox), Width(CellOf(s.frames)), s.spacing[2])
<1> DEFINE h == Height(CellOf(s.frames))
           w == Width(CellOf(s.frames))
           n == PerPage(s)
           shape == MergeGrid(s)
<1>1. shape.rows \in Nat \ {0} /\ shape.columns \in Nat \ {0} /\ n = shape.rows * shape.columns
    BY GridTyped DEF PerPage
<1> HIDE DEF shape
<1>2. \A x, y \in Nat \ {0} : x \in 1..(x * y) /\ y \in 1..(x * y)
    <2> SUFFICES ASSUME NEW x \in Nat \ {0}, NEW y \in Nat \ {0}
                 PROVE  x \in 1..(x * y) /\ y \in 1..(x * y)
        OBVIOUS
    <2>1. 1 * x <= y * x /\ 1 * x = x /\ y * x = x * y
        BY ProductMonotonic
    <2>2. 1 * y <= x * y /\ 1 * y = y
        BY ProductMonotonic
    <2>3. x * y \in Int
        OBVIOUS
    <2> QED
        BY <2>1, <2>2, <2>3
<1>3. shape.rows \in 1..n /\ shape.columns \in 1..n
    <2> HIDE DEF n
    <2> QED
        BY <1>1, <1>2, Zenon
<1>4. /\ h + s.spacing[1] > 0 /\ w + s.spacing[2] > 0
      /\ shape.rows = Slots(Height(s.marginBox), h, s.spacing[1])
      /\ shape.columns = Slots(Width(s.marginBox), w, s.spacing[2])
    BY CellTyped DEF DegenerateCell, shape, MergeGrid
<1>5. /\ ~RoomFor(shape.rows + 1, Height(s.marginBox), h, s.spacing[1])
      /\ ~RoomFor(shape.columns + 1, Width(s.marginBox), w, s.spacing[2])
    BY <1>4, CellTyped, SlotsFill
<1> HIDE DEF n
<1> QED
    BY <1>1, <1>3, <1>5, Zenon DEF n

\* "As many records per page as the margin box holds": of any template, table
\* and margin box, the records on a page do not overlap nor leave the box, and
\* a page is left only when it is full.
THEOREM RecordsKeptApart == Merging => []RecordsApart
<1>1. MergeInv => RecordsApart
    <2> SUFFICES ASSUME MergeInv, spec # NoStory, spec.frames # <<>>, NEW k \in DOMAIN merged
                 PROVE  LET r == merged[k]
                            h == Height(CellOf(spec.frames))
                            w == Width(CellOf(spec.frames))
                            before == {m \in 1..(k - 1) : merged[m].page = r.page - 1}
                        IN  /\ \A m \in 1..(k - 1) :
                                 merged[m].page = r.page /\ Spaced(h, spec.spacing[1])
                                    /\ Spaced(w, spec.spacing[2])
                                    => Apart(CellAt(merged[m]), CellAt(r))
                            /\ Multiple(spec) /\ h <= Height(spec.marginBox)
                                 => /\ CellAt(r)[1] >= spec.marginBox[1]
                                    /\ CellAt(r)[3] <= spec.marginBox[3]
                            /\ Multiple(spec) /\ w <= Width(spec.marginBox)
                                 => /\ CellAt(r)[2] >= spec.marginBox[2]
                                    /\ CellAt(r)[4] <= spec.marginBox[4]
                            /\ Multiple(spec) /\ r.page > 0 =>
                                 \E rows, columns \in 1..Cardinality(before) :
                                    /\ rows * columns = Cardinality(before)
                                    /\ ~RoomFor(rows + 1, Height(spec.marginBox), h, spec.spacing[1])
                                    /\ ~RoomFor(columns + 1, Width(spec.marginBox), w, spec.spacing[2])
        BY Zenon DEF RecordsApart
    <2>1. /\ spec \in MergeSpec /\ ~DegenerateCell(spec)
          /\ \A m \in 1..Len(merged) : merged[m] = MergedRecord(spec, table, m)
          /\ Len(merged) \in Nat /\ DOMAIN merged = 1..Len(merged)
        <3>1. merged \in Seq({MergedRecord(spec, table, m) : m \in Nat})
            BY DEF MergeInv
        <3>2. Len(merged) \in Nat /\ DOMAIN merged = 1..Len(merged)
            BY <3>1, LenProperties
        <3> QED
            BY <3>2 DEF MergeInv
    <2>2. k \in Nat \ {0} /\ \A m \in 1..(k - 1) : m \in Nat \ {0} /\ m \in 1..Len(merged)
        BY <2>1
    <2>3. merged[k] = MergedRecord(spec, table, k)
        BY <2>1
    <2>4. \A m \in 1..(k - 1) : /\ merged[m] = MergedRecord(spec, table, m)
                                /\ merged[m].page = (m - 1) \div PerPage(spec)
        BY <2>1, <2>2, RecordPlaced
    <2>5. \A r : CellAt(r) = PlacedAt(spec, r.row, r.column)
        BY DEF CellAt, PlacedAt
    <2> DEFINE r == merged[k]
               h == Height(CellOf(spec.frames))
               w == Width(CellOf(spec.frames))
               n == PerPage(spec)
               before == {m \in 1..(k - 1) : merged[m].page = r.page - 1}
    <2>6. ASSUME NEW m \in 1..(k - 1), merged[m].page = r.page,
                 Spaced(h, spec.spacing[1]), Spaced(w, spec.spacing[2])
          PROVE  Apart(CellAt(merged[m]), CellAt(r))
        <3>1. m \in Nat \ {0} /\ m < k
            BY <2>2
        <3>2. Apart(PlacedAt(spec, MergedRecord(spec, table, m).row,
                             MergedRecord(spec, table, m).column),
                    PlacedAt(spec, MergedRecord(spec, table, k).row,
                             MergedRecord(spec, table, k).column))
            BY <2>1, <2>2, <2>3, <2>4, <2>6, <3>1, RecordsOfPageApart
        <3> QED
            BY <2>3, <2>4, <2>5, <3>2
    <2>7. ASSUME Multiple(spec)
          PROVE  /\ h <= Height(spec.marginBox)
                      => CellAt(r)[1] >= spec.marginBox[1] /\ CellAt(r)[3] <= spec.marginBox[3]
                 /\ w <= Width(spec.marginBox)
                      => CellAt(r)[2] >= spec.marginBox[2] /\ CellAt(r)[4] <= spec.marginBox[4]
        <3>1. CellAt(r) = PlacedAt(spec, MergedRecord(spec, table, k).row,
                                   MergedRecord(spec, table, k).column)
            BY <2>3, <2>5
        <3> QED
            BY <2>1, <2>2, <2>7, <3>1, RecordInBox
    <2>8. ASSUME Multiple(spec), r.page > 0
          PROVE  Cardinality(before) = n
        <3>1. n \in Nat \ {0} /\ r.page = (k - 1) \div n
            BY <2>1, <2>2, <2>3, GridTyped, RecordPlaced
        <3>2. r.page \in Nat \ {0}
            <4>1. k - 1 \in Int
                BY <2>2
            <4>2. r.page \in Int
                BY <3>1, <4>1, Quotient
            <4> QED
                BY <2>8, <4>2
        <3>3. before = {m \in 1..(k - 1) : (m - 1) \div n = r.page - 1}
            BY <2>4
        <3> HIDE DEF n, r, before
        <3>4. \A p \in Nat \ {0} : (k - 1) \div n = p
                => Cardinality({m \in 1..(k - 1) : (m - 1) \div n = p - 1}) = n
            BY <2>2, <3>1, PageBefore
        <3> QED
            BY <3>1, <3>2, <3>3, <3>4, Zenon
    <2>9. ASSUME Multiple(spec), r.page > 0
          PROVE  \E rows, columns \in 1..Cardinality(before) :
                    /\ rows * columns = Cardinality(before)
                    /\ ~RoomFor(rows + 1, Height(spec.marginBox), h, spec.spacing[1])
                    /\ ~RoomFor(columns + 1, Width(spec.marginBox), w, spec.spacing[2])
        <3> HIDE DEF before
        <3> QED
            BY <2>1, <2>8, <2>9, PageIsFull
    <2> QED
        BY <2>6, <2>7, <2>9, Zenon
<1> QED
    BY <1>1, MergingTyped, PTL

-----------------------------------------------------------------------------
(* Recursive functions.                                                    *)

\* A function over 0..n with these steps.
Reaches(n, T, base, next) ==
    \E f \in [0..n -> T] : f[0] = base /\ \A k \in 1..n : f[k] = next[<<k, f[k - 1]>>]

\* A recursive function over 0..n exists: there is no least number it does
\* not reach.
LEMMA RecursionReaches ==
    ASSUME NEW n \in Nat, NEW T, NEW base \in T, NEW next \in [(1..n) \X T -> T]
    PROVE  Reaches(n, T, base, next)
<1> DEFINE Reached(m) == \E f \in [0..m -> T] :
                             f[0] = base /\ \A k \in 1..m : f[k] = next[<<k, f[k - 1]>>]
           Out == {m \in 0..n : ~Reached(m)}
<1>1. Reached(0)
    <2> DEFINE f == [i \in 0..0 |-> base]
    <2>1. f \in [0..0 -> T] /\ f[0] = base /\ \A k \in 1..0 : f[k] = next[<<k, f[k - 1]>>]
        OBVIOUS
    <2> QED
        BY <2>1
<1>2. ASSUME NEW m \in 0..n, m # 0, Reached(m - 1)
      PROVE  Reached(m)
    <2>1. m \in 1..n /\ m - 1 \in Nat /\ m - 1 \in 0..(m - 1)
        BY <1>2
    <2>2. PICK f \in [0..(m - 1) -> T] :
              f[0] = base /\ \A k \in 1..(m - 1) : f[k] = next[<<k, f[k - 1]>>]
        BY <1>2
    <2> DEFINE g == [i \in 0..m |-> IF i = m THEN next[<<m, f[m - 1]>>] ELSE f[i]]
    <2>3. f[m - 1] \in T /\ next[<<m, f[m - 1]>>] \in T
        <3>1. f[m - 1] \in T
            BY <2>1, <2>2
        <3>2. <<m, f[m - 1]>> \in (1..n) \X T
            BY <2>1, <3>1
        <3> QED
            BY <3>1, <3>2
    <2>4. \A i \in 0..m : i = m \/ i \in 0..(m - 1)
        BY <2>1
    <2>5. g \in [0..m -> T]
        BY <2>2, <2>3, <2>4
    <2>6. g[0] = base
        BY <1>2, <2>2
    <2>7. ASSUME NEW k \in 1..m
          PROVE  g[k] = next[<<k, g[k - 1]>>]
        <3>1. k - 1 \in 0..m /\ k - 1 # m /\ g[k - 1] = f[k - 1]
            BY <2>1
        <3>2. CASE k = m
            BY <2>1, <3>1, <3>2
        <3>3. CASE k # m
            <4>1. k \in 1..(m - 1) /\ k \in 0..m
                BY <2>1, <3>3
            <4>2. g[k] = f[k]
                BY <3>3, <4>1
            <4> QED
                BY <2>2, <3>1, <4>1, <4>2
        <3> QED
            BY <3>2, <3>3
    <2> HIDE DEF g
    <2> QED
        BY <2>5, <2>6, <2>7
<1>3. Out = {}
    <2> SUFFICES ASSUME Out # {} PROVE FALSE
        OBVIOUS
    <2>1. Out \subseteq Nat
        OBVIOUS
    <2> HIDE DEF Reached
    <2>2. PICK m \in Out : \A k \in Out : m <= k
        <3> HIDE DEF Out
        <3> QED
            BY <2>1, LeastNumber
    <2>3. m \in 0..n /\ ~Reached(m) /\ m # 0
        BY <1>1
    <2>4. m - 1 \in 0..n /\ ~(m <= m - 1)
        BY <2>3
    <2>5. Reached(m - 1)
        BY <2>2, <2>4
    <2> QED
        BY <1>2, <2>3, <2>5
<1>4. Reached(n)
    <2> HIDE DEF Reached
    <2> QED
        BY <1>3
<1> QED
    BY <1>4 DEF Reaches

-----------------------------------------------------------------------------
(* Sequences joined end to end.                                            *)

\* The places of the elements of the first n of sequences ff.
PartPlaces(ff, n) == UNION {{<<s, r>> : r \in DOMAIN ff[s]} : s \in 1..n}

\* Sequence g has every element of the first n of ff, each once.
Joins(ff, n, g, T) ==
    /\ g \in Seq(T)
    /\ \E p \in [1..Len(g) -> PartPlaces(ff, n)] :
           /\ \A u \in 1..Len(g) : g[u] = ff[p[u][1]][p[u][2]]
           /\ \A u, v \in 1..Len(g) : p[u] = p[v] => u = v
           /\ \A x \in PartPlaces(ff, n) : \E u \in 1..Len(g) : p[u] = x

LEMMA JoinsStep ==
    ASSUME NEW T, NEW ff \in Seq(Seq(T)), NEW n \in 1..Len(ff), NEW g, Joins(ff, n - 1, g, T)
    PROVE  Joins(ff, n, g \o ff[n], T)
<1> DEFINE A == PartPlaces(ff, n - 1)
           B == PartPlaces(ff, n)
           m == Len(g)
           h == ff[n]
           E == g \o h
<1>1. PICK p \in [1..m -> A] :
              /\ \A u \in 1..m : g[u] = ff[p[u][1]][p[u][2]]
              /\ \A u, v \in 1..m : p[u] = p[v] => u = v
              /\ \A x \in A : \E u \in 1..m : p[u] = x
    BY DEF Joins
<1>2. g \in Seq(T) /\ m \in Nat
    BY DEF Joins
<1>3. h \in Seq(T) /\ Len(h) \in Nat /\ DOMAIN h = 1..Len(h) /\ n \in Nat /\ n \in 1..n
    BY LenProperties
<1>4. /\ E \in Seq(T) /\ Len(E) = m + Len(h)
      /\ \A u \in 1..m : E[u] = g[u]
      /\ \A u \in 1..Len(E) : u \in 1..m \/ (u - m \in 1..Len(h) /\ E[u] = h[u - m])
    BY <1>2, <1>3
<1>5. \A x : x \in A <=> \E s \in 1..(n - 1) : \E r \in DOMAIN ff[s] : x = <<s, r>>
    BY DEF PartPlaces
<1>6. \A x : x \in B <=> \E s \in 1..n : \E r \in DOMAIN ff[s] : x = <<s, r>>
    BY DEF PartPlaces
<1>7. \A x \in A : x \in B /\ x[1] \in 1..(n - 1)
    <2>1. \A s \in 1..(n - 1) : s \in 1..n
        BY <1>3
    <2> HIDE DEF A, B
    <2> QED
        BY <1>5, <1>6, <2>1
<1>8. \A x \in B : x \in A \/ \E r \in 1..Len(h) : x = <<n, r>>
    <2>1. \A s \in 1..n : s = n \/ s \in 1..(n - 1)
        BY <1>3
    <2> HIDE DEF A, B
    <2> QED
        BY <1>3, <1>5, <1>6, <2>1
<1>9. \A r \in 1..Len(h) : <<n, r>> \in B
    <2> HIDE DEF B
    <2> QED
        BY <1>3, <1>6
<1> HIDE DEF A, B, m, E, h
<1> DEFINE q == [u \in 1..Len(E) |-> IF u \in 1..m THEN p[u] ELSE <<n, u - m>>]
<1>10. \A u \in 1..m : u \in 1..Len(E) /\ q[u] = p[u] /\ p[u] \in A /\ p[u][1] \in 1..(n - 1)
    <2>1. \A u \in 1..m : u \in 1..Len(E)
        BY <1>2, <1>3, <1>4
    <2> QED
        BY <1>7, <2>1
<1>11. \A u \in 1..Len(E) : u \notin 1..m => q[u] = <<n, u - m>> /\ u - m \in 1..Len(h) /\ E[u] = h[u - m]
    BY <1>4
<1>12. q \in [1..Len(E) -> B]
    <2> SUFFICES ASSUME NEW u \in 1..Len(E) PROVE q[u] \in B
        OBVIOUS
    <2> HIDE DEF q
    <2> QED
        BY <1>7, <1>9, <1>10, <1>11
<1> HIDE DEF q
<1>13. ASSUME NEW u \in 1..Len(E) PROVE E[u] = ff[q[u][1]][q[u][2]]
    <2>1. CASE u \in 1..m
        BY <1>1, <1>4, <1>10, <2>1
    <2>2. CASE u \notin 1..m
        <3>1. q[u] = <<n, u - m>> /\ E[u] = h[u - m]
            BY <1>11, <2>2
        <3> QED
            BY <3>1 DEF h
    <2> QED
        BY <2>1, <2>2
<1>14. ASSUME NEW u \in 1..Len(E), NEW v \in 1..Len(E), q[u] = q[v]
       PROVE  u = v
    <2>0. n \notin 1..(n - 1)
        BY <1>3
    <2>1. CASE u \in 1..m /\ v \in 1..m
        BY <1>1, <1>10, <1>14, <2>1
    <2>2. CASE u \in 1..m /\ v \notin 1..m
        <3>1. q[u][1] \in 1..(n - 1)
            BY <1>10, <2>2
        <3>2. q[v][1] = n
            BY <1>11, <2>2
        <3> QED
            BY <1>14, <2>0, <3>1, <3>2
    <2>3. CASE u \notin 1..m /\ v \in 1..m
        <3>1. q[v][1] \in 1..(n - 1)
            BY <1>10, <2>3
        <3>2. q[u][1] = n
            BY <1>11, <2>3
        <3> QED
            BY <1>14, <2>0, <3>1, <3>2
    <2>4. CASE u \notin 1..m /\ v \notin 1..m
        <3>1. u - m = v - m
            BY <1>11, <1>14, <2>4
        <3> QED
            BY <1>2, <3>1
    <2> QED
        BY <2>1, <2>2, <2>3, <2>4
<1>15. ASSUME NEW x \in B PROVE \E u \in 1..Len(E) : q[u] = x
    <2>1. CASE x \in A
        BY <1>1, <1>10, <2>1
    <2>2. CASE \E r \in 1..Len(h) : x = <<n, r>>
        <3>1. PICK r \in 1..Len(h) : x = <<n, r>>
            BY <2>2
        <3>2. m + r \in 1..Len(E) /\ m + r \notin 1..m /\ (m + r) - m = r
            BY <1>2, <1>3, <1>4
        <3> QED
            BY <1>11, <3>1, <3>2
    <2> QED
        BY <1>8, <2>1, <2>2
<1> QED
    BY <1>4, <1>12, <1>13, <1>14, <1>15 DEF Joins, E, B, h

LEMMA FlattenJoins ==
    ASSUME NEW T, NEW ff \in Seq(Seq(T))
    PROVE  Joins(ff, Len(ff), Seqs!FlattenSeq(ff), T)
<1> DEFINE N == Len(ff)
           flat == Seqs!FlattenSeq(ff)
           Q == Seq(T)
           base == <<>>
           next == [x \in (1..N) \X Q |-> x[2] \o ff[x[1]]]
<1>1. N \in Nat /\ \A s \in 1..N : ff[s] \in Q
    OBVIOUS
<1>2. Joins(ff, 0, <<>>, T)
    <2>1. PartPlaces(ff, 0) = {}
        BY DEF PartPlaces
    <2>2. <<>> \in Seq(T) /\ Len(<<>>) = 0
        OBVIOUS
    <2> DEFINE p == [u \in 1..0 |-> u]
    <2>3. p \in [1..0 -> {}]
        OBVIOUS
    <2> HIDE DEF p
    <2> QED
        BY <2>1, <2>2, <2>3 DEF Joins
<1>3. next \in [(1..N) \X Q -> Q]
    <2>1. \A a, b \in Q : a \o b \in Q
        OBVIOUS
    <2>2. ASSUME NEW x \in (1..N) \X Q PROVE x[2] \o ff[x[1]] \in Q
        <3>1. x[1] \in 1..N /\ x[2] \in Q
            OBVIOUS
        <3> HIDE DEF N, Q
        <3> QED
            BY <1>1, <2>1, <3>1
    <2> HIDE DEF N, Q
    <2> QED
        BY <2>2
<1>4. Reaches(N, Q, base, next)
    <2>1. base \in Q
        OBVIOUS
    <2> HIDE DEF N, Q, base, next
    <2> QED
        BY <1>1, <1>3, <2>1, RecursionReaches
<1>5. PICK f \in [0..N -> Q] : f[0] = <<>> /\ \A k \in 1..N : f[k] = next[<<k, f[k - 1]>>]
    <2> HIDE DEF N, Q, next
    <2> QED
        BY <1>4 DEF Reaches
<1>6. \A k \in 1..N : k - 1 \in 0..N /\ f[k] = f[k - 1] \o ff[k]
    <2> SUFFICES ASSUME NEW k \in 1..N PROVE k - 1 \in 0..N /\ f[k] = f[k - 1] \o ff[k]
        OBVIOUS
    <2>1. k - 1 \in 0..N
        BY <1>1
    <2> HIDE DEF N, Q
    <2>2. f[k - 1] \in Q
        BY <2>1
    <2>3. <<k, f[k - 1]>> \in (1..N) \X Q
        BY <2>2
    <2>4. next[<<k, f[k - 1]>>] = f[k - 1] \o ff[k]
        BY <2>3
    <2> QED
        BY <1>5, <2>1, <2>4
<1>7. \A k \in 0..N : Joins(ff, k, f[k], T)
    <2> DEFINE Bad == {k \in 0..N : ~Joins(ff, k, f[k], T)}
    <2> SUFFICES ASSUME Bad # {} PROVE FALSE
        OBVIOUS
    <2>1. Bad \subseteq Nat
        OBVIOUS
    <2>2. PICK k \in Bad : \A i \in Bad : k <= i
        <3> HIDE DEF Bad
        <3> QED
            BY <2>1, LeastNumber
    <2>3. k \in 0..N /\ k # 0 /\ ~Joins(ff, k, f[k], T)
        BY <1>2, <1>5
    <2>4. k \in 1..N /\ k - 1 \in 0..N /\ ~(k <= k - 1)
        BY <1>1, <2>3
    <2>5. Joins(ff, k - 1, f[k - 1], T)
        BY <2>2, <2>4
    <2>6. Joins(ff, k, f[k - 1] \o ff[k], T)
        BY <2>4, <2>5, JoinsStep
    <2> QED
        BY <1>6, <2>3, <2>4, <2>6
<1>8. CASE N = 0
    <2>1. flat = ff /\ ff = <<>>
        BY <1>8 DEF Seqs!FlattenSeq
    <2> QED
        BY <1>2, <1>8, <2>1
<1>9. CASE N # 0
    <2> DEFINE Fixed(g) == g = [i \in 1..N |-> IF i = 1 THEN ff[i] ELSE g[i - 1] \o ff[i]]
               c == CHOOSE g : Fixed(g)
               w == [i \in 1..N |-> f[i]]
    <2>1. flat = c[N]
        BY <1>9 DEF Seqs!FlattenSeq
    <2>2. Fixed(w)
        <3> DEFINE e == [i \in 1..N |-> IF i = 1 THEN ff[i] ELSE w[i - 1] \o ff[i]]
        <3> SUFFICES ASSUME NEW i \in 1..N PROVE w[i] = e[i]
            OBVIOUS
        <3>1. f[i] = f[i - 1] \o ff[i]
            BY <1>6
        <3>2. CASE i = 1
            <4>1. f[i - 1] = <<>> /\ ff[i] \in Seq(T)
                BY <1>1, <1>5, <3>2
            <4>2. <<>> \o ff[i] = ff[i]
                BY <4>1
            <4> QED
                BY <3>1, <3>2, <4>1, <4>2
        <3>3. CASE i # 1
            <4>1. i - 1 \in 1..N /\ w[i - 1] = f[i - 1]
                BY <1>1, <3>3
            <4> QED
                BY <3>1, <3>3, <4>1
        <3> QED
            BY <3>2, <3>3
    <2>3. Fixed(c)
        <3> HIDE DEF Fixed, w
        <3> QED
            BY <2>2
    <2>4. c = [i \in 1..N |-> IF i = 1 THEN ff[i] ELSE c[i - 1] \o ff[i]]
        <3> HIDE DEF c
        <3> QED
            BY <2>3
    <2> HIDE DEF c, N
    <2>5. \A i \in 1..N : c[i] = IF i = 1 THEN ff[i] ELSE c[i - 1] \o ff[i]
        BY <2>4
    <2>6. \A i \in 1..N : c[i] = f[i]
        <3> DEFINE Bad == {i \in 1..N : c[i] # f[i]}
        <3> SUFFICES ASSUME Bad # {} PROVE FALSE
            OBVIOUS
        <3>1. Bad \subseteq Nat
            OBVIOUS
        <3>2. PICK i \in Bad : \A k \in Bad : i <= k
            <4> HIDE DEF Bad
            <4> QED
                BY <3>1, LeastNumber
        <3>3. i \in 1..N /\ c[i] # f[i] /\ f[i] = f[i - 1] \o ff[i]
            BY <1>6
        <3>4. i # 1
            <4> SUFFICES ASSUME i = 1 PROVE FALSE
                OBVIOUS
            <4>1. c[i] = ff[i] /\ f[i - 1] = <<>> /\ ff[i] \in Seq(T)
                BY <1>1, <1>5, <2>5, <3>3
            <4>2. <<>> \o ff[i] = ff[i]
                BY <4>1
            <4> QED
                BY <3>3, <4>1, <4>2
        <3>5. i - 1 \in 1..N /\ ~(i <= i - 1)
            BY <1>1, <3>3, <3>4
        <3>6. c[i - 1] = f[i - 1]
            BY <3>2, <3>5
        <3> QED
            BY <2>5, <3>3, <3>4, <3>6
    <2>7. N \in 1..N /\ N \in 0..N
        BY <1>1, <1>9
    <2> QED
        BY <1>7, <2>1, <2>6, <2>7 DEF N
<1> QED
    BY <1>8, <1>9

-----------------------------------------------------------------------------
(* Data Merge: the merged texts.                                           *)

\* What flattening gives holds the elements of the parts, and no others.
LEMMA FlattenTyped ==
    ASSUME NEW T, NEW ff \in Seq(Seq(T))
    PROVE  /\ Seqs!FlattenSeq(ff) \in Seq(T)
           /\ \A s \in 1..Len(ff) : \A r \in DOMAIN ff[s] :
                  ff[s][r] \in Seqs!ToSet(Seqs!FlattenSeq(ff))
<1> DEFINE g == Seqs!FlattenSeq(ff)
           n == Len(ff)
<1>1. Joins(ff, n, g, T)
    BY FlattenJoins
<1> HIDE DEF g, n
<1>2. PICK p \in [1..Len(g) -> PartPlaces(ff, n)] :
          /\ \A u \in 1..Len(g) : g[u] = ff[p[u][1]][p[u][2]]
          /\ \A x \in PartPlaces(ff, n) : \E u \in 1..Len(g) : p[u] = x
    BY <1>1 DEF Joins
<1>3. g \in Seq(T) /\ DOMAIN g = 1..Len(g)
    BY <1>1, LenProperties DEF Joins
<1>4. ASSUME NEW s \in 1..n, NEW r \in DOMAIN ff[s]
      PROVE  ff[s][r] \in Seqs!ToSet(g)
    <2>1. <<s, r>> \in PartPlaces(ff, n)
        BY DEF PartPlaces
    <2>2. PICK u \in 1..Len(g) : p[u] = <<s, r>>
        BY <1>2, <2>1
    <2>3. g[u] = ff[s][r]
        BY <1>2, <2>2
    <2> QED
        BY <1>3, <2>3 DEF Seqs!ToSet
<1> QED
    BY <1>3, <1>4 DEF g, n

LEMMA LeastOf ==
    ASSUME NEW S, S \subseteq Nat, S # {}
    PROVE  Seqs!Min(S) \in S
<1>1. \E k \in S : \A m \in S : k <= m
    BY LeastNumber
<1> QED
    BY <1>1 DEF Seqs!Min

\* The column a field reads is one of the table.
LEMMA ColumnFound ==
    ASSUME NEW columns \in Seq(FieldName), NEW name, ColumnOf(columns, name) # NoColumn
    PROVE  ColumnOf(columns, name) \in DOMAIN columns
<1> DEFINE bare == [name EXCEPT !.ats = 0]
           tries == <<{name}, {bare}, {[bare EXCEPT !.ats = 1]},
                      {c \in Seqs!Range(columns) : c.base = name.base}>>
           called(names) == {i \in DOMAIN columns : columns[i] \in names}
           hits == {n \in DOMAIN tries : called(tries[n]) # {}}
           least == Seqs!Min(hits)
<1>1. ColumnOf(columns, name) = IF hits = {} THEN NoColumn ELSE Seqs!Min(called(tries[least]))
    BY DEF ColumnOf
<1>2. hits # {}
    BY <1>1
<1>3. hits \subseteq Nat
    <2>1. DOMAIN tries = 1..4
        <3> HIDE DEF bare
        <3> QED
            OBVIOUS
    <2> QED
        BY <2>1
<1>4. least \in hits
    <2> HIDE DEF hits
    <2> QED
        BY <1>2, <1>3, LeastOf
<1>5. called(tries[least]) # {}
    <2> HIDE DEF least, tries, called
    <2> QED
        BY <1>4
<1>6. called(tries[least]) \subseteq DOMAIN columns /\ DOMAIN columns \subseteq Nat
    <2> HIDE DEF least, tries
    <2> QED
        BY LenProperties
<1> HIDE DEF called, tries, least, hits
<1>7. Seqs!Min(called(tries[least])) \in called(tries[least])
    BY <1>5, <1>6, LeastOf
<1> QED
    BY <1>1, <1>2, <1>6, <1>7

\* A cell has some width, or none.
LEMMA CellWide ==
    ASSUME NEW t \in MergeTable, NEW k \in 1..Len(t.rows), NEW name
    PROVE  Cell(t, k, name) \in Nat
<1>1. /\ t.columns \in Seq(FieldName) /\ t.rows \in Seq(Seq(Nat))
      /\ \A i \in DOMAIN t.rows : Len(t.rows[i]) = Len(t.columns)
    BY DEF MergeTable
<1>2. t.rows[k] \in Seq(Nat) /\ Len(t.rows[k]) = Len(t.columns)
    BY <1>1, LenProperties
<1>3. CASE Reads(t, name) = NoColumn
    BY <1>3 DEF Cell
<1>4. CASE Reads(t, name) # NoColumn
    <2> DEFINE c == Reads(t, name)
    <2>1. c = ColumnOf(t.columns, name[1]) /\ c # NoColumn
        BY <1>4 DEF Reads
    <2>2. c \in DOMAIN t.columns
        BY <1>1, <2>1, ColumnFound
    <2>3. Cell(t, k, name) = t.rows[k][c]
        BY <1>4 DEF Cell
    <2> HIDE DEF c
    <2>4. c \in 1..Len(t.rows[k])
        BY <1>1, <1>2, <2>2, LenProperties
    <2> QED
        BY <1>2, <2>3, <2>4
<1> QED
    BY <1>3, <1>4

\* What the fields of a line hold, as a record gives it.
Holds(line, value) ==
    \A p \in DOMAIN Placeholders(line) : value[NameAt(line, Placeholders(line)[p])] \in Nat

LEMMA PrintedTyped ==
    ASSUME NEW line \in Seq(Token), NEW value, Holds(line, value), NEW i \in DOMAIN line
    PROVE  Printed(line, value, i) \in Nat
<1> DEFINE ending == {p \in DOMAIN Placeholders(line) : Placeholders(line)[p].end = i}
<1>1. line[i] \in Token
    OBVIOUS
<1>2. CASE i \in Literals(line)
    <2>1. line[i] \notin {Open, Close} => LiteralWidth(line[i]) \in Nat
        BY <1>1 DEF Token, FieldName, LiteralWidth
    <2> QED
        BY <1>2, <2>1 DEF Printed
<1>3. CASE i \notin Literals(line) /\ ending = {}
    BY <1>3 DEF Printed
<1>4. CASE i \notin Literals(line) /\ ending # {}
    <2> DEFINE p == CHOOSE q \in ending : TRUE
    <2>1. p \in ending
        BY <1>4
    <2>2. Printed(line, value, i) = value[NameAt(line, Placeholders(line)[p])]
        BY <1>4 DEF Printed
    <2>3. p \in DOMAIN Placeholders(line)
        BY <2>1
    <2> HIDE DEF p, ending
    <2> QED
        BY <2>2, <2>3 DEF Holds
<1> QED
    BY <1>2, <1>3, <1>4

\* A word has some width.
Advance == Nat \ {0}

LEMMA LineTyped ==
    ASSUME NEW line \in Seq(Token), NEW value, Holds(line, value)
    PROVE  MergeLine(line, value) \in Seq(Advance)
<1> DEFINE w(i) == Printed(line, value, i)
           ff == [i \in DOMAIN line |-> IF w(i) = 0 THEN <<>> ELSE <<w(i)>>]
<1>1. MergeLine(line, value) = Seqs!FlattenSeq(ff)
    BY DEF MergeLine
<1>2. \A i \in DOMAIN line : w(i) \in Nat
    BY PrintedTyped
<1>3. DOMAIN line = 1..Len(line) /\ Len(line) \in Nat
    BY LenProperties
<1>4. \A i \in DOMAIN line : (IF w(i) = 0 THEN <<>> ELSE <<w(i)>>) \in Seq(Advance)
    <2> SUFFICES ASSUME NEW i \in DOMAIN line
                 PROVE  (IF w(i) = 0 THEN <<>> ELSE <<w(i)>>) \in Seq(Advance)
        OBVIOUS
    <2> DEFINE v == w(i)
    <2>1. v \in Nat
        BY <1>2
    <2> HIDE DEF v
    <2>2. v # 0 => v \in Advance
        BY <2>1 DEF Advance
    <2>3. (IF v = 0 THEN <<>> ELSE <<v>>) \in Seq(Advance)
        BY <2>2
    <2> QED
        BY <2>3 DEF v
<1> HIDE DEF w
<1>5. ff \in Seq(Seq(Advance))
    BY <1>3, <1>4
<1> HIDE DEF ff
<1> QED
    BY <1>1, <1>5, FlattenTyped

LEMMA TextTyped ==
    ASSUME NEW text \in Seq(Seq(Token)), NEW value, NEW removeBlank,
           \A l \in DOMAIN text : Holds(text[l], value)
    PROVE  MergeText(text, value, removeBlank) \in Seq(Seq(Advance))
<1> DEFINE line(l) == MergeLine(text[l], value)
           blank(l) == removeBlank /\ OnlyEmptyFields(text[l], value)
           ff == [l \in DOMAIN text |-> IF blank(l) THEN <<>> ELSE <<line(l)>>]
<1>1. MergeText(text, value, removeBlank) = Seqs!FlattenSeq(ff)
    BY DEF MergeText
<1>2. \A l \in DOMAIN text : line(l) \in Seq(Advance)
    BY LineTyped
<1>3. DOMAIN text = 1..Len(text) /\ Len(text) \in Nat
    BY LenProperties
<1> HIDE DEF line, blank
<1>4. \A l \in DOMAIN text : (IF blank(l) THEN <<>> ELSE <<line(l)>>) \in Seq(Seq(Advance))
    <2> SUFFICES ASSUME NEW l \in DOMAIN text
                 PROVE  (IF blank(l) THEN <<>> ELSE <<line(l)>>) \in Seq(Seq(Advance))
        OBVIOUS
    <2> DEFINE v == line(l)
               b == blank(l)
               Q == Seq(Advance)
    <2>1. v \in Q
        BY <1>2
    <2> HIDE DEF v, b, Q
    <2>2. (IF b THEN <<>> ELSE <<v>>) \in Seq(Q)
        BY <2>1
    <2> QED
        BY <2>2 DEF v, b, Q
<1> DEFINE Q == Seq(Advance)
<1>5. ff \in Seq(Seq(Q))
    <2> HIDE DEF Q
    <2> QED
        BY <1>3, <1>4 DEF Q
<1> HIDE DEF ff, Q
<1>6. Seqs!FlattenSeq(ff) \in Seq(Q)
    BY <1>5, FlattenTyped
<1> QED
    BY <1>1, <1>6 DEF Q

\* The names of a text are those of its placeholders.
LEMMA NamesListed ==
    ASSUME NEW text \in Seq(Seq(Token)), NEW l \in DOMAIN text,
           NEW p \in DOMAIN Placeholders(text[l])
    PROVE  NameAt(text[l], Placeholders(text[l])[p]) \in Seqs!ToSet(PlaceholderFields(text))
<1> DEFINE spans(k) == Placeholders(text[k])
           names(k) == [q \in DOMAIN spans(k) |-> NameAt(text[k], spans(k)[q])]
           ff == [k \in DOMAIN text |-> names(k)]
           T == {NameAt(text[k], x) : k \in DOMAIN text, x \in SpanRecord}
<1>1. PlaceholderFields(text) = Seqs!FlattenSeq(ff)
    BY DEF PlaceholderFields
<1>2. DOMAIN text = 1..Len(text) /\ Len(text) \in Nat
    BY LenProperties
<1>3. \A k \in DOMAIN text : names(k) \in Seq(T)
    <2> SUFFICES ASSUME NEW k \in DOMAIN text PROVE names(k) \in Seq(T)
        <3> HIDE DEF names, T
        <3> QED
            OBVIOUS
    <2>1. text[k] \in Seq(Token)
        OBVIOUS
    <2>2. spans(k) \in Seq(SpanRecord)
        BY <2>1, PlaceholdersOfLine
    <2>3. /\ DOMAIN spans(k) = 1..Len(spans(k)) /\ Len(spans(k)) \in Nat
          /\ \A q \in DOMAIN spans(k) : spans(k)[q] \in SpanRecord
        <3> HIDE DEF spans
        <3> QED
            BY <2>2, LenProperties
    <2>4. \A q \in DOMAIN spans(k) : NameAt(text[k], spans(k)[q]) \in T
        BY <2>3
    <2> HIDE DEF spans, T
    <2> QED
        BY <2>3, <2>4
<1> HIDE DEF names, T
<1>4. ff \in Seq(Seq(T))
    <2> DEFINE Q == Seq(T)
    <2> HIDE DEF Q
    <2>1. \A k \in DOMAIN text : names(k) \in Q
        BY <1>3 DEF Q
    <2>2. ff \in Seq(Q)
        BY <1>2, <2>1
    <2> QED
        BY <2>2 DEF Q
<1>5. Len(ff) = Len(text) /\ ff[l] = names(l)
    <2>1. Len(ff) = Len(text)
        BY <1>2
    <2> QED
        BY <2>1
<1> HIDE DEF ff
<1>6. l \in 1..Len(ff)
    BY <1>2, <1>5
<1>7. p \in DOMAIN names(l) /\ names(l)[p] = NameAt(text[l], spans(l)[p])
    BY DEF names
<1>8. ff[l][p] \in Seqs!ToSet(Seqs!FlattenSeq(ff))
    <2>1. p \in DOMAIN ff[l]
        BY <1>5, <1>7
    <2> QED
        BY <1>4, <1>6, <2>1, FlattenTyped
<1> QED
    BY <1>1, <1>5, <1>7, <1>8

\* The text of a merged frame: words of some width, or none for an image.
LEMMA MergedTextTyped ==
    ASSUME NEW s \in MergeSpec, NEW t \in MergeTable, NEW k \in 1..Len(t.rows),
           NEW i \in DOMAIN s.frames
    PROVE  LET text == MergedRecord(s, t, k).frames[i].text
           IN  text # NoStory => text \in Seq(Seq(Advance))
<1> DEFINE f == s.frames[i]
           text == f.text
           names == Seqs!ToSet(PlaceholderFields(text))
           value == [n \in names |-> Cell(t, k, n)]
<1>1. f \in MergeTemplateFrame
    <2>1. s.frames \in Seq(MergeTemplateFrame)
        BY DEF MergeSpec
    <2> QED
        BY <2>1
<1>2. text \in Seq(Seq(Token))
    BY <1>1 DEF MergeTemplateFrame
<1>3. MergedRecord(s, t, k).frames[i].text =
          IF f.kind = "text" THEN MergeText(text, value, s.removeBlank) ELSE NoStory
    BY DEF MergedRecord, MergedFrame
<1> HIDE DEF f, text
<1>4. \A n \in names : value[n] \in Nat
    <2>1. \A n : Cell(t, k, n) \in Nat
        BY CellWide
    <2> HIDE DEF names
    <2> QED
        BY <2>1
<1> HIDE DEF value
<1>5. \A l \in DOMAIN text : Holds(text[l], value)
    <2> SUFFICES ASSUME NEW l \in DOMAIN text, NEW p \in DOMAIN Placeholders(text[l])
                 PROVE  value[NameAt(text[l], Placeholders(text[l])[p])] \in Nat
        BY DEF Holds
    <2>1. NameAt(text[l], Placeholders(text[l])[p]) \in names
        BY <1>2, NamesListed
    <2> QED
        BY <1>4, <2>1
<1>6. MergeText(text, value, s.removeBlank) \in Seq(Seq(Advance))
    BY <1>2, <1>5, TextTyped
<1> QED
    BY <1>3, <1>6

-----------------------------------------------------------------------------
(* Data Merge: the overset.                                                *)

\* A text as it is wrapped: what CountLine and LinesSet step through.
Wrapped == [lines : Nat, used : Nat]
Put(acc, a, width, space) ==
    IF acc.lines > 0 /\ acc.used + space + a <= width
    THEN [acc EXCEPT !.used = @ + space + a]
    ELSE [lines |-> acc.lines + Span(width, a),
          used |-> IF a > width /\ width > 0 THEN a % width ELSE a]

SetText == [line : Nat, used : Nat]
SetWord(b, w, n, width, space) ==
    LET first == IF n = 1 THEN 0 ELSE b.line
    IN  IF n > 1 /\ b.used + space + w <= width
        THEN [line |-> b.line, used |-> b.used + space + w]
        ELSE [line |-> first + (w + width - 1) \div width, used |-> ((w - 1) % width) + 1]

\* A word that fits takes a line, a wider one those its width needs; the last
\* of them holds the rest of it.
LEMMA SpanOfWord ==
    ASSUME NEW w \in Advance, NEW width \in Nat \ {0}, w > width => w % width # 0
    PROVE  /\ Span(width, w) \in Nat \ {0}
           /\ Span(width, w) = (w + width - 1) \div width
           /\ (IF w > width /\ width > 0 THEN w % width ELSE w) = ((w - 1) % width) + 1
           /\ ((w - 1) % width) + 1 \in Nat
<1> DEFINE q == w \div width
           r == w % width
           n == (w + width - 1) \div width
           p == (w - 1) \div width
           u == (w - 1) % width
<1>1. w \in Nat /\ w >= 1 /\ width \in Nat /\ width >= 1
    BY DEF Advance
<1>2. /\ n \in Int /\ n * width \in Int
      /\ n * width <= w + width - 1 /\ w + width - 1 < n * width + width
    <2> DEFINE a == w + width - 1
    <2>1. a \in Int
        BY <1>1
    <2> HIDE DEF a
    <2>2. a \div width \in Int /\ (a \div width) * width <= a /\ a < (a \div width) * width + width
        BY <2>1, Quotient
    <2>3. (a \div width) * width \in Int
        BY <1>1, <2>2
    <2> QED
        BY <2>2, <2>3 DEF a
<1>3. n >= 1
    <2> SUFFICES ASSUME n <= 0 PROVE FALSE
        BY <1>2
    <2>1. n * width <= 0 * width
        <3> HIDE DEF n
        <3> QED
            BY <1>1, <1>2, ProductMonotonic
    <2> HIDE DEF n
    <2> QED
        BY <1>1, <1>2, <2>1
<1>4. Span(width, w) = n
    <2> HIDE DEF n
    <2>1. Seqs!Max({1, n}) = n
        BY <1>2, <1>3 DEF Seqs!Max
    <2> QED
        BY <1>1, <2>1 DEF Span, n
<1>5. u \in 0..(width - 1) /\ u \in Nat
    <2>1. w - 1 \in Int
        BY <1>1
    <2>2. u \in 0..(width - 1)
        BY <2>1, Quotient
    <2> HIDE DEF u
    <2> QED
        BY <1>1, <2>2
<1>6. CASE w <= width
    <2>1. (w - 1) \div width = 0
        <3>1. 0 * width <= w - 1 /\ w - 1 < 0 * width + width /\ w - 1 \in Int
            BY <1>1, <1>6
        <3> QED
            BY <3>1, QuotientOnly
    <2>2. w - 1 = p * width + u
        <3>1. w - 1 \in Int
            BY <1>1
        <3> QED
            BY <3>1, Quotient
    <2>3. w - 1 = u
        <3> HIDE DEF u
        <3> QED
            BY <1>1, <1>5, <2>1, <2>2
    <2> HIDE DEF u, n
    <2> QED
        BY <1>1, <1>2, <1>3, <1>4, <1>5, <1>6, <2>3 DEF u
<1>7. CASE w > width
    <2>1. q \in Int /\ q * width \in Int /\ r \in 0..(width - 1) /\ w = q * width + r
        BY <1>1, Quotient
    <2>2. r >= 1
        <3>1. r # 0
            BY <1>7
        <3> HIDE DEF r, q
        <3> QED
            BY <1>1, <2>1, <3>1
    <2>3. p = q
        <3>1. q * width <= w - 1 /\ w - 1 < q * width + width /\ w - 1 \in Int
            <4> HIDE DEF q, r
            <4> QED
                BY <1>1, <2>1, <2>2
        <3> HIDE DEF q
        <3> QED
            BY <2>1, <3>1, QuotientOnly
    <2>4. w - 1 = p * width + u
        <3>1. w - 1 \in Int
            BY <1>1
        <3> QED
            BY <3>1, Quotient
    <2>5. r = u + 1
        <3> HIDE DEF p, q, r, u
        <3> QED
            BY <1>1, <1>5, <2>1, <2>3, <2>4
    <2>6. (IF w > width /\ width > 0 THEN w % width ELSE w) = r
        <3> HIDE DEF p, q, u
        <3> QED
            BY <1>1, <1>7
    <2> HIDE DEF u, n, r
    <2> QED
        BY <1>1, <1>2, <1>3, <1>4, <1>5, <2>5, <2>6 DEF u
<1> QED
    BY <1>1, <1>6, <1>7

LEMMA WrapTyped ==
    ASSUME NEW acc \in Wrapped, NEW a \in Nat, NEW space \in Nat, NEW span \in Nat, NEW rest \in Nat
    PROVE  /\ [acc EXCEPT !.used = @ + space + a] \in Wrapped
           /\ [lines |-> acc.lines + span, used |-> rest] \in Wrapped
    BY DEF Wrapped

\* The text after each word, as the code counts it.
Wraps(line, width, space, g) ==
    /\ g[0] = [lines |-> 0, used |-> 0]
    /\ \A k \in 1..Len(line) : g[k] = Put(g[k - 1], line[k], width, space)

\* The count is what wrapping the line comes to.
Counted(line, width, space, count) ==
    \E g : Wraps(line, width, space, g) /\ count = Seqs!Max({1, g[Len(line)].lines})

LEMMA LineWraps ==
    ASSUME NEW line \in Seq(Advance), NEW width \in Nat \ {0}, NEW space \in Nat,
           NEW measured, \A k \in 1..Len(line) : line[k] \in measured,
           \A k \in 1..Len(line) : line[k] > width => line[k] % width # 0
    PROVE  Counted(line, width, space, CountLine(line, width, space, measured))
<1> DEFINE N == Len(line)
           base == [lines |-> 0, used |-> 0]
           next == [x \in (1..N) \X Wrapped |-> Put(x[2], line[x[1]], width, space)]
           adv(w) == IF w \in measured THEN w ELSE 0
           Fixed(g) == g = [k \in 0..N |-> IF k = 0 THEN base ELSE Put(g[k - 1], adv(line[k]), width, space)]
           c == CHOOSE g : Fixed(g)
<1>1. N \in Nat /\ \A k \in 1..N : line[k] \in Advance
    BY LenProperties
<1>2. next \in [(1..N) \X Wrapped -> Wrapped]
    <2>1. ASSUME NEW k \in 1..N, NEW acc \in Wrapped PROVE Put(acc, line[k], width, space) \in Wrapped
        <3> DEFINE a == line[k]
        <3>1. a \in Advance /\ (a > width => a % width # 0)
            BY <1>1
        <3> HIDE DEF a, N
        <3>2. /\ Span(width, a) \in Nat \ {0}
              /\ (IF a > width /\ width > 0 THEN a % width ELSE a) = ((a - 1) % width) + 1
              /\ ((a - 1) % width) + 1 \in Nat
            BY <3>1, SpanOfWord
        <3> DEFINE rest == IF a > width /\ width > 0 THEN a % width ELSE a
                   span == Span(width, a)
        <3>3. rest \in Nat /\ span \in Nat /\ a \in Nat
            BY <3>1, <3>2 DEF Advance
        <3> HIDE DEF rest, span
        <3>4. /\ [acc EXCEPT !.used = @ + space + a] \in Wrapped
              /\ [lines |-> acc.lines + span, used |-> rest] \in Wrapped
            BY <3>3, WrapTyped
        <3>5. \/ Put(acc, a, width, space) = [acc EXCEPT !.used = @ + space + a]
              \/ Put(acc, a, width, space) = [lines |-> acc.lines + span, used |-> rest]
            <4>1. CASE acc.lines > 0 /\ acc.used + space + a <= width
                BY <4>1, Zenon DEF Put
            <4>2. CASE ~(acc.lines > 0 /\ acc.used + space + a <= width)
                BY <4>2, Zenon DEF Put, rest, span
            <4> QED
                BY <4>1, <4>2
        <3>6. Put(acc, a, width, space) \in Wrapped
            BY <3>4, <3>5
        <3> QED
            BY <3>6 DEF a
    <2>2. ASSUME NEW x \in (1..N) \X Wrapped PROVE Put(x[2], line[x[1]], width, space) \in Wrapped
        <3>1. x[1] \in 1..N /\ x[2] \in Wrapped
            OBVIOUS
        <3> HIDE DEF N
        <3> QED
            BY <2>1, <3>1
    <2> HIDE DEF N
    <2> QED
        BY <2>2
<1>3. base \in Wrapped
    BY DEF Wrapped
<1>4. PICK f \in [0..N -> Wrapped] : f[0] = base /\ \A k \in 1..N : f[k] = next[<<k, f[k - 1]>>]
    <2> HIDE DEF next, N, base
    <2>1. Reaches(N, Wrapped, base, next)
        BY <1>1, <1>2, <1>3, RecursionReaches
    <2> QED
        BY <2>1 DEF Reaches
<1>5. ASSUME NEW k \in 1..N PROVE f[k] = Put(f[k - 1], adv(line[k]), width, space)
    <2>1. k - 1 \in 0..N /\ adv(line[k]) = line[k]
        BY <1>1
    <2>2. f[k - 1] \in Wrapped
        BY <2>1
    <2> HIDE DEF N, adv
    <2>3. <<k, f[k - 1]>> \in (1..N) \X Wrapped
        BY <2>2
    <2>4. next[<<k, f[k - 1]>>] = Put(f[k - 1], line[k], width, space)
        BY <2>3
    <2> QED
        BY <1>4, <2>1, <2>4
<1>6. Fixed(f)
    <2> DEFINE g == [k \in 0..N |-> IF k = 0 THEN base ELSE Put(f[k - 1], adv(line[k]), width, space)]
    <2> HIDE DEF N, base, adv
    <2>1. \A k \in 0..N : k = 0 \/ k \in 1..N
        BY <1>1
    <2>2. \A k \in 0..N : f[k] = g[k]
        BY <1>4, <1>5, <2>1
    <2>3. DOMAIN f = 0..N /\ f = [k \in 0..N |-> f[k]]
        OBVIOUS
    <2> QED
        BY <2>2, <2>3
<1>7. CountLine(line, width, space, measured) = Seqs!Max({1, c[N].lines})
    BY DEF CountLine, Put
<1>8. c = [k \in 0..N |-> IF k = 0 THEN base ELSE Put(c[k - 1], adv(line[k]), width, space)]
    <2>1. Fixed(c)
        <3> HIDE DEF Fixed
        <3> QED
            BY <1>6
    <2> HIDE DEF c, N, base, adv
    <2> QED
        BY <2>1
<1>9. Wraps(line, width, space, c)
    <2>1. 0 \in 0..N /\ \A k \in 1..N : k \in 0..N /\ k # 0 /\ adv(line[k]) = line[k]
        BY <1>1
    <2> HIDE DEF c, adv, base
    <2>2. c[0] = base /\ \A k \in 1..N : c[k] = Put(c[k - 1], line[k], width, space)
        BY <1>8, <2>1
    <2> QED
        BY <2>2 DEF Wraps, base
<1> HIDE DEF c
<1> QED
    BY <1>7, <1>9 DEF Counted, N

\* The text after each word, as it is set.
SetsOut(line, width, space, g) ==
    /\ g[0] = [line |-> 1, used |-> 0]
    /\ \A k \in 1..Len(line) : g[k] = SetWord(g[k - 1], line[k], k, width, space)

LEMMA LineSets ==
    ASSUME NEW line \in Seq(Advance), NEW width \in Nat \ {0}, NEW space \in Nat,
           \A k \in 1..Len(line) : line[k] > width => line[k] % width # 0
    PROVE  \E g : SetsOut(line, width, space, g) /\ LinesSet(line, width, space) = g[Len(line)].line
<1> DEFINE N == Len(line)
           base == [line |-> 1, used |-> 0]
           next == [x \in (1..N) \X SetText |-> SetWord(x[2], line[x[1]], x[1], width, space)]
           Fixed(g) == g = [k \in 0..N |-> IF k = 0 THEN base ELSE SetWord(g[k - 1], line[k], k, width, space)]
           c == CHOOSE g : Fixed(g)
<1>1. N \in Nat /\ \A k \in 1..N : line[k] \in Advance
    BY LenProperties
<1>2. next \in [(1..N) \X SetText -> SetText]
    <2>1. ASSUME NEW k \in 1..N, NEW acc \in SetText PROVE SetWord(acc, line[k], k, width, space) \in SetText
        <3> DEFINE a == line[k]
        <3>1. a \in Advance /\ (a > width => a % width # 0)
            BY <1>1
        <3> HIDE DEF a, N
        <3> DEFINE span == (a + width - 1) \div width
                   rest == ((a - 1) % width) + 1
        <3>2. span \in Nat /\ rest \in Nat
            BY <3>1, SpanOfWord
        <3>3. a \in Nat /\ acc.line \in Nat /\ acc.used \in Nat
            BY <3>1 DEF Advance, SetText
        <3> HIDE DEF rest, span
        <3>4. /\ [line |-> acc.line, used |-> acc.used + space + a] \in SetText
              /\ [line |-> (IF k = 1 THEN 0 ELSE acc.line) + span, used |-> rest] \in SetText
            BY <3>2, <3>3 DEF SetText
        <3>5. SetWord(acc, a, k, width, space) \in SetText
            BY <3>4 DEF SetWord, rest, span
        <3> QED
            BY <3>5 DEF a
    <2>2. ASSUME NEW x \in (1..N) \X SetText PROVE SetWord(x[2], line[x[1]], x[1], width, space) \in SetText
        <3>1. x[1] \in 1..N /\ x[2] \in SetText
            OBVIOUS
        <3> HIDE DEF N
        <3> QED
            BY <2>1, <3>1
    <2> HIDE DEF N
    <2> QED
        BY <2>2
<1>3. base \in SetText
    BY DEF SetText
<1>4. PICK f \in [0..N -> SetText] : f[0] = base /\ \A k \in 1..N : f[k] = next[<<k, f[k - 1]>>]
    <2> HIDE DEF next, N, base
    <2>1. Reaches(N, SetText, base, next)
        BY <1>1, <1>2, <1>3, RecursionReaches
    <2> QED
        BY <2>1 DEF Reaches
<1>5. ASSUME NEW k \in 1..N PROVE f[k] = SetWord(f[k - 1], line[k], k, width, space)
    <2>1. k - 1 \in 0..N
        BY <1>1
    <2>2. f[k - 1] \in SetText
        BY <2>1
    <2> HIDE DEF N
    <2>3. <<k, f[k - 1]>> \in (1..N) \X SetText
        BY <2>2
    <2>4. next[<<k, f[k - 1]>>] = SetWord(f[k - 1], line[k], k, width, space)
        BY <2>3
    <2> QED
        BY <1>4, <2>1, <2>4
<1>6. Fixed(f)
    <2> DEFINE g == [k \in 0..N |-> IF k = 0 THEN base ELSE SetWord(f[k - 1], line[k], k, width, space)]
    <2> HIDE DEF N, base
    <2>1. \A k \in 0..N : k = 0 \/ k \in 1..N
        BY <1>1
    <2>2. \A k \in 0..N : f[k] = g[k]
        BY <1>4, <1>5, <2>1
    <2>3. DOMAIN f = 0..N /\ f = [k \in 0..N |-> f[k]]
        OBVIOUS
    <2> QED
        BY <2>2, <2>3
<1>7. LinesSet(line, width, space) = c[N].line
    BY DEF LinesSet, SetWord
<1>8. c = [k \in 0..N |-> IF k = 0 THEN base ELSE SetWord(c[k - 1], line[k], k, width, space)]
    <2>1. Fixed(c)
        <3> HIDE DEF Fixed
        <3> QED
            BY <1>6
    <2> HIDE DEF c, N, base
    <2> QED
        BY <2>1
<1>9. SetsOut(line, width, space, c)
    <2>1. 0 \in 0..N /\ \A k \in 1..N : k \in 0..N /\ k # 0
        BY <1>1
    <2> HIDE DEF c, base
    <2>2. c[0] = base /\ \A k \in 1..N : c[k] = SetWord(c[k - 1], line[k], k, width, space)
        BY <1>8, <2>1
    <2> QED
        BY <2>2 DEF SetsOut, base
<1> HIDE DEF c
<1> QED
    BY <1>7, <1>9

\* The lines counted are those of the text as it is set.
LEMMA CountIsSet ==
    ASSUME NEW line \in Seq(Advance), NEW width \in Nat \ {0}, NEW space \in Nat,
           NEW measured, \A k \in 1..Len(line) : line[k] \in measured,
           \A k \in 1..Len(line) : line[k] > width => line[k] % width # 0
    PROVE  CountLine(line, width, space, measured) = LinesSet(line, width, space)
<1> DEFINE N == Len(line)
<1>1. N \in Nat /\ \A k \in 1..N : line[k] \in Advance
    BY LenProperties
<1>2. PICK f : /\ Wraps(line, width, space, f)
               /\ CountLine(line, width, space, measured) = Seqs!Max({1, f[N].lines})
    <2> HIDE DEF N
    <2>1. Counted(line, width, space, CountLine(line, width, space, measured))
        BY LineWraps
    <2> QED
        BY <2>1 DEF Counted, N
<1>3. PICK g : SetsOut(line, width, space, g) /\ LinesSet(line, width, space) = g[N].line
    BY LineSets
<1> DEFINE Same(k) == /\ f[k].lines \in Nat \ {0} /\ f[k].used \in Nat
                      /\ g[k].line = f[k].lines /\ g[k].used = f[k].used
           Bad == {k \in 0..N : k # 0 /\ ~Same(k)}
<1>4. ASSUME NEW k \in 1..N, k > 1 => Same(k - 1)
      PROVE  Same(k)
    <2> DEFINE a == line[k]
               span == Span(width, a)
               rest == ((a - 1) % width) + 1
    <2>1. a \in Advance /\ (a > width => a % width # 0)
        BY <1>1
    <2> HIDE DEF a
    <2>2. /\ span \in Nat \ {0} /\ span = (a + width - 1) \div width
          /\ (IF a > width /\ width > 0 THEN a % width ELSE a) = rest
          /\ rest \in Nat
        BY <2>1, SpanOfWord
    <2>3. a \in Nat
        BY <2>1 DEF Advance
    <2>4. f[k] = Put(f[k - 1], a, width, space) /\ g[k] = SetWord(g[k - 1], a, k, width, space)
        BY <1>2, <1>3 DEF Wraps, SetsOut, a
    <2> HIDE DEF span, rest
    <2>5. CASE k = 1
        <3>1. f[0] = [lines |-> 0, used |-> 0]
            BY <1>2 DEF Wraps
        <3>2. f[k] = [lines |-> 0 + span, used |-> rest]
            BY <2>2, <2>4, <2>5, <3>1 DEF Put, span
        <3>3. g[k] = [line |-> 0 + span, used |-> rest]
            BY <2>2, <2>4, <2>5 DEF SetWord, rest
        <3> HIDE DEF N
        <3> QED
            BY <2>2, <3>2, <3>3
    <2>6. CASE k > 1
        <3> DEFINE b == f[k - 1]
                   d == g[k - 1]
        <3>1. b.lines \in Nat \ {0} /\ b.used \in Nat /\ d.line = b.lines /\ d.used = b.used
            BY <1>4, <2>6
        <3> HIDE DEF b, d
        <3>2. CASE b.used + space + a <= width
            <4>1. f[k] = [b EXCEPT !.used = @ + space + a]
                BY <2>4, <3>1, <3>2 DEF Put, b
            <4>2. g[k] = [line |-> d.line, used |-> d.used + space + a]
                BY <2>4, <2>6, <3>1, <3>2 DEF SetWord, d
            <4>3. b = f[k - 1]
                BY DEF b
            <4> QED
                BY <2>3, <3>1, <4>1, <4>2
        <3>3. CASE ~(b.used + space + a <= width)
            <4>1. f[k] = [lines |-> b.lines + span, used |-> rest]
                BY <2>2, <2>4, <3>3 DEF Put, b, span
            <4>2. ~(d.used + space + a <= width) /\ k # 1
                BY <2>6, <3>1, <3>3
            <4>3. SetWord(d, a, k, width, space) =
                      [line |-> d.line + (a + width - 1) \div width, used |-> rest]
                BY <4>2, Zenon DEF SetWord, rest
            <4>4. g[k] = [line |-> d.line + span, used |-> rest]
                BY <2>2, <2>4, <4>3 DEF d
            <4> DEFINE x == b.lines + span
            <4>5. f[k].lines = x /\ f[k].used = rest /\ g[k].line = x /\ g[k].used = rest
                BY <3>1, <4>1, <4>4
            <4>6. x \in Nat \ {0}
                BY <2>2, <3>1
            <4> HIDE DEF x
            <4> QED
                BY <2>2, <4>5, <4>6
        <3> QED
            BY <3>2, <3>3
    <2>7. k = 1 \/ k > 1
        BY <1>1
    <2> QED
        BY <2>5, <2>6, <2>7
<1>5. \A k \in 1..N : Same(k)
    <2> HIDE DEF Same
    <2> SUFFICES ASSUME Bad # {} PROVE FALSE
        BY <1>1
    <2>1. Bad \subseteq Nat
        BY <1>1
    <2>2. PICK k \in Bad : \A i \in Bad : k <= i
        <3> HIDE DEF Bad
        <3> QED
            BY <2>1, LeastNumber
    <2>3. k \in 1..N /\ ~Same(k)
        BY <1>1
    <2>4. k > 1 => k - 1 \in 0..N /\ k - 1 # 0 /\ ~(k <= k - 1)
        BY <1>1, <2>3
    <2>5. k > 1 => Same(k - 1)
        BY <2>2, <2>4
    <2> QED
        BY <1>4, <2>3, <2>5
<1>6. CASE N = 0
    <2>1. f[N].lines = 0 /\ g[N].line = 1
        BY <1>2, <1>3, <1>6 DEF Wraps, SetsOut
    <2>2. Seqs!Max({1, 0}) = 1
        BY DEF Seqs!Max
    <2> QED
        BY <1>2, <1>3, <2>1, <2>2
<1>7. CASE N # 0
    <2>1. N \in 1..N
        BY <1>1, <1>7
    <2>2. f[N].lines \in Nat \ {0} /\ g[N].line = f[N].lines
        BY <1>5, <2>1
    <2> DEFINE n == f[N].lines
    <2> HIDE DEF n
    <2>3. Seqs!Max({1, n}) = n
        BY <2>2 DEF Seqs!Max, n
    <2> QED
        BY <1>2, <1>3, <2>2, <2>3 DEF n
<1> QED
    BY <1>6, <1>7

\* What the host is told of a merge: the words of its records, and the overset
\* measured with them.
OversetInv ==
    /\ stage # "idle" => table \in MergeTable /\ Len(merged) <= Len(table.rows)
    /\ stage \in {"measured", "checked"} => words = MergeWords(merged, Len(spec.frames))
    /\ stage = "checked" => \E space, leading \in Nat :
           overset = [k \in DOMAIN merged |-> [i \in DOMAIN spec.frames |->
                         [space |-> space, leading |-> leading,
                          over |-> Overset(merged[k].frames[i], leading, space, words[i])]]]

LEMMA OversetTyped == Merging => []OversetInv
<1>1. MergeInit => OversetInv
    BY DEF MergeInit, OversetInv
<1>2. MergeInv /\ OversetInv /\ [MergeNext]_mergeVars => OversetInv'
    <2> SUFFICES ASSUME MergeInv, OversetInv, [MergeNext]_mergeVars PROVE OversetInv'
        OBVIOUS
    <2>1. ASSUME NEW s \in MergeSpec, NEW t \in MergeTable, PlanMerge(s, t) PROVE OversetInv'
        <3>1. merged' = <<>> /\ table' = t /\ stage' = "merging"
            BY <2>1 DEF PlanMerge, MergeInv
        <3>2. Len(merged') <= Len(table'.rows)
            <4>1. t.rows \in Seq(Seq(Nat))
                BY DEF MergeTable
            <4>2. Len(t.rows) \in Nat
                BY <4>1, LenProperties
            <4> QED
                BY <3>1, <4>2
        <3> QED
            BY <3>1, <3>2 DEF OversetInv
    <2>2. CASE MergeRecord
        <3>1. /\ merged' = Append(merged, MergedRecord(spec, table, Len(merged) + 1))
              /\ table' = table /\ stage = "merging" /\ stage' = "merging"
              /\ Len(merged) < Len(table.rows) /\ table \in MergeTable
            BY <2>2 DEF MergeRecord, OversetInv
        <3> DEFINE S == {MergedRecord(spec, table, k) : k \in Nat}
        <3>2. merged \in Seq(S)
            BY DEF MergeInv
        <3>3. Len(merged) \in Nat
            <4> HIDE DEF S
            <4> QED
                BY <3>2, LenProperties
        <3>4. MergedRecord(spec, table, Len(merged) + 1) \in S
            <4>1. Len(merged) + 1 \in Nat
                BY <3>3
            <4> QED
                BY <4>1
        <3> HIDE DEF S
        <3>5. Len(merged') = Len(merged) + 1
            BY <3>1, <3>2, <3>4, AppendProperties
        <3>6. Len(table.rows) \in Nat
            <4>1. table.rows \in Seq(Seq(Nat))
                BY <3>1 DEF MergeTable
            <4> QED
                BY <4>1, LenProperties
        <3> QED
            BY <3>1, <3>3, <3>5, <3>6 DEF OversetInv
    <2>3. CASE PlanDone
        BY <2>3 DEF PlanDone, OversetInv
    <2>4. CASE ListWords
        BY <2>4 DEF ListWords, OversetInv
    <2>5. ASSUME NEW space \in Nat, NEW leading \in Nat, CheckOverset(space, leading) PROVE OversetInv'
        <3>1. /\ UNCHANGED <<spec, table, merged, words>> /\ stage = "measured" /\ stage' = "checked"
              /\ overset' = [k \in DOMAIN merged |-> [i \in DOMAIN spec.frames |->
                     [space |-> space, leading |-> leading,
                      over |-> Overset(merged[k].frames[i], leading, space, words[i])]]]
            BY <2>5 DEF CheckOverset
        <3> QED
            BY <3>1 DEF OversetInv
    <2>6. CASE UNCHANGED mergeVars
        BY <2>6 DEF mergeVars, OversetInv
    <2> QED
        BY <2>1, <2>2, <2>3, <2>4, <2>5, <2>6 DEF MergeNext, MergeSteps
<1> QED
    BY <1>1, <1>2, MergingTyped, PTL DEF Merging

\* The bounds of a merged frame are numbers.
LEMMA FrameBounds ==
    ASSUME NEW s \in MergeSpec, ~DegenerateCell(s), NEW t, NEW k \in Nat \ {0}, NEW i \in DOMAIN s.frames
    PROVE  LET b == MergedRecord(s, t, k).frames[i].bounds IN b[4] \in Int /\ b[2] \in Int
<1> DEFINE at == SlotOf(s, (k - 1) % PerPage(s))
           by == Offset(s, at)
           f == s.frames[i].bounds
<1>1. s.frames # <<>>
    OBVIOUS
<1>2. MergedRecord(s, t, k).frames[i].bounds = Moved(f, by)
    BY DEF MergedRecord, MergedFrame
<1>3. f[4] \in Int /\ f[2] \in Int
    <2>1. s.frames \in Seq(MergeTemplateFrame)
        BY DEF MergeSpec
    <2>2. s.frames[i] \in MergeTemplateFrame
        BY <2>1
    <2> QED
        BY <2>2 DEF MergeTemplateFrame, Bounds
<1>4. by[2] \in Int
    <2>1. at[2] \in Int
        <3>1. /\ MergedRecord(s, t, k).column = at[2]
              /\ MergedRecord(s, t, k).column \in 0..(MergeGrid(s).columns - 1)
              /\ MergeGrid(s).columns \in Nat \ {0}
            BY <1>1, RecordPlaced, GridTyped
        <3> HIDE DEF at
        <3> QED
            BY <3>1
    <2> HIDE DEF at
    <2>2. /\ Width(CellOf(s.frames)) \in Int /\ s.spacing[2] \in Int
          /\ s.marginBox[2] \in Int /\ CellOf(s.frames)[2] \in Int
        BY <1>1, CellTyped DEF Bounds
    <2>3. at[2] * (Width(CellOf(s.frames)) + s.spacing[2]) \in Int
        BY <2>1, <2>2
    <2>4. by[2] = IF ~Multiple(s) THEN 0
                  ELSE s.marginBox[2] + at[2] * (Width(CellOf(s.frames)) + s.spacing[2]) - CellOf(s.frames)[2]
        BY DEF Offset
    <2> HIDE DEF by
    <2> QED
        BY <2>2, <2>3, <2>4
<1> HIDE DEF by, f
<1>5. Moved(f, by)[4] = f[4] + by[2] /\ Moved(f, by)[2] = f[2] + by[2]
    BY DEF Moved
<1> QED
    BY <1>2, <1>3, <1>4, <1>5

\* A merged text is measured: its words are those listed for its frame.
LEMMA WordsListed ==
    ASSUME MergeInv, NEW k \in DOMAIN merged, NEW i \in 1..Len(spec.frames),
           NEW text, text = merged[k].frames[i].text, text # NoStory,
           NEW l \in DOMAIN text, NEW m \in DOMAIN text[l]
    PROVE  text[l][m] \in MergeWords(merged, Len(spec.frames))[i]
<1> DEFINE held == {x \in Seqs!Range(merged) : x.frames[i].text # NoStory}
           listed(r) == UNION {Seqs!Range(r.frames[i].text[n]) : n \in DOMAIN r.frames[i].text}
<1>1. MergeWords(merged, Len(spec.frames))[i] = UNION {listed(r) : r \in held}
    BY DEF MergeWords
<1>2. merged[k] \in held
    BY DEF Seqs!Range
<1>3. text[l][m] \in listed(merged[k])
    <2>1. text[l][m] \in Seqs!Range(text[l])
        BY DEF Seqs!Range
    <2> QED
        BY <2>1
<1> HIDE DEF listed, held
<1> QED
    BY <1>1, <1>2, <1>3

\* The overset the merge reports is that of each text as it is set in its
\* frame, from the words the host had measured (count_lines, merge_overset,
\* data-lower/src/merge.rs).
THEOREM OversetIsReal == Merging => []OversetTrue
<1>1. MergeInv /\ OversetInv => OversetTrue
    <2> DEFINE Fitting(f, w) ==
                   /\ f.text # NoStory /\ ~EmptyText(f.text) /\ w > 0
                   /\ \A l \in DOMAIN f.text : \A m \in DOMAIN f.text[l] :
                          f.text[l][m] > w => f.text[l][m] % w # 0
    <2> SUFFICES ASSUME MergeInv, OversetInv, stage = "checked",
                        NEW k \in DOMAIN merged, NEW i \in DOMAIN spec.frames,
                        Fitting(merged[k].frames[i], Width(merged[k].frames[i].bounds))
                 PROVE  LET f == merged[k].frames[i]
                            o == overset[k][i]
                            w == Width(f.bounds)
                        IN  o.over <=> Total([l \in DOMAIN f.text |-> LinesSet(f.text[l], w, o.space)])
                                       * o.leading > Height(f.bounds)
        BY DEF OversetTrue
    <2> DEFINE f == merged[k].frames[i]
               w == Width(f.bounds)
               text == f.text
    <2>1. PICK space \in Nat, leading \in Nat :
              overset = [n \in DOMAIN merged |-> [j \in DOMAIN spec.frames |->
                            [space |-> space, leading |-> leading,
                             over |-> Overset(merged[n].frames[j], leading, space, words[j])]]]
        BY DEF OversetInv
    <2>2. overset[k][i] = [space |-> space, leading |-> leading,
                           over |-> Overset(f, leading, space, words[i])]
        BY <2>1
    <2>3. /\ spec \in MergeSpec /\ ~DegenerateCell(spec) /\ table \in MergeTable
          /\ merged[k] = MergedRecord(spec, table, k) /\ k \in 1..Len(table.rows)
        <3>1. spec \in MergeSpec /\ ~DegenerateCell(spec) /\ table \in MergeTable /\ Len(merged) <= Len(table.rows)
            BY DEF MergeInv, OversetInv
        <3> DEFINE S == {MergedRecord(spec, table, n) : n \in Nat}
        <3>2. merged \in Seq(S)
            BY DEF MergeInv
        <3>3. Len(merged) \in Nat /\ DOMAIN merged = 1..Len(merged)
            <4> HIDE DEF S
            <4> QED
                BY <3>2, LenProperties
        <3>4. table.rows \in Seq(Seq(Nat))
            BY <3>1 DEF MergeTable
        <3>5. Len(table.rows) \in Nat
            BY <3>4, LenProperties
        <3>6. k \in 1..Len(table.rows)
            BY <3>1, <3>3, <3>5
        <3> QED
            BY <3>1, <3>3, <3>6 DEF MergeInv
    <2>4. text \in Seq(Seq(Advance))
        BY <2>3, MergedTextTyped
    <2>5. w \in Nat \ {0}
        <3>1. f.bounds[4] \in Int /\ f.bounds[2] \in Int
            BY <2>3, FrameBounds
        <3>2. w \in Int
            BY <3>1 DEF Width
        <3> HIDE DEF w
        <3>3. w > 0
            BY DEF w
        <3> QED
            BY <3>2, <3>3
    <2>6. \A l \in DOMAIN text : CountLine(text[l], w, space, words[i]) = LinesSet(text[l], w, space)
        <3> SUFFICES ASSUME NEW l \in DOMAIN text
                     PROVE  CountLine(text[l], w, space, words[i]) = LinesSet(text[l], w, space)
            OBVIOUS
        <3>1. i \in 1..Len(spec.frames)
            <4>1. spec.frames \in Seq(MergeTemplateFrame)
                BY <2>3 DEF MergeSpec
            <4> QED
                BY <4>1, LenProperties
        <3>2. words[i] = MergeWords(merged, Len(spec.frames))[i]
            BY DEF OversetInv
        <3>3. \A m \in DOMAIN text[l] : text[l][m] \in words[i]
            BY <3>1, <3>2, WordsListed
        <3>4. \A m \in DOMAIN text[l] : text[l][m] > w => text[l][m] % w # 0
            OBVIOUS
        <3> HIDE DEF text, w
        <3>5. text[l] \in Seq(Advance)
            BY <2>4
        <3> DEFINE line == text[l]
        <3> HIDE DEF line
        <3>6. line \in Seq(Advance) /\ DOMAIN line = 1..Len(line)
            BY <3>5, LenProperties DEF line
        <3>7. /\ \A m \in 1..Len(line) : line[m] \in words[i]
              /\ \A m \in 1..Len(line) : line[m] > w => line[m] % w # 0
            BY <3>3, <3>4, <3>6 DEF line
        <3>8. CountLine(line, w, space, words[i]) = LinesSet(line, w, space)
            BY <2>5, <3>6, <3>7, CountIsSet
        <3> QED
            BY <3>8 DEF line
    <2>7. [l \in DOMAIN text |-> CountLine(text[l], w, space, words[i])] =
          [l \in DOMAIN text |-> LinesSet(text[l], w, space)]
        <3> HIDE DEF text, w
        <3> QED
            BY <2>6
    <2>8. CountLines(text, w, space, words[i]) = Total([l \in DOMAIN text |-> LinesSet(text[l], w, space)])
        <3> HIDE DEF text, w
        <3> QED
            BY <2>7 DEF CountLines
    <2>9. Overset(f, leading, space, words[i])
              <=> CountLines(text, w, space, words[i]) * leading > Height(f.bounds)
        BY DEF Overset
    <2> QED
        BY <2>2, <2>8, <2>9
<1> QED
    BY <1>1, MergingTyped, OversetTyped, PTL
=============================================================================
