------------------------------ MODULE OutputProofs ------------------------------
(***************************************************************************)
(* Proofs about the paginator, for flows of any sections and records,      *)
(* chains of any frames and any options, called any number of times; about *)
(* a batch job of any rows, grouped to any depth, in any mode; and about   *)
(* the grid of any table.                                                  *)
(*                                                                         *)
(* LayoutInv is inductive.  Besides the type it says: the frames behind    *)
(* the current one are empty (AheadEmpty), the stack holds the parents no  *)
(* later one closed, said of the flow alone (StackTrue), a section that    *)
(* has placed a record has one on the current frame, so that a frame the   *)
(* section opens is the next one (FrameStarted), the records on the frames *)
(* are, in order, the first of the flow (RecordsTrue), and they are those  *)
(* the loop has passed, headers and footers too (PassedPlaced).  What is   *)
(* promised of each block (NonTallFits, ContextCarries) is part of it.     *)
(*                                                                         *)
(* A step puts one block on one frame, after the frame's own blocks or     *)
(* after repeated headers on a frame that was empty (Puts, Takes).  The    *)
(* lemmas about the places of blocks are stated of that, of constants, and *)
(* each part of LayoutInv is kept for a reason of its own: one lemma each, *)
(* from TypesStep to PassedStep.                                           *)
(*                                                                         *)
(* Of a job, BatchInv is inductive: the queue is the last of the job's     *)
(* units, the runs are those of the first ones, and a run shows rows of    *)
(* its unit, all of them unless it overflowed (RowsTrue, KeptRows).  That  *)
(* the units divide the rows as the plan does (DividesRows) is said of the *)
(* job alone: the order of the flow is a permutation of the rows           *)
(* (OrderOfRows), each row joins one section, whose headers are those of   *)
(* its key (SectionsGrouped), and each mode cuts the sections into units   *)
(* whose rows are apart (OneCatalogDivides, PerGroupDivides,               *)
(* PerRecordDivides).                                                      *)
(***************************************************************************)
EXTENDS BatchRun, TableGrid, MergeProofs

USE TextAssumption

-----------------------------------------------------------------------------
(* The inductive invariant of a pagination.                                *)

\* A section is being laid out: its header was placed, or it has none.
InSection == step \in {"records", "footer"}
Running == step \in {"header", "records", "footer"}

\* The frames behind the current one are untouched.
AheadEmpty == \A f \in 1..Len(chain) : f > frame => frames[f] = EmptyFrame

\* The parents in force after section n: of the sections up to it, those no
\* later parent closed.
InForce(n) ==
    {p \in 1..n :
        /\ IsParent(groups[p])
        /\ \A m \in (p + 1)..n : IsParent(groups[m]) => groups[m].level > groups[p].level}

\* The stack holds the parents in force.
StackTrue ==
    /\ step = "header" => parents = InForce(group - 1)
    /\ InSection => parents = InForce(group)
    /\ \A p \in parents : IsParent(groups[p])

\* Once a record of the section is placed, the current frame holds a record.
FrameStarted ==
    step = "records" /\ record > 1 =>
        /\ frame <= Len(chain)
        /\ \E i \in DOMAIN frames[frame].blocks : frames[frame].blocks[i].block = "record"

\* The records the loop has passed.
Passed == {x \in FlowRecords : x[1] < group \/ (InSection /\ x[1] = group /\ x[2] < record)}

RecordsTrue ==
    /\ IsFiniteSet(RecordPlaces)
    /\ placed = Cardinality(RecordPlaces)
    /\ \A p \in RecordPlaces : RecordOf(p) \in FlowRecords
    /\ \A p, q \in RecordPlaces : Earlier(p, q) => Earlier(RecordOf(p), RecordOf(q))
    /\ \A p \in RecordPlaces, r \in FlowRecords : Earlier(r, RecordOf(p)) => r \in PlacedRecords

\* The blocks of frames F, by frame and place; and those that are records.
PlacesIn(F) == UNION {{<<f, i>> : i \in DOMAIN F[f].blocks} : f \in DOMAIN F}
BlockIn(F, p) == F[p[1]].blocks[p[2]]
RecordsIn(F) == {p \in PlacesIn(F) : BlockIn(F, p).block = "record"}

\* The header and the footer of section n of G are on frames F.
HeaderIn(F, G, n) ==
    G[n].header # NoText =>
        \E p \in PlacesIn(F) : /\ BlockIn(F, p).block = "header"
                               /\ BlockIn(F, p).text = G[n].header /\ ~BlockIn(F, p).continued

FooterIn(F, G, n) ==
    G[n].footer # NoFooter =>
        \E p \in PlacesIn(F) : BlockIn(F, p).block = "footer" /\ BlockIn(F, p).group = n

\* Everything the loop has passed is on the frames, unless it ran out of them.
PassedPlaced ==
    /\ Running => PlacedRecords = Passed /\ ~overflow
    /\ step = "footer" => record = Len(groups[group].records) + 1
    /\ Running =>
         \A n \in DOMAIN groups : n < group =>
                  HeaderIn(frames, groups, n) /\ FooterIn(frames, groups, n)
    /\ InSection => HeaderIn(frames, groups, group)
    /\ step = "done" /\ ~overflow =>
         /\ group = Len(groups) + 1 /\ PlacedRecords = FlowRecords
         /\ \A n \in DOMAIN groups : HeaderIn(frames, groups, n) /\ FooterIn(frames, groups, n)

LayoutInv ==
    /\ LayoutTypeOK
    /\ AheadEmpty
    /\ StackTrue
    /\ FrameStarted
    /\ RecordsTrue
    /\ PassedPlaced
    /\ NonTallFits
    /\ ContextCarries

-----------------------------------------------------------------------------
(* Sections in flow order.                                                 *)

LEMMA InOrderRanks ==
    ASSUME NEW S, S \subseteq Nat, IsFiniteSet(S)
    PROVE  \A i \in 1..Cardinality(S) : InOrder(S)[i] \in S
<1> DEFINE Under(p) == {q \in S : q < p}
           rank == [p \in S |-> Cardinality(Under(p)) + 1]
           n == Cardinality(S)
<1>1. n \in Nat /\ IsFiniteSet(1..n) /\ Cardinality(1..n) = n
    BY FS_CardinalityType, FS_Interval
<1>2. ASSUME NEW p \in S
      PROVE  /\ IsFiniteSet(Under(p)) /\ Cardinality(Under(p)) \in Nat
             /\ Cardinality(Under(p)) + 1 <= n
    <2>1. Under(p) \subseteq S /\ p \notin Under(p)
        OBVIOUS
    <2> HIDE DEF Under, n
    <2>2. IsFiniteSet(Under(p))
        BY <2>1, FS_Subset
    <2>3. Cardinality(Under(p) \cup {p}) = Cardinality(Under(p)) + 1
        BY <2>1, <2>2, FS_AddElement
    <2>4. Under(p) \cup {p} \subseteq S
        BY <2>1
    <2>5. Cardinality(Under(p) \cup {p}) <= Cardinality(S)
        BY <2>4, FS_Subset
    <2> QED
        BY <2>2, <2>3, <2>5, FS_CardinalityType DEF n
<1>3. ASSUME NEW p \in S, NEW q \in S, p < q
      PROVE  Cardinality(Under(p)) < Cardinality(Under(q))
    <2>1. Under(p) \cup {p} \subseteq Under(q) /\ p \notin Under(p)
        <3>1. p \in Nat /\ q \in Nat /\ \A x \in S : x \in Nat
            OBVIOUS
        <3>2. \A x \in S : x < p => x < q
            BY <1>3, <3>1
        <3>3. p \in Under(q)
            BY <1>3
        <3>4. Under(p) \subseteq Under(q)
            BY <3>2
        <3>5. p \notin Under(p)
            BY <3>1
        <3> QED
            BY <3>3, <3>4, <3>5
    <2> HIDE DEF Under
    <2>2. Cardinality(Under(p) \cup {p}) = Cardinality(Under(p)) + 1
        BY <1>2, <2>1, FS_AddElement
    <2>3. Cardinality(Under(p) \cup {p}) <= Cardinality(Under(q))
        BY <1>2, <2>1, FS_Subset
    <2> QED
        BY <1>2, <2>2, <2>3
<1>4. rank \in [S -> 1..n]
    <2> SUFFICES ASSUME NEW p \in S PROVE Cardinality(Under(p)) + 1 \in 1..n
        OBVIOUS
    <2> HIDE DEF Under, n
    <2> QED
        BY <1>1, <1>2
<1>5. \A p, q \in S : rank[p] = rank[q] => p = q
    <2> SUFFICES ASSUME NEW p \in S, NEW q \in S, p # q
                 PROVE  Cardinality(Under(p)) + 1 # Cardinality(Under(q)) + 1
        OBVIOUS
    <2>1. p < q \/ q < p
        OBVIOUS
    <2> HIDE DEF Under
    <2> QED
        BY <1>2, <1>3, <2>1
<1>6. rank \in Injection(S, 1..n)
    BY <1>4, <1>5, Fun_IsInj
<1>7. rank \in Surjection(S, 1..n)
    <2> HIDE DEF rank
    <2>1. Cardinality(S) = Cardinality(1..n)
        BY <1>1
    <2> HIDE DEF n
    <2> QED
        BY <1>1, <1>6, <2>1, FS_Injection
<1>8. ASSUME NEW i \in 1..n
      PROVE  InOrder(S)[i] \in S
    <2>1. PICK p \in S : rank[p] = i
        BY <1>7 DEF Surjection
    <2>2. Cardinality(Under(p)) + 1 = i /\ Cardinality(Under(p)) \in Nat
        <3>1. rank[p] = Cardinality(Under(p)) + 1
            OBVIOUS
        <3> QED
            BY <1>2, <2>1, <3>1
    <2>3. \E c \in S : Cardinality({q \in S : q < c}) = i - 1
        <3> HIDE DEF Under
        <3>1. Cardinality(Under(p)) = i - 1
            BY <2>2
        <3> QED
            BY <3>1 DEF Under
    <2>4. InOrder(S)[i] = CHOOSE c \in S : Cardinality({q \in S : q < c}) = i - 1
        BY <1>8 DEF InOrder
    <2> QED
        BY <2>3, <2>4
<1> QED
    BY <1>8

-----------------------------------------------------------------------------
(* Blocks appended to a frame.                                             *)

\* A frame takes block b after its own blocks, or after headers when it has none.
Takes(F, f, fr, b, E) ==
    /\ fr = F[f] \/ (F[f].blocks = <<>> /\ \A i \in DOMAIN fr.blocks : fr.blocks[i].block = "header")
    /\ \A g \in DOMAIN F : g > f => F[g].blocks = <<>>
    /\ DOMAIN E = DOMAIN F
    /\ \A g \in DOMAIN F : g # f => E[g] = F[g]
    /\ E[f].blocks = Append(fr.blocks, b)

\* How the places of E come from those of F by one block at place new: all
\* are kept, in front of it, and nothing else but headers comes with it.
NewPlace(F, E, new, b) ==
    /\ PlacesIn(F) \subseteq PlacesIn(E)
    /\ \A p \in PlacesIn(F) : BlockIn(E, p) = BlockIn(F, p)
    /\ new \in PlacesIn(E) /\ new \notin PlacesIn(F)
    /\ BlockIn(E, new) = b
    /\ \A p \in PlacesIn(E) :
           p \in PlacesIn(F) \/ p = new \/ BlockIn(E, p).block = "header"
    /\ \A p \in PlacesIn(F) : Earlier(p, new)

LEMMA BlocksOf ==
    ASSUME NEW k \in Nat, NEW F \in [1..k -> PaginatedFrame], NEW p
    PROVE  p \in PlacesIn(F) <=>
             \E f \in 1..k : \E i \in 1..Len(F[f].blocks) : p = <<f, i>>
<1>1. \A f \in 1..k : F[f].blocks \in Seq(FlowBlock)
    BY DEF PaginatedFrame
<1>2. \A f \in 1..k : DOMAIN F[f].blocks = 1..Len(F[f].blocks)
    BY <1>1, LenProperties
<1> QED
    BY <1>2 DEF PlacesIn

LEMMA PlacesAfter ==
    ASSUME NEW k \in Nat, NEW F \in [1..k -> PaginatedFrame], NEW E,
           NEW f \in 1..k, NEW fr \in PaginatedFrame, NEW b \in FlowBlock, Takes(F, f, fr, b, E),
           NEW new, new = <<f, Len(fr.blocks) + 1>>
    PROVE  NewPlace(F, E, new, b)
<1> DEFINE m == Len(fr.blocks)
<1>1. /\ fr.blocks \in Seq(FlowBlock) /\ m \in Nat /\ DOMAIN fr.blocks = 1..m
      /\ \A g \in 1..k : F[g].blocks \in Seq(FlowBlock) /\ Len(F[g].blocks) \in Nat
    <2>1. fr.blocks \in Seq(FlowBlock)
        BY DEF PaginatedFrame
    <2>2. \A g \in 1..k : F[g].blocks \in Seq(FlowBlock)
        BY DEF PaginatedFrame
    <2> QED
        BY <2>1, <2>2, LenProperties
<1>2. /\ DOMAIN E = 1..k
      /\ \A g \in 1..k : g # f => E[g] = F[g]
      /\ \A g \in 1..k : g > f => Len(F[g].blocks) = 0
      /\ E[f].blocks = Append(fr.blocks, b)
    <2>1. Len(<<>>) = 0
        OBVIOUS
    <2> QED
        BY <2>1 DEF Takes
<1>3. /\ DOMAIN E[f].blocks = 1..(m + 1) /\ E[f].blocks[m + 1] = b
      /\ \A i \in 1..m : E[f].blocks[i] = fr.blocks[i]
    BY <1>1, <1>2
<1>4. \/ fr = F[f]
      \/ Len(F[f].blocks) = 0 /\ \A i \in 1..m : fr.blocks[i].block = "header"
    <2>1. Len(<<>>) = 0
        OBVIOUS
    <2> QED
        BY <1>1, <2>1 DEF Takes
<1>5. \A g \in 1..k : DOMAIN F[g].blocks = 1..Len(F[g].blocks)
    BY <1>1, LenProperties
<1>6. \A p : p \in PlacesIn(F) <=> \E g \in 1..k : \E i \in 1..Len(F[g].blocks) : p = <<g, i>>
    BY BlocksOf
<1>7. \A p : p \in PlacesIn(E) <=> \E g \in 1..k : \E i \in DOMAIN E[g].blocks : p = <<g, i>>
    BY <1>2 DEF PlacesIn
<1>8. ASSUME NEW p \in PlacesIn(F)
      PROVE  p \in PlacesIn(E) /\ BlockIn(E, p) = BlockIn(F, p) /\ Earlier(p, new) /\ p # new
    <2>0. PICK g \in 1..k : \E i \in 1..Len(F[g].blocks) : p = <<g, i>>
        BY <1>6
    <2>1. PICK i \in 1..Len(F[g].blocks) : p = <<g, i>>
        BY <2>0
    <2>2. CASE g = f
        <3>1. fr = F[f] /\ i \in 1..m
            BY <1>1, <1>4, <2>1, <2>2
        <3>2. i \in DOMAIN E[f].blocks /\ E[f].blocks[i] = F[f].blocks[i]
            BY <1>1, <1>3, <3>1
        <3>3. p \in PlacesIn(E)
            BY <1>7, <2>1, <2>2, <3>2
        <3>4. i < m + 1 /\ i # m + 1
            BY <1>1, <3>1
        <3> QED
            BY <2>1, <2>2, <3>2, <3>3, <3>4 DEF BlockIn, Earlier
    <2>3. CASE g # f
        <3>1. E[g] = F[g]
            BY <1>2, <2>3
        <3>2. i \in DOMAIN E[g].blocks
            BY <1>5, <2>1, <3>1
        <3>3. p \in PlacesIn(E)
            BY <1>7, <2>1, <3>2
        <3>4. g < f
            BY <1>1, <1>2, <2>1, <2>3
        <3> QED
            BY <2>1, <3>1, <3>3, <3>4 DEF BlockIn, Earlier
    <2> QED
        BY <2>2, <2>3
<1>9. new \in PlacesIn(E) /\ BlockIn(E, new) = b
    <2>1. m + 1 \in DOMAIN E[f].blocks
        BY <1>1, <1>3
    <2> QED
        BY <1>3, <1>7, <2>1 DEF BlockIn
<1>10. ASSUME NEW p \in PlacesIn(E), p \notin PlacesIn(F), p # new
       PROVE  BlockIn(E, p).block = "header"
    <2>0. PICK g \in 1..k : \E i \in DOMAIN E[g].blocks : p = <<g, i>>
        BY <1>7
    <2>1. PICK i \in DOMAIN E[g].blocks : p = <<g, i>>
        BY <2>0
    <2>2. g = f
        BY <1>2, <1>5, <1>6, <1>10, <2>1
    <2>3. i \in 1..m
        <3>1. i \in 1..(m + 1) /\ i # m + 1
            BY <1>3, <1>10, <2>1, <2>2
        <3> QED
            BY <1>1, <3>1
    <2>4. fr # F[f]
        BY <1>6, <1>10, <2>1, <2>2, <2>3
    <2> QED
        BY <1>3, <1>4, <2>1, <2>2, <2>3, <2>4 DEF BlockIn
<1> QED
    BY <1>8, <1>9, <1>10 DEF NewPlace

-----------------------------------------------------------------------------
(* The types of what a step places.                                        *)

LEMMA LayoutTypes ==
    ASSUME LayoutTypeOK
    PROVE  /\ Len(groups) \in Nat /\ DOMAIN groups = 1..Len(groups)
           /\ \A n \in 1..Len(groups) :
                /\ groups[n] \in FlowGroup
                /\ groups[n].header \in Text \cup {NoText} /\ groups[n].level \in Nat
                /\ groups[n].records \in Seq(FlowRecord) /\ Len(groups[n].records) \in Nat
                /\ DOMAIN groups[n].records = 1..Len(groups[n].records)
                /\ groups[n].footer \in Nat \cup {NoFooter}
           /\ Len(chain) \in Nat /\ \A f \in 1..Len(chain) : chain[f] \in Nat
           /\ frames \in [1..Len(chain) -> PaginatedFrame]
           /\ \A f \in 1..Len(chain) : /\ frames[f].blocks \in Seq(FlowBlock)
                                       /\ Len(frames[f].blocks) \in Nat
                                       /\ DOMAIN frames[f].blocks = 1..Len(frames[f].blocks)
                                       /\ frames[f].used \in Nat
           /\ opts.repeatHeader \in BOOLEAN /\ opts.continuedMarker \in BOOLEAN
           /\ opts.headerHeight \in Nat
<1>1. Len(groups) \in Nat /\ DOMAIN groups = 1..Len(groups)
    BY LenProperties DEF LayoutTypeOK
<1>2. ASSUME NEW n \in 1..Len(groups)
      PROVE  /\ groups[n] \in FlowGroup
             /\ groups[n].header \in Text \cup {NoText} /\ groups[n].level \in Nat
             /\ groups[n].records \in Seq(FlowRecord) /\ Len(groups[n].records) \in Nat
             /\ DOMAIN groups[n].records = 1..Len(groups[n].records)
             /\ groups[n].footer \in Nat \cup {NoFooter}
    <2>1. groups[n] \in FlowGroup
        BY ElementOfSeq DEF LayoutTypeOK
    <2>2. groups[n].records \in Seq(FlowRecord)
        BY <2>1 DEF FlowGroup
    <2> QED
        BY <2>1, <2>2, LenProperties DEF FlowGroup
<1>3. Len(chain) \in Nat /\ \A f \in 1..Len(chain) : chain[f] \in Nat
    BY LenProperties DEF LayoutTypeOK
<1>4. frames \in [1..Len(chain) -> PaginatedFrame]
    BY LenProperties DEF LayoutTypeOK
<1>5. ASSUME NEW f \in 1..Len(chain)
      PROVE  /\ frames[f].blocks \in Seq(FlowBlock) /\ Len(frames[f].blocks) \in Nat
             /\ DOMAIN frames[f].blocks = 1..Len(frames[f].blocks) /\ frames[f].used \in Nat
    <2>1. frames[f] \in PaginatedFrame
        BY <1>4
    <2>2. frames[f].blocks \in Seq(FlowBlock)
        BY <2>1 DEF PaginatedFrame
    <2> QED
        BY <2>1, <2>2, LenProperties DEF PaginatedFrame
<1>6. opts \in FlowLayoutOpts
    BY DEF LayoutTypeOK
<1> QED
    BY <1>1, <1>2, <1>3, <1>4, <1>5, <1>6 DEF FlowLayoutOpts

LEMMA HeaderTyped ==
    ASSUME NEW t \in Text, NEW l \in Nat, NEW c \in BOOLEAN, NEW top \in Nat
    PROVE  Header(t, l, c, top) \in HeaderBlock
BY DEF Header, HeaderBlock

LEMMA RecordTyped ==
    ASSUME LayoutTypeOK, step = "records", record <= Len(This.records), NEW top \in Nat
    PROVE  /\ RecordAt(top) \in RecordBlock /\ RecordAt(top).block = "record"
           /\ RecordAt(top).height = This.records[record].height /\ This.records[record].height \in Nat
           /\ RecordAt(top).top = top
           /\ RecordAt(top).group = group /\ RecordAt(top).record = record
           /\ group \in 1..Len(groups) /\ group \in Nat
           /\ record \in 1..Len(This.records) /\ record \in Nat
<1>1. group \in 1..Len(groups) /\ group \in Nat
    BY LayoutTypes DEF LayoutTypeOK
<1>2. record \in 1..Len(This.records) /\ record \in Nat
    BY <1>1, LayoutTypes DEF LayoutTypeOK, This
<1>3. This.records \in Seq(FlowRecord)
    BY <1>1, LayoutTypes DEF This
<1>4. This.records[record] \in FlowRecord
    BY <1>2, <1>3, ElementOfSeq
<1> QED
    BY <1>1, <1>2, <1>4 DEF RecordAt, RecordBlock, FlowRecord

LEMMA FooterTyped ==
    ASSUME LayoutTypeOK, step = "footer", This.footer # NoFooter, NEW top \in Nat
    PROVE  /\ FooterAt(top) \in FooterBlock /\ FooterAt(top).block = "footer"
           /\ FooterAt(top).height = This.footer /\ This.footer \in Nat
           /\ FooterAt(top).top = top /\ FooterAt(top).group = group
           /\ group \in 1..Len(groups) /\ group \in Nat
<1>1. group \in 1..Len(groups) /\ group \in Nat
    BY LayoutTypes DEF LayoutTypeOK
<1>2. This.footer \in Nat
    BY <1>1, LayoutTypes DEF This
<1> QED
    BY <1>1, <1>2 DEF FooterAt, FooterBlock

\* What a block is of.
LEMMA BlockKinds ==
    ASSUME NEW b \in FlowBlock
    PROVE  /\ b.block \in {"header", "record", "footer"}
           /\ b.block = "record" => b \in RecordBlock
           /\ b.block = "footer" => b \in FooterBlock
           /\ b.top \in Nat
BY DEF FlowBlock, HeaderBlock, RecordBlock, FooterBlock

-----------------------------------------------------------------------------
(* The headers a continuation repeats.                                     *)

LEMMA PathTyped ==
    ASSUME LayoutTypeOK, \A p \in parents : IsParent(groups[p]),
           NEW n \in 1..Len(groups), groups[n].header # NoText
    PROVE  /\ Path(n) \subseteq Nat /\ IsFiniteSet(Path(n)) /\ Cardinality(Path(n)) \in Nat
           /\ \A p \in Path(n) : groups[p].header \in Text /\ groups[p].level \in Nat
<1>1. Path(n) \subseteq 1..Len(groups)
    BY LayoutTypes DEF Path, LayoutTypeOK
<1>2. IsFiniteSet(Path(n))
    <2>1. Len(groups) \in Nat
        BY LayoutTypes
    <2>2. IsFiniteSet(1..Len(groups))
        BY <2>1, FS_Interval
    <2> QED
        BY <1>1, <2>2, FS_Subset
<1>3. Cardinality(Path(n)) \in Nat
    BY <1>2, FS_CardinalityType
<1>4. ASSUME NEW p \in Path(n)
      PROVE  groups[p].header \in Text /\ groups[p].level \in Nat
    <2>1. groups[p].header # NoText
        BY DEF Path, IsParent
    <2>2. p \in 1..Len(groups)
        BY <1>1
    <2> QED
        BY <2>1, <2>2, LayoutTypes
<1> QED
    BY <1>1, <1>2, <1>3, <1>4

LEMMA PathBlocksTyped ==
    ASSUME LayoutTypeOK, \A p \in parents : IsParent(groups[p]),
           NEW n \in 1..Len(groups), groups[n].header # NoText
    PROVE  /\ PathBlocks(n) \in Seq(FlowBlock) /\ Len(PathBlocks(n)) = Cardinality(Path(n))
           /\ \A i \in 1..Cardinality(Path(n)) :
                /\ PathBlocks(n)[i].block = "header"
                /\ PathBlocks(n)[i].text = groups[InOrder(Path(n))[i]].header
                /\ PathBlocks(n)[i].level = groups[InOrder(Path(n))[i]].level
<1> DEFINE m == Cardinality(Path(n))
           path == InOrder(Path(n))
           block(i) == Header(groups[path[i]].header, groups[path[i]].level,
                              opts.continuedMarker /\ started, (i - 1) * opts.headerHeight)
<1>1. m \in Nat /\ \A i \in 1..m : path[i] \in Path(n)
    BY PathTyped, InOrderRanks
<1>2. PathBlocks(n) = [i \in 1..m |-> block(i)]
    BY DEF PathBlocks
<1>3. ASSUME NEW i \in 1..m
      PROVE  block(i) \in HeaderBlock
    <2>1. groups[path[i]].header \in Text /\ groups[path[i]].level \in Nat
        BY <1>1, PathTyped
    <2>2. (opts.continuedMarker /\ started) \in BOOLEAN
        OBVIOUS
    <2>3. (i - 1) * opts.headerHeight \in Nat
        <3>1. i - 1 \in Nat /\ opts.headerHeight \in Nat
            BY <1>1, LayoutTypes
        <3>2. \A a, c \in Nat : a * c \in Nat
            OBVIOUS
        <3> QED
            BY <3>1, <3>2
    <2> QED
        BY <2>1, <2>2, <2>3, HeaderTyped
<1>4. PathBlocks(n) \in [1..m -> FlowBlock]
    <2> HIDE DEF m, block
    <2> QED
        BY <1>2, <1>3 DEF FlowBlock
<1>5. PathBlocks(n) \in Seq(FlowBlock) /\ Len(PathBlocks(n)) = m
    <2> HIDE DEF m
    <2> QED
        BY <1>1, <1>4
<1>6. ASSUME NEW i \in 1..m
      PROVE  /\ PathBlocks(n)[i].block = "header"
             /\ PathBlocks(n)[i].text = groups[path[i]].header
             /\ PathBlocks(n)[i].level = groups[path[i]].level
    <2>1. PathBlocks(n)[i] = block(i)
        BY <1>2
    <2> QED
        BY <2>1 DEF Header
<1> QED
    BY <1>5, <1>6

\* A frame opened for a record holds nothing but repeated headers.
LEMMA ContinuationTyped ==
    ASSUME LayoutTypeOK, \A p \in parents : IsParent(groups[p]),
           NEW n \in 1..Len(groups), NEW h \in Nat, NEW f \in 1..Len(chain),
           frames[f] = EmptyFrame
    PROVE  /\ ContinuationFrame(n, h, f) \in PaginatedFrame
           /\ ContinuationFrame(n, h, f).used \in Nat
           /\ \A i \in DOMAIN ContinuationFrame(n, h, f).blocks :
                  ContinuationFrame(n, h, f).blocks[i].block = "header"
           /\ h <= chain[f] => ContinuationFrame(n, h, f).used + h <= chain[f]
<1>1. chain[f] \in Nat /\ opts.headerHeight \in Nat
    BY LayoutTypes
<1>2. CASE RoomForPath(n, h, f)
    <2> DEFINE k == Cardinality(Path(n))
    <2>1. groups[n].header # NoText
        BY <1>2 DEF RoomForPath
    <2>2. k \in Nat
        BY <2>1, PathTyped
    <2>3. k * opts.headerHeight \in Nat
        BY <1>1, <2>2
    <2>4. PathBlocks(n) \in Seq(FlowBlock) /\ DOMAIN PathBlocks(n) = 1..k
        BY <2>1, PathBlocksTyped, LenProperties
    <2>5. ContinuationFrame(n, h, f) = [blocks |-> PathBlocks(n), used |-> k * opts.headerHeight]
        BY <1>2 DEF ContinuationFrame
    <2>6. ContinuationFrame(n, h, f) \in PaginatedFrame
        BY <2>3, <2>4, <2>5 DEF PaginatedFrame
    <2>7. \A i \in 1..k : PathBlocks(n)[i].block = "header"
        BY <2>1, PathBlocksTyped
    <2> QED
        BY <1>2, <2>3, <2>4, <2>5, <2>6, <2>7 DEF RoomForPath
<1>3. CASE ~RoomForPath(n, h, f)
    <2>1. ContinuationFrame(n, h, f) = EmptyFrame
        BY <1>3 DEF ContinuationFrame
    <2>2. EmptyFrame \in PaginatedFrame
        BY EmptySeq DEF EmptyFrame, PaginatedFrame
    <2>3. DOMAIN EmptyFrame.blocks = {} /\ EmptyFrame.used = 0
        BY DEF EmptyFrame
    <2> QED
        BY <1>1, <2>1, <2>2, <2>3
<1> QED
    BY <1>2, <1>3

-----------------------------------------------------------------------------
(* The steps that place a block.                                           *)

\* Block b, of height h, goes on frame f, on what fr holds by then.
Puts(f, fr, b, h) ==
    /\ f \in 1..Len(chain) /\ f >= frame /\ frame' = f
    /\ fr \in PaginatedFrame /\ b \in FlowBlock /\ h \in Nat
    /\ \/ fr = frames[f]
       \/ frames[f] = EmptyFrame /\ \A i \in DOMAIN fr.blocks : fr.blocks[i].block = "header"
    /\ frames' = [frames EXCEPT ![f] = WithBlock(fr, b, h)]

LEMMA FrameForTyped ==
    ASSUME LayoutTypeOK, AheadEmpty, NEW h \in Nat, InChain(FrameFor(h))
    PROVE  /\ FrameFor(h) \in 1..Len(chain) /\ FrameFor(h) >= frame
           /\ frames[FrameFor(h)] \in PaginatedFrame
           /\ h <= chain[FrameFor(h)] => frames[FrameFor(h)].used + h <= chain[FrameFor(h)]
<1>1. frame \in Nat /\ frame > 0
    BY DEF LayoutTypeOK
<1>2. FrameFor(h) \in 1..Len(chain) /\ FrameFor(h) >= frame
    BY <1>1, LayoutTypes DEF FrameFor, InChain
<1>3. CASE FrameFor(h) = frame
    <2>1. Fits(frame, h)
        BY <1>1, <1>3 DEF FrameFor, InChain
    <2> QED
        BY <1>2, <1>3, <2>1, LayoutTypes DEF Fits
<1>4. CASE FrameFor(h) # frame
    <2>1. FrameFor(h) > frame
        BY <1>1, <1>2, <1>4
    <2>2. frames[FrameFor(h)] = EmptyFrame
        BY <1>2, <2>1 DEF AheadEmpty
    <2> QED
        BY <1>2, <2>2, LayoutTypes DEF EmptyFrame
<1> QED
    BY <1>3, <1>4

LEMMA OpenSectionPuts ==
    ASSUME LayoutTypeOK, AheadEmpty, OpenSection
    PROVE  LET f == FrameFor(opts.headerHeight)
               b == Header(This.header, This.level, FALSE, frames[f].used)
           IN  /\ Puts(f, frames[f], b, opts.headerHeight)
               /\ b.block = "header" /\ b.text = groups[group].header /\ ~b.continued
<1> DEFINE f == FrameFor(opts.headerHeight)
           b == Header(This.header, This.level, FALSE, frames[f].used)
<1>1. opts.headerHeight \in Nat
    BY LayoutTypes
<1>2. InChain(f) /\ frame' = f
    BY DEF OpenSection
<1>3. f \in 1..Len(chain) /\ f >= frame /\ frames[f] \in PaginatedFrame
    BY <1>1, <1>2, FrameForTyped
<1>4. b \in HeaderBlock
    <2>1. group \in 1..Len(groups) /\ This.header # NoText
        BY LayoutTypes DEF OpenSection, LayoutTypeOK
    <2>2. This.header \in Text /\ This.level \in Nat
        BY <2>1, LayoutTypes DEF This
    <2>3. frames[f].used \in Nat
        BY <1>3, LayoutTypes
    <2> QED
        BY <2>2, <2>3, HeaderTyped
<1>5. frames' = [frames EXCEPT ![f] = WithBlock(frames[f], b, opts.headerHeight)]
    BY <1>3, LayoutTypes DEF OpenSection
<1>6. b.block = "header" /\ b.text = groups[group].header /\ ~b.continued
    BY DEF Header, This
<1> HIDE DEF f, b
<1>7. Puts(f, frames[f], b, opts.headerHeight)
    BY <1>1, <1>2, <1>3, <1>4, <1>5 DEF Puts, FlowBlock
<1> QED
    BY <1>6, <1>7 DEF f, b

LEMMA PlaceRecordPuts ==
    ASSUME LayoutTypeOK, PlaceRecord
    PROVE  /\ Puts(frame, frames[frame], RecordAt(frames[frame].used), This.records[record].height)
           /\ frames[frame].used + This.records[record].height <= chain[frame]
<1> DEFINE h == This.records[record].height
           b == RecordAt(frames[frame].used)
<1>1. frame \in 1..Len(chain) /\ frames[frame].used + h <= chain[frame]
    BY LayoutTypes DEF PlaceRecord, Fits, InChain, LayoutTypeOK
<1>2. frames[frame] \in PaginatedFrame /\ frames[frame].used \in Nat
    BY <1>1, LayoutTypes
<1>3. step = "records" /\ record <= Len(This.records)
    BY DEF PlaceRecord
<1>4. b \in RecordBlock /\ h \in Nat
    BY <1>2, <1>3, RecordTyped
<1>5. frames' = [frames EXCEPT ![frame] = WithBlock(frames[frame], b, h)]
    BY <1>1, LayoutTypes DEF PlaceRecord
<1>6. frame' = frame /\ frame >= frame
    BY LayoutTypes, <1>1 DEF PlaceRecord
<1> HIDE DEF b, h
<1>7. Puts(frame, frames[frame], b, h)
    BY <1>1, <1>2, <1>4, <1>5, <1>6 DEF Puts, FlowBlock
<1> QED
    BY <1>1, <1>7 DEF b, h

LEMMA ContinueRecordPuts ==
    ASSUME LayoutTypeOK, AheadEmpty, StackTrue, ContinueRecord
    PROVE  LET h  == This.records[record].height
               fr == ContinuationFrame(group, h, frame + 1)
           IN  /\ Puts(frame + 1, fr, RecordAt(fr.used), h)
               /\ h <= chain[frame + 1] => fr.used + h <= chain[frame + 1]
               /\ frames[frame + 1] = EmptyFrame
               /\ \A i \in DOMAIN fr.blocks : fr.blocks[i].block = "header"
<1> DEFINE f == frame + 1
           h == This.records[record].height
           fr == ContinuationFrame(group, h, f)
           b == RecordAt(fr.used)
<1>1. frame \in Nat /\ f \in 1..Len(chain) /\ f >= frame /\ f > frame
    BY LayoutTypes DEF ContinueRecord, InChain, LayoutTypeOK
<1>2. frames[f] = EmptyFrame
    BY <1>1 DEF AheadEmpty
<1>3. step = "records" /\ record <= Len(This.records)
    BY DEF ContinueRecord
<1>4. h \in Nat /\ group \in 1..Len(groups)
    BY <1>3, RecordTyped
<1>5. \A p \in parents : IsParent(groups[p])
    BY DEF StackTrue
<1>6. /\ fr \in PaginatedFrame /\ fr.used \in Nat
      /\ \A i \in DOMAIN fr.blocks : fr.blocks[i].block = "header"
      /\ h <= chain[f] => fr.used + h <= chain[f]
    <2> HIDE DEF f, h
    <2> QED
        BY <1>1, <1>2, <1>4, <1>5, ContinuationTyped
<1>7. b \in RecordBlock
    <2> HIDE DEF fr
    <2> QED
        BY <1>3, <1>6, RecordTyped
<1>8. frame' = f /\ frames' = [frames EXCEPT ![f] = WithBlock(fr, b, h)]
    BY DEF ContinueRecord
<1> HIDE DEF f, h, fr, b
<1>9. Puts(f, fr, b, h)
    BY <1>1, <1>2, <1>4, <1>6, <1>7, <1>8 DEF Puts, FlowBlock
<1> QED
    BY <1>2, <1>6, <1>9 DEF f, h, fr, b

LEMMA PlaceFooterPuts ==
    ASSUME LayoutTypeOK, AheadEmpty, PlaceFooter
    PROVE  LET f == FrameFor(This.footer)
               b == FooterAt(frames[f].used)
           IN  /\ Puts(f, frames[f], b, This.footer)
               /\ This.footer <= chain[f] => frames[f].used + This.footer <= chain[f]
<1> DEFINE f == FrameFor(This.footer)
           b == FooterAt(frames[f].used)
<1>1. step = "footer" /\ This.footer # NoFooter /\ InChain(f) /\ frame' = f
    BY DEF PlaceFooter
<1>2. This.footer \in Nat
    <2>1. 0 \in Nat
        OBVIOUS
    <2> QED
        BY <1>1, <2>1, FooterTyped
<1>3. /\ f \in 1..Len(chain) /\ f >= frame /\ frames[f] \in PaginatedFrame
      /\ This.footer <= chain[f] => frames[f].used + This.footer <= chain[f]
    BY <1>1, <1>2, FrameForTyped
<1>4. frames[f].used \in Nat
    BY <1>3, LayoutTypes
<1>5. b \in FooterBlock
    BY <1>1, <1>4, FooterTyped
<1>6. frames' = [frames EXCEPT ![f] = WithBlock(frames[f], b, This.footer)]
    BY <1>3, LayoutTypes DEF PlaceFooter
<1> HIDE DEF f, b
<1>7. Puts(f, frames[f], b, This.footer)
    BY <1>1, <1>2, <1>3, <1>5, <1>6 DEF Puts, FlowBlock
<1> QED
    BY <1>3, <1>7 DEF f, b

\* What a placed block does to the frames.
LEMMA PutsFrames ==
    ASSUME LayoutTypeOK, AheadEmpty, chain' = chain,
           NEW f, NEW fr, NEW b, NEW h, Puts(f, fr, b, h)
    PROVE  /\ frames' \in Seq(PaginatedFrame) /\ Len(frames') = Len(chain')
           /\ frame' \in Nat \ {0}
           /\ frames'[f].blocks = Append(fr.blocks, b)
           /\ \A g \in 1..Len(chain) : g # f => frames'[g] = frames[g]
           /\ AheadEmpty'
           /\ Takes(frames, f, fr, b, frames')
<1> DEFINE w == WithBlock(fr, b, h)
<1>1. /\ f \in 1..Len(chain) /\ f >= frame /\ frame' = f
      /\ fr \in PaginatedFrame /\ b \in FlowBlock /\ h \in Nat
      /\ frames' = [frames EXCEPT ![f] = w]
    BY DEF Puts
<1>2. fr.blocks \in Seq(FlowBlock) /\ fr.used \in Nat
    BY <1>1 DEF PaginatedFrame
<1>3. w \in PaginatedFrame /\ w.blocks = Append(fr.blocks, b)
    <2>1. Append(fr.blocks, b) \in Seq(FlowBlock)
        BY <1>1, <1>2
    <2>2. fr.used + h \in Nat
        BY <1>1, <1>2
    <2> QED
        BY <2>1, <2>2 DEF WithBlock, PaginatedFrame
<1> HIDE DEF w
<1>4. frames \in [1..Len(chain) -> PaginatedFrame] /\ Len(chain) \in Nat /\ frame \in Nat \ {0}
    BY LayoutTypes DEF LayoutTypeOK
<1>5. frames' \in [1..Len(chain) -> PaginatedFrame]
    BY <1>1, <1>3, <1>4
<1>6. frames' \in Seq(PaginatedFrame) /\ Len(frames') = Len(chain)
    BY <1>4, <1>5
<1>7. frames'[f] = w /\ \A g \in 1..Len(chain) : g # f => frames'[g] = frames[g]
    BY <1>1, <1>4
<1>8. frame' \in Nat \ {0}
    BY <1>1, <1>4
<1>9. \A g \in 1..Len(chain) : g > f => frames[g] = EmptyFrame
    BY <1>1, <1>4 DEF AheadEmpty
<1>10. AheadEmpty'
    <2>1. \A g \in 1..Len(chain) : g > f => g # f
        BY <1>1, <1>4
    <2>2. \A g \in 1..Len(chain) : g > frame' => frames'[g] = EmptyFrame
        BY <1>1, <1>7, <1>9, <2>1
    <2> QED
        BY <2>2 DEF AheadEmpty
<1>11. Takes(frames, f, fr, b, frames')
    <2>1. DOMAIN frames = 1..Len(chain) /\ DOMAIN frames' = 1..Len(chain)
        BY <1>4, <1>5
    <2>2. fr = frames[f] \/ (frames[f].blocks = <<>> /\ \A i \in DOMAIN fr.blocks : fr.blocks[i].block = "header")
        BY DEF Puts, EmptyFrame
    <2>3. \A g \in 1..Len(chain) : g > f => frames[g].blocks = <<>>
        BY <1>9 DEF EmptyFrame
    <2> QED
        BY <1>3, <1>7, <2>1, <2>2, <2>3 DEF Takes
<1> QED
    BY <1>3, <1>6, <1>7, <1>8, <1>10, <1>11

-----------------------------------------------------------------------------
(* Types, and the frames ahead.                                            *)

\* The steps that place nothing.
Quiet ==
    \/ OpenUntitled \/ NoRoomForHeader \/ NoRoomForRecord \/ RecordsDone
    \/ SkipFooter \/ NoRoomForFooter \/ SectionsDone

\* Every step keeps the arguments, and moves on by at most a frame.
LEMMA Moves ==
    ASSUME LayoutTypeOK, LayoutNext
    PROVE  /\ groups' = groups /\ chain' = chain /\ opts' = opts
           /\ Quiet => /\ frames' = frames /\ placed' = placed
                       /\ frame' \in {frame, frame + 1}
<1>1. groups' = groups /\ chain' = chain /\ opts' = opts
    BY DEF LayoutNext, OpenUntitled, OpenSection, NoRoomForHeader, PlaceRecord, ContinueRecord,
           NoRoomForRecord, RecordsDone, SkipFooter, PlaceFooter, NoRoomForFooter, SectionsDone,
           arguments
<1>2. ASSUME Quiet
      PROVE  frames' = frames /\ placed' = placed
    BY <1>2 DEF Quiet, OpenUntitled, NoRoomForHeader, NoRoomForRecord, RecordsDone, SkipFooter,
                NoRoomForFooter, SectionsDone
<1>3. ASSUME Quiet
      PROVE  frame' \in {frame, frame + 1}
    BY <1>3 DEF Quiet, OpenUntitled, NoRoomForHeader, NoRoomForRecord, RecordsDone, SkipFooter,
                NoRoomForFooter, SectionsDone, FrameFor
<1> QED
    BY <1>1, <1>2, <1>3

LEMMA ParentsTyped ==
    ASSUME LayoutTypeOK, group \in 1..Len(groups)
    PROVE  ParentsAt(group) \subseteq DOMAIN groups
BY LayoutTypes DEF ParentsAt, LayoutTypeOK

\* The frames and the place on them, typed and empty ahead.
FramesOK ==
    /\ frame \in Nat \ {0}
    /\ frames \in Seq(PaginatedFrame)
    /\ Len(frames) = Len(chain)
    /\ AheadEmpty

LEMMA FramesStep ==
    ASSUME LayoutTypeOK, AheadEmpty, StackTrue, LayoutNext
    PROVE  FramesOK'
<1>1. chain' = chain
    BY Moves
<1>2. CASE Quiet
    <2>1. frames' = frames /\ frame' \in {frame, frame + 1}
        BY <1>2, Moves
    <2>2. frame \in Nat /\ frame' >= frame /\ frame' \in Nat \ {0}
        BY <2>1 DEF LayoutTypeOK
    <2>3. AheadEmpty'
        <3>1. \A f \in 1..Len(chain) : f > frame' => f > frame
            BY <2>2, LayoutTypes
        <3> QED
            BY <1>1, <2>1, <3>1 DEF AheadEmpty
    <2> QED
        BY <1>1, <2>1, <2>2, <2>3 DEF FramesOK, LayoutTypeOK
<1>3. CASE OpenSection
    BY <1>1, <1>3, OpenSectionPuts, PutsFrames DEF FramesOK
<1>4. CASE PlaceRecord
    BY <1>1, <1>4, PlaceRecordPuts, PutsFrames DEF FramesOK
<1>5. CASE ContinueRecord
    BY <1>1, <1>5, ContinueRecordPuts, PutsFrames DEF FramesOK
<1>6. CASE PlaceFooter
    BY <1>1, <1>6, PlaceFooterPuts, PutsFrames DEF FramesOK
<1> QED
    BY <1>2, <1>3, <1>4, <1>5, <1>6 DEF LayoutNext, Quiet

\* The rest of the state keeps its type.
LEMMA TypesStep ==
    ASSUME LayoutTypeOK, AheadEmpty, StackTrue, LayoutNext
    PROVE  LayoutTypeOK'
<1>1. groups' = groups /\ chain' = chain /\ opts' = opts
    BY Moves
<1>2. /\ frame' \in Nat \ {0} /\ frames' \in Seq(PaginatedFrame) /\ Len(frames') = Len(chain')
    BY FramesStep DEF FramesOK
<1>3. /\ Len(groups) \in Nat /\ group \in 1..(Len(groups) + 1) /\ group \in Nat
      /\ record \in Nat \ {0} /\ placed \in Nat /\ parents \subseteq DOMAIN groups
      /\ \A n \in 1..Len(groups) : Len(groups[n].records) \in Nat
    BY LayoutTypes DEF LayoutTypeOK
<1>4. /\ step' \in {"idle", "header", "records", "footer", "done"}
      /\ started' \in BOOLEAN /\ overflow' \in BOOLEAN /\ parents' \subseteq DOMAIN groups
      /\ placed' \in Nat
      /\ group' \in 1..(Len(groups) + 1)
      /\ step' \in {"records", "footer"} => group' <= Len(groups)
      /\ record' \in Nat \ {0}
      /\ step' = "records" => record' <= Len(groups[group'].records) + 1
    <2>1. CASE OpenUntitled
        <3>1. /\ step' = "records" /\ record' = 1 /\ started' = FALSE /\ group' = group
              /\ group \in 1..Len(groups) /\ parents' = parents /\ placed' = placed
              /\ overflow' = overflow
            BY <1>3, <2>1 DEF OpenUntitled
        <3>2. 1 <= Len(groups[group].records) + 1
            BY <1>3, <3>1
        <3> QED
            <4>1. overflow' \in BOOLEAN
                BY <3>1 DEF LayoutTypeOK
            <4>2. started' \in BOOLEAN
                BY <3>1
            <4>3. group' \in 1..(Len(groups) + 1) /\ group' <= Len(groups) /\ record' \in Nat \ {0}
                BY <1>3, <3>1
            <4>4. record' <= Len(groups[group'].records) + 1
                BY <3>1, <3>2
            <4> QED
                BY <1>3, <3>1, <4>1, <4>2, <4>3, <4>4
    <2>2. CASE OpenSection
        <3>1. /\ step' = "records" /\ record' = 1 /\ started' = FALSE /\ group' = group
              /\ group \in 1..Len(groups) /\ parents' = ParentsAt(group) /\ placed' = placed
              /\ overflow' = overflow
            BY <1>3, <2>2 DEF OpenSection
        <3>2. parents' \subseteq DOMAIN groups
            BY <3>1, ParentsTyped
        <3>3. 1 <= Len(groups[group].records) + 1
            BY <1>3, <3>1
        <3> QED
            <4>1. overflow' \in BOOLEAN
                BY <3>1 DEF LayoutTypeOK
            <4>2. started' \in BOOLEAN
                BY <3>1
            <4>3. group' \in 1..(Len(groups) + 1) /\ group' <= Len(groups) /\ record' \in Nat \ {0}
                BY <1>3, <3>1
            <4>4. record' <= Len(groups[group'].records) + 1
                BY <3>1, <3>3
            <4> QED
                BY <1>3, <3>1, <3>2, <4>1, <4>2, <4>3, <4>4
    <2>3. CASE NoRoomForHeader
        <3>1. group \in 1..Len(groups)
            BY <1>3, <2>3 DEF NoRoomForHeader
        <3>2. parents' \subseteq DOMAIN groups
            BY <2>3, <3>1, ParentsTyped DEF NoRoomForHeader
        <3> QED
            BY <1>3, <2>3, <3>1, <3>2 DEF NoRoomForHeader, RunOut, LayoutTypeOK
    <2>4. CASE PlaceRecord
        BY <1>3, <2>4 DEF PlaceRecord, Recorded, LayoutTypeOK, This
    <2>5. CASE ContinueRecord
        BY <1>3, <2>5 DEF ContinueRecord, Recorded, LayoutTypeOK, This
    <2>6. CASE NoRoomForRecord
        BY <1>3, <2>6 DEF NoRoomForRecord, RunOut, LayoutTypeOK
    <2>7. CASE RecordsDone
        BY <1>3, <2>7 DEF RecordsDone, LayoutTypeOK
    <2>8. CASE SkipFooter
        BY <1>3, <2>8 DEF SkipFooter, LayoutTypeOK
    <2>9. CASE PlaceFooter
        BY <1>3, <2>9 DEF PlaceFooter, LayoutTypeOK
    <2>10. CASE NoRoomForFooter
        BY <1>3, <2>10 DEF NoRoomForFooter, RunOut, LayoutTypeOK
    <2>11. CASE SectionsDone
        BY <1>3, <2>11 DEF SectionsDone, LayoutTypeOK
    <2> QED
        BY <2>1, <2>2, <2>3, <2>4, <2>5, <2>6, <2>7, <2>8, <2>9, <2>10, <2>11 DEF LayoutNext
<1> QED
    BY <1>1, <1>2, <1>4 DEF LayoutTypeOK

-----------------------------------------------------------------------------
(* The stack of parents.                                                   *)

LEMMA InForceNext ==
    ASSUME LayoutTypeOK, NEW n \in 1..Len(groups)
    PROVE  /\ ~IsParent(groups[n]) => InForce(n) = InForce(n - 1)
           /\ IsParent(groups[n]) =>
                InForce(n) = {p \in InForce(n - 1) : groups[p].level < groups[n].level} \cup {n}
           /\ n \notin InForce(n - 1)
<1>1. n \in Nat /\ n - 1 \in Nat /\ \A m \in 1..n : groups[m].level \in Nat
    BY LayoutTypes
<1>2. /\ \A p : p \in 1..n <=> p \in 1..(n - 1) \/ p = n
      /\ n \notin 1..(n - 1)
      /\ \A p \in 1..(n - 1) : \A m : m \in (p + 1)..n <=> m \in (p + 1)..(n - 1) \/ m = n
      /\ \A m : m \notin (n + 1)..n
    BY <1>1
<1>3. \A p \in 1..n : groups[p].level < groups[n].level <=> groups[n].level > groups[p].level
    BY <1>1
<1>4. ASSUME ~IsParent(groups[n])
      PROVE  InForce(n) = InForce(n - 1)
    BY <1>2, <1>4 DEF InForce
<1>5. ASSUME IsParent(groups[n])
      PROVE  InForce(n) = {p \in InForce(n - 1) : groups[p].level < groups[n].level} \cup {n}
    <2>1. ASSUME NEW p \in 1..(n - 1)
          PROVE  p \in InForce(n) <=> p \in InForce(n - 1) /\ groups[p].level < groups[n].level
        <3>1. p \in 1..n /\ \A m : m \in (p + 1)..n <=> m \in (p + 1)..(n - 1) \/ m = n
            BY <1>2
        <3> QED
            BY <1>3, <1>5, <3>1 DEF InForce
    <2>2. n \in InForce(n)
        BY <1>2, <1>5 DEF InForce
    <2>3. InForce(n) \subseteq 1..n /\ InForce(n - 1) \subseteq 1..(n - 1)
        BY DEF InForce
    <2> QED
        BY <1>2, <2>1, <2>2, <2>3
<1>6. n \notin InForce(n - 1)
    BY <1>2 DEF InForce
<1> QED
    BY <1>4, <1>5, <1>6

LEMMA StackStep ==
    ASSUME LayoutTypeOK, StackTrue, LayoutNext
    PROVE  StackTrue'
<1>1. groups' = groups
    BY Moves
<1>2. \A n : InForce(n)' = InForce(n)
    BY <1>1 DEF InForce
<1>3. group \in Nat /\ group \in 1..(Len(groups) + 1) /\ Len(groups) \in Nat
    BY LayoutTypes DEF LayoutTypeOK
<1>4. \A p \in parents : IsParent(groups[p])
    BY DEF StackTrue
<1>5. CASE OpenUntitled
    <2>1. group \in 1..Len(groups) /\ ~IsParent(groups[group]) /\ step = "header"
        BY <1>3, <1>5 DEF OpenUntitled, IsParent, This
    <2>2. parents' = InForce(group) /\ group' = group /\ step' = "records" /\ parents' = parents
        BY <1>5, <2>1, InForceNext DEF OpenUntitled, StackTrue
    <2> QED
        BY <1>1, <1>2, <1>4, <2>2 DEF StackTrue, InSection
<1>6. ASSUME group \in 1..Len(groups), step = "header", parents' = ParentsAt(group)
      PROVE  parents' = InForce(group) /\ \A p \in parents' : IsParent(groups[p])
    <2>1. parents = InForce(group - 1)
        BY <1>6 DEF StackTrue
    <2>2. CASE IsParent(groups[group])
        <3>1. parents' = {p \in parents : groups[p].level < groups[group].level} \cup {group}
            BY <1>6, <2>2 DEF ParentsAt
        <3> QED
            BY <1>4, <1>6, <2>1, <2>2, <3>1, InForceNext
    <2>3. CASE ~IsParent(groups[group])
        <3>1. parents' = parents
            BY <1>6, <2>3 DEF ParentsAt
        <3> QED
            BY <1>4, <1>6, <2>1, <2>3, <3>1, InForceNext
    <2> QED
        BY <2>2, <2>3
<1>7. CASE OpenSection
    <2>1. /\ group \in 1..Len(groups) /\ step = "header" /\ parents' = ParentsAt(group)
          /\ group' = group /\ step' = "records"
        BY <1>3, <1>7 DEF OpenSection
    <2> QED
        BY <1>1, <1>2, <1>6, <2>1 DEF StackTrue, InSection
<1>8. CASE NoRoomForHeader
    <2>1. group \in 1..Len(groups) /\ step = "header" /\ parents' = ParentsAt(group) /\ step' = "done"
        BY <1>3, <1>8 DEF NoRoomForHeader, RunOut
    <2> QED
        BY <1>1, <1>6, <2>1 DEF StackTrue, InSection
<1>9. CASE PlaceRecord \/ ContinueRecord \/ RecordsDone
    <2>1. parents' = parents /\ group' = group /\ InSection /\ step' \in {"records", "footer"}
        BY <1>9 DEF PlaceRecord, ContinueRecord, RecordsDone, InSection
    <2> QED
        BY <1>1, <1>2, <2>1 DEF StackTrue, InSection
<1>10. CASE NoRoomForRecord \/ NoRoomForFooter \/ SectionsDone
    <2>1. parents' = parents /\ step' = "done"
        BY <1>10 DEF NoRoomForRecord, NoRoomForFooter, SectionsDone, RunOut
    <2> QED
        BY <1>1, <1>4, <2>1 DEF StackTrue, InSection
<1>11. CASE SkipFooter \/ PlaceFooter
    <2>1. parents' = parents /\ group' - 1 = group /\ InSection /\ step' = "header"
        BY <1>3, <1>11 DEF SkipFooter, PlaceFooter, InSection
    <2>2. parents' = InForce(group' - 1)
        BY <2>1 DEF StackTrue
    <2> QED
        BY <1>1, <1>2, <1>4, <2>1, <2>2 DEF StackTrue, InSection
<1> QED
    BY <1>5, <1>7, <1>8, <1>9, <1>10, <1>11 DEF LayoutNext

\* Over a section with records, what a continuation repeats is what is in force.
LEMMA PathIsTrue ==
    ASSUME LayoutTypeOK, StackTrue, step = "records", record <= Len(This.records)
    PROVE  Path(group) = TrueAncestors(group) \cup {group}
<1>1. group \in 1..Len(groups) /\ This.records # <<>>
    BY RecordTyped, EmptySeq DEF This
<1>2. ~IsParent(groups[group])
    BY <1>1 DEF IsParent, This
<1>3. parents = InForce(group - 1)
    BY <1>1, <1>2, InForceNext DEF StackTrue, InSection
<1> QED
    BY <1>3 DEF Path, InForce, TrueAncestors

LEMMA StartedStep ==
    ASSUME LayoutTypeOK, AheadEmpty, StackTrue, FrameStarted, LayoutNext
    PROVE  FrameStarted'
<1>1. chain' = chain
    BY Moves
<1>2. ASSUME NEW f, NEW fr, NEW b, NEW h, Puts(f, fr, b, h), b.block = "record"
      PROVE  FrameStarted'
    <2>1. f \in 1..Len(chain) /\ frame' = f /\ fr.blocks \in Seq(FlowBlock) /\ b \in FlowBlock
        BY <1>2 DEF Puts, PaginatedFrame
    <2>2. frames'[f].blocks = Append(fr.blocks, b)
        BY <1>1, <1>2, PutsFrames
    <2>3. /\ Len(fr.blocks) + 1 \in DOMAIN frames'[f].blocks
          /\ frames'[f].blocks[Len(fr.blocks) + 1] = b
        BY <2>1, <2>2
    <2>4. f <= Len(chain')
        BY <1>1, <2>1
    <2> QED
        BY <1>2, <2>1, <2>3, <2>4 DEF FrameStarted
<1>3. CASE PlaceRecord
    <2>1. step = "records" /\ record <= Len(This.records) /\ frame \in 1..Len(chain)
        BY <1>3, LayoutTypes DEF PlaceRecord, Fits, InChain, LayoutTypeOK
    <2>2. frames[frame].used \in Nat
        BY <2>1, LayoutTypes
    <2> QED
        BY <1>2, <1>3, <2>1, <2>2, PlaceRecordPuts, RecordTyped
<1>4. CASE ContinueRecord
    <2> DEFINE fr == ContinuationFrame(group, This.records[record].height, frame + 1)
    <2>1. step = "records" /\ record <= Len(This.records)
        BY <1>4 DEF ContinueRecord
    <2>2. Puts(frame + 1, fr, RecordAt(fr.used), This.records[record].height)
        BY <1>4, ContinueRecordPuts
    <2>3. RecordAt(fr.used).block = "record"
        BY DEF RecordAt
    <2> QED
        BY <1>2, <2>2, <2>3
<1>5. CASE OpenUntitled \/ OpenSection
    <2>1. record' = 1
        BY <1>5 DEF OpenUntitled, OpenSection
    <2> QED
        BY <2>1 DEF FrameStarted
<1>6. CASE (Quiet /\ ~OpenUntitled) \/ PlaceFooter
    <2>1. step' # "records"
        BY <1>6 DEF Quiet, NoRoomForHeader, NoRoomForRecord, RecordsDone, SkipFooter, PlaceFooter,
                    NoRoomForFooter, SectionsDone, RunOut
    <2> QED
        BY <2>1 DEF FrameStarted
<1> QED
    BY <1>3, <1>4, <1>5, <1>6 DEF LayoutNext, Quiet

-----------------------------------------------------------------------------
(* Where blocks stand on their frame.                                      *)

\* A block placed on frame f: one that was there, a header, or the new one.
LEMMA BlockAfter ==
    ASSUME LayoutTypeOK, AheadEmpty, chain' = chain,
           NEW f, NEW fr, NEW b, NEW h, Puts(f, fr, b, h),
           NEW g \in 1..Len(chain), NEW i \in DOMAIN frames'[g].blocks
    PROVE  \/ /\ i \in DOMAIN frames[g].blocks
              /\ \A j \in 1..i : /\ j \in DOMAIN frames[g].blocks
                                 /\ frames'[g].blocks[j] = frames[g].blocks[j]
           \/ frames'[g].blocks[i].block = "header"
           \/ /\ g = f /\ i = Len(fr.blocks) + 1 /\ frames'[g].blocks[i] = b
              /\ \A j \in 1..(i - 1) : /\ j \in DOMAIN fr.blocks
                                       /\ frames'[g].blocks[j] = fr.blocks[j]
<1>1. /\ f \in 1..Len(chain) /\ fr.blocks \in Seq(FlowBlock) /\ b \in FlowBlock
      /\ fr = frames[f] \/ \A j \in DOMAIN fr.blocks : fr.blocks[j].block = "header"
    BY DEF Puts, PaginatedFrame
<1>2. /\ frames'[f].blocks = Append(fr.blocks, b)
      /\ g # f => frames'[g] = frames[g]
    BY PutsFrames
<1>3. /\ DOMAIN frames[g].blocks = 1..Len(frames[g].blocks) /\ Len(frames[g].blocks) \in Nat
      /\ Len(fr.blocks) \in Nat /\ DOMAIN fr.blocks = 1..Len(fr.blocks)
    BY <1>1, LayoutTypes, LenProperties
<1>4. CASE g # f
    BY <1>2, <1>3, <1>4
<1>5. CASE g = f
    <2>1. /\ i \in 1..(Len(fr.blocks) + 1) /\ frames'[g].blocks[Len(fr.blocks) + 1] = b
          /\ \A j \in 1..Len(fr.blocks) : frames'[g].blocks[j] = fr.blocks[j]
        BY <1>1, <1>2, <1>3, <1>5
    <2>2. CASE i = Len(fr.blocks) + 1
        BY <1>3, <1>5, <2>1, <2>2
    <2>3. CASE i # Len(fr.blocks) + 1
        <3>1. i \in 1..Len(fr.blocks) /\ \A j \in 1..i : j \in 1..Len(fr.blocks)
            BY <1>3, <2>1, <2>3
        <3>2. CASE fr = frames[f]
            BY <1>3, <1>5, <2>1, <3>1, <3>2
        <3>3. CASE \A j \in DOMAIN fr.blocks : fr.blocks[j].block = "header"
            BY <1>3, <2>1, <3>1, <3>3
        <3> QED
            BY <1>1, <3>2, <3>3
    <2> QED
        BY <2>2, <2>3
<1> QED
    BY <1>4, <1>5

\* The promise of NonTallFits, for one block of frame f.
Settled(b, f) ==
    b.block \in {"record", "footer"} /\ b.height <= chain[f] => b.top + b.height <= chain[f]

LEMMA FitsPut ==
    ASSUME LayoutTypeOK, AheadEmpty, NonTallFits, chain' = chain,
           NEW f, NEW fr, NEW b, NEW h, Puts(f, fr, b, h), Settled(b, f)
    PROVE  NonTallFits'
<1> SUFFICES ASSUME NEW g \in 1..Len(chain), NEW i \in DOMAIN frames'[g].blocks
             PROVE  Settled(frames'[g].blocks[i], g)
    BY DEF NonTallFits, Settled
<1>1. CASE i \in DOMAIN frames[g].blocks /\ frames'[g].blocks[i] = frames[g].blocks[i]
    BY <1>1 DEF NonTallFits, Settled
<1>2. CASE frames'[g].blocks[i].block = "header"
    BY <1>2 DEF Settled
<1>3. CASE g = f /\ frames'[g].blocks[i] = b
    BY <1>3
<1>4. ASSUME i \in DOMAIN frames[g].blocks, \A j \in 1..i : frames'[g].blocks[j] = frames[g].blocks[j]
      PROVE  frames'[g].blocks[i] = frames[g].blocks[i]
    <2>1. i \in 1..i
        BY <1>4, LayoutTypes
    <2> QED
        BY <1>4, <2>1
<1> QED
    BY <1>1, <1>2, <1>3, <1>4, BlockAfter

LEMMA FitsStep ==
    ASSUME LayoutTypeOK, AheadEmpty, StackTrue, NonTallFits, LayoutNext
    PROVE  NonTallFits'
<1>1. chain' = chain
    BY Moves
<1>2. CASE Quiet
    <2>1. frames' = frames
        BY <1>2, Moves
    <2> QED
        BY <1>1, <2>1 DEF NonTallFits
<1>3. CASE OpenSection
    <2> DEFINE f == FrameFor(opts.headerHeight)
               b == Header(This.header, This.level, FALSE, frames[f].used)
    <2>1. Puts(f, frames[f], b, opts.headerHeight) /\ b.block = "header"
        BY <1>3, OpenSectionPuts
    <2> HIDE DEF f, b
    <2>2. Settled(b, f)
        BY <2>1 DEF Settled
    <2> QED
        BY <1>1, <2>1, <2>2, FitsPut
<1>4. CASE PlaceRecord
    <2> DEFINE b == RecordAt(frames[frame].used)
    <2>1. step = "records" /\ record <= Len(This.records) /\ frame \in 1..Len(chain)
        BY <1>4, LayoutTypes DEF PlaceRecord, Fits, InChain, LayoutTypeOK
    <2>2. frames[frame].used \in Nat
        BY <2>1, LayoutTypes
    <2>3. /\ Puts(frame, frames[frame], b, This.records[record].height)
          /\ frames[frame].used + This.records[record].height <= chain[frame]
        BY <1>4, PlaceRecordPuts
    <2>4. b.height = This.records[record].height /\ b.top = frames[frame].used
        BY <2>1, <2>2, RecordTyped
    <2>5. Settled(b, frame)
        BY <2>3, <2>4 DEF Settled
    <2> HIDE DEF b
    <2> QED
        BY <1>1, <2>3, <2>5, FitsPut
<1>5. CASE ContinueRecord
    <2> DEFINE h  == This.records[record].height
               fr == ContinuationFrame(group, h, frame + 1)
               b  == RecordAt(fr.used)
    <2>1. Puts(frame + 1, fr, b, h) /\ (h <= chain[frame + 1] => fr.used + h <= chain[frame + 1])
        BY <1>5, ContinueRecordPuts
    <2>2. b.height = h /\ b.top = fr.used
        BY DEF RecordAt
    <2>3. Settled(b, frame + 1)
        BY <2>1, <2>2 DEF Settled
    <2> HIDE DEF h, fr, b
    <2> QED
        BY <1>1, <2>1, <2>3, FitsPut
<1>6. CASE PlaceFooter
    <2> DEFINE f == FrameFor(This.footer)
               b == FooterAt(frames[f].used)
    <2>1. /\ Puts(f, frames[f], b, This.footer)
          /\ This.footer <= chain[f] => frames[f].used + This.footer <= chain[f]
        BY <1>6, PlaceFooterPuts
    <2>2. b.height = This.footer /\ b.top = frames[f].used
        BY DEF FooterAt
    <2>3. Settled(b, f)
        BY <2>1, <2>2 DEF Settled
    <2> HIDE DEF f, b
    <2> QED
        BY <1>1, <2>1, <2>3, FitsPut
<1> QED
    BY <1>2, <1>3, <1>4, <1>5, <1>6 DEF LayoutNext, Quiet

\* The promise of ContextCarries, for block i of the blocks bs of a frame of
\* height c, over sections G laid out by options o.
AncestorsIn(G, n) ==
    {p \in 1..(n - 1) :
        /\ IsParent(G[p])
        /\ G[p].level < G[n].level
        /\ \A m \in (p + 1)..(n - 1) : IsParent(G[m]) => G[m].level > G[p].level}

Carries(G, o, c, bs, i) ==
    LET n     == bs[i].group
        above == AncestorsIn(G, n) \cup {n}
        path  == InOrder(above)
    IN  (/\ bs[i].block = "record"
         /\ bs[i].record > 1 /\ G[n].header # NoText
         /\ \A j \in 1..(i - 1) : bs[j].block = "header")
        => IF Cardinality(above) * o.headerHeight + bs[i].height > c THEN i = 1
           ELSE /\ i = Cardinality(above) + 1
                /\ \A j \in 1..(i - 1) : /\ bs[j].text = G[path[j]].header
                                        /\ bs[j].level = G[path[j]].level

\* It is about the blocks up to i only.
LEMMA CarriesPrefix ==
    ASSUME NEW G, NEW o, NEW c, NEW bs, NEW cs, NEW i \in Nat \ {0},
           \A j \in 1..i : bs[j] = cs[j], Carries(G, o, c, cs, i)
    PROVE  Carries(G, o, c, bs, i)
<1>1. bs[i] = cs[i] /\ \A j \in 1..(i - 1) : bs[j] = cs[j]
    OBVIOUS
<1> QED
    BY <1>1 DEF Carries

LEMMA CarriesPut ==
    ASSUME LayoutTypeOK, AheadEmpty, ContextCarries,
           groups' = groups, chain' = chain, opts' = opts,
           NEW f, NEW fr, NEW b, NEW h, Puts(f, fr, b, h),
           opts.repeatHeader => Carries(groups, opts, chain[f], frames'[f].blocks, Len(fr.blocks) + 1)
    PROVE  ContextCarries'
<1>1. ASSUME opts.repeatHeader, NEW g \in 1..Len(chain), NEW i \in DOMAIN frames[g].blocks
      PROVE  Carries(groups, opts, chain[g], frames[g].blocks, i)
    BY <1>1 DEF ContextCarries, Carries, TrueAncestors, AncestorsIn
<1>2. ASSUME opts.repeatHeader, NEW g \in 1..Len(chain), NEW i \in DOMAIN frames'[g].blocks
      PROVE  Carries(groups, opts, chain[g], frames'[g].blocks, i)
    <2>1. CASE i \in DOMAIN frames[g].blocks /\ \A j \in 1..i : frames'[g].blocks[j] = frames[g].blocks[j]
        <3>1. i \in Nat \ {0}
            BY <2>1, LayoutTypes
        <3>2. Carries(groups, opts, chain[g], frames[g].blocks, i)
            BY <1>1, <1>2, <2>1
        <3> QED
            BY <2>1, <3>1, <3>2, CarriesPrefix
    <2>2. CASE frames'[g].blocks[i].block = "header"
        BY <2>2 DEF Carries
    <2>3. CASE g = f /\ i = Len(fr.blocks) + 1
        BY <1>2, <2>3
    <2> QED
        BY <2>1, <2>2, <2>3, BlockAfter
<1>3. opts'.repeatHeader =>
        \A g \in 1..Len(chain') : \A i \in DOMAIN frames'[g].blocks :
            Carries(groups', opts', chain'[g], frames'[g].blocks, i)
    BY <1>2
<1> QED
    BY <1>3 DEF ContextCarries, Carries, TrueAncestors, AncestorsIn

LEMMA CarriesStep ==
    ASSUME LayoutTypeOK, AheadEmpty, StackTrue, FrameStarted, ContextCarries, LayoutNext
    PROVE  ContextCarries'
<1>1. groups' = groups /\ chain' = chain /\ opts' = opts
    BY Moves
<1>2. CASE Quiet
    <2>1. frames' = frames
        BY <1>2, Moves
    <2>2. opts'.repeatHeader =>
            \A g \in 1..Len(chain') : \A i \in DOMAIN frames'[g].blocks :
                Carries(groups', opts', chain'[g], frames'[g].blocks, i)
        <3>1. opts.repeatHeader =>
                \A g \in 1..Len(chain) : \A i \in DOMAIN frames[g].blocks :
                    Carries(groups, opts, chain[g], frames[g].blocks, i)
            BY DEF ContextCarries, Carries, TrueAncestors, AncestorsIn
        <3> QED
            BY <1>1, <2>1, <3>1
    <2> QED
        BY <2>2 DEF ContextCarries, Carries, TrueAncestors, AncestorsIn
<1>3. ASSUME NEW f, NEW fr, NEW b, NEW h, Puts(f, fr, b, h)
      PROVE  /\ Len(fr.blocks) \in Nat /\ DOMAIN fr.blocks = 1..Len(fr.blocks)
             /\ frames'[f].blocks[Len(fr.blocks) + 1] = b
             /\ \A j \in 1..Len(fr.blocks) : frames'[f].blocks[j] = fr.blocks[j]
    <2>1. fr.blocks \in Seq(FlowBlock) /\ b \in FlowBlock
        BY <1>3 DEF Puts, PaginatedFrame
    <2>2. frames'[f].blocks = Append(fr.blocks, b)
        BY <1>1, <1>3, PutsFrames
    <2> QED
        BY <2>1, <2>2, LenProperties
<1>4. ASSUME NEW f, NEW fr, NEW b, NEW h, Puts(f, fr, b, h), b.block # "record"
      PROVE  ContextCarries'
    <2>1. Carries(groups, opts, chain[f], frames'[f].blocks, Len(fr.blocks) + 1)
        <3>1. frames'[f].blocks[Len(fr.blocks) + 1] = b
            BY <1>3, <1>4
        <3> QED
            BY <1>4, <3>1 DEF Carries
    <2> QED
        BY <1>1, <1>4, <2>1, CarriesPut
<1>5. CASE OpenSection
    <2> DEFINE f == FrameFor(opts.headerHeight)
               b == Header(This.header, This.level, FALSE, frames[f].used)
    <2>1. Puts(f, frames[f], b, opts.headerHeight) /\ b.block = "header"
        BY <1>5, OpenSectionPuts
    <2> HIDE DEF f, b
    <2> QED
        BY <1>4, <2>1
<1>6. CASE PlaceFooter
    <2> DEFINE f == FrameFor(This.footer)
               b == FooterAt(frames[f].used)
    <2>1. Puts(f, frames[f], b, This.footer)
        BY <1>6, PlaceFooterPuts
    <2>2. b.block = "footer"
        BY DEF FooterAt
    <2> HIDE DEF f, b
    <2> QED
        BY <1>4, <2>1, <2>2
<1>7. CASE PlaceRecord
    <2> DEFINE b == RecordAt(frames[frame].used)
               m == Len(frames[frame].blocks)
    <2>1. step = "records" /\ record <= Len(This.records) /\ frame \in 1..Len(chain)
        BY <1>7, LayoutTypes DEF PlaceRecord, Fits, InChain, LayoutTypeOK
    <2>2. Puts(frame, frames[frame], b, This.records[record].height)
        BY <1>7, PlaceRecordPuts
    <2>3. b.record = record
        BY DEF RecordAt
    <2>4. Carries(groups, opts, chain[frame], frames'[frame].blocks, m + 1)
        <3>1. CASE record > 1
            <4>1. PICK i \in DOMAIN frames[frame].blocks : frames[frame].blocks[i].block = "record"
                BY <2>1, <3>1 DEF FrameStarted
            <4>2. i \in 1..m /\ m \in Nat /\ frames'[frame].blocks[i] = frames[frame].blocks[i]
                BY <1>3, <2>2, <4>1
            <4>3. i \in 1..((m + 1) - 1) /\ frames'[frame].blocks[i].block # "header"
                BY <4>1, <4>2
            <4> HIDE DEF m
            <4> QED
                BY <4>3 DEF Carries
        <3>2. CASE ~(record > 1)
            <4>1. frames'[frame].blocks[m + 1] = b
                BY <1>3, <2>2
            <4> HIDE DEF m, b
            <4> QED
                BY <2>3, <3>2, <4>1 DEF Carries
        <3> QED
            BY <3>1, <3>2
    <2> HIDE DEF b
    <2> QED
        BY <1>1, <2>2, <2>4, CarriesPut
<1>8. CASE ContinueRecord
    <2> DEFINE h  == This.records[record].height
               f  == frame + 1
               fr == ContinuationFrame(group, h, f)
               b  == RecordAt(fr.used)
               k  == Cardinality(Path(group))
               bs == frames'[f].blocks
    <2>1. step = "records" /\ record <= Len(This.records)
        BY <1>8 DEF ContinueRecord
    <2>2. Puts(f, fr, b, h) /\ frames[f] = EmptyFrame
        BY <1>8, ContinueRecordPuts
    <2>3. b.record = record /\ b.group = group /\ b.height = h
        BY DEF RecordAt
    <2>4. AncestorsIn(groups, group) \cup {group} = Path(group)
        BY <2>1, PathIsTrue DEF AncestorsIn, TrueAncestors
    <2>5. group \in 1..Len(groups) /\ h \in Nat /\ f \in 1..Len(chain)
        <3>1. 0 \in Nat
            OBVIOUS
        <3> QED
            BY <2>1, <2>2, <3>1, RecordTyped DEF Puts
    <2>6. bs[Len(fr.blocks) + 1] = b /\ \A j \in 1..Len(fr.blocks) : bs[j] = fr.blocks[j]
        BY <1>3, <2>2
    <2>7. ASSUME opts.repeatHeader, groups[group].header # NoText
          PROVE  IF k * opts.headerHeight + h > chain[f] THEN Len(fr.blocks) = 0
                 ELSE /\ Len(fr.blocks) = k
                      /\ \A j \in 1..k : /\ bs[j].text = groups[InOrder(Path(group))[j]].header
                                         /\ bs[j].level = groups[InOrder(Path(group))[j]].level
        <3>1. \A p \in parents : IsParent(groups[p])
            BY DEF StackTrue
        <3>2. /\ k \in Nat /\ opts.headerHeight \in Nat /\ chain[f] \in Nat
              /\ k * opts.headerHeight \in Nat
            <4>1. k \in Nat
                <5> HIDE DEF h, f, fr, b, bs
                <5> QED
                    BY <2>5, <2>7, <3>1, PathTyped
            <4>2. opts.headerHeight \in Nat /\ chain[f] \in Nat
                <5> HIDE DEF k, h, fr, b, bs
                <5> QED
                    BY <2>5, LayoutTypes
            <4> DEFINE hh == opts.headerHeight
            <4>3. hh \in Nat
                BY <4>2
            <4> HIDE DEF k, h, f, fr, b, bs, hh
            <4>4. k * hh \in Nat
                BY <4>1, <4>3
            <4> QED
                BY <4>1, <4>2, <4>4 DEF hh
        <3>3. RoomForPath(group, h, f) <=> ~(k * opts.headerHeight + h > chain[f])
            <4> HIDE DEF h, f, fr, b, bs
            <4>1. RoomForPath(group, h, f) <=> k * opts.headerHeight + h <= chain[f]
                BY <2>7 DEF RoomForPath
            <4> DEFINE kh == k * opts.headerHeight
            <4>2. kh \in Nat
                BY <3>2
            <4> HIDE DEF k, kh
            <4>3. kh + h <= chain[f] <=> ~(kh + h > chain[f])
                BY <2>5, <3>2, <4>2
            <4> QED
                BY <4>1, <4>3 DEF kh
        <3>4. CASE RoomForPath(group, h, f)
            <4>1. fr.blocks = PathBlocks(group)
                BY <3>4 DEF ContinuationFrame
            <4>2. /\ Len(PathBlocks(group)) = k
                  /\ \A i \in 1..k :
                        /\ PathBlocks(group)[i].text = groups[InOrder(Path(group))[i]].header
                        /\ PathBlocks(group)[i].level = groups[InOrder(Path(group))[i]].level
                BY <2>5, <2>7, <3>1, PathBlocksTyped
            <4> HIDE DEF k, bs, fr
            <4> QED
                BY <2>6, <3>3, <3>4, <4>1, <4>2
        <3>5. CASE ~RoomForPath(group, h, f)
            <4>1. fr = EmptyFrame
                BY <2>2, <3>5 DEF ContinuationFrame
            <4>2. Len(fr.blocks) = 0
                BY <4>1 DEF EmptyFrame
            <4> HIDE DEF k, bs, fr
            <4> QED
                BY <3>3, <3>5, <4>2
        <3> QED
            BY <3>4, <3>5
    <2>8. Len(fr.blocks) \in Nat
        BY <1>3, <2>2
    <2>9. ASSUME opts.repeatHeader
          PROVE  Carries(groups, opts, chain[f], bs, Len(fr.blocks) + 1)
        <3> DEFINE m == Len(fr.blocks)
        <3>1. bs[m + 1].group = group /\ bs[m + 1].height = h
            BY <2>3, <2>6
        <3>2. m \in Nat /\ (m + 1) - 1 = m
            BY <2>8
        <3>3. groups[group].header # NoText =>
                IF k * opts.headerHeight + h > chain[f] THEN m + 1 = 1
                ELSE /\ m + 1 = k + 1
                     /\ \A j \in 1..m : /\ bs[j].text = groups[InOrder(Path(group))[j]].header
                                        /\ bs[j].level = groups[InOrder(Path(group))[j]].level
            <4> HIDE DEF k, bs, fr, f, h
            <4> QED
                BY <2>7, <2>9
        <3> HIDE DEF k, bs, fr, f, h, m
        <3>4. groups[group].header # NoText =>
                IF Cardinality(AncestorsIn(groups, group) \cup {group}) * opts.headerHeight + h > chain[f]
                THEN m + 1 = 1
                ELSE /\ m + 1 = Cardinality(AncestorsIn(groups, group) \cup {group}) + 1
                     /\ \A j \in 1..((m + 1) - 1) :
                          /\ bs[j].text = groups[InOrder(AncestorsIn(groups, group) \cup {group})[j]].header
                          /\ bs[j].level = groups[InOrder(AncestorsIn(groups, group) \cup {group})[j]].level
            BY <2>4, <3>2, <3>3 DEF k
        <3>5. Carries(groups, opts, chain[f], bs, m + 1)
            BY <3>1, <3>4 DEF Carries
        <3> QED
            BY <3>5 DEF m
    <2> HIDE DEF h, f, fr, b, k
    <2> QED
        BY <1>1, <2>2, <2>9, CarriesPut
<1> QED
    BY <1>2, <1>4, <1>5, <1>6, <1>7, <1>8 DEF LayoutNext, Quiet

-----------------------------------------------------------------------------
(* The records on the frames.                                              *)

\* RecordsTrue and its parts, over frames F, records R of the flow, and count n.
RecordIn(F, p) == <<BlockIn(F, p).group, BlockIn(F, p).record>>
PlacedIn(F) == {RecordIn(F, p) : p \in RecordsIn(F)}

RecordsTrueIn(F, R, n) ==
    /\ IsFiniteSet(RecordsIn(F))
    /\ n = Cardinality(RecordsIn(F))
    /\ \A p \in RecordsIn(F) : RecordIn(F, p) \in R
    /\ \A p, q \in RecordsIn(F) : Earlier(p, q) => Earlier(RecordIn(F, p), RecordIn(F, q))
    /\ \A p \in RecordsIn(F), r \in R : Earlier(r, RecordIn(F, p)) => r \in PlacedIn(F)

LEMMA RecordsRestated ==
    /\ RecordPlaces = RecordsIn(frames) /\ PlacedRecords = PlacedIn(frames)
    /\ RecordsTrue <=> RecordsTrueIn(frames, FlowRecords, placed)
    /\ RecordPlaces' = RecordsIn(frames') /\ PlacedRecords' = PlacedIn(frames')
    /\ RecordsTrue' <=> RecordsTrueIn(frames', FlowRecords', placed')
<1>1. RecordPlaces = RecordsIn(frames) /\ PlacedRecords = PlacedIn(frames)
    BY DEF RecordPlaces, RecordsIn, Places, PlacesIn, BlockAt, BlockIn, PlacedRecords, PlacedIn,
           RecordOf, RecordIn
<1>2. RecordPlaces' = RecordsIn(frames') /\ PlacedRecords' = PlacedIn(frames')
    BY DEF RecordPlaces, RecordsIn, Places, PlacesIn, BlockAt, BlockIn, PlacedRecords, PlacedIn,
           RecordOf, RecordIn
<1>3. /\ \A p : RecordOf(p) = RecordIn(frames, p)
      /\ \A p : RecordOf(p)' = RecordIn(frames', p)
    BY DEF RecordOf, RecordIn, BlockAt, BlockIn
<1>4. RecordsTrue <=> RecordsTrueIn(frames, FlowRecords, placed)
    BY <1>1, <1>3 DEF RecordsTrue, RecordsTrueIn
<1>5. RecordsTrue' <=> RecordsTrueIn(frames', FlowRecords', placed')
    BY <1>2, <1>3 DEF RecordsTrue, RecordsTrueIn
<1> QED
    BY <1>1, <1>2, <1>4, <1>5

\* Places are pairs of numbers.
LEMMA PlacesPaired ==
    ASSUME NEW k \in Nat, NEW F \in [1..k -> PaginatedFrame], NEW p \in PlacesIn(F)
    PROVE  p[1] \in Nat /\ p[2] \in Nat /\ p = <<p[1], p[2]>>
<1>1. PICK f \in 1..k : \E i \in 1..Len(F[f].blocks) : p = <<f, i>>
    BY BlocksOf
<1>2. PICK i \in 1..Len(F[f].blocks) : p = <<f, i>>
    BY <1>1
<1>3. Len(F[f].blocks) \in Nat
    BY DEF PaginatedFrame
<1> QED
    BY <1>2, <1>3

\* A header or a footer changes none of it.
LEMMA OtherTaken ==
    ASSUME NEW k \in Nat, NEW F \in [1..k -> PaginatedFrame], NEW E, NEW f \in 1..k,
           NEW fr \in PaginatedFrame, NEW b \in FlowBlock, Takes(F, f, fr, b, E),
           b.block # "record"
    PROVE  /\ RecordsIn(E) = RecordsIn(F) /\ PlacedIn(E) = PlacedIn(F)
           /\ \A p \in RecordsIn(F) : RecordIn(E, p) = RecordIn(F, p)
<1>0. PICK new : new = <<f, Len(fr.blocks) + 1>>
    OBVIOUS
<1>1. NewPlace(F, E, new, b)
    BY <1>0, PlacesAfter
<1>2. RecordsIn(E) = RecordsIn(F)
    BY <1>1 DEF NewPlace, RecordsIn
<1>3. \A p \in RecordsIn(F) : RecordIn(E, p) = RecordIn(F, p)
    BY <1>1 DEF NewPlace, RecordsIn, RecordIn
<1> QED
    BY <1>2, <1>3 DEF PlacedIn

\* A record adds itself, behind the others.
NewRecord(F, E, new, y) ==
    /\ RecordsIn(E) = RecordsIn(F) \cup {new} /\ new \notin RecordsIn(F)
    /\ \A p \in RecordsIn(F) : RecordIn(E, p) = RecordIn(F, p) /\ Earlier(p, new)
    /\ RecordIn(E, new) = y
    /\ PlacedIn(E) = PlacedIn(F) \cup {y}

LEMMA RecordTaken ==
    ASSUME NEW k \in Nat, NEW F \in [1..k -> PaginatedFrame], NEW E, NEW f \in 1..k,
           NEW fr \in PaginatedFrame, NEW b \in FlowBlock, Takes(F, f, fr, b, E),
           b.block = "record", NEW new, new = <<f, Len(fr.blocks) + 1>>
    PROVE  NewRecord(F, E, new, <<b.group, b.record>>)
<1>1. NewPlace(F, E, new, b)
    BY PlacesAfter
<1>2. RecordsIn(E) = RecordsIn(F) \cup {new} /\ new \notin RecordsIn(F)
    BY <1>1 DEF NewPlace, RecordsIn
<1>3. \A p \in RecordsIn(F) : RecordIn(E, p) = RecordIn(F, p) /\ Earlier(p, new)
    BY <1>1 DEF NewPlace, RecordsIn, RecordIn
<1>4. RecordIn(E, new) = <<b.group, b.record>>
    BY <1>1 DEF NewPlace, RecordIn
<1>5. PlacedIn(E) = PlacedIn(F) \cup {<<b.group, b.record>>}
    <2>1. {RecordIn(E, p) : p \in RecordsIn(F)} = {RecordIn(F, p) : p \in RecordsIn(F)}
        BY <1>3
    <2>2. {RecordIn(E, p) : p \in RecordsIn(E)}
            = {RecordIn(E, p) : p \in RecordsIn(F)} \cup {RecordIn(E, new)}
        BY <1>2
    <2> QED
        BY <1>4, <2>1, <2>2 DEF PlacedIn
<1> QED
    BY <1>2, <1>3, <1>4, <1>5 DEF NewRecord

\* The next record of the flow keeps the records true.
LEMMA NextTaken ==
    ASSUME NEW k \in Nat, NEW F \in [1..k -> PaginatedFrame], NEW E, NEW f \in 1..k,
           NEW fr \in PaginatedFrame, NEW b \in FlowBlock, Takes(F, f, fr, b, E),
           b.block = "record", NEW R, NEW n, RecordsTrueIn(F, R, n),
           <<b.group, b.record>> \in R,
           PlacedIn(F) = {x \in R : Earlier(x, <<b.group, b.record>>)}
    PROVE  RecordsTrueIn(E, R, n + 1)
<1> DEFINE y == <<b.group, b.record>>
<1>0. PICK new : new = <<f, Len(fr.blocks) + 1>>
    OBVIOUS
<1>1a. NewRecord(F, E, new, <<b.group, b.record>>)
    BY <1>0, RecordTaken
<1>1. /\ RecordsIn(E) = RecordsIn(F) \cup {new} /\ new \notin RecordsIn(F)
      /\ \A p \in RecordsIn(F) : RecordIn(E, p) = RecordIn(F, p) /\ Earlier(p, new)
      /\ RecordIn(E, new) = y
      /\ PlacedIn(E) = PlacedIn(F) \cup {y}
    BY <1>1a DEF NewRecord
<1>2. /\ IsFiniteSet(RecordsIn(F)) /\ n = Cardinality(RecordsIn(F))
      /\ \A p \in RecordsIn(F) : RecordIn(F, p) \in R
      /\ \A p, q \in RecordsIn(F) : Earlier(p, q) => Earlier(RecordIn(F, p), RecordIn(F, q))
      /\ \A p \in RecordsIn(F), r \in R : Earlier(r, RecordIn(F, p)) => r \in PlacedIn(F)
    BY DEF RecordsTrueIn
<1>3. \A p \in RecordsIn(F) : ~Earlier(new, p)
    <2> SUFFICES ASSUME NEW p \in RecordsIn(F) PROVE ~Earlier(new, p)
        OBVIOUS
    <2>1. p[1] \in Nat /\ p[2] \in Nat
        BY PlacesPaired DEF RecordsIn
    <2>2. Earlier(p, new)
        BY <1>1
    <2>3. Len(fr.blocks) \in Nat /\ f \in Nat
        BY DEF PaginatedFrame
    <2> QED
        BY <1>0, <2>1, <2>2, <2>3 DEF Earlier
<1>4. ~Earlier(new, new)
    <2>1. Len(fr.blocks) \in Nat /\ f \in Nat
        BY DEF PaginatedFrame
    <2> QED
        BY <1>0, <2>1 DEF Earlier
<1>5. \A p \in RecordsIn(F) : Earlier(RecordIn(F, p), y)
    BY DEF PlacedIn
<1> HIDE DEF y
<1>6. IsFiniteSet(RecordsIn(E)) /\ n + 1 = Cardinality(RecordsIn(E))
    BY <1>1, <1>2, FS_AddElement
<1>7. \A p \in RecordsIn(E) : RecordIn(E, p) \in R
    BY <1>1, <1>2 DEF y
<1>8. \A p, q \in RecordsIn(E) : Earlier(p, q) => Earlier(RecordIn(E, p), RecordIn(E, q))
    <2> SUFFICES ASSUME NEW p \in RecordsIn(E), NEW q \in RecordsIn(E), Earlier(p, q)
                 PROVE  Earlier(RecordIn(E, p), RecordIn(E, q))
        OBVIOUS
    <2>1. p \in RecordsIn(F)
        BY <1>1, <1>3, <1>4
    <2>2. CASE q = new
        BY <1>1, <1>5, <2>1, <2>2
    <2>3. CASE q \in RecordsIn(F)
        BY <1>1, <1>2, <2>1, <2>3
    <2> QED
        BY <1>1, <2>2, <2>3
<1>9. \A p \in RecordsIn(E), r \in R : Earlier(r, RecordIn(E, p)) => r \in PlacedIn(E)
    <2> SUFFICES ASSUME NEW p \in RecordsIn(E), NEW r \in R, Earlier(r, RecordIn(E, p))
                 PROVE  r \in PlacedIn(F)
        BY <1>1
    <2>1. CASE p = new
        BY <1>1, <2>1 DEF y
    <2>2. CASE p \in RecordsIn(F)
        BY <1>1, <1>2, <2>2
    <2> QED
        BY <1>1, <2>1, <2>2
<1> QED
    BY <1>6, <1>7, <1>8, <1>9 DEF RecordsTrueIn

-----------------------------------------------------------------------------
(* Headers and footers, once placed, stay.                                 *)

LEMMA TitlesTaken ==
    ASSUME NEW k \in Nat, NEW F \in [1..k -> PaginatedFrame], NEW E, NEW f \in 1..k,
           NEW fr \in PaginatedFrame, NEW b \in FlowBlock, Takes(F, f, fr, b, E), NEW G
    PROVE  /\ \A n : HeaderIn(F, G, n) => HeaderIn(E, G, n)
           /\ \A n : FooterIn(F, G, n) => FooterIn(E, G, n)
           /\ \A n : b.block = "header" /\ b.text = G[n].header /\ ~b.continued => HeaderIn(E, G, n)
           /\ \A n : b.block = "footer" /\ b.group = n => FooterIn(E, G, n)
<1>0. PICK new : new = <<f, Len(fr.blocks) + 1>>
    OBVIOUS
<1>1. NewPlace(F, E, new, b)
    BY <1>0, PlacesAfter
<1>2. \A n : HeaderIn(F, G, n) => HeaderIn(E, G, n)
    <2> SUFFICES ASSUME NEW n, HeaderIn(F, G, n), G[n].header # NoText
                 PROVE  \E p \in PlacesIn(E) : /\ BlockIn(E, p).block = "header"
                                               /\ BlockIn(E, p).text = G[n].header
                                               /\ ~BlockIn(E, p).continued
        BY DEF HeaderIn
    <2>1. PICK p \in PlacesIn(F) : /\ BlockIn(F, p).block = "header"
                                   /\ BlockIn(F, p).text = G[n].header
                                   /\ ~BlockIn(F, p).continued
        BY DEF HeaderIn
    <2>2. p \in PlacesIn(E) /\ BlockIn(E, p) = BlockIn(F, p)
        BY <1>1 DEF NewPlace
    <2> QED
        BY <2>1, <2>2
<1>3. \A n : FooterIn(F, G, n) => FooterIn(E, G, n)
    <2> SUFFICES ASSUME NEW n, FooterIn(F, G, n), G[n].footer # NoFooter
                 PROVE  \E p \in PlacesIn(E) : BlockIn(E, p).block = "footer" /\ BlockIn(E, p).group = n
        BY DEF FooterIn
    <2>1. PICK p \in PlacesIn(F) : BlockIn(F, p).block = "footer" /\ BlockIn(F, p).group = n
        BY DEF FooterIn
    <2>2. p \in PlacesIn(E) /\ BlockIn(E, p) = BlockIn(F, p)
        BY <1>1 DEF NewPlace
    <2> QED
        BY <2>1, <2>2
<1>4. \A n : b.block = "header" /\ b.text = G[n].header /\ ~b.continued => HeaderIn(E, G, n)
    BY <1>1 DEF NewPlace, HeaderIn
<1>5. \A n : b.block = "footer" /\ b.group = n => FooterIn(E, G, n)
    BY <1>1 DEF NewPlace, FooterIn
<1> QED
    BY <1>2, <1>3, <1>4, <1>5

\* What a step that places a block does to records, headers and footers.
LEMMA PutsRecords ==
    ASSUME LayoutTypeOK, AheadEmpty, groups' = groups, chain' = chain,
           NEW f, NEW fr, NEW b, NEW h, Puts(f, fr, b, h)
    PROVE  /\ \A n : HeaderIn(frames, groups, n) => HeaderIn(frames', groups', n)
           /\ \A n : FooterIn(frames, groups, n) => FooterIn(frames', groups', n)
           /\ \A n : b.block = "header" /\ b.text = groups[n].header /\ ~b.continued
                 => HeaderIn(frames', groups', n)
           /\ \A n : b.block = "footer" /\ b.group = n => FooterIn(frames', groups', n)
           /\ b.block # "record" /\ placed' = placed /\ RecordsTrue =>
                RecordsTrue' /\ PlacedRecords' = PlacedRecords
           /\ /\ b.block = "record" /\ placed' = placed + 1 /\ RecordsTrue
              /\ <<b.group, b.record>> \in FlowRecords
              /\ PlacedRecords = {x \in FlowRecords : Earlier(x, <<b.group, b.record>>)}
              => RecordsTrue' /\ PlacedRecords' = PlacedRecords \cup {<<b.group, b.record>>}
<1>1. /\ Len(chain) \in Nat /\ frames \in [1..Len(chain) -> PaginatedFrame]
      /\ f \in 1..Len(chain) /\ fr \in PaginatedFrame /\ b \in FlowBlock
    BY LayoutTypes DEF Puts
<1>2. Takes(frames, f, fr, b, frames')
    BY PutsFrames
<1>3. FlowRecords' = FlowRecords
    BY DEF FlowRecords
<1>4. /\ \A n : HeaderIn(frames, groups, n) => HeaderIn(frames', groups, n)
      /\ \A n : FooterIn(frames, groups, n) => FooterIn(frames', groups, n)
      /\ \A n : b.block = "header" /\ b.text = groups[n].header /\ ~b.continued =>
                    HeaderIn(frames', groups, n)
      /\ \A n : b.block = "footer" /\ b.group = n => FooterIn(frames', groups, n)
    BY <1>1, <1>2, TitlesTaken
<1>5. /\ \A n : HeaderIn(frames, groups, n) => HeaderIn(frames', groups', n)
      /\ \A n : FooterIn(frames, groups, n) => FooterIn(frames', groups', n)
      /\ \A n : b.block = "header" /\ b.text = groups[n].header /\ ~b.continued
            => HeaderIn(frames', groups', n)
      /\ \A n : b.block = "footer" /\ b.group = n => FooterIn(frames', groups', n)
    BY <1>4
<1>6. ASSUME b.block # "record", placed' = placed, RecordsTrue
      PROVE  RecordsTrue' /\ PlacedRecords' = PlacedRecords
    <2>1. /\ RecordsIn(frames') = RecordsIn(frames) /\ PlacedIn(frames') = PlacedIn(frames)
          /\ \A p \in RecordsIn(frames) : RecordIn(frames', p) = RecordIn(frames, p)
        BY <1>1, <1>2, <1>6, OtherTaken
    <2>2. RecordsTrueIn(frames, FlowRecords, placed)
        BY <1>6, RecordsRestated
    <2>3. RecordsTrueIn(frames', FlowRecords, placed)
        BY <2>1, <2>2 DEF RecordsTrueIn
    <2> QED
        BY <1>3, <1>6, <2>1, <2>3, RecordsRestated
<1>7. ASSUME b.block = "record", placed' = placed + 1, RecordsTrue,
             <<b.group, b.record>> \in FlowRecords,
             PlacedRecords = {x \in FlowRecords : Earlier(x, <<b.group, b.record>>)}
      PROVE  RecordsTrue' /\ PlacedRecords' = PlacedRecords \cup {<<b.group, b.record>>}
    <2>1. RecordsTrueIn(frames, FlowRecords, placed)
        BY <1>7, RecordsRestated
    <2>2. PlacedIn(frames) = {x \in FlowRecords : Earlier(x, <<b.group, b.record>>)}
        BY <1>7, RecordsRestated
    <2>3. RecordsTrueIn(frames', FlowRecords, placed + 1)
        BY <1>1, <1>2, <1>7, <2>1, <2>2, NextTaken
    <2>4. PICK new : new = <<f, Len(fr.blocks) + 1>>
        OBVIOUS
    <2>5. NewRecord(frames, frames', new, <<b.group, b.record>>)
        BY <1>1, <1>2, <1>7, <2>4, RecordTaken
    <2>6. PlacedIn(frames') = PlacedIn(frames) \cup {<<b.group, b.record>>}
        BY <2>5 DEF NewRecord
    <2> QED
        BY <1>3, <1>7, <2>3, <2>6, RecordsRestated
<1> QED
    BY <1>5, <1>6, <1>7

-----------------------------------------------------------------------------
(* What the loop has passed.                                               *)

LEMMA FlowRecordTyped ==
    ASSUME LayoutTypeOK
    PROVE  /\ \A x \in FlowRecords : /\ x[1] \in 1..Len(groups) /\ x[1] \in Nat
                                     /\ x[2] \in 1..Len(groups[x[1]].records) /\ x[2] \in Nat
                                     /\ x = <<x[1], x[2]>>
           /\ \A n \in 1..Len(groups) : \A r \in 1..Len(groups[n].records) : <<n, r>> \in FlowRecords
<1>1. ASSUME NEW x \in FlowRecords
      PROVE  /\ x[1] \in 1..Len(groups) /\ x[1] \in Nat
             /\ x[2] \in 1..Len(groups[x[1]].records) /\ x[2] \in Nat
             /\ x = <<x[1], x[2]>>
    <2>1. PICK n \in DOMAIN groups : x \in {<<n, r>> : r \in DOMAIN groups[n].records}
        BY DEF FlowRecords
    <2>2. PICK r \in DOMAIN groups[n].records : x = <<n, r>>
        BY <2>1
    <2>3. n \in 1..Len(groups) /\ r \in 1..Len(groups[n].records) /\ n \in Nat /\ r \in Nat
        BY <2>1, <2>2, LayoutTypes
    <2> QED
        BY <2>2, <2>3
<1>2. ASSUME NEW n \in 1..Len(groups), NEW r \in 1..Len(groups[n].records)
      PROVE  <<n, r>> \in FlowRecords
    BY LayoutTypes DEF FlowRecords
<1> QED
    BY <1>1, <1>2

LEMMA QuietKeeps ==
    ASSUME groups' = groups, frames' = frames, placed' = placed, RecordsTrue
    PROVE  /\ RecordsTrue' /\ PlacedRecords' = PlacedRecords
           /\ \A n : HeaderIn(frames', groups', n) <=> HeaderIn(frames, groups, n)
           /\ \A n : FooterIn(frames', groups', n) <=> FooterIn(frames, groups, n)
<1>1. FlowRecords' = FlowRecords
    BY DEF FlowRecords
<1>2. RecordsTrue' /\ PlacedRecords' = PlacedRecords
    BY <1>1, RecordsRestated
<1>3. \A n : HeaderIn(frames', groups', n) <=> HeaderIn(frames, groups, n)
    OBVIOUS
<1>4. \A n : FooterIn(frames', groups', n) <=> FooterIn(frames, groups, n)
    OBVIOUS
<1> QED
    BY <1>2, <1>3, <1>4

\* The set of records passed, before and after the moves of the loop.
LEMMA PassedMoves ==
    ASSUME LayoutTypeOK, groups' = groups
    PROVE  /\ step = "header" /\ step' = "records" /\ group' = group /\ record' = 1
              => Passed' = Passed
           /\ step = "records" /\ step' = "footer" /\ group' = group /\ record' = record
              => Passed' = Passed
           /\ step = "footer" /\ step' = "header" /\ group' = group + 1
              /\ record = Len(groups[group].records) + 1 => Passed' = Passed
           /\ step = "records" /\ record <= Len(This.records) =>
                /\ Passed = {x \in FlowRecords : Earlier(x, <<group, record>>)}
                /\ <<group, record>> \in FlowRecords
                /\ step' = "records" /\ group' = group /\ record' = record + 1
                   => Passed' = Passed \cup {<<group, record>>}
           /\ step = "header" /\ group > Len(groups) => Passed = FlowRecords
<1>1. FlowRecords' = FlowRecords
    BY DEF FlowRecords
<1>2. Passed' = {x \in FlowRecords : x[1] < group' \/ (InSection' /\ x[1] = group' /\ x[2] < record')}
    BY <1>1 DEF Passed
<1>3. /\ \A x \in FlowRecords : /\ x[1] \in 1..Len(groups) /\ x[1] \in Nat
                                /\ x[2] \in 1..Len(groups[x[1]].records) /\ x[2] \in Nat
                                /\ x = <<x[1], x[2]>>
      /\ \A n \in 1..Len(groups) : \A r \in 1..Len(groups[n].records) : <<n, r>> \in FlowRecords
    BY FlowRecordTyped
<1>4. group \in Nat /\ record \in Nat \ {0} /\ group \in 1..(Len(groups) + 1) /\ Len(groups) \in Nat
    BY LayoutTypes DEF LayoutTypeOK
<1>5. ASSUME step = "header", step' = "records", group' = group, record' = 1
      PROVE  Passed' = Passed
    <2>1. ~InSection
        BY <1>5 DEF InSection
    <2>2. \A x \in FlowRecords : ~(x[2] < record')
        BY <1>3, <1>5
    <2> QED
        BY <1>2, <1>5, <2>1, <2>2 DEF Passed
<1>6. ASSUME step = "records", step' = "footer", group' = group, record' = record
      PROVE  Passed' = Passed
    <2>1. InSection /\ InSection'
        BY <1>6 DEF InSection
    <2> QED
        BY <1>2, <1>6, <2>1 DEF Passed
<1>7. ASSUME step = "footer", step' = "header", group' = group + 1,
             record = Len(groups[group].records) + 1
      PROVE  Passed' = Passed
    <2>1. InSection /\ ~InSection'
        BY <1>7 DEF InSection
    <2>2. \A x \in FlowRecords : x[1] < group + 1 <=> x[1] < group \/ x[1] = group
        BY <1>3, <1>4
    <2>3. \A x \in FlowRecords : x[1] = group => x[2] < record
        <3> SUFFICES ASSUME NEW x \in FlowRecords, x[1] = group PROVE x[2] < record
            OBVIOUS
        <3>1. x[2] \in 1..Len(groups[group].records) /\ Len(groups[group].records) \in Nat
            BY <1>3, LayoutTypes
        <3> QED
            BY <1>7, <3>1
    <2> QED
        BY <1>2, <1>7, <2>1, <2>2, <2>3 DEF Passed
<1>8. ASSUME step = "records", record <= Len(This.records)
      PROVE  /\ Passed = {x \in FlowRecords : Earlier(x, <<group, record>>)}
             /\ <<group, record>> \in FlowRecords
             /\ step' = "records" /\ group' = group /\ record' = record + 1
                => Passed' = Passed \cup {<<group, record>>}
    <2>1. InSection
        BY <1>8 DEF InSection
    <2>2. Passed = {x \in FlowRecords : Earlier(x, <<group, record>>)}
        BY <2>1 DEF Passed, Earlier
    <2>3. <<group, record>> \in FlowRecords
        <3>1. 0 \in Nat
            OBVIOUS
        <3>2. group \in 1..Len(groups) /\ record \in 1..Len(groups[group].records)
            BY <1>8, <3>1, RecordTyped DEF This
        <3> QED
            BY <1>3, <3>2
    <2>4. ASSUME step' = "records", group' = group, record' = record + 1
          PROVE  Passed' = Passed \cup {<<group, record>>}
        <3>1. InSection'
            BY <2>4 DEF InSection
        <3>2. \A x \in FlowRecords : x[2] < record + 1 <=> x[2] < record \/ x[2] = record
            BY <1>3, <1>4
        <3>3. \A x \in FlowRecords : x[1] = group /\ x[2] = record <=> x = <<group, record>>
            BY <1>3
        <3> QED
            BY <1>2, <2>1, <2>3, <2>4, <3>1, <3>2, <3>3 DEF Passed
    <2> QED
        BY <2>2, <2>3, <2>4
<1>9. ASSUME step = "header", group > Len(groups)
      PROVE  Passed = FlowRecords
    <2>1. \A x \in FlowRecords : x[1] < group
        BY <1>3, <1>4, <1>9
    <2> QED
        BY <2>1 DEF Passed
<1> QED
    BY <1>5, <1>6, <1>7, <1>8, <1>9

LEMMA PassedStep ==
    ASSUME LayoutTypeOK, AheadEmpty, StackTrue, RecordsTrue, PassedPlaced, LayoutNext
    PROVE  RecordsTrue' /\ PassedPlaced'
<1>1. groups' = groups /\ chain' = chain
    BY Moves
<1>2. /\ Len(groups) \in Nat /\ DOMAIN groups = 1..Len(groups)
      /\ group \in Nat /\ group \in 1..(Len(groups) + 1) /\ record \in Nat \ {0}
      /\ \A n \in DOMAIN groups : n \in Nat /\ (n < group + 1 <=> n < group \/ n = group)
    BY LayoutTypes DEF LayoutTypeOK
<1>3. /\ Running => PlacedRecords = Passed /\ ~overflow
      /\ step = "footer" => record = Len(groups[group].records) + 1
      /\ Running => \A n \in DOMAIN groups : n < group =>
               HeaderIn(frames, groups, n) /\ FooterIn(frames, groups, n)
      /\ InSection => HeaderIn(frames, groups, group)
    BY DEF PassedPlaced
<1>4. ASSUME Quiet
      PROVE  /\ RecordsTrue' /\ PlacedRecords' = PlacedRecords
             /\ \A n : HeaderIn(frames', groups', n) <=> HeaderIn(frames, groups, n)
             /\ \A n : FooterIn(frames', groups', n) <=> FooterIn(frames, groups, n)
    BY <1>1, <1>4, Moves, QuietKeeps
\* A section opens.
<1>5. ASSUME step = "header", step' = "records", group' = group, record' = 1, overflow' = overflow,
             RecordsTrue', PlacedRecords' = PlacedRecords,
             \A n : HeaderIn(frames, groups, n) => HeaderIn(frames', groups', n),
             \A n : FooterIn(frames, groups, n) => FooterIn(frames', groups', n),
             HeaderIn(frames', groups', group)
      PROVE  RecordsTrue' /\ PassedPlaced'
    <2>1. Running /\ Running' /\ InSection' /\ step' # "footer" /\ step' # "done"
        BY <1>5 DEF Running, InSection
    <2>2. Passed' = Passed
        BY <1>1, <1>5, PassedMoves
    <2>3. PlacedRecords' = Passed' /\ ~overflow'
        BY <1>3, <1>5, <2>1, <2>2
    <2>4. \A n \in DOMAIN groups' : n < group' =>
             HeaderIn(frames', groups', n) /\ FooterIn(frames', groups', n)
        BY <1>1, <1>3, <1>5, <2>1
    <2>5. HeaderIn(frames', groups', group')
        BY <1>5
    <2> QED
        BY <1>5, <2>1, <2>3, <2>4, <2>5 DEF PassedPlaced
\* A section closes.
<1>6. ASSUME step = "footer", step' = "header", group' = group + 1, overflow' = overflow,
             RecordsTrue', PlacedRecords' = PlacedRecords,
             \A n : HeaderIn(frames, groups, n) => HeaderIn(frames', groups', n),
             \A n : FooterIn(frames, groups, n) => FooterIn(frames', groups', n),
             FooterIn(frames', groups', group)
      PROVE  RecordsTrue' /\ PassedPlaced'
    <2>1. Running /\ InSection /\ Running' /\ ~InSection' /\ step' # "footer" /\ step' # "done"
        BY <1>6 DEF Running, InSection
    <2>2. Passed' = Passed
        BY <1>1, <1>3, <1>6, PassedMoves
    <2>3. PlacedRecords' = Passed' /\ ~overflow'
        BY <1>3, <1>6, <2>1, <2>2
    <2>4. \A n \in DOMAIN groups' : n < group' =>
             HeaderIn(frames', groups', n) /\ FooterIn(frames', groups', n)
        BY <1>1, <1>2, <1>3, <1>6, <2>1
    <2> QED
        BY <1>6, <2>1, <2>3, <2>4 DEF PassedPlaced
\* A record is placed.
<1>7. ASSUME step = "records", record <= Len(This.records), step' = step, group' = group,
             record' = record + 1, overflow' = overflow, placed' = placed + 1,
             NEW f, NEW fr, NEW b, NEW h, Puts(f, fr, b, h),
             b.block = "record", b.group = group, b.record = record
      PROVE  RecordsTrue' /\ PassedPlaced'
    <2>1. Running /\ InSection /\ Running' /\ InSection' /\ step' # "footer" /\ step' # "done"
        BY <1>7 DEF Running, InSection
    <2>2. /\ Passed = {x \in FlowRecords : Earlier(x, <<group, record>>)}
          /\ <<group, record>> \in FlowRecords
          /\ Passed' = Passed \cup {<<group, record>>}
        BY <1>1, <1>7, PassedMoves
    <2>3. /\ \A n : HeaderIn(frames, groups, n) => HeaderIn(frames', groups', n)
          /\ \A n : FooterIn(frames, groups, n) => FooterIn(frames', groups', n)
        BY <1>1, <1>7, PutsRecords
    <2>4. PlacedRecords = {x \in FlowRecords : Earlier(x, <<b.group, b.record>>)}
        BY <1>3, <1>7, <2>1, <2>2
    <2>5. <<b.group, b.record>> \in FlowRecords
        BY <1>7, <2>2
    <2>6. RecordsTrue' /\ PlacedRecords' = PlacedRecords \cup {<<b.group, b.record>>}
        BY <1>1, <1>7, <2>4, <2>5, PutsRecords
    <2>7. PlacedRecords' = Passed' /\ ~overflow'
        BY <1>3, <1>7, <2>1, <2>2, <2>6
    <2>8. \A n \in DOMAIN groups' : n < group' =>
             HeaderIn(frames', groups', n) /\ FooterIn(frames', groups', n)
        BY <1>1, <1>3, <1>7, <2>1, <2>3
    <2>9. HeaderIn(frames', groups', group')
        BY <1>3, <1>7, <2>1, <2>3
    <2> QED
        BY <2>1, <2>6, <2>7, <2>8, <2>9 DEF PassedPlaced
\* The chain runs out.
<1>8. ASSUME step' = "done", overflow' = TRUE, RecordsTrue'
      PROVE  RecordsTrue' /\ PassedPlaced'
    <2>1. ~Running' /\ ~InSection' /\ step' # "footer" /\ overflow'
        BY <1>8 DEF Running, InSection
    <2> QED
        BY <1>8, <2>1 DEF PassedPlaced
<1>9. CASE OpenUntitled
    <2>1. /\ step = "header" /\ step' = "records" /\ group' = group /\ record' = 1
          /\ overflow' = overflow /\ groups[group].header = NoText
        BY <1>9 DEF OpenUntitled, This
    <2>2. HeaderIn(frames, groups, group)
        BY <2>1 DEF HeaderIn
    <2> QED
        BY <1>4, <1>5, <1>9, <2>1, <2>2 DEF Quiet
<1>10. CASE OpenSection
    <2> DEFINE f == FrameFor(opts.headerHeight)
               b == Header(This.header, This.level, FALSE, frames[f].used)
    <2>1. /\ step = "header" /\ step' = "records" /\ group' = group /\ record' = 1
          /\ overflow' = overflow /\ placed' = placed
        BY <1>10 DEF OpenSection
    <2>2. /\ Puts(f, frames[f], b, opts.headerHeight)
          /\ b.block = "header" /\ b.text = groups[group].header /\ ~b.continued
        BY <1>10, OpenSectionPuts
    <2> HIDE DEF f, b
    <2>3. /\ \A n : HeaderIn(frames, groups, n) => HeaderIn(frames', groups', n)
          /\ \A n : FooterIn(frames, groups, n) => FooterIn(frames', groups', n)
          /\ HeaderIn(frames', groups', group)
        BY <1>1, <2>2, PutsRecords
    <2>4. RecordsTrue' /\ PlacedRecords' = PlacedRecords
        BY <1>1, <2>1, <2>2, PutsRecords
    <2> QED
        BY <1>5, <2>1, <2>3, <2>4
<1>11. CASE PlaceRecord
    <2> DEFINE b == RecordAt(frames[frame].used)
    <2>1. /\ step = "records" /\ record <= Len(This.records) /\ step' = step /\ group' = group
          /\ record' = record + 1 /\ overflow' = overflow /\ placed' = placed + 1
        BY <1>11 DEF PlaceRecord, Recorded
    <2>2. Puts(frame, frames[frame], b, This.records[record].height)
        BY <1>11, PlaceRecordPuts
    <2>3. b.block = "record" /\ b.group = group /\ b.record = record
        BY DEF RecordAt
    <2> HIDE DEF b
    <2> QED
        BY <1>7, <2>1, <2>2, <2>3
<1>12. CASE ContinueRecord
    <2> DEFINE h  == This.records[record].height
               fr == ContinuationFrame(group, h, frame + 1)
               b  == RecordAt(fr.used)
    <2>1. /\ step = "records" /\ record <= Len(This.records) /\ step' = step /\ group' = group
          /\ record' = record + 1 /\ overflow' = overflow /\ placed' = placed + 1
        BY <1>12 DEF ContinueRecord, Recorded
    <2>2. Puts(frame + 1, fr, b, h)
        BY <1>12, ContinueRecordPuts
    <2>3. b.block = "record" /\ b.group = group /\ b.record = record
        BY DEF RecordAt
    <2> HIDE DEF h, fr, b
    <2> QED
        BY <1>7, <2>1, <2>2, <2>3
<1>13. CASE NoRoomForHeader \/ NoRoomForRecord \/ NoRoomForFooter
    <2>1. step' = "done" /\ overflow' = TRUE
        BY <1>13 DEF NoRoomForHeader, NoRoomForRecord, NoRoomForFooter, RunOut
    <2> QED
        BY <1>4, <1>8, <1>13, <2>1 DEF Quiet
<1>14. CASE RecordsDone
    <2>1. /\ step = "records" /\ step' = "footer" /\ group' = group /\ record' = record
          /\ overflow' = overflow /\ record > Len(groups[group].records)
        BY <1>14 DEF RecordsDone, This
    <2>2. Running /\ InSection /\ Running' /\ InSection' /\ step' # "done"
        BY <2>1 DEF Running, InSection
    <2>3. record' = Len(groups[group].records) + 1
        <3>1. group \in 1..Len(groups) /\ record <= Len(groups[group].records) + 1
            BY <1>2, <2>1 DEF LayoutTypeOK
        <3>2. Len(groups[group].records) \in Nat
            BY <3>1, LayoutTypes
        <3> QED
            BY <1>2, <2>1, <3>1, <3>2
    <2>4. PlacedRecords' = Passed' /\ ~overflow'
        BY <1>1, <1>3, <1>4, <1>14, <2>1, <2>2, PassedMoves DEF Quiet
    <2>5. \A n \in DOMAIN groups' : n < group' =>
             HeaderIn(frames', groups', n) /\ FooterIn(frames', groups', n)
        BY <1>1, <1>3, <1>4, <1>14, <2>1, <2>2 DEF Quiet
    <2>6. RecordsTrue' /\ HeaderIn(frames', groups', group')
        BY <1>3, <1>4, <1>14, <2>1, <2>2 DEF Quiet
    <2>7. record' = Len(groups'[group'].records) + 1
        BY <1>1, <2>1, <2>3
    <2> QED
        BY <2>2, <2>4, <2>5, <2>6, <2>7 DEF PassedPlaced
<1>15. CASE SkipFooter
    <2>1. /\ step = "footer" /\ step' = "header" /\ group' = group + 1 /\ overflow' = overflow
          /\ groups[group].footer = NoFooter
        BY <1>15 DEF SkipFooter, This
    <2>2. FooterIn(frames, groups, group)
        BY <2>1 DEF FooterIn
    <2> QED
        BY <1>4, <1>6, <1>15, <2>1, <2>2 DEF Quiet
<1>16. CASE PlaceFooter
    <2> DEFINE f == FrameFor(This.footer)
               b == FooterAt(frames[f].used)
    <2>1. /\ step = "footer" /\ step' = "header" /\ group' = group + 1 /\ overflow' = overflow
          /\ placed' = placed
        BY <1>16 DEF PlaceFooter
    <2>2. Puts(f, frames[f], b, This.footer)
        BY <1>16, PlaceFooterPuts
    <2>3. b.block = "footer" /\ b.group = group
        BY DEF FooterAt
    <2> HIDE DEF f, b
    <2>4. /\ \A n : HeaderIn(frames, groups, n) => HeaderIn(frames', groups', n)
          /\ \A n : FooterIn(frames, groups, n) => FooterIn(frames', groups', n)
          /\ FooterIn(frames', groups', group)
        BY <1>1, <2>2, <2>3, PutsRecords
    <2>5. RecordsTrue' /\ PlacedRecords' = PlacedRecords
        BY <1>1, <2>1, <2>2, <2>3, PutsRecords
    <2> QED
        BY <1>6, <2>1, <2>4, <2>5
<1>17. CASE SectionsDone
    <2>1. /\ step = "header" /\ step' = "done" /\ group' = group /\ group > Len(groups)
          /\ overflow' = overflow
        BY <1>17 DEF SectionsDone
    <2>2. Running /\ ~Running' /\ ~InSection' /\ step' # "footer"
        BY <2>1 DEF Running, InSection
    <2>3. group' = Len(groups') + 1
        BY <1>1, <1>2, <2>1
    <2>4. Passed = FlowRecords /\ FlowRecords' = FlowRecords
        BY <1>1, <2>1, PassedMoves DEF FlowRecords
    <2>5. PlacedRecords' = FlowRecords'
        BY <1>3, <1>4, <1>17, <2>2, <2>4 DEF Quiet
    <2>6. \A n \in DOMAIN groups : n < group
        BY <1>2, <2>1
    <2>7. \A n \in DOMAIN groups' : HeaderIn(frames', groups', n) /\ FooterIn(frames', groups', n)
        BY <1>1, <1>3, <1>4, <1>17, <2>2, <2>6 DEF Quiet
    <2>8. RecordsTrue'
        BY <1>4, <1>17 DEF Quiet
    <2> QED
        BY <2>2, <2>3, <2>5, <2>7, <2>8 DEF PassedPlaced
<1> QED
    BY <1>9, <1>10, <1>11, <1>12, <1>13, <1>14, <1>15, <1>16, <1>17 DEF LayoutNext

-----------------------------------------------------------------------------
(* The start of a call, and the theorems.                                  *)

LEMMA NothingPlaced ==
    ASSUME NEW k \in Nat, NEW F \in [1..k -> PaginatedFrame], \A f \in 1..k : F[f] = EmptyFrame, NEW R
    PROVE  PlacedIn(F) = {} /\ RecordsTrueIn(F, R, 0)
<1>1. \A f \in 1..k : Len(F[f].blocks) = 0
    BY EmptySeq DEF EmptyFrame
<1>2. PlacesIn(F) = {}
    BY <1>1, BlocksOf
<1>3. RecordsIn(F) = {}
    BY <1>2 DEF RecordsIn
<1> QED
    BY <1>3, FS_EmptySet DEF PlacedIn, RecordsTrueIn

LEMMA LayoutInitInv ==
    ASSUME LayoutInit
    PROVE  LayoutInv
<1>1. /\ groups = <<>> /\ chain = <<>> /\ frames = <<>> /\ Len(chain) = 0 /\ Len(groups) = 0
      /\ group = 1 /\ record = 1 /\ frame = 1 /\ parents = {} /\ placed = 0 /\ step = "idle"
      /\ started = FALSE /\ overflow = FALSE
    BY EmptySeq DEF LayoutInit
<1>2. groups \in Seq(FlowGroup) /\ chain \in Seq(Nat) /\ frames \in Seq(PaginatedFrame)
    BY <1>1, EmptySeq
<1>3. opts \in FlowLayoutOpts
    BY DEF LayoutInit, FlowLayoutOpts
<1>4. LayoutTypeOK
    <2>1. started \in BOOLEAN /\ overflow \in BOOLEAN
        BY <1>1
    <2>2. parents \subseteq DOMAIN groups /\ step \in {"idle", "header", "records", "footer", "done"}
        BY <1>1
    <2>3. /\ group \in 1..(Len(groups) + 1) /\ record \in Nat \ {0} /\ frame \in Nat \ {0}
          /\ placed \in Nat /\ Len(frames) = Len(chain)
        BY <1>1
    <2>4. step # "records" /\ step \notin {"records", "footer"}
        BY <1>1
    <2> QED
        BY <1>2, <1>3, <2>1, <2>2, <2>3, <2>4 DEF LayoutTypeOK
<1>5. frames \in [1..Len(chain) -> PaginatedFrame] /\ Len(chain) \in Nat
    BY <1>4, LayoutTypes
<1>6. \A f \in 1..Len(chain) : FALSE
    BY <1>1
<1>7. RecordsTrue
    BY <1>1, <1>5, <1>6, NothingPlaced, RecordsRestated
<1>8. AheadEmpty /\ NonTallFits /\ ContextCarries
    BY <1>6 DEF AheadEmpty, NonTallFits, ContextCarries
<1>9. StackTrue /\ FrameStarted /\ PassedPlaced
    BY <1>1 DEF StackTrue, FrameStarted, PassedPlaced, Running, InSection
<1> QED
    BY <1>4, <1>7, <1>8, <1>9 DEF LayoutInv

LEMMA PaginateInv ==
    ASSUME NEW gs \in Seq(FlowGroup), NEW c \in Seq(Nat), NEW o \in FlowLayoutOpts, Paginate(gs, c, o)
    PROVE  LayoutInv'
<1>1. /\ groups' = gs /\ chain' = c /\ opts' = o /\ step' = "header"
      /\ group' = 1 /\ record' = 1 /\ frame' = 1 /\ parents' = {} /\ placed' = 0
      /\ started' = FALSE /\ overflow' = FALSE
      /\ frames' = [i \in 1..Len(c) |-> EmptyFrame]
    BY DEF Paginate
<1>2. Len(c) \in Nat /\ Len(gs) \in Nat /\ DOMAIN gs = 1..Len(gs)
    BY LenProperties
<1>3. EmptyFrame \in PaginatedFrame
    BY EmptySeq DEF EmptyFrame, PaginatedFrame
<1>4. frames' \in [1..Len(c) -> PaginatedFrame] /\ \A f \in 1..Len(c) : frames'[f] = EmptyFrame
    BY <1>1, <1>3
<1>5. frames' \in Seq(PaginatedFrame) /\ Len(frames') = Len(c)
    <2> DEFINE P == PaginatedFrame
               n == Len(c)
               fs == frames'
    <2>1. n \in Nat /\ fs \in [1..n -> P]
        BY <1>2, <1>4
    <2> HIDE DEF P, n, fs
    <2>2. fs \in Seq(P) /\ Len(fs) = n
        BY <2>1
    <2> QED
        BY <2>2 DEF P, n, fs
<1>6. LayoutTypeOK'
    <2>1. started' \in BOOLEAN /\ overflow' \in BOOLEAN
        BY <1>1
    <2>2. /\ parents' \subseteq DOMAIN groups'
          /\ step' \in {"idle", "header", "records", "footer", "done"}
        BY <1>1
    <2>3. /\ group' \in 1..(Len(groups') + 1) /\ record' \in Nat \ {0} /\ frame' \in Nat \ {0}
          /\ placed' \in Nat
        BY <1>1, <1>2
    <2>4. step' # "records" /\ step' \notin {"records", "footer"}
        BY <1>1
    <2>5. groups' \in Seq(FlowGroup) /\ chain' \in Seq(Nat) /\ opts' \in FlowLayoutOpts
        BY <1>1
    <2>6. frames' \in Seq(PaginatedFrame) /\ Len(frames') = Len(chain')
        BY <1>1, <1>5
    <2> QED
        BY <2>1, <2>2, <2>3, <2>4, <2>5, <2>6 DEF LayoutTypeOK
<1>7. PlacedIn(frames') = {} /\ RecordsTrueIn(frames', FlowRecords', 0)
    BY <1>2, <1>4, NothingPlaced
<1>8. RecordsTrue' /\ PlacedRecords' = {}
    BY <1>1, <1>7, RecordsRestated
<1>9. AheadEmpty'
    BY <1>1, <1>4 DEF AheadEmpty
<1>10. \A f \in 1..Len(c) : \A i \in DOMAIN frames'[f].blocks : FALSE
    BY <1>4 DEF EmptyFrame
<1>11. NonTallFits' /\ ContextCarries'
    BY <1>1, <1>10 DEF NonTallFits, ContextCarries
<1>12. StackTrue'
    <2>1. InForce(group - 1)' = {}
        BY <1>1 DEF InForce
    <2> QED
        BY <1>1, <2>1 DEF StackTrue, InSection
<1>13. FrameStarted'
    BY <1>1 DEF FrameStarted
<1>14. PassedPlaced'
    <2>1. \A x \in FlowRecords' : ~(x[1] < group')
        <3> SUFFICES ASSUME NEW n \in 1..Len(gs), NEW r \in DOMAIN gs[n].records
                     PROVE  ~(<<n, r>>[1] < 1)
            BY <1>1, <1>2 DEF FlowRecords
        <3> QED
            BY <1>2
    <2>2. Passed' = {}
        BY <1>1, <2>1 DEF Passed, InSection
    <2>3. \A n \in DOMAIN groups' : ~(n < group')
        BY <1>1, <1>2
    <2>4. ~InSection' /\ step' # "footer" /\ step' # "done" /\ ~overflow'
        BY <1>1 DEF InSection
    <2> QED
        BY <1>8, <2>2, <2>3, <2>4 DEF PassedPlaced
<1> QED
    BY <1>6, <1>8, <1>9, <1>11, <1>12, <1>13, <1>14 DEF LayoutInv

LEMMA StepInv ==
    ASSUME LayoutInv, LayoutNext
    PROVE  LayoutInv'
BY TypesStep, FramesStep, StackStep, StartedStep, FitsStep, CarriesStep, PassedStep
   DEF LayoutInv, FramesOK

LEMMA StutterInv ==
    ASSUME LayoutInv, UNCHANGED layoutVars
    PROVE  LayoutInv'
<1>1. /\ groups' = groups /\ chain' = chain /\ opts' = opts /\ step' = step /\ group' = group
      /\ record' = record /\ frame' = frame /\ frames' = frames /\ parents' = parents
      /\ started' = started /\ placed' = placed /\ overflow' = overflow
    BY DEF layoutVars, arguments
<1>2. LayoutTypeOK' /\ AheadEmpty' /\ FrameStarted'
    BY <1>1 DEF LayoutInv, LayoutTypeOK, AheadEmpty, FrameStarted
<1>3. StackTrue'
    BY <1>1 DEF LayoutInv, StackTrue, InSection, InForce
<1>4. RecordsTrue'
    BY <1>1, QuietKeeps DEF LayoutInv
<1>5. PassedPlaced'
    <2>1. Passed' = Passed /\ FlowRecords' = FlowRecords
        BY <1>1 DEF Passed, FlowRecords, InSection
    <2>2. PlacedRecords' = PlacedRecords
        BY <1>1, QuietKeeps DEF LayoutInv
    <2> QED
        BY <1>1, <2>1, <2>2 DEF LayoutInv, PassedPlaced, Running, InSection
<1>6. NonTallFits'
    BY <1>1 DEF LayoutInv, NonTallFits
<1>7. ContextCarries'
    <2>1. opts'.repeatHeader =>
            \A g \in 1..Len(chain') : \A i \in DOMAIN frames'[g].blocks :
                Carries(groups', opts', chain'[g], frames'[g].blocks, i)
        <3>1. opts.repeatHeader =>
                \A g \in 1..Len(chain) : \A i \in DOMAIN frames[g].blocks :
                    Carries(groups, opts, chain[g], frames[g].blocks, i)
            BY DEF LayoutInv, ContextCarries, Carries, TrueAncestors, AncestorsIn
        <3> QED
            BY <1>1, <3>1
    <2> QED
        BY <2>1 DEF ContextCarries, Carries, TrueAncestors, AncestorsIn
<1> QED
    BY <1>2, <1>3, <1>4, <1>5, <1>6, <1>7 DEF LayoutInv

\* Everything the loop keeps, at every point of any pagination.
THEOREM LayoutInvHolds == LayoutSpec => []LayoutInv
<1>1. LayoutInit => LayoutInv
    BY LayoutInitInv
<1>2. LayoutInv /\ [\/ \E gs \in Seq(FlowGroup), c \in Seq(Nat), o \in FlowLayoutOpts : Paginate(gs, c, o)
                    \/ LayoutNext]_layoutVars
      => LayoutInv'
    BY PaginateInv, StepInv, StutterInv
<1> QED
    BY <1>1, <1>2, PTL DEF LayoutSpec

\* What a pagination holds has its type.
THEOREM LayoutTyped == LayoutSpec => []LayoutTypeOK
<1>1. LayoutInv => LayoutTypeOK
    BY DEF LayoutInv
<1> QED
    BY <1>1, LayoutInvHolds, PTL

\* Whatever the sections, the chain and the options: a record or footer that
\* its frame could hold ends within it, repeated headers and all.
THEOREM RecordsFitTheirFrame == LayoutSpec => []NonTallFits
<1>1. LayoutInv => NonTallFits
    BY DEF LayoutInv
<1> QED
    BY <1>1, LayoutInvHolds, PTL

\* However deep the headings nest and wherever the frames end, a section that
\* continues does so under exactly the headings in force.
THEOREM ContinuationsCarryContext == LayoutSpec => []ContextCarries
<1>1. LayoutInv => ContextCarries
    BY DEF LayoutInv
<1> QED
    BY <1>1, LayoutInvHolds, PTL

\* The frames hold the records of the flow in order, without a gap, as many
\* as are counted; and a pagination that ends without an overflow has placed
\* every record, heading and footer.
THEOREM NothingDroppedSilently == LayoutSpec => []OverflowTold
<1>1. LayoutInv => OverflowTold
    <2> SUFFICES ASSUME LayoutInv
                 PROVE  OverflowTold
        OBVIOUS
    <2>1. RecordsTrue /\ PassedPlaced
        BY DEF LayoutInv
    <2>2. \A p \in RecordPlaces :
            /\ RecordOf(p) \in FlowRecords
            /\ \A q \in RecordPlaces : Earlier(p, q) => Earlier(RecordOf(p), RecordOf(q))
            /\ \A r \in FlowRecords : Earlier(r, RecordOf(p)) => r \in PlacedRecords
        BY <2>1 DEF RecordsTrue
    <2>3. placed = Cardinality(RecordPlaces)
        BY <2>1 DEF RecordsTrue
    <2>4. ASSUME step = "done", ~overflow
          PROVE  /\ PlacedRecords = FlowRecords
                 /\ \A n \in DOMAIN groups : HeaderIn(frames, groups, n) /\ FooterIn(frames, groups, n)
        BY <2>1, <2>4 DEF PassedPlaced
    <2>5. Places = PlacesIn(frames) /\ \A p : BlockAt(p) = BlockIn(frames, p)
        BY DEF Places, PlacesIn, BlockAt, BlockIn
    <2>6. ASSUME step = "done", ~overflow
          PROVE  \A n \in DOMAIN groups :
                   /\ groups[n].header # NoText =>
                        \E p \in Places : BlockAt(p).block = "header"
                            /\ BlockAt(p).text = groups[n].header /\ ~BlockAt(p).continued
                   /\ groups[n].footer # NoFooter =>
                        \E p \in Places : BlockAt(p).block = "footer" /\ BlockAt(p).group = n
        BY <2>4, <2>5, <2>6 DEF HeaderIn, FooterIn
    <2> QED
        BY <2>2, <2>3, <2>4, <2>6 DEF OverflowTold
<1> QED
    BY <1>1, LayoutInvHolds, PTL

-----------------------------------------------------------------------------
(* The ranks of an order.                                                  *)

\* A strict total order R of finitely many: the numbers of those before each
\* are 0, 1, .. to the last.
StrictOrder(R, S) ==
    /\ \A p \in S : <<p, p>> \notin R
    /\ \A p, q, r \in S : <<p, q>> \in R /\ <<q, r>> \in R => <<p, r>> \in R
    /\ \A p, q \in S : p = q \/ <<p, q>> \in R \/ <<q, p>> \in R

RankIn(R, S, p) == Cardinality({q \in S : <<q, p>> \in R})

LEMMA RanksOfOrder ==
    ASSUME NEW S, IsFiniteSet(S), NEW R, StrictOrder(R, S)
    PROVE  /\ \A p \in S : RankIn(R, S, p) \in 0..(Cardinality(S) - 1)
           /\ \A p, q \in S : <<p, q>> \in R => RankIn(R, S, p) < RankIn(R, S, q)
           /\ \A i \in 1..Cardinality(S) : \E p \in S : RankIn(R, S, p) = i - 1
<1> DEFINE Under(p) == {q \in S : <<q, p>> \in R}
           rank == [p \in S |-> Cardinality(Under(p)) + 1]
           n == Cardinality(S)
<1>1. n \in Nat /\ IsFiniteSet(1..n) /\ Cardinality(1..n) = n
    BY FS_CardinalityType, FS_Interval
<1>2. ASSUME NEW p \in S
      PROVE  /\ IsFiniteSet(Under(p)) /\ Cardinality(Under(p)) \in Nat
             /\ Cardinality(Under(p)) + 1 <= n
    <2>1. Under(p) \subseteq S /\ p \notin Under(p)
        BY DEF StrictOrder
    <2> HIDE DEF Under, n
    <2>2. IsFiniteSet(Under(p))
        BY <2>1, FS_Subset
    <2>3. Cardinality(Under(p) \cup {p}) = Cardinality(Under(p)) + 1
        BY <2>1, <2>2, FS_AddElement
    <2>4. Under(p) \cup {p} \subseteq S
        BY <2>1
    <2>5. Cardinality(Under(p) \cup {p}) <= Cardinality(S)
        BY <2>4, FS_Subset
    <2> QED
        BY <2>2, <2>3, <2>5, FS_CardinalityType DEF n
<1>3. ASSUME NEW p \in S, NEW q \in S, <<p, q>> \in R
      PROVE  Cardinality(Under(p)) < Cardinality(Under(q))
    <2>1. Under(p) \cup {p} \subseteq Under(q) /\ p \notin Under(p)
        BY <1>3 DEF StrictOrder
    <2> HIDE DEF Under
    <2>2. Cardinality(Under(p) \cup {p}) = Cardinality(Under(p)) + 1
        BY <1>2, <2>1, FS_AddElement
    <2>3. Cardinality(Under(p) \cup {p}) <= Cardinality(Under(q))
        BY <1>2, <2>1, FS_Subset
    <2> QED
        BY <1>2, <2>2, <2>3
<1>4. rank \in [S -> 1..n]
    <2> SUFFICES ASSUME NEW p \in S PROVE Cardinality(Under(p)) + 1 \in 1..n
        OBVIOUS
    <2> HIDE DEF Under, n
    <2> QED
        BY <1>1, <1>2
<1>5. \A p, q \in S : rank[p] = rank[q] => p = q
    <2> SUFFICES ASSUME NEW p \in S, NEW q \in S, p # q
                 PROVE  Cardinality(Under(p)) + 1 # Cardinality(Under(q)) + 1
        OBVIOUS
    <2>1. <<p, q>> \in R \/ <<q, p>> \in R
        BY DEF StrictOrder
    <2> HIDE DEF Under
    <2> QED
        BY <1>2, <1>3, <2>1
<1>6. rank \in Injection(S, 1..n)
    BY <1>4, <1>5, Fun_IsInj
<1>7. rank \in Surjection(S, 1..n)
    <2> HIDE DEF rank
    <2>1. Cardinality(S) = Cardinality(1..n)
        BY <1>1
    <2> HIDE DEF n
    <2> QED
        BY <1>1, <1>6, <2>1, FS_Injection
<1>8. ASSUME NEW i \in 1..n
      PROVE  \E p \in S : Cardinality(Under(p)) = i - 1
    <2>1. PICK p \in S : rank[p] = i
        BY <1>7 DEF Surjection
    <2>2. Cardinality(Under(p)) + 1 = i /\ Cardinality(Under(p)) \in Nat
        <3>1. rank[p] = Cardinality(Under(p)) + 1
            OBVIOUS
        <3> QED
            BY <1>2, <2>1, <3>1
    <2> HIDE DEF Under
    <2> QED
        BY <2>2
<1>9. \A p \in S : Cardinality(Under(p)) \in 0..(n - 1)
    <2> HIDE DEF Under, n
    <2> QED
        BY <1>1, <1>2
<1>10. \A p \in S : RankIn(R, S, p) = Cardinality(Under(p))
    BY DEF RankIn
<1> HIDE DEF Under
<1> QED
    BY <1>3, <1>8, <1>9, <1>10

LEMMA InOrderReaches ==
    ASSUME NEW S, S \subseteq Nat, IsFiniteSet(S)
    PROVE  \A p \in S : \E i \in 1..Cardinality(S) : InOrder(S)[i] = p
<1> DEFINE R == {x \in S \X S : x[1] < x[2]}
           rank(p) == Cardinality({q \in S : q < p})
<1>1. \A p, q \in S : <<p, q>> \in R <=> p < q
    OBVIOUS
<1>2. StrictOrder(R, S)
    <2> HIDE DEF R
    <2>1. \A p \in S : p \in Int
        OBVIOUS
    <2> QED
        BY <1>1, <2>1 DEF StrictOrder
<1>3. \A p \in S : RankIn(R, S, p) = rank(p)
    <2> HIDE DEF R
    <2> QED
        BY <1>1 DEF RankIn
<1> HIDE DEF R
<1>4. /\ \A p \in S : RankIn(R, S, p) \in 0..(Cardinality(S) - 1)
      /\ \A p, q \in S : <<p, q>> \in R => RankIn(R, S, p) < RankIn(R, S, q)
    BY <1>2, RanksOfOrder
<1>5. Cardinality(S) \in Nat
    BY FS_CardinalityType
<1> SUFFICES ASSUME NEW p \in S PROVE \E i \in 1..Cardinality(S) : InOrder(S)[i] = p
    OBVIOUS
<1>6. rank(p) \in 0..(Cardinality(S) - 1)
    BY <1>3, <1>4
<1> DEFINE i == rank(p) + 1
           c == InOrder(S)[i]
<1>7. i \in 1..Cardinality(S) /\ rank(p) = i - 1
    <2> HIDE DEF rank
    <2> QED
        BY <1>5, <1>6
<1>8. c = CHOOSE q \in S : rank(q) = i - 1
    <2> HIDE DEF i
    <2> QED
        BY <1>7 DEF InOrder
<1> HIDE DEF c, rank
<1>9. c \in S /\ rank(c) = rank(p)
    BY <1>7, <1>8
<1>10. ASSUME c # p PROVE FALSE
    <2>1. <<c, p>> \in R \/ <<p, c>> \in R
        BY <1>2, <1>9, <1>10 DEF StrictOrder
    <2>2. rank(c) < rank(p) \/ rank(p) < rank(c)
        BY <1>3, <1>4, <1>9, <2>1
    <2> QED
        BY <1>6, <1>9, <2>2
<1> QED
    BY <1>7, <1>10 DEF c

-----------------------------------------------------------------------------
(* The order of the rows.                                                  *)

\* The order of rows by their first L grouping values.
Lower(L, u, v) == \E l \in 1..L : u[l] < v[l] /\ \A m \in 1..(l - 1) : u[m] = v[m]

LEMMA LowerOrder ==
    ASSUME NEW L \in Nat, NEW u \in [1..L -> Nat], NEW v \in [1..L -> Nat], NEW w \in [1..L -> Nat]
    PROVE  /\ ~(Lower(L, u, v) /\ Lower(L, v, u))
           /\ Lower(L, u, v) /\ Lower(L, v, w) => Lower(L, u, w)
           /\ u # v => Lower(L, u, v) \/ Lower(L, v, u)
           /\ ~Lower(L, u, u)
<1>0. \A l \in 1..L : u[l] \in Nat /\ v[l] \in Nat /\ w[l] \in Nat
    OBVIOUS
<1>1. ASSUME Lower(L, u, v), Lower(L, v, u) PROVE FALSE
    <2>1. PICK l \in 1..L : u[l] < v[l] /\ \A m \in 1..(l - 1) : u[m] = v[m]
        BY <1>1 DEF Lower
    <2>2. PICK k \in 1..L : v[k] < u[k] /\ \A m \in 1..(k - 1) : v[m] = u[m]
        BY <1>1 DEF Lower
    <2>3. l \in 1..(k - 1) \/ l = k \/ k \in 1..(l - 1)
        OBVIOUS
    <2>4. u[l] \in Nat /\ v[l] \in Nat /\ u[k] \in Nat /\ v[k] \in Nat
        BY <1>0
    <2>5. CASE l \in 1..(k - 1)
        BY <2>1, <2>2, <2>4, <2>5
    <2>6. CASE l = k
        BY <2>1, <2>2, <2>4, <2>6
    <2>7. CASE k \in 1..(l - 1)
        BY <2>1, <2>2, <2>4, <2>7
    <2> QED
        BY <2>3, <2>5, <2>6, <2>7
<1>2. ASSUME Lower(L, u, v), Lower(L, v, w) PROVE Lower(L, u, w)
    <2>1. PICK l \in 1..L : u[l] < v[l] /\ \A m \in 1..(l - 1) : u[m] = v[m]
        BY <1>2 DEF Lower
    <2>2. PICK k \in 1..L : v[k] < w[k] /\ \A m \in 1..(k - 1) : v[m] = w[m]
        BY <1>2 DEF Lower
    <2>3. CASE l < k
        <3>1. l \in 1..(k - 1) /\ \A m \in 1..(l - 1) : m \in 1..(k - 1)
            BY <2>3
        <3>2. u[l] < w[l] /\ \A m \in 1..(l - 1) : u[m] = w[m]
            BY <2>1, <2>2, <3>1
        <3> QED
            BY <3>2 DEF Lower
    <2>4. CASE l = k
        <3>1. u[l] < w[l] /\ \A m \in 1..(l - 1) : u[m] = w[m]
            BY <1>0, <2>1, <2>2, <2>4
        <3> QED
            BY <3>1 DEF Lower
    <2>5. CASE k < l
        <3>1. k \in 1..(l - 1) /\ \A m \in 1..(k - 1) : m \in 1..(l - 1)
            BY <2>5
        <3>2. u[k] < w[k] /\ \A m \in 1..(k - 1) : u[m] = w[m]
            BY <2>1, <2>2, <3>1
        <3> QED
            BY <3>2 DEF Lower
    <2> QED
        BY <2>3, <2>4, <2>5
<1>3. ASSUME u # v PROVE Lower(L, u, v) \/ Lower(L, v, u)
    <2> DEFINE S == {l \in 1..L : u[l] # v[l]}
    <2>1. S # {} /\ S \subseteq Nat
        <3>1. ASSUME S = {} PROVE FALSE
            <4>1. \A l \in 1..L : u[l] = v[l]
                BY <3>1
            <4> QED
                BY <1>3, <4>1
        <3> QED
            BY <3>1
    <2>2. PICK l \in S : \A m \in S : l <= m
        <3> HIDE DEF S
        <3> QED
            BY <2>1, LeastNumber
    <2>3. l \in 1..L /\ u[l] # v[l] /\ \A m \in 1..(l - 1) : m \in 1..L /\ ~(l <= m)
        OBVIOUS
    <2>4. \A m \in 1..(l - 1) : u[m] = v[m]
        BY <2>2, <2>3
    <2>5. u[l] < v[l] \/ v[l] < u[l]
        BY <1>0, <2>3
    <2> QED
        BY <2>3, <2>4, <2>5 DEF Lower
<1>4. ~Lower(L, u, u)
    BY <1>0 DEF Lower
<1> QED
    BY <1>1, <1>2, <1>3, <1>4

\* A job with a result.
Resolved(j) == j \in Job /\ j.result # NoResult

LEMMA ResultTyped ==
    ASSUME NEW j, Resolved(j)
    PROVE  /\ j.result \in Seq(Row) /\ Len(j.result) \in Nat
           /\ DOMAIN j.result = 1..Len(j.result)
           /\ j.flow \in FlowOptions /\ j.flow.levels \in Nat
           /\ j.chain \in Seq(Nat) /\ j.opts \in FlowLayoutOpts
           /\ \A i, k \in DOMAIN j.result :
                  /\ Len(j.result[i].keys) = Len(j.result[k].keys)
                  /\ j.result[i].keys \in Seq(Key) /\ j.flow.levels <= Len(j.result[i].keys)
           /\ \A i \in 1..Len(j.result) :
                  /\ KeyOf(j, i) \in [1..j.flow.levels -> Key] /\ KeyOf(j, i) \in Seq(Key)
                  /\ Len(KeyOf(j, i)) = j.flow.levels
                  /\ \A l \in 1..j.flow.levels : KeyOf(j, i)[l] = j.result[i].keys[l]
<1>1. /\ j.result \in Seq(Row) /\ j.flow \in FlowOptions /\ j.flow.levels \in Nat
      /\ j.chain \in Seq(Nat) /\ j.opts \in FlowLayoutOpts
      /\ \A i, k \in DOMAIN j.result :
             /\ j.flow.levels <= Len(j.result[i].keys)
             /\ Len(j.result[i].keys) = Len(j.result[k].keys)
    BY DEF Resolved, Job, FlowOptions
<1>2. Len(j.result) \in Nat /\ DOMAIN j.result = 1..Len(j.result)
    BY <1>1, LenProperties
<1>3. ASSUME NEW i \in 1..Len(j.result)
      PROVE  /\ KeyOf(j, i) \in [1..j.flow.levels -> Key] /\ KeyOf(j, i) \in Seq(Key)
             /\ Len(KeyOf(j, i)) = j.flow.levels
             /\ \A l \in 1..j.flow.levels : KeyOf(j, i)[l] = j.result[i].keys[l]
    <2> DEFINE ks == j.result[i].keys
               L == j.flow.levels
    <2>1. j.result[i] \in Row
        BY <1>1, <1>2
    <2>2. ks \in Seq(Key) /\ L <= Len(ks) /\ L \in Nat
        BY <1>1, <1>2, <2>1 DEF Row
    <2>3. KeyOf(j, i) = SubSeq(ks, 1, L)
        BY DEF KeyOf
    <2> HIDE DEF ks, L
    <2>4. \A l \in 1..L : l \in 1..Len(ks) /\ ks[l] \in Key
        BY <2>2
    <2>5. Len(SubSeq(ks, 1, L)) = L /\ SubSeq(ks, 1, L) \in Seq(Key)
        BY <2>2
    <2>6. \A l \in 1..L : SubSeq(ks, 1, L)[l] = ks[l]
        BY <2>2
    <2>7. SubSeq(ks, 1, L) \in [1..L -> Key]
        BY <2>5, LenProperties
    <2> QED
        BY <2>3, <2>5, <2>6, <2>7 DEF ks, L
<1>4. \A i \in DOMAIN j.result : j.result[i].keys \in Seq(Key)
    <2>1. \A r \in Row : r.keys \in Seq(Key)
        BY DEF Row
    <2>2. \A i \in DOMAIN j.result : j.result[i] \in Row
        BY <1>1, <1>2
    <2> QED
        BY <2>1, <2>2
<1>5. \A i, k \in DOMAIN j.result :
          /\ Len(j.result[i].keys) = Len(j.result[k].keys)
          /\ j.result[i].keys \in Seq(Key) /\ j.flow.levels <= Len(j.result[i].keys)
    BY <1>1, <1>4
<1> QED
    BY <1>1, <1>2, <1>3, <1>5, Zenon

\* The rows are in order exactly once each, and one that comes later never
\* has a lower key.
LEMMA OrderOfRows ==
    ASSUME NEW j, Resolved(j)
    PROVE  LET n == Len(j.result)
               order == FlowOrder(j)
           IN  /\ order \in [1..n -> 1..n]
               /\ \A i \in 1..n : \E p \in 1..n : order[p] = i
               /\ \A p, q \in 1..n : order[p] = order[q] => p = q
               /\ \A p, q, r \in 1..n :
                      p < q /\ q < r /\ KeyOf(j, order[p]) = KeyOf(j, order[r])
                      => KeyOf(j, order[q]) = KeyOf(j, order[p])
<1> DEFINE n == Len(j.result)
           L == j.flow.levels
           S == 1..n
           K(i) == KeyOf(j, i)
           R == {x \in S \X S : Before(j, x[1], x[2])}
           Rank(i) == RankIn(R, S, i)
           order == FlowOrder(j)
<1>0. Key \subseteq Nat
    BY BatchAssumption
<1>1. /\ n \in Nat /\ L \in Nat /\ DOMAIN j.result = S
      /\ \A i \in S : K(i) \in [1..L -> Nat]
      /\ \A i \in S : \A l \in 1..L : K(i)[l] = j.result[i].keys[l]
    <2>1. \A i \in S : K(i) \in [1..L -> Key]
        BY ResultTyped
    <2>2. \A i \in S : K(i) \in [1..L -> Nat]
        <3> HIDE DEF K, S, L
        <3> QED
            BY <1>0, <2>1
    <2> QED
        BY <2>2, ResultTyped
<1>2. ASSUME NEW i \in S, NEW k \in S
      PROVE  KeyBefore(j, i, k) <=> Lower(L, K(i), K(k))
    <2>1. \A l \in 1..L : \A m \in 1..(l - 1) : m \in 1..L
        BY <1>1
    <2> HIDE DEF K, S, n
    <2> QED
        BY <1>1, <2>1 DEF KeyBefore, Lower
<1>3. \A i, k \in S : Before(j, i, k) <=> Lower(L, K(i), K(k)) \/ (~Lower(L, K(k), K(i)) /\ i < k)
    <2> HIDE DEF K, S, L
    <2> QED
        BY <1>2 DEF Before
<1>4. \A i, k \in S : <<i, k>> \in R <=> Lower(L, K(i), K(k)) \/ (~Lower(L, K(k), K(i)) /\ i < k)
    <2> HIDE DEF K, S, L
    <2> QED
        BY <1>3
<1>5. \A i, k, h \in S :
          /\ ~(Lower(L, K(i), K(k)) /\ Lower(L, K(k), K(i)))
          /\ Lower(L, K(i), K(k)) /\ Lower(L, K(k), K(h)) => Lower(L, K(i), K(h))
          /\ K(i) # K(k) => Lower(L, K(i), K(k)) \/ Lower(L, K(k), K(i))
          /\ ~Lower(L, K(i), K(i))
    <2> SUFFICES ASSUME NEW i \in S, NEW k \in S, NEW h \in S
                 PROVE  /\ ~(Lower(L, K(i), K(k)) /\ Lower(L, K(k), K(i)))
                        /\ Lower(L, K(i), K(k)) /\ Lower(L, K(k), K(h)) => Lower(L, K(i), K(h))
                        /\ K(i) # K(k) => Lower(L, K(i), K(k)) \/ Lower(L, K(k), K(i))
                        /\ ~Lower(L, K(i), K(i))
        OBVIOUS
    <2>1. K(i) \in [1..L -> Nat] /\ K(k) \in [1..L -> Nat] /\ K(h) \in [1..L -> Nat] /\ L \in Nat
        BY <1>1
    <2> HIDE DEF K, S, L
    <2> QED
        BY <2>1, LowerOrder
<1>6. S \subseteq Int /\ IsFiniteSet(S) /\ Cardinality(S) = n
    <2>1. n \in Nat
        BY <1>1
    <2> HIDE DEF n, K, L, R, Rank, order
    <2>2. IsFiniteSet(1..n) /\ Cardinality(1..n) = IF 1 > n THEN 0 ELSE n - 1 + 1
        BY <2>1, FS_Interval
    <2>3. Cardinality(1..n) = n
        BY <2>1, <2>2
    <2>4. 1..n \subseteq Int
        BY <2>1
    <2> QED
        BY <2>2, <2>3, <2>4 DEF S
<1>7. StrictOrder(R, S)
    <2> HIDE DEF K, S, L, R
    <2>1. \A p \in S : <<p, p>> \notin R
        BY <1>4, <1>5, <1>6
    <2>2. \A p, q \in S : p = q \/ <<p, q>> \in R \/ <<q, p>> \in R
        <3> SUFFICES ASSUME NEW p \in S, NEW q \in S, p # q PROVE <<p, q>> \in R \/ <<q, p>> \in R
            OBVIOUS
        <3>1. p < q \/ q < p
            BY <1>6
        <3> QED
            BY <1>4, <3>1
    <2>3. ASSUME NEW p \in S, NEW q \in S, NEW r \in S, <<p, q>> \in R, <<q, r>> \in R
          PROVE  <<p, r>> \in R
        <3>1. CASE Lower(L, K(p), K(q)) /\ Lower(L, K(q), K(r))
            BY <1>4, <1>5, <3>1
        <3>2. CASE Lower(L, K(p), K(q)) /\ ~Lower(L, K(q), K(r))
            <4>1. ~Lower(L, K(r), K(q))
                BY <1>4, <2>3, <3>2
            <4>2. K(q) = K(r)
                BY <1>5, <3>2, <4>1
            <4> QED
                BY <1>4, <3>2, <4>2
        <3>3. CASE ~Lower(L, K(p), K(q)) /\ Lower(L, K(q), K(r))
            <4>1. ~Lower(L, K(q), K(p))
                BY <1>4, <2>3, <3>3
            <4>2. K(p) = K(q)
                BY <1>5, <3>3, <4>1
            <4> QED
                BY <1>4, <3>3, <4>2
        <3>4. CASE ~Lower(L, K(p), K(q)) /\ ~Lower(L, K(q), K(r))
            <4>1. ~Lower(L, K(q), K(p)) /\ ~Lower(L, K(r), K(q)) /\ p < q /\ q < r
                BY <1>4, <2>3, <3>4
            <4>2. K(p) = K(q) /\ K(q) = K(r)
                BY <1>5, <3>4, <4>1
            <4>3. p < r
                BY <1>6, <4>1
            <4>4. ~Lower(L, K(r), K(p))
                BY <1>5, <4>2
            <4> QED
                BY <1>4, <4>3, <4>4
        <3> QED
            BY <3>1, <3>2, <3>3, <3>4
    <2> QED
        BY <2>1, <2>2, <2>3 DEF StrictOrder
<1>8. \A i \in S : {k \in DOMAIN j.result : Before(j, k, i)} = {k \in S : <<k, i>> \in R}
    <2> HIDE DEF K, L
    <2>1. \A i, k \in S : Before(j, k, i) <=> <<k, i>> \in R
        OBVIOUS
    <2> HIDE DEF R, S
    <2> QED
        BY <1>1, <2>1
<1>9. /\ \A i \in S : Rank(i) \in 0..(n - 1)
      /\ \A i, k \in S : <<i, k>> \in R => Rank(i) < Rank(k)
      /\ \A p \in S : \E i \in S : Rank(i) = p - 1
    <2> HIDE DEF R, S
    <2>1. /\ \A p \in S : RankIn(R, S, p) \in 0..(Cardinality(S) - 1)
          /\ \A p, q \in S : <<p, q>> \in R => RankIn(R, S, p) < RankIn(R, S, q)
          /\ \A i \in 1..Cardinality(S) : \E p \in S : RankIn(R, S, p) = i - 1
        BY <1>6, <1>7, RanksOfOrder
    <2>2. \A p \in 1..n : \E i \in S : Rank(i) = p - 1
        BY <1>6, <2>1
    <2>3. (\A i \in S : Rank(i) \in 0..(n - 1)) /\ \A i, k \in S : <<i, k>> \in R => Rank(i) < Rank(k)
        BY <1>6, <2>1
    <2> QED
        BY <2>2, <2>3 DEF S
<1>10. \A p \in S : order[p] \in S /\ Rank(order[p]) = p - 1
    <2> SUFFICES ASSUME NEW p \in S PROVE order[p] \in S /\ Rank(order[p]) = p - 1
        OBVIOUS
    <2>1. order[p] = CHOOSE i \in S : Cardinality({k \in DOMAIN j.result : Before(j, k, i)}) = p - 1
        <3> HIDE DEF S
        <3> QED
            BY <1>1 DEF FlowOrder
    <2>2. PICK i \in S : Rank(i) = p - 1
        BY <1>9
    <2> HIDE DEF R, S, order
    <2>3. \E c \in S : Cardinality({k \in DOMAIN j.result : Before(j, k, c)}) = p - 1
        BY <1>8, <2>2 DEF RankIn
    <2>4. order[p] \in S /\ Cardinality({k \in DOMAIN j.result : Before(j, k, order[p])}) = p - 1
        BY <2>1, <2>3
    <2> QED
        BY <1>8, <2>4 DEF RankIn
<1>11. order \in [S -> S]
    <2>1. order = [p \in S |-> order[p]]
        <3> DEFINE c(p) == CHOOSE i \in DOMAIN j.result :
                               Cardinality({k \in DOMAIN j.result : Before(j, k, i)}) = p - 1
        <3>1. order = [p \in DOMAIN j.result |-> c(p)]
            BY DEF FlowOrder
        <3> HIDE DEF order, S, c
        <3>2. order = [p \in S |-> c(p)]
            BY <1>1, <3>1
        <3> QED
            BY <3>2
    <2> HIDE DEF order, S
    <2> QED
        BY <1>10, <2>1
<1>12. ASSUME NEW p \in S, NEW q \in S, order[p] = order[q]
       PROVE  p = q
    <2> HIDE DEF Rank, order
    <2>1. p - 1 = q - 1
        BY <1>10, <1>12
    <2> QED
        BY <1>6, <2>1
<1>13. ASSUME NEW i \in S PROVE \E p \in S : order[p] = i
    <2> DEFINE p == Rank(i) + 1
    <2>1. p \in S /\ Rank(order[p]) = Rank(i)
        <3>1. Rank(i) \in 0..(n - 1)
            BY <1>9
        <3> HIDE DEF Rank, order
        <3>2. p \in S
            BY <1>1, <3>1
        <3>3. Rank(order[p]) = p - 1
            BY <1>10, <3>2
        <3> QED
            BY <3>1, <3>2, <3>3
    <2> HIDE DEF p
    <2>2. order[p] \in S
        BY <1>10, <2>1
    <2>3. ASSUME order[p] # i PROVE FALSE
        <3> HIDE DEF R, order
        <3>1. <<order[p], i>> \in R \/ <<i, order[p]>> \in R
            BY <1>7, <2>2, <2>3 DEF StrictOrder
        <3>2. Rank(order[p]) < Rank(i) \/ Rank(i) < Rank(order[p])
            BY <1>9, <2>2, <3>1
        <3>3. Rank(i) \in 0..(n - 1)
            BY <1>9
        <3> HIDE DEF Rank
        <3> QED
            BY <2>1, <3>2, <3>3
    <2> QED
        BY <2>1, <2>3
<1>14. ASSUME NEW p \in S, NEW q \in S, p < q PROVE ~Lower(L, K(order[q]), K(order[p]))
    <2>1. order[p] \in S /\ order[q] \in S /\ Rank(order[p]) = p - 1 /\ Rank(order[q]) = q - 1
        BY <1>10
    <2> DEFINE a == order[p]
               b == order[q]
    <2> HIDE DEF R, order, a, b, K, L
    <2>2. SUFFICES ASSUME Lower(L, K(b), K(a)) PROVE FALSE
        BY DEF a, b
    <2>3. <<b, a>> \in R
        BY <1>4, <2>1, <2>2 DEF a, b
    <2>4. Rank(b) < Rank(a)
        BY <1>9, <2>1, <2>3 DEF a, b
    <2>5. Rank(a) = p - 1 /\ Rank(b) = q - 1
        BY <2>1 DEF a, b
    <2> HIDE DEF Rank
    <2> QED
        BY <1>6, <1>14, <2>4, <2>5
<1>15. ASSUME NEW p \in S, NEW q \in S, NEW r \in S, p < q, q < r, K(order[p]) = K(order[r])
       PROVE  K(order[q]) = K(order[p])
    <2>1. order[p] \in S /\ order[q] \in S /\ order[r] \in S
        BY <1>10
    <2> HIDE DEF K, L, order
    <2>2. ~Lower(L, K(order[q]), K(order[p])) /\ ~Lower(L, K(order[r]), K(order[q]))
        BY <1>14, <1>15
    <2> QED
        BY <1>5, <1>15, <2>1, <2>2
<1> QED
    BY <1>11, <1>12, <1>13, <1>15

-----------------------------------------------------------------------------
(* The sections.                                                           *)

\* The records of sections ss, by section and place in it.
FlowPlaces(ss) == UNION {{<<s, r>> : r \in DOMAIN ss[s].records} : s \in DOMAIN ss}
RowAt(ss, p) == ss[p[1]].records[p[2]].row

LEMMA FlowPlacesTyped ==
    ASSUME NEW ss \in Seq(FlowGroup)
    PROVE  /\ \A s \in 1..Len(ss) : ss[s] \in FlowGroup /\ ss[s].records \in Seq(FlowRecord)
           /\ \A s \in 1..Len(ss) : Len(ss[s].records) \in Nat
           /\ \A p : p \in FlowPlaces(ss) <=>
                  \E s \in 1..Len(ss) : \E r \in 1..Len(ss[s].records) : p = <<s, r>>
<1>1. DOMAIN ss = 1..Len(ss) /\ Len(ss) \in Nat
    BY LenProperties
<1>2. \A s \in 1..Len(ss) : ss[s] \in FlowGroup /\ ss[s].records \in Seq(FlowRecord)
    <2>1. \A s \in 1..Len(ss) : ss[s] \in FlowGroup
        OBVIOUS
    <2>2. \A g \in FlowGroup : g.records \in Seq(FlowRecord)
        BY DEF FlowGroup
    <2> QED
        BY <2>1, <2>2
<1>3. \A s \in 1..Len(ss) : Len(ss[s].records) \in Nat /\ DOMAIN ss[s].records = 1..Len(ss[s].records)
    BY <1>2, LenProperties
<1> QED
    BY <1>1, <1>2, <1>3 DEF FlowPlaces

\* A record opens no section exactly when its key is the one before.
LEMMA OpenedTyped ==
    ASSUME NEW j, NEW key \in Seq(Key), NEW before \in Seq(Key) \cup {NoResult},
           before # NoResult => Len(before) = Len(key)
    PROVE  /\ Opened(j, before, key) \in Seq(FlowGroup)
           /\ \A s \in 1..Len(Opened(j, before, key)) : Opened(j, before, key)[s].records = <<>>
           /\ Opened(j, before, key) = <<>> <=> key = before
<1> DEFINE op == Opened(j, before, key)
<1>0. Key \subseteq Text /\ NoResult \notin Seq(Key)
    BY BatchAssumption
<1>1. \A h \in Key \cup {NoText} : \A l \in Nat :
          /\ Section(h, l) \in FlowGroup /\ Section(h, l).records = <<>>
    <2>1. <<>> \in Seq(FlowRecord)
        OBVIOUS
    <2> QED
        BY <1>0, <2>1 DEF Section, FlowGroup
<1>2. CASE key = before
    <2>1. op = <<>>
        BY <1>2 DEF Opened
    <2> QED
        BY <1>2, <2>1
<1>3. CASE key # before /\ key = <<>>
    <2>1. op = <<Section(NoText, 0)>>
        BY <1>3 DEF Opened
    <2>2. Section(NoText, 0) \in FlowGroup /\ Section(NoText, 0).records = <<>>
        BY <1>1
    <2>3. op \in Seq(FlowGroup) /\ Len(op) = 1 /\ op[1] = Section(NoText, 0)
        BY <2>1, <2>2
    <2> HIDE DEF op
    <2>4. op # <<>> /\ \A s \in 1..Len(op) : op[s].records = <<>>
        <3>1. Len(<<>>) = 0
            OBVIOUS
        <3>2. \A s \in 1..1 : s = 1
            OBVIOUS
        <3>3. op[1].records = <<>>
            BY <2>2, <2>3
        <3>4. op # <<>>
            <4>1. op = <<>> => Len(op) = 0
                BY <3>1
            <4>2. Len(op) # 0
                BY <2>3
            <4> QED
                BY <4>1, <4>2, Zenon
        <3>5. 1..Len(op) = 1..1
            BY <2>3
        <3> QED
            BY <3>2, <3>3, <3>4, <3>5, Zenon
    <2> QED
        BY <1>3, <2>3, <2>4 DEF op
<1>4. CASE key # before /\ key # <<>>
    <2> DEFINE first == IF before = NoResult THEN 1
                        ELSE SeqsExt!Min({l \in DOMAIN key : key[l] # before[l]})
               n == Len(key) - first + 1
    <2>1. op = [i \in 1..n |-> Section(key[first + i - 1], first + i - 2)]
        BY <1>4 DEF Opened
    <2>2. Len(key) \in Nat \ {0} /\ DOMAIN key = 1..Len(key) /\ \A l \in 1..Len(key) : key[l] \in Key
        BY <1>4
    <2>3. first \in 1..Len(key)
        <3>1. CASE before = NoResult
            BY <2>2, <3>1
        <3>2. CASE before # NoResult
            <4> DEFINE D == {l \in DOMAIN key : key[l] # before[l]}
            <4>1. before \in Seq(Key) /\ Len(before) = Len(key)
                BY <3>2
            <4>2. D # {}
                <5> SUFFICES ASSUME D = {} PROVE FALSE
                    OBVIOUS
                <5>1. \A l \in 1..Len(key) : key[l] = before[l]
                    BY <2>2
                <5>2. key = before
                    BY <4>1, <5>1, SeqEqual
                <5> QED
                    BY <1>4, <5>2
            <4>3. D \subseteq 1..Len(key)
                BY <2>2
            <4> HIDE DEF D
            <4>4. D \subseteq Nat
                BY <4>3
            <4>5. \E k \in D : \A m \in D : k <= m
                BY <4>2, <4>4, LeastNumber
            <4>6. SeqsExt!Min(D) \in D
                BY <4>5 DEF SeqsExt!Min
            <4> QED
                BY <3>2, <4>3, <4>6 DEF D
        <3> QED
            BY <3>1, <3>2
    <2> HIDE DEF first, op
    <2>4. n \in Nat \ {0}
        BY <2>2, <2>3
    <2>5. ASSUME NEW i \in 1..n
          PROVE  first + i - 1 \in 1..Len(key) /\ first + i - 2 \in Nat
        BY <2>2, <2>3
    <2>6. \A i \in 1..n : key[first + i - 1] \in Key \cup {NoText}
        BY <2>2, <2>5
    <2> HIDE DEF n
    <2>7. \A i \in 1..n : op[i] \in FlowGroup /\ op[i].records = <<>>
        BY <1>1, <2>1, <2>5, <2>6
    <2>8. op \in [1..n -> FlowGroup]
        BY <2>1, <2>7
    <2>9. op \in Seq(FlowGroup) /\ Len(op) = n
        BY <2>4, <2>8
    <2> QED
        BY <1>4, <2>4, <2>7, <2>9 DEF op
<1> QED
    BY <1>2, <1>3, <1>4

\* A record joins the section opened last.
LEMMA JoinedPlaces ==
    ASSUME NEW ss \in Seq(FlowGroup), NEW op \in Seq(FlowGroup), NEW rec \in FlowRecord,
           \A s \in 1..Len(op) : op[s].records = <<>>, Len(ss) + Len(op) > 0
    PROVE  LET E == Joined(ss \o op, rec)
               m == Len(ss) + Len(op)
           IN  /\ E \in Seq(FlowGroup) /\ Len(E) = m
               /\ \E new : /\ new \notin FlowPlaces(ss) /\ new[1] = m
                           /\ FlowPlaces(E) = FlowPlaces(ss) \cup {new}
                           /\ RowAt(E, new) = rec.row
                           /\ \A p \in FlowPlaces(ss) : RowAt(E, p) = RowAt(ss, p) /\ p[1] \in 1..Len(ss)
<1> DEFINE tt == ss \o op
           m == Len(ss) + Len(op)
           E == Joined(tt, rec)
           last == [tt[m] EXCEPT !.records = Append(@, rec)]
           c == Len(tt[m].records)
           new == <<m, c + 1>>
<1>1. /\ tt \in Seq(FlowGroup) /\ Len(tt) = m /\ m \in Nat \ {0}
      /\ \A s \in 1..Len(ss) : tt[s] = ss[s]
      /\ \A s \in 1..m : s \in 1..Len(ss) \/ (s - Len(ss) \in 1..Len(op) /\ tt[s] = op[s - Len(ss)])
    OBVIOUS
<1> HIDE DEF tt
<1>2. tt[m] \in FlowGroup /\ tt[m].records \in Seq(FlowRecord) /\ c \in Nat
    BY <1>1, FlowPlacesTyped
<1>3. last \in FlowGroup /\ last.records = Append(tt[m].records, rec)
    <2>1. Append(tt[m].records, rec) \in Seq(FlowRecord)
        BY <1>2
    <2> DEFINE g == tt[m]
               a == Append(g.records, rec)
    <2>2. g \in FlowGroup /\ a \in Seq(FlowRecord)
        BY <1>2, <2>1
    <2>3. last = [g EXCEPT !.records = a]
        OBVIOUS
    <2> HIDE DEF g, a, last
    <2>4. last \in FlowGroup /\ last.records = a
        BY <2>2, <2>3 DEF FlowGroup
    <2> QED
        BY <2>4 DEF g, a
<1>4. E = [tt EXCEPT ![m] = last]
    BY <1>1 DEF Joined
<1>5. DOMAIN tt = 1..m /\ tt \in [1..m -> FlowGroup]
    BY <1>1, LenProperties
<1> HIDE DEF E, last
<1>6. /\ E \in [1..m -> FlowGroup] /\ E[m] = last
      /\ \A s \in 1..m : s # m => E[s] = tt[s]
    BY <1>1, <1>3, <1>4, <1>5
<1>7. E \in Seq(FlowGroup) /\ Len(E) = m
    <2>1. m \in Nat
        BY <1>1
    <2> HIDE DEF m
    <2> QED
        BY <1>6, <2>1
<1>8. /\ Len(E[m].records) = c + 1 /\ E[m].records[c + 1] = rec
      /\ \A r \in 1..c : E[m].records[r] = tt[m].records[r]
    BY <1>2, <1>3, <1>6
<1>9. \A p : p \in FlowPlaces(E) <=> \E s \in 1..m : \E r \in 1..Len(E[s].records) : p = <<s, r>>
    <2> HIDE DEF m
    <2>1. \A p : p \in FlowPlaces(E) <=> \E s \in 1..Len(E) : \E r \in 1..Len(E[s].records) : p = <<s, r>>
        BY <1>7, FlowPlacesTyped
    <2> QED
        BY <1>7, <2>1
<1>10. \A p : p \in FlowPlaces(ss) <=> \E s \in 1..Len(ss) : \E r \in 1..Len(ss[s].records) : p = <<s, r>>
    BY FlowPlacesTyped
<1>11. \A s \in 1..m : s \notin 1..Len(ss) => Len(tt[s].records) = 0
    <2>1. Len(<<>>) = 0
        OBVIOUS
    <2> QED
        BY <1>1, <2>1
<1>12. Len(ss) \in Nat /\ 1..Len(ss) \subseteq 1..m
    BY <1>1
<1> HIDE DEF m, c
<1>13. ASSUME NEW p \in FlowPlaces(ss)
       PROVE  p \in FlowPlaces(E) /\ RowAt(E, p) = RowAt(ss, p) /\ p[1] \in 1..Len(ss) /\ p # new
    <2>0. PICK s \in 1..Len(ss) : \E r \in 1..Len(ss[s].records) : p = <<s, r>>
        BY <1>10
    <2>1. PICK r \in 1..Len(ss[s].records) : p = <<s, r>>
        BY <2>0
    <2>2. tt[s] = ss[s] /\ s \in 1..m
        BY <1>1, <1>12
    <2>3. CASE s = m
        <3>1. r \in 1..c /\ r \in 1..Len(E[m].records) /\ r # c + 1
            BY <1>2, <1>8, <2>2, <2>3 DEF c
        <3>2. E[m].records[r] = ss[m].records[r]
            BY <1>8, <2>2, <2>3, <3>1
        <3> QED
            BY <1>9, <2>1, <2>2, <2>3, <3>1, <3>2 DEF RowAt
    <2>4. CASE s # m
        BY <1>6, <1>9, <2>1, <2>2, <2>4 DEF RowAt
    <2> QED
        BY <2>3, <2>4
<1>14. new \in FlowPlaces(E) /\ RowAt(E, new) = rec.row /\ new[1] = m
    <2>1. m \in 1..m /\ c + 1 \in 1..Len(E[m].records)
        BY <1>1, <1>2, <1>8
    <2> QED
        BY <1>8, <1>9, <2>1 DEF RowAt
<1>15. ASSUME NEW p \in FlowPlaces(E), p # new
       PROVE  p \in FlowPlaces(ss)
    <2>0. PICK s \in 1..m : \E r \in 1..Len(E[s].records) : p = <<s, r>>
        BY <1>9
    <2>1. PICK r \in 1..Len(E[s].records) : p = <<s, r>>
        BY <2>0
    <2>2. r \in 1..Len(tt[s].records)
        <3>1. CASE s = m
            <4>1. r \in 1..(c + 1) /\ r # c + 1
                BY <1>8, <1>15, <2>1, <3>1
            <4>2. r \in 1..c
                BY <1>2, <4>1
            <4>3. Len(tt[s].records) = c
                BY <3>1 DEF c
            <4> QED
                BY <4>2, <4>3
        <3>2. CASE s # m
            BY <1>6, <3>2
        <3> QED
            BY <3>1, <3>2
    <2>3. s \in 1..Len(ss)
        BY <1>11, <2>2
    <2> QED
        BY <1>1, <1>10, <2>1, <2>2, <2>3
<1>16. FlowPlaces(E) = FlowPlaces(ss) \cup {new} /\ new \notin FlowPlaces(ss)
    BY <1>13, <1>14, <1>15
<1>17. E = Joined(ss \o op, rec) /\ m = Len(ss) + Len(op)
    BY DEF E, m, tt
<1> QED
    BY <1>7, <1>13, <1>14, <1>16, <1>17

\* The sections of the first n rows in order: each of them in one place, those
\* of a key in one section, and the last of them in the last section.
Grouped(j, ss, n) ==
    /\ ss \in Seq(FlowGroup)
    /\ \A p \in FlowPlaces(ss) : \E i \in 1..n : RowAt(ss, p) = FlowOrder(j)[i]
    /\ \A i \in 1..n : \E p \in FlowPlaces(ss) : RowAt(ss, p) = FlowOrder(j)[i]
    /\ \A p, q \in FlowPlaces(ss) :
           /\ RowAt(ss, p) = RowAt(ss, q) => p = q
           /\ p[1] = q[1] <=> KeyOf(j, RowAt(ss, p)) = KeyOf(j, RowAt(ss, q))
    /\ n > 0 => \E p \in FlowPlaces(ss) : p[1] = Len(ss) /\ RowAt(ss, p) = FlowOrder(j)[n]

KeyAt(j, n) == IF n = 0 THEN NoResult ELSE KeyOf(j, FlowOrder(j)[n])
RecordOfRow(j, n) == [row |-> FlowOrder(j)[n], height |-> j.flow.height]

LEMMA GroupedStep ==
    ASSUME NEW j, Resolved(j), NEW n \in 1..Len(j.result), NEW ss, Grouped(j, ss, n - 1)
    PROVE  Grouped(j, Joined(ss \o Opened(j, KeyAt(j, n - 1), KeyAt(j, n)), RecordOfRow(j, n)), n)
<1> DEFINE N == Len(j.result)
           order == FlowOrder(j)
           K(i) == KeyOf(j, i)
           op == Opened(j, KeyAt(j, n - 1), KeyAt(j, n))
           rec == RecordOfRow(j, n)
           E == Joined(ss \o op, rec)
           m == Len(ss) + Len(op)
<1>1. /\ N \in Nat /\ j.flow \in FlowOptions
      /\ \A i \in 1..N : K(i) \in Seq(Key) /\ Len(K(i)) = j.flow.levels
    BY ResultTyped
<1>2. /\ order \in [1..N -> 1..N]
      /\ \A p, q \in 1..N : order[p] = order[q] => p = q
      /\ \A p, q, r \in 1..N : p < q /\ q < r /\ K(order[p]) = K(order[r]) => K(order[q]) = K(order[p])
    BY OrderOfRows
<1>3. /\ ss \in Seq(FlowGroup) /\ Len(ss) \in Nat
      /\ \A p \in FlowPlaces(ss) : \E i \in 1..(n - 1) : RowAt(ss, p) = order[i]
      /\ \A i \in 1..(n - 1) : \E p \in FlowPlaces(ss) : RowAt(ss, p) = order[i]
      /\ \A p, q \in FlowPlaces(ss) :
             /\ RowAt(ss, p) = RowAt(ss, q) => p = q
             /\ p[1] = q[1] <=> K(RowAt(ss, p)) = K(RowAt(ss, q))
      /\ n - 1 > 0 => \E p \in FlowPlaces(ss) : p[1] = Len(ss) /\ RowAt(ss, p) = order[n - 1]
    BY DEF Grouped
<1>A. ss \in Seq(FlowGroup) /\ Len(ss) \in Nat
    BY <1>3
<1>B. \A p \in FlowPlaces(ss) : \E i \in 1..(n - 1) : RowAt(ss, p) = order[i]
    BY <1>3
<1>C. \A i \in 1..(n - 1) : \E p \in FlowPlaces(ss) : RowAt(ss, p) = order[i]
    BY <1>3
<1>D. \A p, q \in FlowPlaces(ss) :
          /\ RowAt(ss, p) = RowAt(ss, q) => p = q
          /\ p[1] = q[1] <=> K(RowAt(ss, p)) = K(RowAt(ss, q))
    BY <1>3
<1>4. n \in 1..N /\ n - 1 \in 0..N /\ n \in Int /\ n # 0 /\ order[n] \in 1..N
    <2>1. N \in Nat /\ order \in [1..N -> 1..N]
        BY <1>1, <1>2
    <2> HIDE DEF N, order
    <2>2. n \in 1..N
        BY DEF N
    <2> QED
        BY <2>1, <2>2
<1> HIDE DEF N, order, K
<1>5. KeyAt(j, n) = K(order[n]) /\ K(order[n]) \in Seq(Key)
    BY <1>1, <1>4 DEF KeyAt, K, order
<1>6. n - 1 # 0 => /\ n - 1 \in 1..N /\ order[n - 1] \in 1..N
                   /\ KeyAt(j, n - 1) = K(order[n - 1]) /\ K(order[n - 1]) \in Seq(Key)
                   /\ Len(K(order[n - 1])) = Len(K(order[n]))
    <2> SUFFICES ASSUME n - 1 # 0
                 PROVE  /\ n - 1 \in 1..N /\ order[n - 1] \in 1..N
                        /\ KeyAt(j, n - 1) = K(order[n - 1]) /\ K(order[n - 1]) \in Seq(Key)
                        /\ Len(K(order[n - 1])) = Len(K(order[n]))
        OBVIOUS
    <2>1. n - 1 \in 1..N
        BY <1>1, <1>4
    <2>2. order[n - 1] \in 1..N
        BY <1>2, <2>1
    <2>3. KeyAt(j, n - 1) = K(order[n - 1])
        BY DEF KeyAt, K, order
    <2> QED
        BY <1>1, <1>4, <2>1, <2>2, <2>3
<1>7. n - 1 = 0 => KeyAt(j, n - 1) = NoResult
    BY DEF KeyAt
<1>8. NoResult \notin Seq(Key)
    BY BatchAssumption
<1>9. /\ op \in Seq(FlowGroup) /\ \A s \in 1..Len(op) : op[s].records = <<>>
      /\ op = <<>> <=> KeyAt(j, n) = KeyAt(j, n - 1)
    <2>1. KeyAt(j, n) \in Seq(Key) /\ KeyAt(j, n - 1) \in Seq(Key) \cup {NoResult}
        BY <1>5, <1>6, <1>7
    <2>2. KeyAt(j, n - 1) # NoResult => Len(KeyAt(j, n - 1)) = Len(KeyAt(j, n))
        BY <1>5, <1>6, <1>7
    <2> QED
        BY <2>1, <2>2, OpenedTyped
<1> HIDE DEF op
<1>10. Len(op) \in Nat /\ (op # <<>> => Len(op) > 0) /\ (op = <<>> => Len(op) = 0)
    BY <1>9
<1>11. op = <<>> => n - 1 > 0 /\ K(order[n - 1]) = K(order[n])
    BY <1>4, <1>5, <1>6, <1>7, <1>8, <1>9
<1>12. op # <<>> => \A p \in FlowPlaces(ss) : K(RowAt(ss, p)) # K(order[n])
    <2> SUFFICES ASSUME op # <<>>, NEW p \in FlowPlaces(ss), K(RowAt(ss, p)) = K(order[n])
                 PROVE  FALSE
        OBVIOUS
    <2>1. PICK i \in 1..(n - 1) : RowAt(ss, p) = order[i]
        BY <1>3
    <2>2. n - 1 # 0 /\ n - 1 \in 1..N /\ i \in 1..N
        BY <1>1, <1>4, <1>6, <2>1
    <2>3. K(order[n - 1]) = K(order[n])
        <3>1. CASE i = n - 1
            BY <2>1, <3>1
        <3>2. CASE i # n - 1
            <4>1. i < n - 1 /\ n - 1 < n
                BY <1>4, <2>1, <3>2
            <4>2. K(order[n - 1]) = K(order[i])
                BY <1>2, <1>4, <2>1, <2>2, <4>1
            <4> QED
                BY <2>1, <4>2
        <3> QED
            BY <3>1, <3>2
    <2> QED
        BY <1>5, <1>6, <1>9, <2>2, <2>3
<1>13. Len(ss) + Len(op) > 0 /\ m \in Nat
    <2>1. CASE op # <<>>
        BY <1>A, <1>10, <2>1
    <2>2. CASE op = <<>>
        <3>1. PICK p \in FlowPlaces(ss) : p[1] = Len(ss)
            BY <1>3, <1>11, <2>2
        <3>2. Len(ss) \in 1..Len(ss)
            <4>1. PICK s \in 1..Len(ss) : \E r \in 1..Len(ss[s].records) : p = <<s, r>>
                BY <1>3, FlowPlacesTyped
            <4>2. PICK r \in 1..Len(ss[s].records) : p = <<s, r>>
                BY <4>1
            <4> QED
                BY <3>1, <4>2
        <3> QED
            BY <1>A, <1>10, <2>2, <3>2
    <2> QED
        BY <2>1, <2>2
<1>14. rec \in FlowRecord /\ rec.row = order[n]
    <2>1. j.flow.height \in Nat /\ order[n] \in Nat
        BY <1>1, <1>4 DEF FlowOptions
    <2> QED
        BY <2>1 DEF RecordOfRow, FlowRecord, order
<1> HIDE DEF rec
<1>15. /\ E \in Seq(FlowGroup) /\ Len(E) = m
       /\ \E new : /\ new \notin FlowPlaces(ss) /\ new[1] = m
                   /\ FlowPlaces(E) = FlowPlaces(ss) \cup {new}
                   /\ RowAt(E, new) = rec.row
                   /\ \A p \in FlowPlaces(ss) : RowAt(E, p) = RowAt(ss, p) /\ p[1] \in 1..Len(ss)
    BY <1>3, <1>9, <1>13, <1>14, JoinedPlaces
<1> HIDE DEF E, m
<1>16. PICK new : /\ new \notin FlowPlaces(ss) /\ new[1] = m
                  /\ FlowPlaces(E) = FlowPlaces(ss) \cup {new}
                  /\ RowAt(E, new) = order[n]
                  /\ \A p \in FlowPlaces(ss) : RowAt(E, p) = RowAt(ss, p) /\ p[1] \in 1..Len(ss)
    BY <1>14, <1>15
<1>17. \A p \in FlowPlaces(E) : \E i \in 1..n : RowAt(E, p) = order[i]
    <2>1. n \in 1..n /\ \A i \in 1..(n - 1) : i \in 1..n
        BY <1>4
    <2> QED
        BY <1>B, <1>16, <2>1
<1>18. \A i \in 1..n : \E p \in FlowPlaces(E) : RowAt(E, p) = order[i]
    <2> SUFFICES ASSUME NEW i \in 1..n PROVE \E p \in FlowPlaces(E) : RowAt(E, p) = order[i]
        OBVIOUS
    <2>1. i = n \/ i \in 1..(n - 1)
        BY <1>4
    <2>2. CASE i = n
        BY <1>16, <2>2
    <2>3. CASE i \in 1..(n - 1)
        <3>1. PICK p \in FlowPlaces(ss) : RowAt(ss, p) = order[i]
            BY <1>C, <2>3
        <3> QED
            BY <1>16, <3>1
    <2> QED
        BY <2>1, <2>2, <2>3
<1>19. \A p \in FlowPlaces(ss) : RowAt(ss, p) # order[n]
    <2> SUFFICES ASSUME NEW p \in FlowPlaces(ss), RowAt(ss, p) = order[n] PROVE FALSE
        OBVIOUS
    <2>1. PICK i \in 1..(n - 1) : RowAt(ss, p) = order[i]
        BY <1>3
    <2>2. i \in 1..N /\ i # n
        BY <1>1, <1>4, <2>1
    <2> QED
        BY <1>2, <1>4, <2>1, <2>2
<1>20. ASSUME NEW p \in FlowPlaces(ss)
       PROVE  p[1] = m <=> K(RowAt(ss, p)) = K(order[n])
    <2>1. CASE op # <<>>
        <3>1. p[1] \in 1..Len(ss) /\ m > Len(ss)
            BY <1>3, <1>10, <1>16, <2>1 DEF m
        <3>2. p[1] # m
            BY <1>A, <1>13, <3>1
        <3> QED
            BY <1>12, <2>1, <3>2
    <2>2. CASE op = <<>>
        <3>1. PICK q \in FlowPlaces(ss) : q[1] = Len(ss) /\ RowAt(ss, q) = order[n - 1]
            BY <1>3, <1>11, <2>2
        <3>2. m = Len(ss)
            BY <1>3, <1>10, <2>2 DEF m
        <3>3. p[1] = q[1] <=> K(RowAt(ss, p)) = K(RowAt(ss, q))
            BY <1>D
        <3> QED
            BY <1>11, <2>2, <3>1, <3>2, <3>3
    <2> QED
        BY <2>1, <2>2
<1>21. ASSUME NEW p \in FlowPlaces(E), NEW q \in FlowPlaces(E)
       PROVE  /\ RowAt(E, p) = RowAt(E, q) => p = q
              /\ p[1] = q[1] <=> K(RowAt(E, p)) = K(RowAt(E, q))
    <2>1. CASE p = new
        <3>1. CASE q = new
            BY <2>1, <3>1
        <3>2. CASE q # new
            <4>1. q \in FlowPlaces(ss) /\ RowAt(E, q) = RowAt(ss, q)
                BY <1>16, <3>2
            <4> QED
                BY <1>16, <1>19, <1>20, <2>1, <4>1
        <3> QED
            BY <3>1, <3>2
    <2>2. CASE p # new
        <3>0. p \in FlowPlaces(ss) /\ RowAt(E, p) = RowAt(ss, p)
            BY <1>16, <2>2
        <3>1. CASE q = new
            BY <1>16, <1>19, <1>20, <3>0, <3>1
        <3>2. CASE q # new
            <4>1. q \in FlowPlaces(ss) /\ RowAt(E, q) = RowAt(ss, q)
                BY <1>16, <3>2
            <4>2. /\ RowAt(ss, p) = RowAt(ss, q) => p = q
                  /\ p[1] = q[1] <=> K(RowAt(ss, p)) = K(RowAt(ss, q))
                BY <1>D, <3>0, <4>1
            <4> QED
                BY <3>0, <4>1, <4>2
        <3> QED
            BY <3>1, <3>2
    <2> QED
        BY <2>1, <2>2
<1>22. \E p \in FlowPlaces(E) : p[1] = Len(E) /\ RowAt(E, p) = order[n]
    BY <1>15, <1>16
<1> QED
    BY <1>15, <1>17, <1>18, <1>21, <1>22 DEF Grouped, K, order, E, op, rec

\* One step of the recursion, and that it is one.
SectionsStep(j, ss, n) ==
    Joined(ss \o Opened(j, KeyAt(j, n - 1), KeyAt(j, n)), RecordOfRow(j, n))

LEMMA SectionsStepTyped ==
    ASSUME NEW j, Resolved(j), NEW n \in 1..Len(j.result), NEW ss \in Seq(FlowGroup)
    PROVE  SectionsStep(j, ss, n) \in Seq(FlowGroup)
<1> DEFINE op == Opened(j, KeyAt(j, n - 1), KeyAt(j, n))
           rec == RecordOfRow(j, n)
           N == Len(j.result)
<1>1. /\ N \in Nat /\ j.flow \in FlowOptions
      /\ \A i \in 1..N : KeyOf(j, i) \in Seq(Key) /\ Len(KeyOf(j, i)) = j.flow.levels
    BY ResultTyped
<1>2. FlowOrder(j) \in [1..N -> 1..N]
    BY OrderOfRows
<1>3. ASSUME NEW k \in 1..N
      PROVE  FlowOrder(j)[k] \in 1..N /\ KeyAt(j, k) \in Seq(Key) /\ Len(KeyAt(j, k)) = j.flow.levels
    <2>1. FlowOrder(j)[k] \in 1..N /\ k # 0
        BY <1>2
    <2> HIDE DEF N
    <2> QED
        BY <1>1, <2>1 DEF KeyAt
<1>4. KeyAt(j, 0) = NoResult /\ n \in 1..N /\ (n - 1 = 0 \/ n - 1 \in 1..N)
    BY DEF KeyAt
<1> HIDE DEF N
<1>5. op \in Seq(FlowGroup) /\ \A s \in 1..Len(op) : op[s].records = <<>>
    <2>1. KeyAt(j, n) \in Seq(Key) /\ KeyAt(j, n - 1) \in Seq(Key) \cup {NoResult}
        BY <1>3, <1>4
    <2>2. KeyAt(j, n - 1) # NoResult => Len(KeyAt(j, n - 1)) = Len(KeyAt(j, n))
        BY <1>3, <1>4
    <2> QED
        BY <2>1, <2>2, OpenedTyped
<1>6. rec \in FlowRecord
    <2>1. j.flow.height \in Nat /\ FlowOrder(j)[n] \in Nat
        <3>1. FlowOrder(j)[n] \in 1..N /\ N \in Nat
            BY <1>1, <1>3, <1>4
        <3> QED
            BY <1>1, <3>1 DEF FlowOptions
    <2> QED
        BY <2>1 DEF RecordOfRow, FlowRecord
<1> HIDE DEF op, rec
<1>7. CASE Len(ss) + Len(op) > 0
    <2>1. Joined(ss \o op, rec) \in Seq(FlowGroup)
        BY <1>5, <1>6, <1>7, JoinedPlaces
    <2> QED
        BY <2>1 DEF SectionsStep, op, rec
<1>8. CASE ~(Len(ss) + Len(op) > 0)
    <2>1. ss \o op = <<>>
        BY <1>5, <1>8
    <2>2. Joined(<<>>, rec) = <<>>
        BY DEF Joined
    <2>3. Joined(ss \o op, rec) = <<>> /\ <<>> \in Seq(FlowGroup)
        BY <2>1, <2>2
    <2>4. SectionsStep(j, ss, n) = Joined(ss \o op, rec)
        BY DEF SectionsStep, op, rec
    <2> QED
        BY <2>3, <2>4
<1> QED
    BY <1>7, <1>8

LEMMA SectionsRecursion ==
    ASSUME NEW j, Resolved(j)
    PROVE  /\ SectionsUpTo(j)[0] = <<>>
           /\ \A n \in 1..Len(j.result) :
                  SectionsUpTo(j)[n] = SectionsStep(j, SectionsUpTo(j)[n - 1], n)
<1> DEFINE N == Len(j.result)
           T == Seq(FlowGroup)
           next == [x \in (1..N) \X T |-> SectionsStep(j, x[2], x[1])]
           Fixed(f) == f = [n \in 0..N |-> IF n = 0 THEN <<>> ELSE SectionsStep(j, f[n - 1], n)]
<1>1. N \in Nat /\ <<>> \in T
    BY ResultTyped
<1>2. next \in [(1..N) \X T -> T]
    <2>1. ASSUME NEW x \in (1..N) \X T PROVE SectionsStep(j, x[2], x[1]) \in T
        BY SectionsStepTyped
    <2> HIDE DEF N, T
    <2> QED
        BY <2>1
<1> HIDE DEF T
<1>3. PICK f \in [0..N -> T] : f[0] = <<>> /\ \A k \in 1..N : f[k] = next[<<k, f[k - 1]>>]
    <2> DEFINE base == <<>>
    <2>1. base \in T /\ N \in Nat
        BY <1>1
    <2> HIDE DEF next, N, base
    <2>2. Reaches(N, T, base, next)
        BY <1>2, <2>1, RecursionReaches
    <2> QED
        BY <2>2 DEF base, Reaches
<1>4. \A k \in 1..N : f[k] = SectionsStep(j, f[k - 1], k)
    <2> SUFFICES ASSUME NEW k \in 1..N PROVE f[k] = SectionsStep(j, f[k - 1], k)
        OBVIOUS
    <2>1. k - 1 \in 0..N
        BY <1>1
    <2>2. f[k - 1] \in T
        BY <2>1
    <2> HIDE DEF N
    <2>3. <<k, f[k - 1]>> \in (1..N) \X T
        BY <2>2
    <2>4. next[<<k, f[k - 1]>>] = SectionsStep(j, f[k - 1], k)
        BY <2>3
    <2> QED
        BY <1>3, <2>4
<1>5. Fixed(f)
    <2> DEFINE g == [n \in 0..N |-> IF n = 0 THEN <<>> ELSE SectionsStep(j, f[n - 1], n)]
    <2> HIDE DEF N
    <2>1. \A n \in 0..N : n = 0 \/ n \in 1..N
        BY <1>1
    <2>2. \A n \in 0..N : f[n] = g[n]
        BY <1>3, <1>4, <2>1
    <2>3. DOMAIN f = 0..N /\ f = [n \in 0..N |-> f[n]]
        OBVIOUS
    <2> QED
        BY <2>2, <2>3
<1>6. SectionsUpTo(j) = CHOOSE g : Fixed(g)
    BY DEF SectionsUpTo, SectionsStep, KeyAt, RecordOfRow
<1> DEFINE u == SectionsUpTo(j)
<1>7. Fixed(u)
    <2> HIDE DEF Fixed
    <2> QED
        BY <1>5, <1>6
<1>8. u = [n \in 0..N |-> IF n = 0 THEN <<>> ELSE SectionsStep(j, u[n - 1], n)]
    BY <1>7
<1> HIDE DEF u, N, Fixed
<1>9. u[0] = <<>> /\ \A n \in 1..N : u[n] = SectionsStep(j, u[n - 1], n)
    <2>1. 0 \in 0..N /\ \A n \in 1..N : n \in 0..N /\ n # 0
        BY <1>1
    <2> QED
        BY <1>8, <2>1
<1> QED
    BY <1>9 DEF u, N

\* The sections hold every row in one place, and the rows of a key in one section.
RowsGrouped(j, ss) ==
    /\ ss \in Seq(FlowGroup)
    /\ \A p \in FlowPlaces(ss) : RowAt(ss, p) \in DOMAIN j.result
    /\ \A i \in DOMAIN j.result : \E p \in FlowPlaces(ss) : RowAt(ss, p) = i
    /\ \A p, q \in FlowPlaces(ss) :
           /\ RowAt(ss, p) = RowAt(ss, q) => p = q
           /\ p[1] = q[1] <=> KeyOf(j, RowAt(ss, p)) = KeyOf(j, RowAt(ss, q))

LEMMA SectionsGrouped ==
    ASSUME NEW j, Resolved(j)
    PROVE  RowsGrouped(j, Sections(j))
<1> DEFINE N == Len(j.result)
           u == SectionsUpTo(j)
           Bad == {n \in 0..N : ~Grouped(j, u[n], n)}
<1>1. /\ N \in Nat /\ DOMAIN j.result = 1..N /\ j.flow \in FlowOptions
      /\ FlowOrder(j) \in [1..N -> 1..N]
      /\ \A i \in 1..N : \E p \in 1..N : FlowOrder(j)[p] = i
    BY ResultTyped, OrderOfRows
<1>2. Grouped(j, u[0], 0)
    <2>1. u[0] = <<>> /\ <<>> \in Seq(FlowGroup)
        BY SectionsRecursion
    <2>2. FlowPlaces(<<>>) = {}
        BY DEF FlowPlaces
    <2> HIDE DEF u
    <2> QED
        BY <2>1, <2>2 DEF Grouped
<1>3. ASSUME NEW n \in 1..N, Grouped(j, u[n - 1], n - 1)
      PROVE  Grouped(j, u[n], n)
    <2>1. u[n] = SectionsStep(j, u[n - 1], n)
        BY SectionsRecursion
    <2>2. Grouped(j, SectionsStep(j, u[n - 1], n), n)
        <3> HIDE DEF u
        <3> QED
            BY <1>3, GroupedStep DEF SectionsStep
    <2> QED
        BY <2>1, <2>2
<1> HIDE DEF u
<1>4. Bad = {}
    <2> SUFFICES ASSUME Bad # {} PROVE FALSE
        OBVIOUS
    <2>1. Bad \subseteq Nat
        OBVIOUS
    <2>2. PICK n \in Bad : \A k \in Bad : n <= k
        <3> HIDE DEF Bad
        <3> QED
            BY <2>1, LeastNumber
    <2>3. n \in 0..N /\ n # 0 /\ ~Grouped(j, u[n], n)
        BY <1>2
    <2>4. n \in 1..N /\ n - 1 \in 0..N /\ ~(n <= n - 1)
        BY <1>1, <2>3
    <2>5. Grouped(j, u[n - 1], n - 1)
        BY <2>2, <2>4
    <2> QED
        BY <1>3, <2>3, <2>4, <2>5
<1> DEFINE all == u[N]
           ss == Sections(j)
<1>5. Grouped(j, all, N)
    <2>1. N \in 0..N
        BY <1>1
    <2> QED
        BY <1>4, <2>1
<1>6. ss = [s \in DOMAIN all |->
              [all[s] EXCEPT !.footer = IF all[s].records = <<>> THEN NoFooter ELSE j.flow.footer]]
    BY DEF Sections, u
<1>7. all \in Seq(FlowGroup) /\ j.flow.footer \in Nat \cup {NoFooter}
    BY <1>1, <1>5 DEF Grouped, FlowOptions
<1> HIDE DEF all, ss, N
<1>8. DOMAIN all = 1..Len(all) /\ Len(all) \in Nat
    BY <1>7, LenProperties
<1>9. \A g \in FlowGroup, f \in Nat \cup {NoFooter} :
          [g EXCEPT !.footer = f] \in FlowGroup /\ [g EXCEPT !.footer = f].records = g.records
    BY DEF FlowGroup
<1>10. \A s \in 1..Len(all) : ss[s] \in FlowGroup /\ ss[s].records = all[s].records
    <2> SUFFICES ASSUME NEW s \in 1..Len(all) PROVE ss[s] \in FlowGroup /\ ss[s].records = all[s].records
        OBVIOUS
    <2> DEFINE f == IF all[s].records = <<>> THEN NoFooter ELSE j.flow.footer
    <2>1. ss[s] = [all[s] EXCEPT !.footer = f]
        BY <1>6, <1>8
    <2>2. all[s] \in FlowGroup /\ f \in Nat \cup {NoFooter}
        BY <1>7
    <2> HIDE DEF f
    <2> QED
        BY <1>9, <2>1, <2>2
<1>11. ss \in [1..Len(all) -> FlowGroup]
    <2>1. DOMAIN ss = 1..Len(all) /\ ss = [s \in 1..Len(all) |-> ss[s]]
        <3> DEFINE c(s) == [all[s] EXCEPT !.footer = IF all[s].records = <<>> THEN NoFooter
                                                     ELSE j.flow.footer]
        <3>1. ss = [s \in DOMAIN all |-> c(s)]
            BY <1>6
        <3> HIDE DEF c
        <3> QED
            BY <1>8, <3>1
    <2> QED
        BY <1>10, <2>1
<1>12. ss \in Seq(FlowGroup) /\ Len(ss) = Len(all) /\ DOMAIN ss = DOMAIN all
    BY <1>8, <1>11
<1>13. FlowPlaces(ss) = FlowPlaces(all)
    BY <1>8, <1>10, <1>12 DEF FlowPlaces
<1>14. ASSUME NEW p \in FlowPlaces(all) PROVE RowAt(ss, p) = RowAt(all, p)
    <2>1. PICK s \in 1..Len(all) : \E r \in 1..Len(all[s].records) : p = <<s, r>>
        BY <1>7, FlowPlacesTyped
    <2>2. PICK r \in 1..Len(all[s].records) : p = <<s, r>>
        BY <2>1
    <2> QED
        BY <1>10, <2>2 DEF RowAt
<1>15. \A p \in FlowPlaces(all) : RowAt(all, p) \in 1..N
    BY <1>1, <1>5 DEF Grouped
<1>16. \A i \in 1..N : \E p \in FlowPlaces(all) : RowAt(all, p) = i
    <2> SUFFICES ASSUME NEW i \in 1..N PROVE \E p \in FlowPlaces(all) : RowAt(all, p) = i
        OBVIOUS
    <2>1. PICK k \in 1..N : FlowOrder(j)[k] = i
        BY <1>1
    <2> QED
        BY <1>5, <2>1 DEF Grouped
<1>17. \A p, q \in FlowPlaces(all) :
           /\ RowAt(all, p) = RowAt(all, q) => p = q
           /\ p[1] = q[1] <=> KeyOf(j, RowAt(all, p)) = KeyOf(j, RowAt(all, q))
    BY <1>5 DEF Grouped
<1>18. /\ \A p \in FlowPlaces(ss) : RowAt(ss, p) \in DOMAIN j.result
       /\ \A i \in DOMAIN j.result : \E p \in FlowPlaces(ss) : RowAt(ss, p) = i
    BY <1>1, <1>13, <1>14, <1>15, <1>16
<1>19. \A p, q \in FlowPlaces(ss) :
           /\ RowAt(ss, p) = RowAt(ss, q) => p = q
           /\ p[1] = q[1] <=> KeyOf(j, RowAt(ss, p)) = KeyOf(j, RowAt(ss, q))
    BY <1>13, <1>14, <1>17
<1>20. RowsGrouped(j, ss)
    BY <1>12, <1>18, <1>19 DEF RowsGrouped
<1> QED
    BY <1>20 DEF ss

-----------------------------------------------------------------------------
(* The documents of a job and its plan.                                    *)

RowsOf(ss) == {RowAt(ss, p) : p \in FlowPlaces(ss)}
UnitRows(units, u) == RowsOf(units[u].groups)
PlanRows(j, mode) == {Plan(j, mode)[u].records : u \in DOMAIN Plan(j, mode)} \ {{}}

\* The documents divide the rows, as the plan does if it groups as they do.
DividesRows(j, mode, units) ==
    /\ Len(units) \in Nat /\ units \in Seq({units[u] : u \in 1..Len(units)})
    /\ \A u \in 1..Len(units) : units[u].groups \in Seq(FlowGroup)
    /\ \A u, v \in 1..Len(units) : u # v => UnitRows(units, u) \cap UnitRows(units, v) = {}
    /\ UNION {UnitRows(units, u) : u \in 1..Len(units)} = DOMAIN j.result
    /\ GroupedAlike(j, mode) =>
           {UnitRows(units, u) : u \in 1..Len(units)} \ {{}} = PlanRows(j, mode)

\* A family of units over 1..n.
LEMMA FamilyTyped ==
    ASSUME NEW n \in Nat, NEW S, NEW units \in [1..n -> S]
    PROVE  Len(units) = n /\ units \in Seq({units[u] : u \in 1..Len(units)})
<1> DEFINE T == {units[u] : u \in 1..n}
<1>1. units \in [1..n -> T]
    OBVIOUS
<1> HIDE DEF T
<1>2. units \in Seq(T) /\ Len(units) = n
    BY <1>1
<1> QED
    BY <1>2 DEF T

LEMMA OneCatalogDivides ==
    ASSUME NEW j, Resolved(j), NEW mode, mode.mode = "oneCatalog"
    PROVE  DividesRows(j, mode, UnitsOf(j, mode))
<1> DEFINE ss == Sections(j)
           units == UnitsOf(j, mode)
           R == DOMAIN j.result
<1>1. RowsGrouped(j, ss)
    BY SectionsGrouped
<1> HIDE DEF ss
<1>2. units = <<Unit("catalog", ss)>>
    BY DEF UnitsOf, ss
<1>3. Len(units) = 1 /\ units[1].groups = ss /\ units \in [1..1 -> {Unit("catalog", ss)}]
    BY <1>2 DEF Unit
<1>4. units \in Seq({units[u] : u \in 1..Len(units)})
    <2> HIDE DEF units
    <2> QED
        BY <1>3, FamilyTyped
<1> HIDE DEF units
<1>5. \A u \in 1..Len(units) : u = 1
    BY <1>3
<1>6. ss \in Seq(FlowGroup)
    BY <1>1 DEF RowsGrouped
<1>7. UnitRows(units, 1) = R
    <2>1. RowsOf(ss) = R
        BY <1>1 DEF RowsGrouped, RowsOf
    <2> QED
        BY <1>3, <2>1 DEF UnitRows
<1>8. {UnitRows(units, u) : u \in 1..Len(units)} = {R}
    <2>1. 1 \in 1..Len(units)
        BY <1>3
    <2> HIDE DEF R
    <2> QED
        BY <1>5, <1>7, <2>1
<1>9. PlanRows(j, mode) = {R} \ {{}}
    <2> DEFINE P == <<[label |-> "catalog", records |-> R]>>
    <2>1. Plan(j, mode) = P
        BY DEF Plan
    <2>2. DOMAIN P = {1} /\ P[1].records = R
        OBVIOUS
    <2> HIDE DEF P, R
    <2> QED
        BY <2>1, <2>2 DEF PlanRows
<1>10. UNION {UnitRows(units, u) : u \in 1..Len(units)} = R
    <2> HIDE DEF R
    <2> QED
        BY <1>8
<1>11. \A u \in 1..Len(units) : units[u].groups \in Seq(FlowGroup)
    BY <1>3, <1>5, <1>6
<1>12. Len(units) \in Nat
    BY <1>3
<1> QED
    BY <1>4, <1>5, <1>8, <1>9, <1>10, <1>11, <1>12 DEF DividesRows, units

\* Rows that differ in the columns the binding groups by differ in those the
\* mode names, and the other way around.
LEMMA PlanKeyAgrees ==
    ASSUME NEW j, Resolved(j), NEW mode, mode.mode = "perGroup", GroupedAlike(j, mode),
           NEW i \in DOMAIN j.result, NEW k \in DOMAIN j.result
    PROVE  PlanKey(j, i, mode.by) = PlanKey(j, k, mode.by) <=> KeyOf(j, i) = KeyOf(j, k)
<1> DEFINE by == mode.by
           a == j.result[i].keys
           b == j.result[k].keys
           w == Len(a)
           L == j.flow.levels
<1>1. w \in Nat /\ L \in Nat /\ L <= w /\ DOMAIN a = 1..w /\ DOMAIN b = 1..w
    <2>1. a \in Seq(Key) /\ b \in Seq(Key) /\ Len(b) = w /\ L \in Nat /\ L <= w
        BY ResultTyped
    <2> HIDE DEF a, b
    <2> QED
        BY <2>1, LenProperties
<1>2. /\ KeyOf(j, i) \in [1..L -> Key] /\ KeyOf(j, k) \in [1..L -> Key]
      /\ \A l \in 1..L : KeyOf(j, i)[l] = a[l] /\ KeyOf(j, k)[l] = b[l]
    <2>1. i \in 1..Len(j.result) /\ k \in 1..Len(j.result)
        BY ResultTyped
    <2>2. \A n \in 1..Len(j.result) :
              /\ KeyOf(j, n) \in [1..L -> Key]
              /\ \A l \in 1..L : KeyOf(j, n)[l] = j.result[n].keys[l]
        BY ResultTyped
    <2> QED
        BY <2>1, <2>2
<1>3. \A c \in 0..w : (\E n \in DOMAIN by : by[n] = c) <=> c \in 1..L
    BY DEF GroupedAlike
<1>4. \A c \in DOMAIN a : c # 0 => RecordValue(j, i, c) = a[c]
    BY DEF RecordValue
<1>5. \A c \in DOMAIN b : c # 0 => RecordValue(j, k, c) = b[c]
    BY DEF RecordValue
<1>6. \A c : c # 0 /\ c \notin 1..w => RecordValue(j, i, c) = Null /\ RecordValue(j, k, c) = Null
    BY <1>1 DEF RecordValue
<1>7. /\ PlanKey(j, i, by) = [n \in DOMAIN by |-> RecordValue(j, i, by[n])]
      /\ PlanKey(j, k, by) = [n \in DOMAIN by |-> RecordValue(j, k, by[n])]
    BY DEF PlanKey
<1> HIDE DEF a, b, w, L, by
<1>8. ASSUME KeyOf(j, i) = KeyOf(j, k) PROVE PlanKey(j, i, by) = PlanKey(j, k, by)
    <2>1. ASSUME NEW n \in DOMAIN by PROVE RecordValue(j, i, by[n]) = RecordValue(j, k, by[n])
        <3>1. CASE by[n] \in 0..w
            <4>1. by[n] \in 1..L /\ by[n] \in 1..w /\ by[n] # 0
                BY <1>1, <1>3, <3>1
            <4>2. a[by[n]] = b[by[n]]
                BY <1>2, <1>8, <4>1
            <4> QED
                BY <1>1, <1>4, <1>5, <4>1, <4>2
        <3>2. CASE by[n] \notin 0..w
            <4>1. by[n] # 0 /\ by[n] \notin 1..w
                BY <1>1, <3>2
            <4> QED
                BY <1>6, <4>1
        <3> QED
            BY <3>1, <3>2
    <2> QED
        BY <1>7, <2>1
<1>9. ASSUME PlanKey(j, i, by) = PlanKey(j, k, by) PROVE KeyOf(j, i) = KeyOf(j, k)
    <2>1. ASSUME NEW l \in 1..L PROVE KeyOf(j, i)[l] = KeyOf(j, k)[l]
        <3>1. l \in 0..w /\ l \in 1..w /\ l # 0
            BY <1>1
        <3>2. PICK n \in DOMAIN by : by[n] = l
            BY <1>3, <3>1
        <3>3. RecordValue(j, i, l) = RecordValue(j, k, l)
            <4>1. PlanKey(j, i, by)[n] = RecordValue(j, i, l) /\ PlanKey(j, k, by)[n] = RecordValue(j, k, l)
                BY <1>7, <3>2
            <4> QED
                BY <1>9, <4>1
        <3>4. a[l] = b[l]
            BY <1>1, <1>4, <1>5, <3>1, <3>3
        <3> QED
            BY <1>2, <3>4
    <2>2. PICK f, g, I : f = KeyOf(j, i) /\ g = KeyOf(j, k) /\ I = 1..L
        OBVIOUS
    <2>3. f \in [I -> Key] /\ g \in [I -> Key] /\ \A l \in I : f[l] = g[l]
        BY <1>2, <2>1, <2>2
    <2>4. f = [l \in I |-> f[l]] /\ g = [l \in I |-> g[l]]
        BY <2>3
    <2>5. [l \in I |-> f[l]] = [l \in I |-> g[l]]
        BY <2>3, Zenon
    <2>6. f = g
        BY <2>4, <2>5
    <2> QED
        BY <2>2, <2>6
<1> QED
    BY <1>8, <1>9 DEF by

\* A group of the plan for every key, and no other.
LEMMA GroupsSeenTyped ==
    ASSUME NEW j, Resolved(j), NEW by
    PROVE  LET seen == GroupsSeen(j, by)
           IN  /\ \A g \in DOMAIN seen : \E i \in DOMAIN j.result : seen[g] = PlanKey(j, i, by)
               /\ \A i \in DOMAIN j.result : \E g \in DOMAIN seen : seen[g] = PlanKey(j, i, by)
<1> DEFINE D == DOMAIN j.result
           firsts == {i \in D : \A k \in 1..(i - 1) : PlanKey(j, k, by) # PlanKey(j, i, by)}
           n == Cardinality(firsts)
           seen == GroupsSeen(j, by)
<1>1. Len(j.result) \in Nat /\ D = 1..Len(j.result) /\ D \subseteq Nat
    BY ResultTyped
<1>2. firsts \subseteq Nat /\ IsFiniteSet(firsts) /\ n \in Nat
    <2>1. IsFiniteSet(D) /\ firsts \subseteq D
        BY <1>1, FS_Interval
    <2> HIDE DEF firsts
    <2> QED
        BY <1>1, <2>1, FS_Subset, FS_CardinalityType
<1>3. DOMAIN seen = 1..n /\ \A g \in 1..n : seen[g] = PlanKey(j, InOrder(firsts)[g], by)
    BY DEF GroupsSeen
<1>4. /\ \A g \in 1..n : InOrder(firsts)[g] \in firsts
      /\ \A i \in firsts : \E g \in 1..n : InOrder(firsts)[g] = i
    <2> HIDE DEF firsts
    <2> QED
        BY <1>2, InOrderRanks, InOrderReaches
<1>5. \A i \in D : \E k \in firsts : PlanKey(j, k, by) = PlanKey(j, i, by)
    <2> SUFFICES ASSUME NEW i \in D PROVE \E k \in firsts : PlanKey(j, k, by) = PlanKey(j, i, by)
        OBVIOUS
    <2> DEFINE S == {k \in D : PlanKey(j, k, by) = PlanKey(j, i, by)}
    <2>1. S # {} /\ S \subseteq Nat
        BY <1>1
    <2>2. PICK k \in S : \A m \in S : k <= m
        <3> HIDE DEF S
        <3> QED
            BY <2>1, LeastNumber
    <2>3. \A m \in 1..(k - 1) : m \in D /\ ~(k <= m)
        BY <1>1
    <2> QED
        BY <2>2, <2>3
<1> HIDE DEF firsts, seen, n
<1>6. \A g \in DOMAIN seen : \E i \in D : seen[g] = PlanKey(j, i, by)
    <2>1. firsts \subseteq D
        BY DEF firsts
    <2> QED
        BY <1>3, <1>4, <2>1
<1>7. \A i \in D : \E g \in DOMAIN seen : seen[g] = PlanKey(j, i, by)
    BY <1>3, <1>4, <1>5
<1> QED
    BY <1>6, <1>7 DEF seen

LEMMA PerGroupDivides ==
    ASSUME NEW j, Resolved(j), NEW mode, mode.mode = "perGroup"
    PROVE  DividesRows(j, mode, UnitsOf(j, mode))
<1> DEFINE ss == Sections(j)
           units == UnitsOf(j, mode)
           D == DOMAIN j.result
           label(s) == IF ss[s].header = NoText THEN <<"group", s - 1>> ELSE ss[s].header
           K(i) == KeyOf(j, i)
<1>1. RowsGrouped(j, ss)
    BY SectionsGrouped
<1>2. units = [s \in DOMAIN ss |-> Unit(label(s), <<ss[s]>>)]
    <2>1. "perGroup" # "oneCatalog"
        OBVIOUS
    <2> QED
        BY <2>1 DEF UnitsOf
<1> HIDE DEF ss, label
<1>3. ss \in Seq(FlowGroup) /\ DOMAIN ss = 1..Len(ss) /\ Len(ss) \in Nat
    BY <1>1, LenProperties DEF RowsGrouped
<1> DEFINE n == Len(ss)
           S == {Unit(label(s), <<ss[s]>>) : s \in 1..n}
<1>4. units \in [1..n -> S]
    <2> HIDE DEF units
    <2> QED
        BY <1>2, <1>3
<1>5. Len(units) = n /\ units \in Seq({units[u] : u \in 1..Len(units)})
    <2> HIDE DEF units, S, n
    <2> QED
        BY <1>3, <1>4, FamilyTyped DEF n
<1>6. \A s \in 1..n : units[s].groups = <<ss[s]>> /\ ss[s] \in FlowGroup
    <2>1. \A s \in 1..n : units[s] = Unit(label(s), <<ss[s]>>)
        <3> HIDE DEF units
        <3> QED
            BY <1>2, <1>3
    <2>2. \A a, g : Unit(a, g).groups = g
        BY DEF Unit
    <2>3. \A s \in 1..n : ss[s] \in FlowGroup
        BY <1>3
    <2> HIDE DEF units, label, n
    <2> QED
        BY <2>1, <2>2, <2>3
<1> HIDE DEF units, n
<1>7. \A s \in 1..n : units[s].groups \in Seq(FlowGroup)
    <2>1. \A g \in FlowGroup : <<g>> \in Seq(FlowGroup)
        OBVIOUS
    <2> QED
        BY <1>6, <2>1
<1>8. \A p : p \in FlowPlaces(ss) <=> \E s \in 1..n : \E r \in 1..Len(ss[s].records) : p = <<s, r>>
    BY <1>3, FlowPlacesTyped DEF n
<1>9. ASSUME NEW s \in 1..n
      PROVE  \A i : i \in UnitRows(units, s) <=> \E p \in FlowPlaces(ss) : p[1] = s /\ RowAt(ss, p) = i
    <2> DEFINE one == <<ss[s]>>
    <2>1. one \in Seq(FlowGroup) /\ Len(one) = 1 /\ one[1] = ss[s]
        BY <1>6
    <2> HIDE DEF one
    <2>2. \A p : p \in FlowPlaces(one) <=> \E r \in 1..Len(ss[s].records) : p = <<1, r>>
        <3>1. \A p : p \in FlowPlaces(one) <=>
                  \E t \in 1..Len(one) : \E r \in 1..Len(one[t].records) : p = <<t, r>>
            BY <2>1, FlowPlacesTyped
        <3>2. \A t : t \in 1..Len(one) <=> t = 1
            BY <2>1
        <3> QED
            BY <2>1, <3>1, <3>2
    <2>3. \A r \in 1..Len(ss[s].records) :
              <<s, r>> \in FlowPlaces(ss) /\ RowAt(one, <<1, r>>) = RowAt(ss, <<s, r>>)
        BY <1>8, <2>1 DEF RowAt
    <2>4. \A i : i \in UnitRows(units, s) <=> \E p \in FlowPlaces(one) : RowAt(one, p) = i
        BY <1>6 DEF UnitRows, RowsOf, one
    <2>5. \A p \in FlowPlaces(ss) : p[1] = s => \E r \in 1..Len(ss[s].records) : p = <<s, r>>
        BY <1>8
    <2> SUFFICES ASSUME NEW i
                 PROVE  i \in UnitRows(units, s) <=> \E p \in FlowPlaces(ss) : p[1] = s /\ RowAt(ss, p) = i
        OBVIOUS
    <2>6. ASSUME i \in UnitRows(units, s)
          PROVE  \E p \in FlowPlaces(ss) : p[1] = s /\ RowAt(ss, p) = i
        <3>1. PICK p \in FlowPlaces(one) : RowAt(one, p) = i
            BY <2>4, <2>6
        <3>2. PICK r \in 1..Len(ss[s].records) : p = <<1, r>>
            BY <2>2, <3>1
        <3>3. <<s, r>>[1] = s
            OBVIOUS
        <3> QED
            BY <2>3, <3>1, <3>2, <3>3
    <2>7. ASSUME NEW p \in FlowPlaces(ss), p[1] = s, RowAt(ss, p) = i
          PROVE  i \in UnitRows(units, s)
        <3>1. PICK r \in 1..Len(ss[s].records) : p = <<s, r>>
            BY <2>5, <2>7
        <3> QED
            BY <2>2, <2>3, <2>4, <2>7, <3>1
    <2> QED
        BY <2>6, <2>7
<1>10. /\ \A p \in FlowPlaces(ss) : RowAt(ss, p) \in D /\ p[1] \in 1..n
       /\ \A i \in D : \E p \in FlowPlaces(ss) : RowAt(ss, p) = i
       /\ \A p, q \in FlowPlaces(ss) :
              /\ RowAt(ss, p) = RowAt(ss, q) => p = q
              /\ p[1] = q[1] <=> K(RowAt(ss, p)) = K(RowAt(ss, q))
    <2>1. \A p \in FlowPlaces(ss) : p[1] \in 1..n
        BY <1>8
    <2> QED
        BY <1>1, <2>1 DEF RowsGrouped
<1> HIDE DEF D, K
<1>11. ASSUME NEW u \in 1..n, NEW v \in 1..n, u # v
       PROVE  UnitRows(units, u) \cap UnitRows(units, v) = {}
    <2> SUFFICES ASSUME NEW i, i \in UnitRows(units, u), i \in UnitRows(units, v) PROVE FALSE
        OBVIOUS
    <2>1. PICK p \in FlowPlaces(ss) : p[1] = u /\ RowAt(ss, p) = i
        BY <1>9
    <2>2. PICK q \in FlowPlaces(ss) : q[1] = v /\ RowAt(ss, q) = i
        BY <1>9
    <2> QED
        BY <1>10, <1>11, <2>1, <2>2
<1>12. UNION {UnitRows(units, u) : u \in 1..n} = D
    <2>1. \A i \in D : \E u \in 1..n : i \in UnitRows(units, u)
        BY <1>9, <1>10
    <2>2. \A u \in 1..n : \A i \in UnitRows(units, u) : i \in D
        BY <1>9, <1>10
    <2> QED
        BY <2>1, <2>2
<1> DEFINE Same(i) == {k \in D : K(k) = K(i)}
<1>13. ASSUME NEW p \in FlowPlaces(ss)
       PROVE  UnitRows(units, p[1]) = Same(RowAt(ss, p))
    <2>0. p[1] \in 1..n
        BY <1>10
    <2>1. ASSUME NEW i \in UnitRows(units, p[1]) PROVE i \in Same(RowAt(ss, p))
        <3>1. PICK q \in FlowPlaces(ss) : q[1] = p[1] /\ RowAt(ss, q) = i
            BY <1>9, <2>0, <2>1
        <3> QED
            BY <1>10, <3>1
    <2>2. ASSUME NEW i \in Same(RowAt(ss, p)) PROVE i \in UnitRows(units, p[1])
        <3>1. PICK q \in FlowPlaces(ss) : RowAt(ss, q) = i
            BY <1>10
        <3>2. q[1] = p[1]
            BY <1>10, <2>2, <3>1
        <3> QED
            BY <1>9, <2>0, <3>1, <3>2
    <2> HIDE DEF Same
    <2> QED
        BY <2>1, <2>2
<1>14. {UnitRows(units, u) : u \in 1..n} \ {{}} = {Same(i) : i \in D}
    <2>1. ASSUME NEW u \in 1..n, UnitRows(units, u) # {}
          PROVE  \E i \in D : UnitRows(units, u) = Same(i)
        <3>1. PICK p \in FlowPlaces(ss) : p[1] = u
            BY <1>9, <2>1
        <3> HIDE DEF Same
        <3> QED
            BY <1>10, <1>13, <3>1
    <2>2. ASSUME NEW i \in D
          PROVE  Same(i) # {} /\ \E u \in 1..n : UnitRows(units, u) = Same(i)
        <3>1. PICK p \in FlowPlaces(ss) : RowAt(ss, p) = i
            BY <1>10
        <3>2. i \in Same(i)
            OBVIOUS
        <3> HIDE DEF Same
        <3> QED
            BY <1>10, <1>13, <3>1, <3>2
    <2> HIDE DEF Same
    <2> QED
        BY <2>1, <2>2
<1>15. ASSUME GroupedAlike(j, mode)
       PROVE  PlanRows(j, mode) = {Same(i) : i \in D}
    <2> DEFINE by == mode.by
               Q(i) == PlanKey(j, i, by)
               seen == GroupsSeen(j, by)
               P == Plan(j, mode)
    <2>1. P = [g \in DOMAIN seen |-> [label |-> seen[g], records |-> {i \in D : Q(i) = seen[g]}]]
        <3>1. "perGroup" # "oneCatalog" /\ "perGroup" # "perRecord"
            OBVIOUS
        <3> QED
            BY <3>1 DEF Plan, D
    <2>2. /\ \A g \in DOMAIN seen : \E i \in D : seen[g] = Q(i)
          /\ \A i \in D : \E g \in DOMAIN seen : seen[g] = Q(i)
        BY GroupsSeenTyped DEF D
    <2>8. \A i, k \in D : Q(i) = Q(k) <=> K(i) = K(k)
        BY <1>15, PlanKeyAgrees DEF D, K
    <2> HIDE DEF seen, P, Q
    <2>3. DOMAIN P = DOMAIN seen /\ \A g \in DOMAIN seen : P[g].records = {i \in D : Q(i) = seen[g]}
        BY <2>1
    <2>4. ASSUME NEW g \in DOMAIN seen PROVE \E i \in D : P[g].records = Same(i)
        BY <2>2, <2>3, <2>8
    <2>5. ASSUME NEW i \in D PROVE Same(i) # {} /\ \E g \in DOMAIN seen : P[g].records = Same(i)
        BY <2>2, <2>3, <2>8
    <2>6. PlanRows(j, mode) = {P[g].records : g \in DOMAIN seen} \ {{}}
        BY <2>3 DEF PlanRows, P
    <2>7. \A i \in D : Same(i) # {}
        BY <2>5
    <2> HIDE DEF Same
    <2> QED
        BY <2>4, <2>5, <2>6, <2>7
<1> QED
    BY <1>3, <1>5, <1>7, <1>11, <1>12, <1>14, <1>15 DEF DividesRows, units, D, n

LEMMA PerRecordDivides ==
    ASSUME NEW j, Resolved(j), NEW mode, mode.mode = "perRecord"
    PROVE  DividesRows(j, mode, UnitsOf(j, mode))
<1> DEFINE ss == Sections(j)
           units == UnitsOf(j, mode)
           D == DOMAIN j.result
           doc(s, r) == [ss[s] EXCEPT !.records = <<ss[s].records[r]>>, !.footer = NoFooter]
           unit(s, r) == Unit(j.result[ss[s].records[r].row].name, <<doc(s, r)>>)
           ff == [s \in DOMAIN ss |-> [r \in DOMAIN ss[s].records |-> unit(s, r)]]
           T == {unit(x[1], x[2]) : x \in FlowPlaces(ss)}
<1>1. RowsGrouped(j, ss)
    BY SectionsGrouped
<1>2. units = SeqsExt!FlattenSeq(ff)
    <2>1. "perRecord" # "oneCatalog" /\ "perRecord" # "perGroup"
        OBVIOUS
    <2> QED
        BY <2>1 DEF UnitsOf
<1> HIDE DEF ss
<1>3. ss \in Seq(FlowGroup) /\ DOMAIN ss = 1..Len(ss) /\ Len(ss) \in Nat
    BY <1>1, LenProperties DEF RowsGrouped
<1>4. /\ \A s \in 1..Len(ss) : ss[s] \in FlowGroup /\ ss[s].records \in Seq(FlowRecord)
      /\ \A s \in 1..Len(ss) : Len(ss[s].records) \in Nat
      /\ \A p : p \in FlowPlaces(ss) <=>
             \E s \in 1..Len(ss) : \E r \in 1..Len(ss[s].records) : p = <<s, r>>
    BY <1>3, FlowPlacesTyped
<1>5. \A s \in 1..Len(ss) : DOMAIN ss[s].records = 1..Len(ss[s].records)
    BY <1>4, LenProperties
<1>6. ASSUME NEW s \in 1..Len(ss), NEW r \in 1..Len(ss[s].records)
      PROVE  /\ doc(s, r) \in FlowGroup /\ Len(doc(s, r).records) = 1
             /\ doc(s, r).records[1] = ss[s].records[r]
    <2> DEFINE g == ss[s]
               a == <<ss[s].records[r]>>
               e == [g EXCEPT !.records = a, !.footer = NoFooter]
    <2>1. g \in FlowGroup
        BY <1>4
    <2>2. ss[s].records[r] \in FlowRecord
        BY <1>4
    <2>3. a \in Seq(FlowRecord) /\ Len(a) = 1 /\ a[1] = ss[s].records[r]
        BY <2>2
    <2> HIDE DEF g, a
    <2>4. e \in FlowGroup /\ e.records = a
        BY <2>1, <2>3 DEF FlowGroup
    <2>5. doc(s, r) = e
        BY DEF g, a
    <2> HIDE DEF e, doc
    <2> QED
        BY <2>3, <2>4, <2>5
<1> HIDE DEF doc
<1>7. \A s, r : unit(s, r).groups = <<doc(s, r)>>
    BY DEF Unit
<1> HIDE DEF unit
<1>8. DOMAIN ff = 1..Len(ss) /\ \A s \in 1..Len(ss) : ff[s] = [r \in 1..Len(ss[s].records) |-> unit(s, r)]
    BY <1>3, <1>5
<1> HIDE DEF ff
<1>9. \A s \in 1..Len(ss) : \A r \in 1..Len(ss[s].records) : unit(s, r) \in T
    <2> SUFFICES ASSUME NEW s \in 1..Len(ss), NEW r \in 1..Len(ss[s].records) PROVE unit(s, r) \in T
        OBVIOUS
    <2>1. <<s, r>> \in FlowPlaces(ss) /\ <<s, r>>[1] = s /\ <<s, r>>[2] = r
        BY <1>4
    <2> QED
        BY <2>1
<1> HIDE DEF T
<1>10. \A s \in 1..Len(ss) : ff[s] \in Seq(T)
    <2> SUFFICES ASSUME NEW s \in 1..Len(ss) PROVE ff[s] \in Seq(T)
        OBVIOUS
    <2> DEFINE k == Len(ss[s].records)
    <2>1. ff[s] \in [1..k -> T] /\ k \in Nat
        BY <1>4, <1>8, <1>9
    <2> HIDE DEF k
    <2> QED
        BY <2>1
<1>11. ff \in Seq(Seq(T)) /\ Len(ff) = Len(ss)
    <2>1. ff = [s \in 1..Len(ss) |-> ff[s]]
        <3> DEFINE c(s) == [r \in DOMAIN ss[s].records |-> unit(s, r)]
        <3>1. ff = [s \in DOMAIN ss |-> c(s)]
            BY DEF ff
        <3> HIDE DEF c
        <3> QED
            BY <1>3, <3>1
    <2>2. ff \in [1..Len(ss) -> Seq(T)]
        BY <1>10, <2>1
    <2> QED
        BY <1>3, <2>2
<1>12. Joins(ff, Len(ff), units, T)
    <2>1. SeqsExt!FlattenSeq(ff) = Seqs!FlattenSeq(ff)
        BY DEF SeqsExt!FlattenSeq, Seqs!FlattenSeq
    <2> QED
        BY <1>2, <1>11, <2>1, FlattenJoins
<1> HIDE DEF units
<1>13. PartPlaces(ff, Len(ff)) = FlowPlaces(ss)
    <2>1. \A s \in 1..Len(ss) : DOMAIN ff[s] = DOMAIN ss[s].records
        BY <1>5, <1>8
    <2> QED
        BY <1>3, <1>11, <2>1 DEF PartPlaces, FlowPlaces
<1> DEFINE n == Len(units)
<1>14. PICK p \in [1..n -> FlowPlaces(ss)] :
           /\ \A u \in 1..n : units[u] = ff[p[u][1]][p[u][2]]
           /\ \A u, v \in 1..n : p[u] = p[v] => u = v
           /\ \A x \in FlowPlaces(ss) : \E u \in 1..n : p[u] = x
    BY <1>12, <1>13 DEF Joins
<1>15. units \in Seq(T) /\ n \in Nat
    BY <1>12 DEF Joins
<1>16. units \in Seq({units[u] : u \in 1..n})
    <2>1. units \in [1..n -> T]
        BY <1>15, LenProperties
    <2> QED
        BY <1>15, <2>1, FamilyTyped
<1> HIDE DEF n
<1>17. ASSUME NEW u \in 1..n
       PROVE  units[u].groups \in Seq(FlowGroup) /\ UnitRows(units, u) = {RowAt(ss, p[u])}
    <2>1. p[u] \in FlowPlaces(ss)
        BY <1>14
    <2>2. PICK s \in 1..Len(ss) : \E r \in 1..Len(ss[s].records) : p[u] = <<s, r>>
        BY <1>4, <2>1
    <2>3. PICK r \in 1..Len(ss[s].records) : p[u] = <<s, r>>
        BY <2>2
    <2> DEFINE one == <<doc(s, r)>>
    <2>4. units[u] = unit(s, r)
        <3>1. units[u] = ff[s][r]
            BY <1>14, <2>3
        <3> QED
            BY <1>8, <3>1
    <2>5. units[u].groups = one
        BY <1>7, <2>4
    <2>6. one \in Seq(FlowGroup) /\ Len(one) = 1 /\ one[1] = doc(s, r)
        BY <1>6
    <2> HIDE DEF one
    <2>7. \A x : x \in FlowPlaces(one) <=>
                  \E t \in 1..Len(one) : \E k \in 1..Len(one[t].records) : x = <<t, k>>
        BY <2>6, FlowPlacesTyped
    <2>8. Len(one[1].records) = 1 /\ one[1].records[1] = ss[s].records[r]
        BY <1>6, <2>6
    <2>9. 1..Len(one) = {1} /\ 1..Len(one[1].records) = {1}
        BY <2>6, <2>8
    <2>10. \A x : x \in FlowPlaces(one) <=> x = <<1, 1>>
        <3>1. \A x : x \in FlowPlaces(one) <=>
                      \E t \in {1} : \E k \in 1..Len(one[t].records) : x = <<t, k>>
            BY <2>7, <2>9
        <3> QED
            BY <2>9, <3>1
    <2>11. RowAt(one, <<1, 1>>) = RowAt(ss, p[u])
        BY <2>3, <2>8 DEF RowAt
    <2>12. RowsOf(one) = {RowAt(ss, p[u])}
        BY <2>10, <2>11 DEF RowsOf
    <2> QED
        BY <2>5, <2>6, <2>12 DEF UnitRows
<1>18. /\ \A x \in FlowPlaces(ss) : RowAt(ss, x) \in D
       /\ \A i \in D : \E x \in FlowPlaces(ss) : RowAt(ss, x) = i
       /\ \A x, y \in FlowPlaces(ss) : RowAt(ss, x) = RowAt(ss, y) => x = y
    BY <1>1 DEF RowsGrouped
<1> HIDE DEF D
<1>19. ASSUME NEW u \in 1..n, NEW v \in 1..n, u # v
       PROVE  UnitRows(units, u) \cap UnitRows(units, v) = {}
    <2>1. p[u] # p[v] /\ p[u] \in FlowPlaces(ss) /\ p[v] \in FlowPlaces(ss)
        BY <1>14, <1>19
    <2>2. RowAt(ss, p[u]) # RowAt(ss, p[v])
        BY <1>18, <2>1
    <2> QED
        BY <1>17, <2>2
<1>20. \A i \in D : \E u \in 1..n : UnitRows(units, u) = {i}
    <2> SUFFICES ASSUME NEW i \in D PROVE \E u \in 1..n : UnitRows(units, u) = {i}
        OBVIOUS
    <2>1. PICK x \in FlowPlaces(ss) : RowAt(ss, x) = i
        BY <1>18
    <2>2. PICK u \in 1..n : p[u] = x
        BY <1>14
    <2> QED
        BY <1>17, <2>1, <2>2
<1>21. \A u \in 1..n : \E i \in D : UnitRows(units, u) = {i}
    <2> SUFFICES ASSUME NEW u \in 1..n PROVE \E i \in D : UnitRows(units, u) = {i}
        OBVIOUS
    <2>1. p[u] \in FlowPlaces(ss)
        BY <1>14
    <2> QED
        BY <1>17, <1>18, <2>1
<1>22. UNION {UnitRows(units, u) : u \in 1..n} = D
    <2>1. \A i \in D : \E u \in 1..n : i \in UnitRows(units, u)
        BY <1>20
    <2>2. \A u \in 1..n : \A i \in UnitRows(units, u) : i \in D
        BY <1>21
    <2> QED
        BY <2>1, <2>2
<1>23. {UnitRows(units, u) : u \in 1..n} \ {{}} = {{i} : i \in D}
    <2> DEFINE A == {UnitRows(units, u) : u \in 1..n} \ {{}}
               B == {{i} : i \in D}
    <2>1. ASSUME NEW X \in A PROVE X \in B
        <3>1. PICK u \in 1..n : X = UnitRows(units, u)
            OBVIOUS
        <3>2. PICK i \in D : UnitRows(units, u) = {i}
            BY <1>21
        <3> QED
            BY <3>1, <3>2
    <2>2. ASSUME NEW X \in B PROVE X \in A
        <3>1. PICK i \in D : X = {i}
            OBVIOUS
        <3>2. PICK u \in 1..n : UnitRows(units, u) = {i}
            BY <1>20
        <3>3. X = UnitRows(units, u) /\ X # {}
            BY <3>1, <3>2
        <3> QED
            BY <3>3
    <2> HIDE DEF A, B
    <2>3. A = B
        BY <2>1, <2>2
    <2> QED
        BY <2>3 DEF A, B
<1>24. PlanRows(j, mode) = {{i} : i \in D}
    <2> DEFINE P == Plan(j, mode)
    <2>1. P = [i \in D |-> [label |-> RecordLabel(j, i, mode.key), records |-> {i}]]
        <3>1. "perRecord" # "oneCatalog" /\ "perRecord" # "perGroup"
            OBVIOUS
        <3> QED
            BY <3>1 DEF Plan, D
    <2> HIDE DEF P
    <2>2. DOMAIN P = D /\ \A i \in D : P[i].records = {i}
        BY <2>1
    <2>3. \A i \in D : {i} # {}
        OBVIOUS
    <2>4. PlanRows(j, mode) = {P[i].records : i \in D} \ {{}}
        BY <2>2 DEF PlanRows, P
    <2>5. {P[i].records : i \in D} = {{i} : i \in D}
        BY <2>2
    <2>6. {{i} : i \in D} \ {{}} = {{i} : i \in D}
        BY <2>3
    <2> QED
        BY <2>4, <2>5, <2>6
<1> QED
    BY <1>15, <1>16, <1>17, <1>19, <1>22, <1>23, <1>24 DEF DividesRows, units, D, n

\* A job that does not fail has a result, and a mode.
LEMMA JobRuns ==
    ASSUME NEW j \in Job, Failure(j) = "none"
    PROVE  Resolved(j) /\ ModeOf(j) \in Mode /\ DividesRows(j, ModeOf(j), UnitsOf(j, ModeOf(j)))
<1>1. ~("none" = "invalid job") /\ ~("none" = "script error") /\ ~("none" = "no build")
      /\ ~("none" = "no mode") /\ ~("none" = "no result") /\ ~("none" = "not a record flow")
    BY Zenon
<1>2. ~(BindingOf(j) = NoBinding) /\ ~(ModeOf(j) = NoMode) /\ ~(j.result = NoResult)
    BY <1>1, Zenon DEF Failure
<1>3. Resolved(j)
    BY <1>2 DEF Resolved
<1>4. j.mode \in Mode \cup {NoMode} /\ j.script \in Script \cup {NoScript}
    BY DEF Job
<1>5. ModeOf(j) \in Mode \cup {NoMode}
    <2>1. CASE Asks(j)
        <3>1. j.script \in Script /\ j.script.build # NoBinding
            BY <1>4, <2>1 DEF Asks, Scripted
        <3>2. j.script.build \in BuildSpec
            BY <3>1 DEF Script
        <3>3. j.script.build.mode \in Mode
            BY <3>2 DEF BuildSpec
        <3> QED
            BY <2>1, <3>3 DEF ModeOf
    <2>2. CASE ~Asks(j)
        BY <1>4, <2>2 DEF ModeOf
    <2> QED
        BY <2>1, <2>2
<1> DEFINE mode == ModeOf(j)
<1>6. mode \in Mode
    BY <1>2, <1>5
<1> HIDE DEF mode
<1>7. mode.mode = "oneCatalog" \/ mode.mode = "perGroup" \/ mode.mode = "perRecord"
    BY <1>6 DEF Mode
<1>8. DividesRows(j, mode, UnitsOf(j, mode))
    BY <1>3, <1>7, OneCatalogDivides, PerGroupDivides, PerRecordDivides
<1> QED
    BY <1>3, <1>6, <1>8 DEF mode

-----------------------------------------------------------------------------
(* The rows on the frames.                                                 *)

\* A record block shows the row of the record it is for.
RowTrue(b) == b.block = "record" => b.row = RowAt(groups, <<b.group, b.record>>)

RowsTrue == \A f \in 1..Len(chain) : \A i \in DOMAIN frames[f].blocks : RowTrue(frames[f].blocks[i])

LEMMA RowsPut ==
    ASSUME LayoutTypeOK, AheadEmpty, RowsTrue, chain' = chain, groups' = groups,
           NEW f, NEW fr, NEW b, NEW h, Puts(f, fr, b, h), RowTrue(b)
    PROVE  RowsTrue'
<1> SUFFICES ASSUME NEW g \in 1..Len(chain), NEW i \in DOMAIN frames'[g].blocks
             PROVE  RowTrue(frames'[g].blocks[i])
    BY DEF RowsTrue, RowTrue, RowAt
<1>1. CASE i \in DOMAIN frames[g].blocks /\ frames'[g].blocks[i] = frames[g].blocks[i]
    BY <1>1 DEF RowsTrue
<1>2. CASE frames'[g].blocks[i].block = "header"
    BY <1>2 DEF RowTrue
<1>3. CASE g = f /\ frames'[g].blocks[i] = b
    BY <1>3
<1>4. ASSUME i \in DOMAIN frames[g].blocks, \A j \in 1..i : frames'[g].blocks[j] = frames[g].blocks[j]
      PROVE  frames'[g].blocks[i] = frames[g].blocks[i]
    <2>1. i \in 1..i
        BY <1>4, LayoutTypes
    <2> QED
        BY <1>4, <2>1
<1> QED
    BY <1>1, <1>2, <1>3, <1>4, BlockAfter

LEMMA RowsStep ==
    ASSUME LayoutTypeOK, AheadEmpty, StackTrue, RowsTrue, LayoutNext
    PROVE  RowsTrue'
<1>1. chain' = chain /\ groups' = groups
    BY Moves
<1>2. CASE Quiet
    <2>1. frames' = frames
        BY <1>2, Moves
    <2> QED
        BY <1>1, <2>1 DEF RowsTrue, RowTrue, RowAt
<1>3. CASE OpenSection
    <2> DEFINE f == FrameFor(opts.headerHeight)
               b == Header(This.header, This.level, FALSE, frames[f].used)
    <2>1. Puts(f, frames[f], b, opts.headerHeight) /\ b.block = "header"
        BY <1>3, OpenSectionPuts
    <2> HIDE DEF f, b
    <2>2. RowTrue(b)
        BY <2>1 DEF RowTrue
    <2> QED
        BY <1>1, <2>1, <2>2, RowsPut
<1>4. \A top : RowTrue(RecordAt(top))
    BY DEF RowTrue, RecordAt, RowAt, This
<1>5. CASE PlaceRecord
    <2> DEFINE b == RecordAt(frames[frame].used)
    <2>1. Puts(frame, frames[frame], b, This.records[record].height)
        BY <1>5, PlaceRecordPuts
    <2>2. RowTrue(b)
        BY <1>4
    <2> HIDE DEF b
    <2> QED
        BY <1>1, <2>1, <2>2, RowsPut
<1>6. CASE ContinueRecord
    <2> DEFINE h  == This.records[record].height
               fr == ContinuationFrame(group, h, frame + 1)
               b  == RecordAt(fr.used)
    <2>1. Puts(frame + 1, fr, b, h)
        BY <1>6, ContinueRecordPuts
    <2>2. RowTrue(b)
        BY <1>4
    <2> HIDE DEF h, fr, b
    <2> QED
        BY <1>1, <2>1, <2>2, RowsPut
<1>7. CASE PlaceFooter
    <2> DEFINE f == FrameFor(This.footer)
               b == FooterAt(frames[f].used)
    <2>1. Puts(f, frames[f], b, This.footer)
        BY <1>7, PlaceFooterPuts
    <2>2. RowTrue(b)
        BY DEF FooterAt, RowTrue
    <2> HIDE DEF f, b
    <2> QED
        BY <1>1, <2>1, <2>2, RowsPut
<1> QED
    BY <1>2, <1>3, <1>5, <1>6, <1>7 DEF LayoutNext, Quiet

\* The frames that are kept show rows of the flow, all of them if it did not overflow.
LEMMA KeptRows ==
    ASSUME LayoutInv, RowsTrue
    PROVE  LET shown == UNION {RowsOn(PaginatedFrames[f].blocks) : f \in DOMAIN PaginatedFrames}
           IN  /\ shown \subseteq RowsOf(groups)
               /\ step = "done" /\ ~overflow => shown = RowsOf(groups)
<1> DEFINE kept == {f \in DOMAIN frames : frames[f].blocks # <<>>}
           n == Cardinality(kept)
           shown == UNION {RowsOn(PaginatedFrames[f].blocks) : f \in DOMAIN PaginatedFrames}
           k == Len(chain)
           Shows(f, i) == i \in DOMAIN frames[f].blocks /\ frames[f].blocks[i].block = "record"
<1>1. k \in Nat /\ DOMAIN frames = 1..k /\ frames \in [1..k -> PaginatedFrame]
    BY LayoutTypes DEF LayoutInv
<1>2. kept \subseteq Nat /\ IsFiniteSet(kept) /\ n \in Nat
    <2>1. IsFiniteSet(1..k) /\ kept \subseteq 1..k
        BY <1>1, FS_Interval
    <2> HIDE DEF kept, k
    <2>2. kept \subseteq Nat
        BY <1>1, <2>1
    <2>3. IsFiniteSet(kept)
        BY <2>1, FS_Subset
    <2>4. n \in Nat
        BY <2>3, FS_CardinalityType
    <2> QED
        BY <2>2, <2>3, <2>4
<1>3. /\ \A i \in 1..n : InOrder(kept)[i] \in kept
      /\ \A f \in kept : \E i \in 1..n : InOrder(kept)[i] = f
    <2> HIDE DEF kept
    <2> QED
        BY <1>2, InOrderRanks, InOrderReaches
<1>4. DOMAIN PaginatedFrames = 1..n /\ \A i \in 1..n : PaginatedFrames[i] = frames[InOrder(kept)[i]]
    BY DEF PaginatedFrames
<1>5. \A x : x \in shown <=> \E f \in kept : x \in RowsOn(frames[f].blocks)
    <2> HIDE DEF kept, n
    <2> QED
        BY <1>3, <1>4
<1>6. \A f \in 1..k : \A i \in DOMAIN frames[f].blocks : f \in kept
    BY <1>1
<1>7. \A f \in kept : f \in 1..k
    BY <1>1
<1> HIDE DEF kept, shown
<1>8. \A x : x \in shown <=> \E f \in 1..k : \E i \in DOMAIN frames[f].blocks :
                                Shows(f, i) /\ frames[f].blocks[i].row = x
    <2> SUFFICES ASSUME NEW x
                 PROVE  x \in shown <=> \E f \in 1..k : \E i \in DOMAIN frames[f].blocks :
                                           Shows(f, i) /\ frames[f].blocks[i].row = x
        OBVIOUS
    <2>1. \A f : x \in RowsOn(frames[f].blocks) <=>
                     \E i \in DOMAIN frames[f].blocks : Shows(f, i) /\ frames[f].blocks[i].row = x
        BY DEF RowsOn
    <2> QED
        BY <1>5, <1>6, <1>7, <2>1
<1>9. \A p : p \in RecordPlaces <=> \E f \in 1..k : \E i \in DOMAIN frames[f].blocks :
                                       p = <<f, i>> /\ Shows(f, i)
    BY <1>1 DEF RecordPlaces, Places, BlockAt
<1>10. ASSUME NEW f \in 1..k, NEW i \in DOMAIN frames[f].blocks, Shows(f, i)
       PROVE  /\ <<f, i>> \in RecordPlaces
              /\ frames[f].blocks[i].row = RowAt(groups, RecordOf(<<f, i>>))
    <2>1. <<f, i>> \in RecordPlaces
        BY <1>9, <1>10
    <2>2. RecordOf(<<f, i>>) = <<frames[f].blocks[i].group, frames[f].blocks[i].record>>
        BY DEF RecordOf, BlockAt
    <2>3. frames[f].blocks[i].row
            = RowAt(groups, <<frames[f].blocks[i].group, frames[f].blocks[i].record>>)
        BY <1>10 DEF RowsTrue, RowTrue
    <2> QED
        BY <2>1, <2>2, <2>3
<1> HIDE DEF Shows, k
<1>11. \A x : x \in shown <=> \E p \in RecordPlaces : RowAt(groups, RecordOf(p)) = x
    <2> SUFFICES ASSUME NEW x
                 PROVE  x \in shown <=> \E p \in RecordPlaces : RowAt(groups, RecordOf(p)) = x
        OBVIOUS
    <2>1. ASSUME x \in shown PROVE \E p \in RecordPlaces : RowAt(groups, RecordOf(p)) = x
        <3>1. PICK f \in 1..k : \E i \in DOMAIN frames[f].blocks :
                                    Shows(f, i) /\ frames[f].blocks[i].row = x
            BY <1>8, <2>1
        <3>2. PICK i \in DOMAIN frames[f].blocks : Shows(f, i) /\ frames[f].blocks[i].row = x
            BY <3>1
        <3> QED
            BY <1>10, <3>2
    <2>2. ASSUME NEW p \in RecordPlaces, RowAt(groups, RecordOf(p)) = x PROVE x \in shown
        <3>1. PICK f \in 1..k : \E i \in DOMAIN frames[f].blocks : p = <<f, i>> /\ Shows(f, i)
            BY <1>9
        <3>2. PICK i \in DOMAIN frames[f].blocks : p = <<f, i>> /\ Shows(f, i)
            BY <3>1
        <3> QED
            BY <1>8, <1>10, <2>2, <3>2
    <2> QED
        BY <2>1, <2>2
<1>12. FlowRecords = FlowPlaces(groups)
    BY DEF FlowRecords, FlowPlaces
<1>13. \A p \in RecordPlaces : RecordOf(p) \in FlowPlaces(groups)
    BY <1>12 DEF LayoutInv, RecordsTrue
<1>14. shown \subseteq RowsOf(groups)
    <2> SUFFICES ASSUME NEW x \in shown PROVE x \in RowsOf(groups)
        OBVIOUS
    <2>1. PICK p \in RecordPlaces : RowAt(groups, RecordOf(p)) = x
        BY <1>11
    <2> QED
        BY <1>13, <2>1 DEF RowsOf
<1>15. ASSUME step = "done", ~overflow PROVE shown = RowsOf(groups)
    <2>1. {RecordOf(p) : p \in RecordPlaces} = FlowPlaces(groups)
        BY <1>12, <1>15 DEF LayoutInv, PassedPlaced, PlacedRecords
    <2>2. ASSUME NEW x \in RowsOf(groups) PROVE x \in shown
        <3>1. PICK y \in FlowPlaces(groups) : RowAt(groups, y) = x
            BY DEF RowsOf
        <3>2. PICK p \in RecordPlaces : RecordOf(p) = y
            BY <2>1
        <3> QED
            BY <1>11, <3>1, <3>2
    <2> QED
        BY <1>14, <2>2
<1> QED
    BY <1>14, <1>15 DEF shown

-----------------------------------------------------------------------------
(* The run of a job.                                                       *)

BatchUnits == UnitsOf(job, ModeOf(job))

\* A document shows rows of its unit, all of them if it did not overflow.
RunTrue(run, ss) ==
    /\ RowsIn(run) \subseteq RowsOf(ss)
    /\ ~run.overflow => RowsIn(run) = RowsOf(ss)

\* The queue is the last units, in order.
QueueTrue(units) ==
    /\ queue \in Seq({units[u] : u \in 1..Len(units)})
    /\ Len(queue) <= Len(units)
    /\ \A i \in 1..Len(queue) : queue[i] = units[Len(units) - Len(queue) + i]

\* The runs are those of the first units.
RunsTrue(units) ==
    /\ \E S : runs \in Seq(S)
    /\ \A r \in 1..Len(runs) : RunTrue(runs[r], units[r].groups)

\* No document is being paginated, or the one after the runs is.
AtRest(units) == Len(runs) = Len(units) - Len(queue) /\ step \in {"idle", "done"}
InUnit(units) ==
    /\ Len(runs) + 1 = Len(units) - Len(queue)
    /\ step # "idle"
    /\ groups = units[Len(runs) + 1].groups

JobTrue ==
    /\ DividesRows(job, ModeOf(job), BatchUnits)
    /\ job.chain \in Seq(Nat) /\ job.opts \in FlowLayoutOpts
    /\ Len(labels) = Len(BatchUnits)
    /\ QueueTrue(BatchUnits)
    /\ RunsTrue(BatchUnits)
    /\ AtRest(BatchUnits) \/ InUnit(BatchUnits)

BatchInv ==
    /\ LayoutInv
    /\ RowsTrue
    /\ outcome = "idle" => runs = <<>> /\ step = "idle"
    /\ outcome \in {"running", "done"} => JobTrue
    /\ outcome = "done" => queue = <<>> /\ AtRest(BatchUnits)

LEMMA BatchInitInv ==
    ASSUME BatchInit
    PROVE  BatchInv
<1>1. LayoutInit /\ outcome = "idle" /\ runs = <<>> /\ ~(outcome \in {"running", "done"})
    BY DEF BatchInit
<1>2. step = "idle" /\ chain = <<>>
    BY <1>1 DEF LayoutInit
<1>3. RowsTrue
    BY <1>2, EmptySeq DEF RowsTrue
<1> QED
    BY <1>1, <1>2, <1>3, LayoutInitInv DEF BatchInv

\* Nothing changes of the layout.
LEMMA LayoutKept ==
    ASSUME LayoutInv, RowsTrue, UNCHANGED layoutVars
    PROVE  LayoutInv' /\ RowsTrue' /\ step' = step /\ groups' = groups
<1>1. groups' = groups /\ chain' = chain /\ frames' = frames /\ step' = step
    BY DEF layoutVars, arguments
<1>2. RowsTrue'
    BY <1>1 DEF RowsTrue, RowTrue, RowAt
<1> QED
    BY <1>1, <1>2, StutterInv

LEMMA FailJobInv ==
    ASSUME BatchInv, NEW j \in Job, FailJob(j)
    PROVE  BatchInv'
<1>1. LayoutInv' /\ RowsTrue'
    BY LayoutKept DEF BatchInv, FailJob
<1>2. Failure(j) \in {"invalid job", "script error", "no build", "no mode", "no result",
                      "not a record flow"}
    <2>1. Failure(j) # "none"
        BY DEF FailJob
    <2> QED
        BY <2>1, Zenon DEF Failure
<1>3. outcome' = Failure(j)
    BY DEF FailJob
<1>4. outcome' # "idle" /\ outcome' # "running" /\ outcome' # "done"
    BY <1>2, <1>3, Zenon
<1> QED
    BY <1>1, <1>4 DEF BatchInv

LEMMA RunJobInv ==
    ASSUME BatchInv, NEW j \in Job, RunJob(j)
    PROVE  BatchInv'
<1>1. LayoutInv' /\ RowsTrue' /\ step' = step
    BY LayoutKept DEF BatchInv, RunJob
<1>2. /\ job' = j /\ outcome' = "running" /\ queue' = UnitsOf(j, ModeOf(j))
      /\ labels' = [u \in DOMAIN queue' |-> queue'[u].label] /\ runs' = runs
      /\ runs = <<>> /\ step = "idle" /\ Failure(j) = "none"
    BY DEF BatchInv, RunJob
<1>3. DividesRows(j, ModeOf(j), UnitsOf(j, ModeOf(j)))
    BY <1>2, JobRuns
<1>4. BatchUnits' = UnitsOf(j, ModeOf(j)) /\ ModeOf(job)' = ModeOf(j)
    BY <1>2 DEF BatchUnits
<1>5. j.chain \in Seq(Nat) /\ j.opts \in FlowLayoutOpts
    BY DEF Job
<1> DEFINE U == UnitsOf(j, ModeOf(j))
<1>6. Len(U) \in Nat /\ U \in Seq({U[u] : u \in 1..Len(U)})
    BY <1>3 DEF DividesRows
<1> HIDE DEF U
<1>7. queue' = U /\ BatchUnits' = U
    BY <1>2, <1>4 DEF U
<1>8. DOMAIN U = 1..Len(U)
    BY <1>6
<1>9. Len(labels') = Len(U)
    BY <1>2, <1>6, <1>7, <1>8
<1>10. QueueTrue(BatchUnits)'
    BY <1>6, <1>7 DEF QueueTrue
<1>11. RunsTrue(BatchUnits)'
    BY <1>2, EmptySeq DEF RunsTrue
<1>12. AtRest(BatchUnits)'
    BY <1>1, <1>2, <1>6, <1>7, EmptySeq DEF AtRest
<1>13. DividesRows(job, ModeOf(job), BatchUnits)'
    BY <1>2, <1>3, <1>4
<1>14. JobTrue'
    BY <1>2, <1>5, <1>7, <1>9, <1>10, <1>11, <1>12, <1>13 DEF JobTrue
<1> QED
    BY <1>1, <1>2, <1>14 DEF BatchInv

\* While a job runs, its units stay.
LEMMA UnitsKept ==
    ASSUME JobTrue, job' = job, labels' = labels
    PROVE  /\ BatchUnits' = BatchUnits
           /\ QueueTrue(BatchUnits)' /\ RunsTrue(BatchUnits)'
              /\ (AtRest(BatchUnits)' \/ InUnit(BatchUnits)') => JobTrue'
<1>1. BatchUnits' = BatchUnits
    BY DEF BatchUnits
<1>2. DividesRows(job, ModeOf(job), BatchUnits)'
    BY <1>1 DEF JobTrue
<1> QED
    BY <1>1, <1>2 DEF JobTrue

LEMMA PaginateUnitInv ==
    ASSUME BatchInv, PaginateUnit
    PROVE  BatchInv'
<1> DEFINE U == BatchUnits
<1>1. /\ JobTrue /\ job' = job /\ labels' = labels /\ runs' = runs /\ queue' = Tail(queue)
      /\ outcome' = "running" /\ outcome = "running" /\ queue # <<>> /\ Idle
    BY DEF BatchInv, PaginateUnit
<1>2. /\ Len(U) \in Nat
      /\ \A u \in 1..Len(U) : U[u].groups \in Seq(FlowGroup)
      /\ QueueTrue(U) /\ RunsTrue(U) /\ (AtRest(U) \/ InUnit(U)) /\ Len(labels) = Len(U)
      /\ job.chain \in Seq(Nat) /\ job.opts \in FlowLayoutOpts
    BY <1>1 DEF JobTrue, DividesRows
<1>3. BatchUnits' = U /\ (QueueTrue(U)' /\ RunsTrue(U)' /\ InUnit(U)' => JobTrue')
    BY <1>1, UnitsKept
<1> HIDE DEF U
<1> DEFINE E == {U[u] : u \in 1..Len(U)}
           q == Len(queue)
<1>4. queue \in Seq(E) /\ q <= Len(U) /\ \A i \in 1..q : queue[i] = U[Len(U) - q + i]
    BY <1>2 DEF QueueTrue
<1> HIDE DEF E
<1>5. q \in Nat /\ q # 0
    BY <1>1, <1>4
<1>6. Len(runs) \in Nat
    BY <1>2 DEF RunsTrue
<1>7. Len(runs) = Len(U) - q
    <2>1. CASE AtRest(U)
        BY <2>1 DEF AtRest
    <2>2. CASE InUnit(U)
        BY <1>1, <1>2, <1>5, <1>6, <2>2 DEF InUnit, Idle
    <2> QED
        BY <1>2, <2>1, <2>2
<1>8. Head(queue) = queue[1] /\ queue[1] = U[Len(runs) + 1] /\ Len(runs) + 1 \in 1..Len(U)
    BY <1>2, <1>4, <1>5, <1>6, <1>7
<1>9. Head(queue).groups = U[Len(runs) + 1].groups /\ Head(queue).groups \in Seq(FlowGroup)
    BY <1>2, <1>8
<1>10. Paginate(Head(queue).groups, job.chain, job.opts)
    BY DEF PaginateUnit
<1>11. LayoutInv'
    BY <1>2, <1>9, <1>10, PaginateInv
<1>12. /\ step' = "header" /\ groups' = Head(queue).groups
       /\ chain' = job.chain /\ frames' = [i \in 1..Len(job.chain) |-> EmptyFrame]
    BY <1>10 DEF Paginate
<1>13. RowsTrue'
    BY <1>12 DEF RowsTrue, EmptyFrame
<1>14. Tail(queue) \in Seq(E) /\ Len(Tail(queue)) = q - 1
       /\ \A i \in 1..(q - 1) : Tail(queue)[i] = queue[i + 1]
    BY <1>4, <1>5
<1>15. ASSUME NEW i \in 1..(q - 1) PROVE Tail(queue)[i] = U[Len(U) - (q - 1) + i]
    <2>1. i + 1 \in 1..q /\ Len(U) - q + (i + 1) = Len(U) - (q - 1) + i
        BY <1>2, <1>5
    <2>2. queue[i + 1] = U[Len(U) - q + (i + 1)]
        BY <1>4, <2>1
    <2> QED
        BY <1>14, <2>1, <2>2
<1>16. U' = U
    BY <1>3 DEF U
<1>17. E' = E
    BY <1>16 DEF E
<1>18. QueueTrue(U)'
    <2>1. queue' \in Seq(E) /\ Len(queue') = q - 1
        BY <1>1, <1>14
    <2>2. q - 1 <= Len(U)
        BY <1>2, <1>4, <1>5
    <2>3. \A i \in 1..Len(queue') : queue'[i] = U[Len(U) - Len(queue') + i]
        BY <1>1, <1>15, <2>1
    <2> QED
        BY <1>16, <2>1, <2>2, <2>3 DEF QueueTrue, E
<1>19. RunsTrue(U)'
    BY <1>1, <1>2, <1>16 DEF RunsTrue, RunTrue
<1>20. InUnit(U)'
    <2>1. Len(runs') + 1 = Len(U) - Len(queue')
        BY <1>1, <1>2, <1>5, <1>6, <1>7, <1>14
    <2> QED
        BY <1>1, <1>9, <1>12, <1>16, <2>1 DEF InUnit
<1> QED
    BY <1>1, <1>3, <1>11, <1>13, <1>18, <1>19, <1>20 DEF BatchInv

LEMMA LayOutInv ==
    ASSUME BatchInv, LayOut
    PROVE  BatchInv'
<1> DEFINE U == BatchUnits
<1>1. /\ JobTrue /\ job' = job /\ labels' = labels /\ runs' = runs /\ queue' = queue
      /\ outcome' = "running" /\ outcome = "running" /\ LayoutNext
      /\ LayoutInv /\ RowsTrue
    BY DEF BatchInv, LayOut, batchOwn
<1>2. QueueTrue(U) /\ RunsTrue(U) /\ (AtRest(U) \/ InUnit(U))
    BY <1>1 DEF JobTrue
<1>3. BatchUnits' = U /\ (QueueTrue(U)' /\ RunsTrue(U)' /\ InUnit(U)' => JobTrue')
    BY <1>1, UnitsKept
<1> HIDE DEF U
<1>4. LayoutTypeOK /\ AheadEmpty /\ StackTrue
    BY <1>1 DEF LayoutInv
<1>5. groups' = groups
    BY <1>1, <1>4, Moves
<1>6. LayoutInv' /\ RowsTrue'
    BY <1>1, <1>4, StepInv, RowsStep
<1>7. step \in {"header", "records", "footer"}
    BY <1>1 DEF LayoutNext, OpenUntitled, OpenSection, NoRoomForHeader, PlaceRecord, ContinueRecord,
           NoRoomForRecord, RecordsDone, SkipFooter, PlaceFooter, NoRoomForFooter, SectionsDone
<1>8. step' # "idle"
    BY <1>1, <1>7 DEF LayoutNext, OpenUntitled, OpenSection, NoRoomForHeader, PlaceRecord, ContinueRecord,
           NoRoomForRecord, RecordsDone, SkipFooter, PlaceFooter, NoRoomForFooter, SectionsDone,
           RunOut
<1>9. InUnit(U)
    BY <1>2, <1>7 DEF AtRest
<1>10. U' = U
    BY <1>3 DEF U
<1>11. InUnit(U)'
    BY <1>1, <1>5, <1>8, <1>9, <1>10 DEF InUnit
<1>12. QueueTrue(U)' /\ RunsTrue(U)'
    BY <1>1, <1>2, <1>10 DEF QueueTrue, RunsTrue, RunTrue
<1> QED
    BY <1>1, <1>3, <1>6, <1>11, <1>12 DEF BatchInv

LEMMA KeepRunInv ==
    ASSUME BatchInv, KeepRun
    PROVE  BatchInv'
<1> DEFINE U == BatchUnits
           run == [label |-> labels[Len(runs) + 1], frames |-> PaginatedFrames,
                   placed |-> placed, overflow |-> overflow]
<1>1. /\ JobTrue /\ job' = job /\ labels' = labels /\ queue' = queue /\ runs' = Append(runs, run)
      /\ outcome' = "running" /\ outcome = "running" /\ LayoutInv /\ RowsTrue
      /\ step = "done" /\ Len(runs) + Len(queue) < Len(labels) /\ UNCHANGED layoutVars
    BY DEF BatchInv, KeepRun
<1>2. /\ QueueTrue(U) /\ RunsTrue(U) /\ (AtRest(U) \/ InUnit(U)) /\ Len(U) \in Nat
      /\ Len(labels) = Len(U)
    BY <1>1 DEF JobTrue, DividesRows
<1>3. BatchUnits' = U /\ (QueueTrue(U)' /\ RunsTrue(U)' /\ AtRest(U)' => JobTrue')
    BY <1>1, UnitsKept
<1>4. LayoutInv' /\ RowsTrue' /\ step' = step
    BY <1>1, LayoutKept
<1>5. RunTrue(run, groups)
    <2>1. run.frames = PaginatedFrames /\ run.overflow = overflow
        OBVIOUS
    <2> HIDE DEF run
    <2>2. RowsIn(run) = UNION {RowsOn(PaginatedFrames[f].blocks) : f \in DOMAIN PaginatedFrames}
        BY <2>1 DEF RowsIn
    <2> QED
        BY <1>1, <2>1, <2>2, KeptRows DEF RunTrue
<1> HIDE DEF U, run
<1>6. Len(queue) \in Nat
    BY <1>2 DEF QueueTrue
<1>7. PICK S : runs \in Seq(S)
    BY <1>2 DEF RunsTrue
<1>8. Len(runs) \in Nat
    BY <1>7
<1>9. InUnit(U)
    BY <1>1, <1>2, <1>6, <1>8 DEF AtRest
<1>10. /\ Append(runs, run) \in Seq(S \cup {run}) /\ Len(Append(runs, run)) = Len(runs) + 1
       /\ \A r \in 1..Len(runs) : Append(runs, run)[r] = runs[r]
       /\ Append(runs, run)[Len(runs) + 1] = run
    <2>1. runs \in Seq(S \cup {run})
        BY <1>7
    <2> QED
        BY <2>1, AppendProperties
<1>11. U' = U
    BY <1>3 DEF U
<1>12. RunsTrue(U)'
    <2>1. \E T : runs' \in Seq(T)
        BY <1>1, <1>10
    <2>2. ASSUME NEW r \in 1..Len(runs') PROVE RunTrue(runs'[r], U[r].groups)
        <3>1. r \in 1..Len(runs) \/ r = Len(runs) + 1
            BY <1>1, <1>8, <1>10, <2>2
        <3>2. CASE r \in 1..Len(runs)
            BY <1>1, <1>2, <1>10, <3>2 DEF RunsTrue
        <3>3. CASE r = Len(runs) + 1
            BY <1>1, <1>5, <1>9, <1>10, <3>3 DEF InUnit
        <3> QED
            BY <3>1, <3>2, <3>3
    <2> QED
        BY <1>11, <2>1, <2>2 DEF RunsTrue, RunTrue
<1>13. QueueTrue(U)'
    BY <1>1, <1>2, <1>11 DEF QueueTrue
<1>14. AtRest(U)'
    BY <1>1, <1>2, <1>4, <1>6, <1>8, <1>9, <1>10, <1>11 DEF AtRest, InUnit
<1> QED
    BY <1>1, <1>3, <1>4, <1>12, <1>13, <1>14 DEF BatchInv

LEMMA FinishJobInv ==
    ASSUME BatchInv, FinishJob
    PROVE  BatchInv'
<1> DEFINE U == BatchUnits
<1>1. /\ JobTrue /\ job' = job /\ labels' = labels /\ queue' = queue /\ runs' = runs
      /\ outcome' = "done" /\ LayoutInv /\ RowsTrue /\ Idle /\ queue = <<>> /\ UNCHANGED layoutVars
    BY DEF BatchInv, FinishJob
<1>2. /\ QueueTrue(U) /\ RunsTrue(U) /\ (AtRest(U) \/ InUnit(U)) /\ Len(U) \in Nat
      /\ Len(labels) = Len(U)
    BY <1>1 DEF JobTrue, DividesRows
<1>3. BatchUnits' = U /\ (QueueTrue(U)' /\ RunsTrue(U)' /\ AtRest(U)' => JobTrue')
    BY <1>1, UnitsKept
<1>4. LayoutInv' /\ RowsTrue' /\ step' = step
    BY <1>1, LayoutKept
<1> HIDE DEF U
<1>5. Len(queue) = 0 /\ Len(runs) \in Nat
    BY <1>1, <1>2, EmptySeq DEF RunsTrue
<1>6. AtRest(U)
    BY <1>1, <1>2, <1>5 DEF InUnit, Idle
<1>7. U' = U
    BY <1>3 DEF U
<1>8. QueueTrue(U)' /\ RunsTrue(U)' /\ AtRest(U)'
    BY <1>1, <1>2, <1>4, <1>6, <1>7 DEF QueueTrue, RunsTrue, RunTrue, AtRest
<1>9. AtRest(BatchUnits)'
    BY <1>3, <1>8 DEF U
<1> QED
    BY <1>1, <1>3, <1>4, <1>8, <1>9 DEF BatchInv

LEMMA BatchStutter ==
    ASSUME BatchInv, UNCHANGED batchVars
    PROVE  BatchInv'
<1> DEFINE U == BatchUnits
<1>1. /\ job' = job /\ labels' = labels /\ queue' = queue /\ runs' = runs
      /\ outcome' = outcome /\ LayoutInv /\ RowsTrue /\ UNCHANGED layoutVars
    BY DEF BatchInv, batchVars, batchOwn
<1>2. LayoutInv' /\ RowsTrue' /\ step' = step /\ groups' = groups
    BY <1>1, LayoutKept
<1>3. U' = U
    BY <1>1 DEF BatchUnits
<1> HIDE DEF U
<1>4. /\ QueueTrue(U) => QueueTrue(U)'
      /\ RunsTrue(U) => RunsTrue(U)'
      /\ AtRest(U) => AtRest(U)'
      /\ InUnit(U) => InUnit(U)'
    BY <1>1, <1>2, <1>3 DEF QueueTrue, RunsTrue, RunTrue, AtRest, InUnit
<1>5. JobTrue => JobTrue'
    BY <1>1, <1>4, UnitsKept DEF JobTrue, U
<1> QED
    BY <1>1, <1>2, <1>4, <1>5 DEF BatchInv, U

LEMMA BatchInvHolds == Batching => []BatchInv
<1>1. BatchInit => BatchInv
    BY BatchInitInv
<1>2. BatchInv /\ [BatchNext]_batchVars => BatchInv'
    BY FailJobInv, RunJobInv, PaginateUnitInv, LayOutInv, KeepRunInv, FinishJobInv, BatchStutter
       DEF BatchNext, BatchSteps
<1> QED
    BY <1>1, <1>2, PTL DEF Batching

\* The runs of a finished job, against its units.
LEMMA FinishedRuns ==
    ASSUME BatchInv, outcome = "done"
    PROVE  /\ DOMAIN runs = 1..Len(BatchUnits)
           /\ \A r \in 1..Len(BatchUnits) : RunTrue(runs[r], BatchUnits[r].groups)
           /\ DividesRows(job, ModeOf(job), BatchUnits)
<1>1. JobTrue /\ queue = <<>> /\ AtRest(BatchUnits)
    BY DEF BatchInv
<1>2. RunsTrue(BatchUnits) /\ DividesRows(job, ModeOf(job), BatchUnits) /\ Len(BatchUnits) \in Nat
    BY <1>1 DEF JobTrue, DividesRows
<1>3. Len(queue) = 0 /\ Len(runs) = Len(BatchUnits) - Len(queue)
    BY <1>1, EmptySeq DEF AtRest
<1>4. Len(runs) = Len(BatchUnits)
    BY <1>2, <1>3
<1> QED
    BY <1>2, <1>4 DEF RunsTrue

\* Whatever the job, its script, its rows and its chain: no row is printed in
\* two documents, and every row is printed if no document says it overflowed.
THEOREM EachRecordPrintedOnce == Batching => []EveryRecordPrinted
<1>1. BatchInv => EveryRecordPrinted
    <2> SUFFICES ASSUME BatchInv, outcome = "done"
                 PROVE  /\ \A r, s \in DOMAIN runs : r # s => RowsIn(runs[r]) \cap RowsIn(runs[s]) = {}
                        /\ (\A r \in DOMAIN runs : ~runs[r].overflow)
                               => UNION {RowsIn(runs[r]) : r \in DOMAIN runs} = DOMAIN job.result
        BY DEF EveryRecordPrinted
    <2> DEFINE U == BatchUnits
               D == 1..Len(U)
    <2>1. DOMAIN runs = D /\ \A r \in D : RunTrue(runs[r], U[r].groups)
        BY FinishedRuns
    <2>2. /\ \A u, v \in D : u # v => UnitRows(U, u) \cap UnitRows(U, v) = {}
          /\ UNION {UnitRows(U, u) : u \in D} = DOMAIN job.result
        BY FinishedRuns DEF DividesRows
    <2> HIDE DEF U, D
    <2>3. \A r \in D : RowsIn(runs[r]) \subseteq UnitRows(U, r)
        BY <2>1 DEF RunTrue, UnitRows
    <2>4. ASSUME NEW r \in D, NEW s \in D, r # s PROVE RowsIn(runs[r]) \cap RowsIn(runs[s]) = {}
        <3>1. UnitRows(U, r) \cap UnitRows(U, s) = {}
            BY <2>2, <2>4
        <3>2. RowsIn(runs[r]) \subseteq UnitRows(U, r) /\ RowsIn(runs[s]) \subseteq UnitRows(U, s)
            BY <2>3
        <3> QED
            BY <3>1, <3>2
    <2>5. ASSUME \A r \in D : ~runs[r].overflow
          PROVE  UNION {RowsIn(runs[r]) : r \in D} = DOMAIN job.result
        <3>1. \A r \in D : RowsIn(runs[r]) = UnitRows(U, r)
            BY <2>1, <2>5 DEF RunTrue, UnitRows
        <3>2. {RowsIn(runs[r]) : r \in D} = {UnitRows(U, u) : u \in D}
            BY <3>1
        <3> QED
            BY <2>2, <3>2
    <2> QED
        BY <2>1, <2>4, <2>5
<1> QED
    BY <1>1, BatchInvHolds, PTL

\* Whatever the job: unless a document overflows, or the mode names columns
\* that do not group as the binding's do (which GroupedAlike excludes and the
\* executor does not look at), the documents hold the records of the batch
\* plan's units, apart from the units that hold none.
THEOREM DocumentsFollowThePlan == Batching => []PlanIsFollowed
<1>1. BatchInv => PlanIsFollowed
    <2> SUFFICES ASSUME BatchInv, outcome = "done", \A r \in DOMAIN runs : ~runs[r].overflow,
                        GroupedAlike(job, ModeOf(job))
                 PROVE  {RowsIn(runs[r]) : r \in DOMAIN runs} \ {{}} = PlanRows(job, ModeOf(job))
        BY DEF PlanIsFollowed, DocumentsAsPlanned, PlanRows
    <2> DEFINE U == BatchUnits
               D == 1..Len(U)
    <2>1. DOMAIN runs = D /\ \A r \in D : RunTrue(runs[r], U[r].groups)
        BY FinishedRuns
    <2>2. {UnitRows(U, u) : u \in D} \ {{}} = PlanRows(job, ModeOf(job))
        BY FinishedRuns DEF DividesRows
    <2> HIDE DEF U, D
    <2>3. \A r \in D : RowsIn(runs[r]) = UnitRows(U, r)
        BY <2>1 DEF RunTrue, UnitRows
    <2>4. {RowsIn(runs[r]) : r \in D} = {UnitRows(U, u) : u \in D}
        BY <2>3
    <2> QED
        BY <2>1, <2>2, <2>4
<1> QED
    BY <1>1, BatchInvHolds, PTL

-----------------------------------------------------------------------------
(* The grid of a table.                                                    *)

\* The sums of a sequence of numbers.
LEMMA SumsAdd ==
    ASSUME NEW s \in Seq(Nat)
    PROVE  /\ SumTo(s, 0) = 0
           /\ \A n \in 1..Len(s) : SumTo(s, n) = SumTo(s, n - 1) + s[n]
           /\ \A n \in 0..Len(s) : SumTo(s, n) \in Nat
<1> DEFINE N == Len(s)
           next == [x \in (1..N) \X Nat |-> x[2] + s[x[1]]]
           Fixed(f) == f = [n \in 0..N |-> IF n = 0 THEN 0 ELSE f[n - 1] + s[n]]
<1>1. N \in Nat /\ \A n \in 1..N : s[n] \in Nat
    OBVIOUS
<1>2. next \in [(1..N) \X Nat -> Nat]
    <2>1. ASSUME NEW x \in (1..N) \X Nat PROVE x[2] + s[x[1]] \in Nat
        <3>1. x[1] \in 1..N /\ x[2] \in Nat
            OBVIOUS
        <3> QED
            BY <1>1, <3>1
    <2> HIDE DEF N
    <2> QED
        BY <2>1
<1>3. PICK f \in [0..N -> Nat] : f[0] = 0 /\ \A k \in 1..N : f[k] = next[<<k, f[k - 1]>>]
    <2> HIDE DEF next, N
    <2>1. Reaches(N, Nat, 0, next)
        BY <1>1, <1>2, RecursionReaches
    <2> QED
        BY <2>1 DEF Reaches
<1>4. ASSUME NEW k \in 1..N PROVE f[k] = f[k - 1] + s[k]
    <2>1. k - 1 \in 0..N
        BY <1>1
    <2>2. f[k - 1] \in Nat
        BY <2>1
    <2> HIDE DEF N
    <2>3. <<k, f[k - 1]>> \in (1..N) \X Nat
        BY <2>2
    <2>4. next[<<k, f[k - 1]>>] = f[k - 1] + s[k]
        BY <2>3
    <2> QED
        BY <1>3, <2>4
<1>5. Fixed(f)
    <2> DEFINE g == [n \in 0..N |-> IF n = 0 THEN 0 ELSE f[n - 1] + s[n]]
    <2> HIDE DEF N
    <2>1. \A n \in 0..N : n = 0 \/ n \in 1..N
        BY <1>1
    <2>2. \A n \in 0..N : f[n] = g[n]
        BY <1>3, <1>4, <2>1
    <2>3. DOMAIN f = 0..N /\ f = [n \in 0..N |-> f[n]]
        OBVIOUS
    <2> QED
        BY <2>2, <2>3
<1>6. SumsOf(s) = CHOOSE g : Fixed(g)
    BY DEF SumsOf
<1> DEFINE u == SumsOf(s)
<1>7. Fixed(u)
    <2> HIDE DEF Fixed
    <2> QED
        BY <1>5, <1>6
<1>8. u = [n \in 0..N |-> IF n = 0 THEN 0 ELSE u[n - 1] + s[n]]
    BY <1>7
<1> HIDE DEF u, N, Fixed
<1>9. u[0] = 0 /\ \A n \in 1..N : u[n] = u[n - 1] + s[n]
    <2>1. 0 \in 0..N /\ \A n \in 1..N : n \in 0..N /\ n # 0
        BY <1>1
    <2> QED
        BY <1>8, <2>1
<1>10. \A n \in 0..N : u[n] \in Nat
    <2> DEFINE Bad == {n \in 0..N : u[n] \notin Nat}
    <2> SUFFICES ASSUME Bad # {} PROVE FALSE
        OBVIOUS
    <2>1. Bad \subseteq Nat
        BY <1>1
    <2>2. PICK n \in Bad : \A m \in Bad : n <= m
        <3> HIDE DEF Bad
        <3> QED
            BY <2>1, LeastNumber
    <2>3. n \in 0..N /\ u[n] \notin Nat
        OBVIOUS
    <2>4. n # 0
        BY <1>9, <2>3
    <2>5. n \in 1..N /\ n - 1 \in 0..N /\ ~(n <= n - 1)
        BY <1>1, <2>3, <2>4
    <2>6. u[n - 1] \in Nat
        BY <2>2, <2>5
    <2>7. s[n] \in Nat /\ u[n] = u[n - 1] + s[n]
        BY <1>1, <1>9, <2>5
    <2> QED
        BY <2>3, <2>6, <2>7
<1> QED
    BY <1>9, <1>10 DEF u, N, SumTo

LEMMA SumsGrow ==
    ASSUME NEW s \in Seq(Nat), NEW m \in 0..Len(s), NEW n \in 0..Len(s), m <= n
    PROVE  SumTo(s, m) <= SumTo(s, n)
<1> DEFINE N == Len(s)
           Bad == {k \in 0..N : m <= k /\ ~(SumTo(s, m) <= SumTo(s, k))}
<1>1. N \in Nat /\ \A k \in 1..N : s[k] \in Nat
    OBVIOUS
<1> SUFFICES ASSUME Bad # {} PROVE FALSE
    BY DEF Bad
<1>2. Bad \subseteq Nat
    BY <1>1
<1>3. PICK k \in Bad : \A i \in Bad : k <= i
    <2> HIDE DEF Bad
    <2> QED
        BY <1>2, LeastNumber
<1>4. k \in 0..N /\ m \in 0..N /\ m <= k /\ ~(SumTo(s, m) <= SumTo(s, k))
    OBVIOUS
<1>5. SumTo(s, m) \in Nat /\ SumTo(s, k) \in Nat
    BY <1>4, SumsAdd
<1>6. m # k
    BY <1>4, <1>5
<1>7. k \in 1..N /\ k - 1 \in 0..N /\ m <= k - 1 /\ ~(k <= k - 1)
    BY <1>1, <1>4, <1>6
<1>8. SumTo(s, m) <= SumTo(s, k - 1)
    BY <1>3, <1>7
<1>9. SumTo(s, k - 1) \in Nat /\ s[k] \in Nat /\ SumTo(s, k) = SumTo(s, k - 1) + s[k]
    BY <1>1, <1>7, SumsAdd
<1> QED
    BY <1>4, <1>5, <1>8, <1>9

LEMMA GreatestValue ==
    ASSUME NEW n \in Nat \ {0}, NEW f \in [1..n -> Int]
    PROVE  \E i \in 1..n : \A j \in 1..n : f[i] >= f[j]
<1> DEFINE g == [i \in 1..n |-> -f[i]]
<1>1. g \in [1..n -> Int]
    OBVIOUS
<1>2. PICK i \in 1..n : \A j \in 1..n : g[i] <= g[j]
    <2> HIDE DEF g
    <2> QED
        BY <1>1, LeastValue
<1>3. ASSUME NEW j \in 1..n PROVE f[i] >= f[j]
    <2>1. f[i] \in Int /\ f[j] \in Int /\ g[i] = -f[i] /\ g[j] = -f[j] /\ g[i] <= g[j]
        BY <1>2
    <2> HIDE DEF g
    <2> QED
        BY <2>1
<1> QED
    BY <1>3

\* A column counts as many characters as any text in it has.
LEMMA CharsCover ==
    ASSUME NEW t \in GridTable, NEW c \in 1..Len(t.headers)
    PROVE  /\ CharsOf(t, c) \in Nat
           /\ t.headers[c] <= CharsOf(t, c)
           /\ \A r \in DOMAIN t.rows : c \in DOMAIN t.rows[r] => t.rows[r][c] <= CharsOf(t, c)
<1> DEFINE n == Len(t.rows)
           f == [i \in 1..(n + 1) |-> IF i \in 1..n /\ c \in DOMAIN t.rows[i]
                                      THEN t.rows[i][c] ELSE t.headers[c]]
           S == {t.headers[c]} \cup CellsBelow(t, c)
           R == {q \in DOMAIN t.rows : c \in DOMAIN t.rows[q]}
<1>1. n \in Nat /\ DOMAIN t.rows = 1..n /\ t.headers[c] \in Nat
      /\ \A r \in 1..n : t.rows[r] \in Seq(Nat)
    BY DEF GridTable
<1>2. \A r \in 1..n : c \in DOMAIN t.rows[r] => t.rows[r][c] \in Nat
    BY <1>1
<1> HIDE DEF n
<1>3. f \in [1..(n + 1) -> Nat]
    BY <1>1, <1>2
<1>4. n + 1 \in 1..(n + 1) /\ n + 1 \notin 1..n /\ n + 1 \in Nat \ {0}
    BY <1>1
<1>5. f[n + 1] = t.headers[c]
    BY <1>4
<1>6. CellsBelow(t, c) = {t.rows[r][c] : r \in R} /\ R = {q \in 1..n : c \in DOMAIN t.rows[q]}
    BY <1>1 DEF CellsBelow
<1>7. ASSUME NEW r \in R PROVE r \in 1..(n + 1) /\ f[r] = t.rows[r][c]
    <2>1. r \in 1..n /\ c \in DOMAIN t.rows[r]
        BY <1>6
    <2>2. r \in 1..(n + 1)
        BY <1>1, <2>1
    <2> QED
        BY <2>1, <2>2
<1>8. \A i \in 1..(n + 1) : f[i] \in S
    <2> SUFFICES ASSUME NEW i \in 1..(n + 1) PROVE f[i] \in S
        OBVIOUS
    <2>1. CASE i \in 1..n /\ c \in DOMAIN t.rows[i]
        BY <1>6, <2>1
    <2>2. CASE ~(i \in 1..n /\ c \in DOMAIN t.rows[i])
        BY <2>2
    <2> QED
        BY <2>1, <2>2
<1>9. \A x \in S : \E i \in 1..(n + 1) : x = f[i]
    BY <1>4, <1>5, <1>6, <1>7
<1> HIDE DEF f, R
<1>10. PICK i \in 1..(n + 1) : \A j \in 1..(n + 1) : f[i] >= f[j]
    <2>1. f \in [1..(n + 1) -> Int]
        BY <1>3
    <2> QED
        BY <1>4, <2>1, GreatestValue
<1>11. f[i] \in S /\ \A x \in S : f[i] >= x
    BY <1>8, <1>9, <1>10
<1>12. S \subseteq Nat
    BY <1>3, <1>9
<1>13. CharsOf(t, c) = Sets!Max(S)
    BY DEF CharsOf
<1>14. t.headers[c] \in S /\ \A r \in 1..n : c \in DOMAIN t.rows[r] => t.rows[r][c] \in S
    BY <1>6 DEF R
<1> HIDE DEF S
<1>15. Sets!Max(S) \in S /\ \A x \in S : Sets!Max(S) >= x
    BY <1>11 DEF Sets!Max
<1>16. Sets!Max(S) \in Nat /\ \A x \in S : x <= Sets!Max(S)
    BY <1>12, <1>15
<1> QED
    BY <1>1, <1>13, <1>14, <1>16

LEMMA WidthsTyped ==
    ASSUME NEW t \in GridTable
    PROVE  /\ Widths(t) \in Seq(Nat) /\ Len(Widths(t)) = Len(t.headers)
           /\ \A c \in 1..Len(t.headers) : Widths(t)[c] = CharsOf(t, c) * CharWidth + 2 * Padding
<1> DEFINE N == Len(t.headers)
           width(c) == CharsOf(t, c) * CharWidth + 2 * Padding
<1>1. N \in Nat /\ DOMAIN t.headers = 1..N
    BY DEF GridTable
<1>2. \A c \in 1..N : width(c) \in Nat
    <2> SUFFICES ASSUME NEW c \in 1..N PROVE width(c) \in Nat
        OBVIOUS
    <2>1. CharsOf(t, c) \in Nat
        BY CharsCover
    <2>2. CharsOf(t, c) * CharWidth \in Nat
        BY <2>1, GridAssumption
    <2> QED
        BY <2>2, GridAssumption
<1>3. Widths(t) = [c \in 1..N |-> width(c)]
    BY <1>1 DEF Widths
<1> HIDE DEF width, N
<1>4. Widths(t) \in [1..N -> Nat]
    BY <1>2, <1>3
<1>5. Widths(t) \in Seq(Nat) /\ Len(Widths(t)) = N
    BY <1>1, <1>4
<1> QED
    BY <1>3, <1>5 DEF width, N

\* A drawn row is a row of the table or its headers.
LEMMA RowsLowered ==
    ASSUME NEW t \in GridTable
    PROVE  LET rows == LoweredRows(t)
           IN  /\ Len(rows) \in Nat /\ DOMAIN rows = 1..Len(rows)
               /\ \A r \in 1..Len(rows) :
                    /\ rows[r].y = (r - 1) * RowHeight
                    /\ \A c \in 1..Len(t.headers) : c \in DOMAIN rows[r].cells =>
                           rows[r].cells[c] \in Nat /\ rows[r].cells[c] <= CharsOf(t, c)
<1> DEFINE heads == IF t.headerRow THEN <<t.headers>> ELSE <<>>
           all == heads \o t.rows
           k == Len(heads)
           n == Len(t.rows)
           low == LoweredRows(t)
<1>1. t.rows \in Seq(Seq(Nat)) /\ t.headers \in Seq(Nat)
    BY DEF GridTable
<1>2. heads \in Seq(Seq(Nat)) /\ k \in Nat /\ \A i \in 1..k : heads[i] = t.headers
    BY <1>1
<1>3. n \in Nat /\ DOMAIN t.rows = 1..n /\ \A i \in 1..n : t.rows[i] \in Seq(Nat)
    BY <1>1
<1>4. low = [r \in DOMAIN all |-> [cells |-> all[r], y |-> (r - 1) * RowHeight,
                                    height |-> RowHeight, header |-> t.headerRow /\ r = 1]]
    BY DEF LoweredRows
<1> HIDE DEF heads, low
<1>5. /\ all \in Seq(Seq(Nat)) /\ Len(all) = k + n
      /\ \A i \in 1..k : all[i] = heads[i]
      /\ \A i \in (k + 1)..(k + n) : all[i] = t.rows[i - k]
    BY <1>1, <1>2
<1>6. DOMAIN all = 1..(k + n)
    BY <1>5
<1>7. ASSUME NEW r \in 1..(k + n)
      PROVE  all[r] = t.headers \/ \E i \in DOMAIN t.rows : all[r] = t.rows[i]
    <2>1. CASE r \in 1..k
        BY <1>2, <1>5, <2>1
    <2>2. CASE r \notin 1..k
        <3>1. r \in (k + 1)..(k + n) /\ r - k \in 1..n
            BY <1>2, <1>3, <2>2
        <3> QED
            BY <1>3, <1>5, <3>1
    <2> QED
        BY <2>1, <2>2
<1> HIDE DEF all, k, n
<1>8. low \in Seq({low[r] : r \in 1..(k + n)}) /\ Len(low) = k + n /\ DOMAIN low = 1..(k + n)
    <2>1. DOMAIN low = 1..(k + n) /\ low = [r \in 1..(k + n) |-> low[r]]
        BY <1>4, <1>6
    <2>2. low \in [1..(k + n) -> {low[r] : r \in 1..(k + n)}]
        BY <2>1
    <2>3. k + n \in Nat
        BY <1>2, <1>3
    <2> HIDE DEF low
    <2> DEFINE V == {low[r] : r \in 1..(k + n)}
    <2> HIDE DEF V
    <2>4. low \in Seq(V) /\ Len(low) = k + n
        BY <2>2, <2>3 DEF V
    <2> QED
        BY <2>1, <2>4 DEF V
<1>9. ASSUME NEW r \in 1..(k + n)
      PROVE  low[r].cells = all[r] /\ low[r].y = (r - 1) * RowHeight
    BY <1>4, <1>6, <1>9
<1>10. ASSUME NEW r \in 1..(k + n), NEW c \in 1..Len(t.headers), c \in DOMAIN all[r]
       PROVE  all[r][c] \in Nat /\ all[r][c] <= CharsOf(t, c)
    <2>1. CASE all[r] = t.headers
        BY <1>1, <2>1, CharsCover
    <2>2. CASE \E i \in DOMAIN t.rows : all[r] = t.rows[i]
        <3>1. PICK i \in DOMAIN t.rows : all[r] = t.rows[i]
            BY <2>2
        <3>2. t.rows[i] \in Seq(Nat) /\ c \in DOMAIN t.rows[i]
            BY <1>3, <1>10, <3>1
        <3>3. t.rows[i][c] <= CharsOf(t, c)
            BY <3>2, CharsCover
        <3> QED
            BY <3>1, <3>2, <3>3
    <2> QED
        BY <1>7, <2>1, <2>2
<1>11. k + n \in Nat
    BY <1>2, <1>3
<1> QED
    BY <1>8, <1>9, <1>10, <1>11 DEF low

LEMMA Enclosed ==
    ASSUME NEW t \in GridTable, grid = LowerTable(t)
    PROVE  GridEncloses
<1> DEFINE W == Widths(t)
           N == Len(t.headers)
           L == LoweredRows(t)
           M == Len(L)
           width == SumTo(W, N)
           height == M * RowHeight
           At(c) == SumTo(W, c)
           Across(i) == Rule(0, i * RowHeight, width, i * RowHeight)
           Down(c) == Rule(At(c), 0, At(c), height)
           Encloses(x, y, chars) ==
               /\ \E v \in grid.rules : v.x1 = x /\ v.x2 = x /\ v.y1 <= y /\ v.y2 >= y + RowHeight
               /\ \E v \in grid.rules :
                    /\ v.x1 = v.x2 /\ v.x1 >= x + chars * CharWidth + 2 * Padding
                    /\ \A w \in grid.rules : w.x1 = w.x2 => ~(x < w.x1 /\ w.x1 < v.x1)
               /\ \E h \in grid.rules : h.y1 = y /\ h.y2 = y
               /\ \E h \in grid.rules : h.y1 = y + RowHeight /\ h.y2 = y + RowHeight
<1>1. /\ W \in Seq(Nat) /\ Len(W) = N /\ N \in Nat /\ DOMAIN W = 1..N
      /\ \A c \in 1..N : W[c] = CharsOf(t, c) * CharWidth + 2 * Padding
    <2>1. W \in Seq(Nat) /\ Len(W) = N
        BY WidthsTyped
    <2> QED
        BY <2>1, WidthsTyped
<1>2. /\ M \in Nat /\ DOMAIN L = 1..M
      /\ \A r \in 1..M : /\ L[r].y = (r - 1) * RowHeight
                         /\ \A c \in 1..N : c \in DOMAIN L[r].cells =>
                                L[r].cells[c] \in Nat /\ L[r].cells[c] <= CharsOf(t, c)
    BY RowsLowered
<1>3. /\ DOMAIN grid.columns = 1..N /\ \A c \in 1..N : grid.columns[c].x = At(c - 1)
      /\ grid.rows = L
      /\ grid.bounds.width = width /\ grid.bounds.height = height
    BY <1>1 DEF LowerTable, LoweredColumns
<1>4. /\ \A i \in 0..M : Across(i) \in grid.rules
      /\ \A c \in 0..N : Down(c) \in grid.rules
      /\ \A u \in grid.rules : (\E i \in 0..M : u = Across(i)) \/ (\E c \in 0..N : u = Down(c))
    BY <1>1 DEF LowerTable, RowBoundaries, ColumnBoundaries
<1>5. /\ \A c \in 0..N : At(c) \in Nat
      /\ \A c \in 1..N : At(c) = At(c - 1) + W[c]
      /\ At(0) = 0
    BY <1>1, SumsAdd
<1>6. \A b, c \in 0..N : b <= c => At(b) <= At(c)
    BY <1>1, SumsGrow
<1>7. width = At(N) /\ N \in 0..N /\ width \in Nat
    BY <1>1, <1>5
<1> HIDE DEF W, N, L, M
<1>8. ASSUME NEW i \in 0..M
      PROVE  i * RowHeight \in Nat /\ i * RowHeight <= height
    <2>1. i \in Nat /\ M \in Nat /\ i <= M
        BY <1>2
    <2>2. i * RowHeight <= M * RowHeight
        BY <2>1, GridAssumption, ProductMonotonic
    <2>3. i * RowHeight \in Nat
        BY <2>1, GridAssumption
    <2> QED
        BY <2>2, <2>3
<1>9. height \in Nat
    BY <1>2, GridAssumption
<1> HIDE DEF width, height, At
<1>10. /\ \A i \in 0..M : /\ Across(i).x1 = 0 /\ Across(i).x2 = width
                          /\ Across(i).y1 = i * RowHeight /\ Across(i).y2 = i * RowHeight
       /\ \A c \in 0..N : /\ Down(c).x1 = At(c) /\ Down(c).x2 = At(c)
                          /\ Down(c).y1 = 0 /\ Down(c).y2 = height
    BY DEF Rule
<1> HIDE DEF Across, Down
<1>11. ASSUME NEW u \in grid.rules
       PROVE  u.x2 <= grid.bounds.width /\ u.y2 <= grid.bounds.height
    <2>1. CASE \E i \in 0..M : u = Across(i)
        <3>1. PICK i \in 0..M : u = Across(i)
            BY <2>1
        <3> QED
            BY <1>3, <1>7, <1>8, <1>10, <3>1
    <2>2. CASE \E c \in 0..N : u = Down(c)
        <3>1. PICK c \in 0..N : u = Down(c)
            BY <2>2
        <3>2. c <= N /\ At(c) <= At(N)
            BY <1>1, <1>6, <1>7
        <3> QED
            BY <1>3, <1>7, <1>9, <1>10, <3>1, <3>2
    <2> QED
        BY <1>4, <2>1, <2>2
<1>12. ASSUME NEW r \in 1..M, NEW c \in 1..N, c \in DOMAIN L[r].cells
       PROVE  Encloses(At(c - 1), L[r].y, L[r].cells[c])
    <2> DEFINE cell == L[r].cells[c]
               x == At(c - 1)
               y == L[r].y
    <2>1. r - 1 \in 0..M /\ r \in 0..M /\ c - 1 \in 0..N /\ c \in 0..N /\ r \in Int /\ c \in Int
        BY <1>1, <1>2
    <2>2. y = (r - 1) * RowHeight
        BY <1>2
    <2>3. r * RowHeight = y + RowHeight
        <3>1. r * RowHeight = (r - 1) * RowHeight + RowHeight
            BY <2>1, GridAssumption
        <3> QED
            BY <2>2, <3>1
    <2>4. y \in Nat /\ y + RowHeight <= height
        BY <1>8, <2>1, <2>2, <2>3
    <2>5. x \in Nat /\ At(c) \in Nat /\ At(c) = x + W[c]
        BY <1>5, <2>1
    <2>6. cell \in Nat /\ cell <= CharsOf(t, c) /\ CharsOf(t, c) \in Nat
        <3>1. CharsOf(t, c) \in Nat
            BY CharsCover DEF N
        <3> QED
            BY <1>2, <1>12, <3>1
    <2>7. At(c) >= x + cell * CharWidth + 2 * Padding
        <3>1. cell * CharWidth <= CharsOf(t, c) * CharWidth
            BY <2>6, GridAssumption, ProductMonotonic
        <3>2. W[c] = CharsOf(t, c) * CharWidth + 2 * Padding
            BY <1>1
        <3> DEFINE a == cell * CharWidth
                   b == CharsOf(t, c) * CharWidth
        <3>3. a \in Nat /\ b \in Nat
            BY <2>6, GridAssumption
        <3> HIDE DEF a, b
        <3>4. a <= b /\ W[c] = b + 2 * Padding
            BY <3>1, <3>2 DEF a, b
        <3>5. At(c) >= x + a + 2 * Padding
            BY <2>5, <3>3, <3>4, GridAssumption
        <3> QED
            BY <3>5 DEF a
    <2>8. ASSUME NEW w \in grid.rules, w.x1 = w.x2, x < w.x1, w.x1 < At(c)
          PROVE  FALSE
        <3>1. CASE \E i \in 0..M : w = Across(i)
            <4>1. w.x1 = 0
                BY <1>10, <3>1
            <4> QED
                BY <2>5, <2>8, <4>1
        <3>2. CASE \E d \in 0..N : w = Down(d)
            <4>1. PICK d \in 0..N : w = Down(d)
                BY <3>2
            <4>2. w.x1 = At(d) /\ At(d) \in Nat
                BY <1>5, <1>10, <4>1
            <4>3. d <= c - 1 \/ c <= d
                BY <1>1, <2>1
            <4>4. At(d) <= x \/ At(c) <= At(d)
                BY <1>6, <2>1, <4>3
            <4> QED
                BY <2>5, <2>8, <4>2, <4>4
        <3> QED
            BY <1>4, <3>1, <3>2
    <2> HIDE DEF x, y, cell
    <2>9. \E v \in grid.rules : v.x1 = x /\ v.x2 = x /\ v.y1 <= y /\ v.y2 >= y + RowHeight
        <3>1. Down(c - 1).x1 = x /\ Down(c - 1).x2 = x /\ Down(c - 1).y1 = 0 /\ Down(c - 1).y2 = height
            BY <1>10, <2>1 DEF x
        <3>2. 0 <= y /\ height >= y + RowHeight
            BY <1>9, <2>4, GridAssumption
        <3> QED
            BY <1>4, <2>1, <3>1, <3>2
    <2>10. \E v \in grid.rules :
              /\ v.x1 = v.x2 /\ v.x1 >= x + cell * CharWidth + 2 * Padding
              /\ \A w \in grid.rules : w.x1 = w.x2 => ~(x < w.x1 /\ w.x1 < v.x1)
        <3>1. Down(c).x1 = At(c) /\ Down(c).x2 = At(c) /\ Down(c) \in grid.rules
            BY <1>4, <1>10, <2>1
        <3> QED
            BY <2>7, <2>8, <3>1
    <2>11. \E h \in grid.rules : h.y1 = y /\ h.y2 = y
        BY <1>4, <1>10, <2>1, <2>2
    <2>12. \E h \in grid.rules : h.y1 = y + RowHeight /\ h.y2 = y + RowHeight
        BY <1>4, <1>10, <2>1, <2>3
    <2> QED
        BY <2>9, <2>10, <2>11, <2>12 DEF x, y, cell
<1> HIDE DEF Encloses
<1>13. \A r \in DOMAIN grid.rows, c \in DOMAIN grid.columns :
          c \in DOMAIN grid.rows[r].cells =>
              Encloses(grid.columns[c].x, grid.rows[r].y, grid.rows[r].cells[c])
    BY <1>2, <1>3, <1>12
<1> QED
    BY <1>11, <1>13 DEF GridEncloses, Encloses

GridInv ==
    /\ gridTable \in GridTable \cup {NoGrid}
    /\ grid # NoGrid => gridTable \in GridTable \ {NoGrid} /\ grid = LowerTable(gridTable)

\* Whatever the table, the widths of its texts and the size of a row: the
\* rules enclose every text that has a column, and stay within the bounds.
THEOREM RulesEncloseText == Lowering => []GridEncloses
<1>1. GridInit => GridInv
    BY DEF GridInit, GridInv
<1>2. GridInv /\ [GridNext]_gridVars => GridInv'
    <2> SUFFICES ASSUME GridInv, [GridNext]_gridVars PROVE GridInv'
        OBVIOUS
    <2>1. ASSUME NEW t \in GridTable, ResolveGrid(t) PROVE GridInv'
        <3>1. gridTable = NoGrid /\ gridTable' = t /\ grid' = grid
            BY <2>1 DEF ResolveGrid
        <3>2. gridTable' \in GridTable
            BY <3>1
        <3>3. grid = NoGrid
            BY <3>1 DEF GridInv
        <3> QED
            BY <3>1, <3>2, <3>3 DEF GridInv
    <2>2. CASE LowerGrid
        BY <2>2 DEF LowerGrid, GridInv
    <2>3. CASE UNCHANGED gridVars
        BY <2>3 DEF gridVars, GridInv
    <2> QED
        BY <2>1, <2>2, <2>3 DEF GridNext
<1>3. GridInv => GridEncloses
    <2>1. grid = NoGrid => GridEncloses
        BY DEF GridEncloses
    <2> QED
        BY <2>1, Enclosed DEF GridInv
<1> QED
    BY <1>1, <1>2, <1>3, PTL DEF Lowering
=============================================================================
