------------------------ MODULE PropertyValueProofs ------------------------
(***************************************************************************)
(* Theorems about PropertyValue.                                           *)
(*                                                                         *)
(* Each arm of the coercion either refuses a value or gives one its schema *)
(* row allows (CoercionFits): what is trimmed, cut at commas or converted  *)
(* stays a text of pieces (WithoutIsText, PartsAreTexts) or becomes a list *)
(* of finite numbers (NumbersAreAList), and a number is finite where its   *)
(* range is checked.  A policy writes the null only where the row is       *)
(* nullable, and the default only where there is one, which is a value of  *)
(* the row (TargetSchema).                                                 *)
(***************************************************************************)
EXTENDS PropertyValue, FiniteSetTheorems, FunctionTheorems, SequenceTheorems, TLAPS

USE PropertyAssumption

-----------------------------------------------------------------------------
(* Texts: what is left of one, and its parts.                              *)

\* In a finite set of numbers every rank is that of one member.
LEMMA EveryRankTaken ==
    ASSUME NEW S, S \subseteq Nat, IsFiniteSet(S)
    PROVE  \A n \in 1..Cardinality(S) : Nth(S, n) \in S
<1> DEFINE Under(p) == {q \in S : q < p}
           rank == [p \in S |-> Cardinality(Under(p)) + 1]
           c == Cardinality(S)
<1>1. c \in Nat /\ IsFiniteSet(1..c) /\ Cardinality(1..c) = c
    BY FS_CardinalityType, FS_Interval
<1>2. ASSUME NEW p \in S
      PROVE  /\ IsFiniteSet(Under(p)) /\ Cardinality(Under(p)) \in Nat
             /\ Cardinality(Under(p)) + 1 <= c
    <2>1. Under(p) \subseteq S /\ p \notin Under(p)
        OBVIOUS
    <2> HIDE DEF Under, c
    <2>2. IsFiniteSet(Under(p))
        BY <2>1, FS_Subset
    <2>3. Cardinality(Under(p) \cup {p}) = Cardinality(Under(p)) + 1
        BY <2>1, <2>2, FS_AddElement
    <2>4. Under(p) \cup {p} \subseteq S
        BY <2>1
    <2>5. Cardinality(Under(p) \cup {p}) <= Cardinality(S)
        BY <2>4, FS_Subset
    <2> QED
        BY <2>2, <2>3, <2>5, FS_CardinalityType DEF c
<1>3. ASSUME NEW p \in S, NEW q \in S, p < q
      PROVE  Cardinality(Under(p)) < Cardinality(Under(q))
    <2>1. p \in Nat /\ q \in Nat /\ \A x \in S : x \in Nat
        OBVIOUS
    <2>2. \A x \in S : x < p => x < q
        BY <1>3, <2>1
    <2>3. Under(p) \cup {p} \subseteq Under(q) /\ p \notin Under(p)
        <3>1. p \in Under(q)
            BY <1>3
        <3>2. Under(p) \subseteq Under(q)
            BY <2>2
        <3>3. p \notin Under(p)
            BY <2>1
        <3> QED
            BY <3>1, <3>2, <3>3
    <2> HIDE DEF Under
    <2>4. Cardinality(Under(p) \cup {p}) = Cardinality(Under(p)) + 1
        BY <1>2, <2>3, FS_AddElement
    <2>5. Cardinality(Under(p) \cup {p}) <= Cardinality(Under(q))
        BY <1>2, <2>3, FS_Subset
    <2> QED
        BY <1>2, <2>4, <2>5
<1>4. rank \in [S -> 1..c]
    <2> SUFFICES ASSUME NEW p \in S PROVE Cardinality(Under(p)) + 1 \in 1..c
        OBVIOUS
    <2> HIDE DEF Under, c
    <2> QED
        BY <1>1, <1>2
<1>5. ASSUME NEW p \in S, NEW q \in S, p # q
      PROVE  Cardinality(Under(p)) # Cardinality(Under(q))
    <2>1. p < q \/ q < p
        BY <1>5
    <2> HIDE DEF Under
    <2> QED
        BY <1>2, <1>3, <2>1
<1>6. \A p, q \in S : rank[p] = rank[q] => p = q
    <2> HIDE DEF Under
    <2> QED
        BY <1>2, <1>5
<1>7. rank \in Injection(S, 1..c)
    BY <1>4, <1>6, Fun_IsInj
<1>8. rank \in Surjection(S, 1..c)
    <2> HIDE DEF rank
    <2>1. Cardinality(S) = Cardinality(1..c)
        BY <1>1
    <2> HIDE DEF c
    <2> QED
        BY <1>1, <1>7, <2>1, FS_Injection
<1>9. ASSUME NEW n \in 1..c
      PROVE  \E p \in S : Cardinality(Under(p)) = n - 1
    <2>1. PICK p \in S : rank[p] = n
        BY <1>8 DEF Surjection
    <2>2. Cardinality(Under(p)) + 1 = n
        BY <2>1
    <2> HIDE DEF Under, c
    <2> QED
        BY <1>1, <1>2, <2>2
<1> QED
    BY <1>9 DEF Nth

LEMMA WithoutIsText ==
    ASSUME NEW p \in Seq(Piece), NEW words
    PROVE  Without(p, words) \in Seq(Piece)
<1> DEFINE kept == {i \in DOMAIN p : \A w \in words : p[i] # W(w)}
           left == [k \in 1..Cardinality(kept) |-> p[Nth(kept, k)]]
<1>1. kept \subseteq 1..Len(p) /\ Len(p) \in Nat /\ p \in [1..Len(p) -> Piece]
    BY LenProperties
<1>2. IsFiniteSet(kept) /\ kept \subseteq Nat
    <2>1. IsFiniteSet(1..Len(p)) /\ 1..Len(p) \subseteq Nat
        BY <1>1, FS_Interval
    <2> HIDE DEF kept
    <2> QED
        BY <1>1, <2>1, FS_Subset
<1>3. Cardinality(kept) \in Nat
    BY <1>2, FS_CardinalityType
<1>4. \A k \in 1..Cardinality(kept) : Nth(kept, k) \in kept
    <2> HIDE DEF kept
    <2> QED
        BY <1>2, EveryRankTaken
<1>5. left \in [1..Cardinality(kept) -> Piece]
    <2> HIDE DEF kept
    <2> QED
        BY <1>1, <1>4
<1>6. left \in Seq(Piece)
    <2> HIDE DEF left, kept
    <2> QED
        BY <1>3, <1>5, SeqDef
<1> QED
    BY <1>6 DEF Without

LEMMA PartsAreTexts ==
    ASSUME NEW p \in Seq(Piece)
    PROVE  SplitAtCommas(p) \in Seq(Seq(Piece))
<1> DEFINE cuts == {0, Len(p) + 1} \cup {i \in DOMAIN p : p[i] = W(",")}
           parts == [k \in 1..(Cardinality(cuts) - 1) |->
                        SubSeq(p, Nth(cuts, k) + 1, Nth(cuts, k + 1) - 1)]
<1>1. Len(p) \in Nat /\ DOMAIN p = 1..Len(p) /\ \A i \in 1..Len(p) : p[i] \in Piece
    BY LenProperties
<1>2. cuts \subseteq 0..(Len(p) + 1) /\ 0 \in cuts
    <2>1. {0, Len(p) + 1} \subseteq 0..(Len(p) + 1)
        BY <1>1
    <2>2. {i \in DOMAIN p : p[i] = W(",")} \subseteq 0..(Len(p) + 1)
        <3>1. {i \in DOMAIN p : p[i] = W(",")} \subseteq DOMAIN p
            OBVIOUS
        <3>2. 1..Len(p) \subseteq 0..(Len(p) + 1)
            BY <1>1
        <3> QED
            BY <1>1, <3>1, <3>2
    <2> QED
        BY <2>1, <2>2
<1>3. IsFiniteSet(cuts) /\ cuts \subseteq Nat
    <2>1. 0 \in Int /\ Len(p) + 1 \in Int
        BY <1>1
    <2>2. IsFiniteSet(0..(Len(p) + 1)) /\ 0..(Len(p) + 1) \subseteq Nat
        BY <2>1, FS_Interval
    <2> HIDE DEF cuts
    <2> QED
        BY <1>2, <2>2, FS_Subset
<1>4. Cardinality(cuts) \in Nat /\ Cardinality(cuts) # 0
    <2> HIDE DEF cuts
    <2> QED
        BY <1>2, <1>3, FS_CardinalityType, FS_EmptySet
<1>5. \A k \in 1..Cardinality(cuts) : Nth(cuts, k) \in 0..(Len(p) + 1)
    <2> HIDE DEF cuts
    <2> QED
        BY <1>2, <1>3, EveryRankTaken
<1> HIDE DEF cuts
<1>6. ASSUME NEW k \in 1..(Cardinality(cuts) - 1)
      PROVE  SubSeq(p, Nth(cuts, k) + 1, Nth(cuts, k + 1) - 1) \in Seq(Piece)
    <2>1. Nth(cuts, k) \in 0..(Len(p) + 1) /\ Nth(cuts, k + 1) \in 0..(Len(p) + 1)
        BY <1>4, <1>5
    <2>2. Nth(cuts, k) + 1 \in Int /\ Nth(cuts, k + 1) - 1 \in Int
        BY <1>1, <2>1
    <2>3. \A i \in (Nth(cuts, k) + 1)..(Nth(cuts, k + 1) - 1) : p[i] \in Piece
        BY <1>1, <2>1
    <2> QED
        BY <2>2, <2>3, SubSeqProperties
<1>7. parts \in [1..(Cardinality(cuts) - 1) -> Seq(Piece)]
    BY <1>6
<1>8. Cardinality(cuts) - 1 \in Nat
    BY <1>4
<1>9. parts \in Seq(Seq(Piece))
    <2> DEFINE Q == Seq(Piece)
               n == Cardinality(cuts) - 1
    <2>1. n \in Nat /\ parts \in [1..n -> Q]
        BY <1>7, <1>8
    <2> HIDE DEF parts, Q, n
    <2>2. parts \in Seq(Q)
        BY <2>1
    <2> QED
        BY <2>2 DEF Q
<1> QED
    BY <1>9 DEF SplitAtCommas, cuts

-----------------------------------------------------------------------------
(* Values and their kinds.                                                 *)

LEMMA KindsOfValue ==
    ASSUME NEW v \in ColumnValue
    PROVE  /\ v.t \in {"number", "text", "bool", "date", "null", "bytes", "error"}
           /\ v.t = "number" => v.n \in Int \cup {NotFinite}
           /\ v.t = "text" => v.pieces \in Seq(Piece)
           /\ v.t = "bool" => v.b \in BOOLEAN
           /\ v.t = "date" => v.d \in Int
    BY DEF ColumnValue, Null, Bytes, Error

LEMMA KindsOfPiece ==
    /\ \A n \in Int \cup {NotFinite} : N(n) \in Piece
    /\ \A w \in STRING : W(w) \in Piece
    /\ \A piece \in Piece : IsNumber(piece) => piece.num \in Int \cup {NotFinite}
<1>1. \A n \in Int \cup {NotFinite} : N(n) \in Piece
    BY DEF Piece, N
<1>2. \A w \in STRING : W(w) \in Piece
    BY DEF Piece, W
<1>3. \A piece \in Piece : IsNumber(piece) => piece.num \in Int \cup {NotFinite}
    BY DEF Piece, IsNumber
<1> QED
    BY <1>1, <1>2, <1>3

\* A value the document may hold is not the null.
LEMMA HeldValues ==
    /\ \A n \in Int : Number(n) \in PropValue
    /\ \A p \in Seq(Piece) : Pieces(p) \in PropValue
    /\ \A b \in BOOLEAN : Bool(b) \in PropValue
    /\ \A l \in Seq(Int) : [t |-> "list", list |-> l] \in PropValue
    /\ \A p \in PropValue : p # PropNull /\ AsJson(p) = p
<1>1. \A n \in Int : Number(n) \in PropValue
    BY DEF PropValue, Number
<1>2. \A p \in Seq(Piece) : Pieces(p) \in PropValue
    BY DEF PropValue, Pieces
<1>3. \A b \in BOOLEAN : Bool(b) \in PropValue
    BY DEF PropValue, Bool
<1>4. \A l \in Seq(Int) : [t |-> "list", list |-> l] \in PropValue
    BY DEF PropValue
<1>5. ASSUME NEW p \in PropValue, p = Number(NotFinite)
      PROVE  FALSE
    <2>1. p.t = "number" /\ p.n = NotFinite
        BY <1>5 DEF Number
    <2>2. p.n \in Int
        BY <2>1 DEF PropValue
    <2> QED
        BY <2>1, <2>2
<1>6. \A p \in PropValue : p # PropNull /\ AsJson(p) = p
    BY <1>5 DEF AsJson
<1> QED
    BY <1>1, <1>2, <1>3, <1>4, <1>6

LEMMA DisplayIsText ==
    ASSUME NEW v \in ColumnValue
    PROVE  AsDisplay(v) \in Seq(Piece)
<1>1. \A x, y \in Piece : <<x>> \in Seq(Piece) /\ <<x, y>> \in Seq(Piece)
    OBVIOUS
<1>2. \A w \in {"#NUM", "-", "#", "TRUE", "FALSE"} : w \in STRING
    BY WordsAssumption
<1>3. \A w \in {"#NUM", "-", "#", "TRUE", "FALSE"} : W(w) \in Piece
    BY <1>2, KindsOfPiece
<1>4. CASE v.t = "text"
    BY <1>4, KindsOfValue DEF AsDisplay
<1>5. CASE v.t = "number"
    <2>1. v.n \in Int \cup {NotFinite} /\ N(v.n) \in Piece
        BY <1>5, KindsOfValue, KindsOfPiece
    <2>2. AsDisplay(v) = <<W("#NUM")>> \/ AsDisplay(v) = <<N(v.n)>>
        BY <1>5 DEF AsDisplay
    <2> QED
        BY <1>1, <1>3, <2>1, <2>2
<1>6. CASE v.t = "date"
    <2>1. N(v.d) \in Piece
        BY <1>6, KindsOfValue, KindsOfPiece
    <2>2. AsDisplay(v) = <<N(v.d), W("-")>>
        BY <1>6 DEF AsDisplay
    <2> QED
        BY <1>1, <1>3, <2>1, <2>2
<1>7. CASE v.t = "bool"
    <2>1. AsDisplay(v) = <<W("TRUE")>> \/ AsDisplay(v) = <<W("FALSE")>>
        BY <1>7 DEF AsDisplay
    <2> QED
        BY <1>1, <1>3, <2>1
<1>8. CASE v.t = "null"
    BY <1>8 DEF AsDisplay
<1>9. CASE v.t \in {"bytes", "error"}
    <2>1. AsDisplay(v) = <<W("#")>>
        BY <1>9 DEF AsDisplay
    <2> QED
        BY <1>1, <1>3, <2>1
<1> QED
    BY <1>4, <1>5, <1>6, <1>7, <1>8, <1>9, KindsOfValue

\* A text or a value that is a number is a whole one, or not finite.
LEMMA NumbersRead ==
    /\ \A p \in Seq(Piece) : ParseNumber(p) \in Int \cup {NotFinite, NoNumber}
    /\ \A v \in ColumnValue : AsNumber(v) \in Int \cup {NotFinite, NoNumber}
    /\ \A p \in Seq(Piece) : ParseLength(p) \in Int \cup {NoNumber}
<1>1. ASSUME NEW p \in Seq(Piece)
      PROVE  ParseNumber(p) \in Int \cup {NotFinite, NoNumber}
    BY KindsOfPiece, LenProperties DEF ParseNumber
<1>2. ASSUME NEW v \in ColumnValue
      PROVE  AsNumber(v) \in Int \cup {NotFinite, NoNumber}
    <2>1. CASE v.t \in {"number", "text"}
        BY <1>1, <2>1, KindsOfValue DEF AsNumber
    <2>2. CASE v.t \in {"bool", "null"}
        BY <2>2 DEF AsNumber, PointUnits
    <2>3. CASE v.t = "date"
        <3>1. v.d \in Int
            BY <2>3, KindsOfValue
        <3>2. AsNumber(v) = v.d * 508
            BY <2>3 DEF AsNumber, PointUnits
        <3> QED
            BY <3>1, <3>2
    <2>4. CASE v.t \in {"bytes", "error"}
        BY <2>4 DEF AsNumber
    <2> QED
        BY <2>1, <2>2, <2>3, <2>4, KindsOfValue
<1>3. ASSUME NEW p \in Seq(Piece)
      PROVE  ParseLength(p) \in Int \cup {NoNumber}
    <2> DEFINE n == IF p = <<>> THEN NoNumber ELSE ParseNumber(<<p[1]>>)
    <2>1. ASSUME p # <<>>
          PROVE  <<p[1]>> \in Seq(Piece)
        BY <2>1, EmptySeq, LenProperties
    <2>2. n \in Int \cup {NotFinite, NoNumber}
        BY <1>1, <2>1
    <2>3. ASSUME IsUnit(p[2]), n \in Int
          PROVE  (n \div PointUnits) * PointsPer[p[2].word] \in Int
        <3>1. PointsPer[p[2].word] \in Int
            BY <2>3 DEF IsUnit, PointsPer
        <3>2. n \div PointUnits \in Int
            BY <2>3 DEF PointUnits
        <3> HIDE DEF n
        <3> QED
            BY <3>1, <3>2
    <2>4. ParseLength(p) = CASE ~Finite(n) -> NoNumber
          [] Finite(n) /\ Len(p) = 1 -> n
          [] Finite(n) /\ Len(p) = 2 /\ IsUnit(p[2]) -> (n \div PointUnits) * PointsPer[p[2].word]
          [] OTHER -> NoNumber
        BY DEF ParseLength
    <2> HIDE DEF n
    <2> QED
        BY <2>2, <2>3, <2>4 DEF Finite
<1> QED
    BY <1>1, <1>2, <1>3

-----------------------------------------------------------------------------
(* Each arm of the coercion.                                               *)

LEMMA NumbersAreAList ==
    ASSUME NEW p \in Seq(Piece), NEW n \in Nat \ {0}, Numbers(p, n) # <<>>
    PROVE  /\ Numbers(p, n) \in Seq(Int)
           /\ Len(Numbers(p, n)) = n
           /\ \A i \in DOMAIN Numbers(p, n) : Finite(Numbers(p, n)[i])
<1> DEFINE parts == SplitAtCommas(Without(p, {"[", "]"}))
           read  == [k \in DOMAIN parts |-> ParseLength(parts[k])]
<1>1. parts \in Seq(Seq(Piece))
    BY PartsAreTexts, WithoutIsText
<1>2. Len(parts) \in Nat /\ DOMAIN parts = 1..Len(parts) /\ \A k \in DOMAIN parts : parts[k] \in Seq(Piece)
    <2> HIDE DEF parts
    <2> QED
        BY <1>1, LenProperties
<1>3. Numbers(p, n) = IF Len(parts) = n /\ \A k \in DOMAIN read : read[k] # NoNumber THEN read ELSE <<>>
    BY DEF Numbers
<1>4. Numbers(p, n) = read /\ Len(parts) = n /\ \A k \in DOMAIN read : read[k] # NoNumber
    <2> HIDE DEF read, parts
    <2> QED
        BY <1>3
<1> HIDE DEF parts
<1>5. DOMAIN read = 1..n
    BY <1>2, <1>4
<1>6. \A k \in 1..n : read[k] \in Int /\ Finite(read[k])
    <2> SUFFICES ASSUME NEW k \in 1..n
                 PROVE  read[k] \in Int /\ Finite(read[k])
        OBVIOUS
    <2>1. read[k] = ParseLength(parts[k]) /\ parts[k] \in Seq(Piece)
        BY <1>2, <1>4
    <2>2. read[k] # NoNumber
        BY <1>4, <1>5
    <2> HIDE DEF read
    <2>3. read[k] \in Int
        BY <2>1, <2>2, NumbersRead
    <2> QED
        BY <2>2, <2>3 DEF Finite
<1>7. read \in [1..n -> Int]
    BY <1>5, <1>6
<1> HIDE DEF read
<1>8. read \in Seq(Int)
    BY <1>7, SeqDef
<1>9. Len(read) = n
    BY <1>5, <1>8, LenProperties
<1> QED
    BY <1>4, <1>5, <1>6, <1>8, <1>9

LEMMA SchemaFields ==
    ASSUME NEW s \in TargetSchema
    PROVE  /\ s.type \in {"bool", "number", "length", "color", "enum", "text", "ref", "asset",
                          "unsupported", "bounds", "point", "transform"}
           /\ s.nullable \in BOOLEAN /\ s.integer \in BOOLEAN /\ s.percent \in BOOLEAN
           /\ s.min \in Int \cup {NoDefault} /\ s.max \in Int \cup {NoDefault}
           /\ s.maxLength \in Nat \cup {NoDefault}
           /\ s.default \in PropValue \cup {PropNull, NoDefault}
           /\ s.default = NoDefault \/ Fits(s.default, s)
    BY DEF TargetSchema, ListLength

LEMMA NumberFits ==
    ASSUME NEW v \in ColumnValue, NEW s \in TargetSchema, s.type = "number",
           NEW p \in CoerceNumber(v, s)
    PROVE  p \in PropValue /\ FitsType(p, s)
<1> DEFINE n == NumberOf(v, s)
<1>1. n \in Int \cup {NotFinite, NoNumber}
    <2>1. AsNumber(v) \in Int \cup {NotFinite, NoNumber}
        BY NumbersRead
    <2>2. ASSUME v.t = "text"
          PROVE  ParseNumber(Without(v.pieces, {"%"})) \in Int \cup {NotFinite, NoNumber}
        BY <2>2, KindsOfValue, WithoutIsText, NumbersRead
    <2> QED
        BY <2>1, <2>2 DEF NumberOf
<1> HIDE DEF n
<1>2. Finite(n) /\ ~(s.integer /\ n % PointUnits # 0) /\ p \in CheckRange(n, s)
    BY DEF CoerceNumber, n
<1>3. n \in Int /\ n # NotFinite
    BY <1>1, <1>2 DEF Finite
<1>4. p = Number(n) /\ InRange(n, s)
    BY <1>2 DEF CheckRange
<1>5. p.t = "number" /\ p.n = n
    BY <1>4 DEF Number
<1>6. (s.min # NoDefault => n >= s.min) /\ (s.max # NoDefault => n <= s.max)
    BY <1>3, <1>4 DEF InRange, AtLeast
<1>7. s.integer => n % PointUnits = 0
    BY <1>2
<1>8. FitsType(p, s) = (/\ p.t = "number"
                        /\ s.min # NoDefault => p.n >= s.min
                        /\ s.max # NoDefault => p.n <= s.max
                        /\ s.integer => p.n % PointUnits = 0)
    BY DEF FitsType, ListLength
<1> QED
    BY <1>3, <1>4, <1>5, <1>6, <1>7, <1>8, HeldValues

LEMMA BoolFits ==
    ASSUME NEW s, s.type = "bool", NEW b \in BOOLEAN
    PROVE  Bool(b) \in PropValue /\ FitsType(Bool(b), s)
    BY HeldValues DEF Bool, FitsType, ListLength

LEMMA TruthIsBool ==
    ASSUME NEW v \in ColumnValue
    PROVE  AsBool(v) \subseteq BOOLEAN
    BY KindsOfValue DEF AsBool

\* What a colour literal or a swatch names, or any text but a blank one.
LEMMA NameFits ==
    ASSUME NEW s, s.type \in {"color", "ref", "asset"}, NEW t \in Seq(Piece), t # <<>>
    PROVE  Pieces(t) \in PropValue /\ FitsType(Pieces(t), s)
    BY HeldValues DEF Pieces, FitsType, ListLength

LEMMA ColorFits ==
    ASSUME NEW v \in ColumnValue, NEW s, s.type = "color", NEW p \in CoerceColor(v)
    PROVE  p \in PropValue /\ FitsType(p, s)
<1>1. v.t = "text" /\ Trim(v.pieces) # <<>> /\ p = Pieces(ParseColor(Trim(v.pieces)))
    BY DEF CoerceColor
<1>2. Trim(v.pieces) \in Seq(Piece)
    BY <1>1, KindsOfValue, WithoutIsText, Zenon DEF Trim
<1>3. ASSUME NEW t \in Seq(Piece), t # <<>>
      PROVE  ParseColor(t) \in Seq(Piece) /\ ParseColor(t) # <<>>
    <2>1. "R=255" \in STRING
        BY WordsAssumption
    <2>2. <<W("R=255")>> \in Seq(Piece) /\ <<W("R=255")>> # <<>>
        BY <2>1, KindsOfPiece
    <2>3. ASSUME Len(t) > 1
          PROVE  Tail(t) \in Seq(Piece) /\ Tail(t) # <<>>
        BY <2>3
    <2> QED
        BY <1>3, <2>2, <2>3 DEF ParseColor
<1> QED
    BY <1>1, <1>2, <1>3, NameFits

LEMMA TextFits ==
    ASSUME NEW v \in ColumnValue, NEW s \in TargetSchema,
           NEW p, \/ s.type = "enum" /\ p \in CoerceEnum(v, s)
                  \/ s.type = "text" /\ p \in CoerceText(v, s)
    PROVE  p \in PropValue /\ FitsType(p, s)
<1>1. AsDisplay(v) \in Seq(Piece) /\ Len(AsDisplay(v)) \in Nat
    BY DisplayIsText, LenProperties
<1>2. p = Pieces(AsDisplay(v))
    BY DEF CoerceEnum, CoerceText
<1>3. p.t = "text" /\ p.pieces = AsDisplay(v) /\ p \in PropValue
    BY <1>1, <1>2, HeldValues DEF Pieces
<1>4. CASE s.type = "enum"
    BY <1>3, <1>4 DEF CoerceEnum, FitsType, ListLength
<1>5. CASE s.type = "text"
    <2>1. s.maxLength # NoDefault => Len(AsDisplay(v)) <= s.maxLength
        BY <1>1, <1>5, SchemaFields DEF CoerceText
    <2> QED
        BY <1>3, <1>5, <2>1 DEF FitsType, ListLength
<1> QED
    BY <1>4, <1>5

LEMMA ListFits ==
    ASSUME NEW v \in ColumnValue, NEW s, s.type \in {"bounds", "point", "transform"},
           NEW p \in CoerceList(v, ListLength[s.type])
    PROVE  p \in PropValue /\ FitsType(p, s)
<1> DEFINE n == ListLength[s.type]
           list == Numbers(AsDisplay(v), n)
<1>1. n \in Nat \ {0} /\ s.type \in DOMAIN ListLength
    BY DEF ListLength
<1>2. list # <<>> /\ p = [t |-> "list", list |-> list]
    BY DEF CoerceList
<1> HIDE DEF n
<1>3. list \in Seq(Int) /\ Len(list) = n /\ \A i \in DOMAIN list : Finite(list[i])
    BY <1>1, <1>2, DisplayIsText, NumbersAreAList
<1> HIDE DEF list
<1>4. p.t = "list" /\ p.list = list /\ p \in PropValue
    BY <1>2, <1>3, HeldValues
<1>5. FitsType(p, s) = (/\ p.t = "list"
                        /\ Len(p.list) = ListLength[s.type]
                        /\ \A i \in DOMAIN p.list : Finite(p.list[i]))
    BY <1>1 DEF FitsType
<1> QED
    BY <1>3, <1>4, <1>5 DEF n

\* What a typed target other than a length is given, its row allows.
LEMMA CoercionFits ==
    ASSUME NEW v \in ColumnValue, NEW s \in TargetSchema, s # NoSchema, s.type # "length",
           NEW p \in Coerce(v, s)
    PROVE  p \in PropValue /\ FitsType(p, s)
<1>1. p \in CoerceTyped(v, s)
    BY DEF Coerce
<1>2. CASE s.type = "bool"
    <2>1. PICK b \in AsBool(v) : p = Bool(b)
        BY <1>1, <1>2 DEF CoerceTyped, ListLength
    <2> QED
        BY <1>2, <2>1, TruthIsBool, BoolFits
<1>3. CASE s.type = "number"
    BY <1>1, <1>3, NumberFits DEF CoerceTyped, ListLength
<1>4. CASE s.type = "color"
    BY <1>1, <1>4, ColorFits DEF CoerceTyped, ListLength
<1>5. CASE s.type \in {"enum", "text"}
    BY <1>1, <1>5, TextFits DEF CoerceTyped, ListLength
<1>6. CASE s.type \in {"ref", "asset"}
    <2>1. PICK t \in Seq(Piece) : p \in CoerceName(t)
        <3>1. CASE s.type = "ref"
            BY <1>1, <3>1, DisplayIsText DEF CoerceTyped, ListLength
        <3>2. CASE s.type = "asset"
            BY <1>1, <3>2, KindsOfValue DEF CoerceTyped, ListLength
        <3> QED
            BY <1>6, <3>1, <3>2
    <2>2. Trim(t) # <<>> /\ p = Pieces(Trim(t))
        BY <2>1 DEF CoerceName
    <2>3. Trim(t) \in Seq(Piece)
        BY WithoutIsText, Zenon DEF Trim
    <2> QED
        BY <1>6, <2>2, <2>3, NameFits
<1>7. CASE s.type \in {"bounds", "point", "transform"}
    <2>1. CoerceTyped(v, s) = CoerceList(v, ListLength[s.type])
        BY <1>7 DEF CoerceTyped, ListLength
    <2> QED
        BY <1>1, <1>7, <2>1, ListFits
<1>8. CASE s.type = "unsupported"
    BY <1>1, <1>8 DEF CoerceTyped, ListLength
<1> QED
    BY <1>2, <1>3, <1>4, <1>5, <1>6, <1>7, <1>8, SchemaFields

-----------------------------------------------------------------------------
(* The theorems.                                                           *)

Bound == property \in PropertyBinding \cup {NoSchema}

LEMMA FieldsOfBinding ==
    ASSUME NEW b \in PropertyBinding
    PROVE  /\ b.schema \in TargetSchema \cup {NoSchema}
           /\ b.kind = "property" => b.missing \in {"keepLast", "clear", "default", "error"}
           /\ b.kind = "visibility" => /\ b.missing \in {"hide", "show", "leave"}
                                       /\ b.invert \in BOOLEAN
                                       /\ b.schema.type = "bool"
           /\ b.kind \in {"property", "visibility"}
    BY DEF PropertyBinding

LEMMA BoundKept ==
    /\ PropInit => Bound
    /\ Bound /\ [PropNext]_propVars => Bound'
<1>1. PropInit => Bound
    BY DEF PropInit, Bound
<1>2. ASSUME Bound, [PropNext]_propVars
      PROVE  Bound'
    BY <1>2 DEF Bound, PropNext, DefineProperty, RefreshProperty, propVars
<1> QED
    BY <1>1, <1>2

LEMMA MissingFits ==
    ASSUME NEW s \in TargetSchema, s # NoSchema, NEW policy,
           policy \in {"keepLast", "clear", "default", "error"},
           Missing(policy, s).outcome = "write"
    PROVE  Fits(AsJson(Missing(policy, s).value), s)
<1>1. policy \in {"clear", "default"}
    BY DEF Missing, Keep, Fail
<1>2. CASE policy = "clear"
    <2>1. s.nullable /\ Missing(policy, s).value = PropNull
        BY <1>2 DEF Missing, Fail, Write
    <2>2. AsJson(PropNull) = PropNull
        BY DEF AsJson
    <2> QED
        BY <2>1, <2>2 DEF Fits
<1>3. CASE policy = "default"
    <2>1. s.default # NoDefault /\ Missing(policy, s).value = s.default
        BY <1>3 DEF Missing, Fail, Write
    <2>2. s.default \in PropValue \cup {PropNull} /\ Fits(s.default, s)
        BY <2>1, SchemaFields
    <2>3. AsJson(s.default) = s.default
        BY <2>2, HeldValues DEF AsJson
    <2> QED
        BY <2>1, <2>2, <2>3
<1> QED
    BY <1>1, <1>2, <1>3

LEMMA DecisionFits ==
    ASSUME NEW v \in ColumnValue, NEW b \in PropertyBinding, b.kind = "property",
           b.schema # NoSchema, b.schema.type # "length",
           Decide(v, b).outcome = "write"
    PROVE  Fits(AsJson(Decide(v, b).value), b.schema)
<1>1. /\ b.schema \in TargetSchema
      /\ b.missing \in {"keepLast", "clear", "default", "error"}
    BY FieldsOfBinding
<1>2. CASE Decide(v, b) = Missing(b.missing, b.schema)
    BY <1>1, <1>2, MissingFits
<1>3. CASE v.t # "null" /\ Coerce(v, b.schema) # {}
    <2>1. PICK p \in Coerce(v, b.schema) : Decide(v, b) = Write(p)
        BY <1>3 DEF Decide
    <2>2. p \in PropValue /\ FitsType(p, b.schema)
        BY <1>1, CoercionFits
    <2>3. Decide(v, b).value = p
        BY <2>1 DEF Write
    <2> QED
        BY <2>2, <2>3, HeldValues DEF Fits
<1>4. CASE Decide(v, b) = Fail
    BY <1>4 DEF Fail
<1> QED
    BY <1>2, <1>3, <1>4 DEF Decide

LEMMA VisibilityFits ==
    ASSUME NEW v \in ColumnValue, NEW b \in PropertyBinding, b.kind = "visibility",
           ResolveVisibility(v, b).outcome = "write"
    PROVE  Fits(AsJson(ResolveVisibility(v, b).value), b.schema)
<1>1. b.schema.type = "bool" /\ b.missing \in {"hide", "show", "leave"} /\ b.invert \in BOOLEAN
    BY FieldsOfBinding
<1>2. \E x \in BOOLEAN : ResolveVisibility(v, b).value = Bool(x)
    <2>1. CASE v.t = "null" \/ AsBool(v) = {}
        BY <1>1, <2>1 DEF ResolveVisibility, ApplyVisibilityMissing, Write, Keep
    <2>2. CASE ~(v.t = "null" \/ AsBool(v) = {})
        BY <2>2 DEF ResolveVisibility, Write
    <2> QED
        BY <2>1, <2>2
<1>3. PICK x \in BOOLEAN : ResolveVisibility(v, b).value = Bool(x)
    BY <1>2
<1> QED
    BY <1>1, <1>3, BoolFits, HeldValues DEF Fits

LEMMA DocFitsKept ==
    ASSUME Bound, DocFits, [PropNext]_propVars
    PROVE  DocFits'
<1>1. ASSUME NEW b \in PropertyBinding, NEW initial, DefineProperty(b, initial)
      PROVE  DocFits'
    BY <1>1 DEF DefineProperty, DocFits, Fits
<1>2. ASSUME NEW v \in ColumnValue, RefreshProperty(v)
      PROVE  DocFits'
    <2> SUFFICES ASSUME property.schema # NoSchema, property.schema.type # "length"
                 PROVE  Fits(held', property.schema)
        BY <1>2 DEF RefreshProperty, DocFits
    <2> DEFINE d == IF property.kind = "visibility"
                    THEN ResolveVisibility(v, property) ELSE Decide(v, property)
    <2>1. property \in PropertyBinding /\ property # NoSchema
        BY <1>2 DEF RefreshProperty, Bound
    <2>2. held' = IF d.outcome = "write" THEN AsJson(d.value) ELSE held
        BY <1>2 DEF RefreshProperty
    <2>3. CASE d.outcome = "write"
        BY <2>1, <2>2, <2>3, DecisionFits, VisibilityFits, FieldsOfBinding
    <2>4. CASE d.outcome # "write"
        BY <2>1, <2>2, <2>4 DEF DocFits
    <2> QED
        BY <2>3, <2>4
<1>3. CASE UNCHANGED propVars
    BY <1>3 DEF propVars, DocFits, Fits
<1> QED
    BY <1>1, <1>2, <1>3 DEF PropNext

(* Whatever a column delivers and whatever the policies, schema rows and   *)
(* defaults are, the document holds a value the target's row allows        *)
(* (coerce and resolve_property of data-bind/property.rs,                  *)
(* resolve_visibility of data-bind/lib.rs). *)
THEOREM TargetsHoldWhatFits == PropSpec => []DocFits
<1>1. PropInit => Bound /\ DocFits
    BY BoundKept DEF PropInit, DocFits
<1>2. Bound /\ DocFits /\ [PropNext]_propVars => Bound' /\ DocFits'
    BY BoundKept, DocFitsKept
<1> QED
    BY <1>1, <1>2, PTL DEF PropSpec

LEMMA UndecidableKept ==
    ASSUME Bound, NEW v, v \in ColumnValue, RefreshProperty(v), Undecidable(v),
           property.missing \in {"leave", "keepLast"}
    PROVE  held' = held
<1> DEFINE d == IF property.kind = "visibility"
                THEN ResolveVisibility(v, property) ELSE Decide(v, property)
<1>1. property \in PropertyBinding
    BY DEF RefreshProperty, Bound
<1>2. held' = IF d.outcome = "write" THEN AsJson(d.value) ELSE held
    BY DEF RefreshProperty
<1>3. CASE property.kind = "visibility"
    <2>1. property.missing = "leave"
        BY <1>1, <1>3, FieldsOfBinding
    <2>2. v.t = "null" \/ AsBool(v) = {}
        BY <1>3 DEF Undecidable, AsBool
    <2>3. d.outcome = "keep"
        BY <1>3, <2>1, <2>2 DEF ResolveVisibility, ApplyVisibilityMissing, Keep
    <2> QED
        BY <1>2, <2>3
<1>4. CASE property.kind # "visibility"
    <2>1. property.missing = "keepLast"
        BY <1>1, <1>4, FieldsOfBinding
    <2>2. v.t = "null" \/ Coerce(v, property.schema) = {}
        BY <1>4 DEF Undecidable, Coerce
    <2>3. Decide(v, property).outcome \in {"keep", "fail"}
        BY <2>1, <2>2 DEF Decide, Missing, Keep, Fail
    <2> QED
        BY <1>2, <1>4, <2>3
<1> QED
    BY <1>3, <1>4

(* A binding that is to leave its target alone when there is nothing to    *)
(* decide on does, an error included: VisibilityMissing::Leave and         *)
(* PropertyMissing::KeepLast hold for every value (data-bind/lib.rs,       *)
(* data-bind/property.rs). *)
THEOREM ArtworkStays == PropSpec => KeepsArtwork
<1>1. PropInit => Bound
    BY BoundKept
<1>2. Bound /\ [PropNext]_propVars => Bound'
    BY BoundKept
<1>3. Bound => [\A v \in Tried : RefreshProperty(v) /\ Undecidable(v)
                    /\ property.missing \in {"leave", "keepLast"} => held' = held]_propVars
    BY UndecidableKept
<1> QED
    BY <1>1, <1>2, <1>3, PTL DEF PropSpec, KeepsArtwork
=============================================================================
