--------------------------- MODULE PropertyValue ---------------------------
(***************************************************************************)
(* One value meets one target (data-bind/property.rs over the types of     *)
(* data-core/property.rs): a property binding coerces what its expression  *)
(* produced against the target's schema row, its policies decide what      *)
(* happens to a value that is missing or does not fit, and the host writes *)
(* what comes out.  A visibility binding (data-bind/lib.rs) decides over   *)
(* the same values and is written as the property triple it is             *)
(* (data-lower/lib.rs).                                                    *)
(*                                                                         *)
(* A text is a sequence of pieces: numbers, and words for units, signs,    *)
(* prefixes and names.  Numbers count 1/508 of a unit (a point), so that   *)
(* every length unit converts exactly; NotFinite is NaN.                   *)
(***************************************************************************)
EXTENDS Integers, Sequences, FiniteSets

CONSTANTS
    NotFinite,      \* NaN: a number outside every comparison
    NoNumber,       \* a text that is not one
    NoSchema,       \* an untyped target
    NoDefault,      \* a schema row without a default, or without a bound
    PropNull,       \* the null a binding writes
    Tried           \* the values a column delivers

VARIABLES
    property,   \* the binding: kind, schema, coerce, missing, invert
    held,       \* what the document holds at the target
    decision    \* the last one: "none", "write", "keep" or "fail"

propVars == <<property, held, decision>>

-----------------------------------------------------------------------------
(* Values (data-core/value.rs)                                             *)

N(n) == [num |-> n]
W(w) == [word |-> w]

Number(n) == [t |-> "number", n |-> n]
Pieces(p) == [t |-> "text", pieces |-> p]
Bool(b)   == [t |-> "bool", b |-> b]
Date(d)   == [t |-> "date", d |-> d]
Null      == [t |-> "null"]
Bytes     == [t |-> "bytes"]
Error     == [t |-> "error"]

Piece == [num : Int \cup {NotFinite}] \cup [word : STRING]

\* Value: what an expression gives.
ColumnValue ==
    [t : {"number"}, n : Int \cup {NotFinite}] \cup [t : {"text"}, pieces : Seq(Piece)]
    \cup [t : {"bool"}, b : BOOLEAN] \cup [t : {"date"}, d : Int] \cup {Null, Bytes, Error}

\* PropValue, as the document holds it: JSON, so every number is finite.
PropValue ==
    [t : {"number"}, n : Int] \cup [t : {"text"}, pieces : Seq(Piece)]
    \cup [t : {"bool"}, b : BOOLEAN] \cup [t : {"list"}, list : Seq(Int)]

ASSUME PropertyAssumption ==
    NotFinite \notin Int /\ PropNull \notin PropValue /\ Tried \subseteq ColumnValue

\* A text's words are strings, those the conversions write among them.
ASSUME WordsAssumption ==
    {"#NUM", "-", "#", "TRUE", "FALSE", "R=255"} \subseteq STRING

PointUnits == 508
PointsPer  == [pt |-> 508, mm |-> 1440, cm |-> 14400, in |-> 36576, pc |-> 6096, px |-> 381]

IsNumber(piece) == "num" \in DOMAIN piece
IsUnit(piece)   == "word" \in DOMAIN piece /\ piece.word \in DOMAIN PointsPer

(* A text that is one number: parse::<f64>, which also reads "NaN". *)
ParseNumber(pieces) ==
    IF Len(pieces) = 1 /\ IsNumber(pieces[1]) THEN pieces[1].num ELSE NoNumber

AsNumber(v) ==
    CASE v.t = "number" -> v.n
      [] v.t = "bool"   -> IF v.b THEN PointUnits ELSE 0
      [] v.t = "null"   -> 0
      [] v.t = "date"   -> v.d * PointUnits
      [] v.t = "text"   -> ParseNumber(v.pieces)
      [] OTHER          -> NoNumber

TrueWords  == {<<W("true")>>, <<W("TRUE")>>, <<W("yes")>>, <<N(PointUnits)>>}
FalseWords == {<<W("false")>>, <<W("FALSE")>>, <<W("no")>>, <<N(0)>>, <<>>}

AsBool(v) ==
    CASE v.t = "bool"   -> {v.b}
      [] v.t = "number" -> {v.n # 0}
      [] v.t = "null"   -> {FALSE}
      [] v.t = "text" /\ v.pieces \in TrueWords  -> {TRUE}
      [] v.t = "text" /\ v.pieces \in FalseWords -> {FALSE}
      [] OTHER          -> {}

AsDisplay(v) ==
    CASE v.t = "text"   -> v.pieces
      [] v.t = "number" -> <<IF v.n = NotFinite THEN W("#NUM") ELSE N(v.n)>>
      [] v.t = "date"   -> <<N(v.d), W("-")>>
      [] v.t = "bool"   -> <<W(IF v.b THEN "TRUE" ELSE "FALSE")>>
      [] v.t = "null"   -> <<>>
      [] OTHER          -> <<W("#")>>

-----------------------------------------------------------------------------
(* Lengths, lists and colours                                              *)

Finite(n) == n # NoNumber /\ n # NotFinite

(* A bare number is points; NaN and infinity parse and are refused. *)
ParseLength(pieces) ==
    LET n == IF pieces = <<>> THEN NoNumber ELSE ParseNumber(<<pieces[1]>>)
    IN  CASE ~Finite(n) -> NoNumber
          [] Finite(n) /\ Len(pieces) = 1 -> n
          [] Finite(n) /\ Len(pieces) = 2 /\ IsUnit(pieces[2]) ->
                (n \div PointUnits) * PointsPer[pieces[2].word]
          [] OTHER -> NoNumber

\* The kth of a set of places.
Nth(places, k) == CHOOSE i \in places : Cardinality({j \in places : j < i}) = k - 1

Without(pieces, words) ==
    LET kept == {i \in DOMAIN pieces : \A w \in words : pieces[i] # W(w)}
    IN  [k \in 1..Cardinality(kept) |-> pieces[Nth(kept, k)]]

SplitAtCommas(pieces) ==
    LET cuts == {0, Len(pieces) + 1} \cup {i \in DOMAIN pieces : pieces[i] = W(",")}
    IN  [k \in 1..(Cardinality(cuts) - 1) |->
            SubSeq(pieces, Nth(cuts, k) + 1, Nth(cuts, k + 1) - 1)]

(* The n numbers of a bounds, a point or a transform; <<>> when it is not one. *)
Numbers(pieces, n) ==
    LET parts == SplitAtCommas(Without(pieces, {"[", "]"}))
        read  == [k \in DOMAIN parts |-> ParseLength(parts[k])]
    IN  IF Len(parts) = n /\ \A k \in DOMAIN read : read[k] # NoNumber THEN read ELSE <<>>

ListLength == [bounds |-> 4, point |-> 2, transform |-> 6]

(* A colour literal names the process colour it mints; other text is the   *)
(* name of a swatch, with or without its prefix. *)
ParseColor(pieces) ==
    CASE pieces \in {<<W("#f00")>>, <<W("rgb(255,0,0)")>>} -> <<W("R=255")>>
      [] pieces # <<>> /\ pieces[1] = W("swatch:") /\ Len(pieces) > 1 -> Tail(pieces)
      [] OTHER -> pieces

-----------------------------------------------------------------------------
(* Coercion: the value to write, or {} when it does not fit                *)

\* The lower bound; alone, the mutant of InRange.
AtLeast(n, schema) == schema.min = NoDefault \/ n = NotFinite \/ n >= schema.min

InRange(n, schema) ==
    AtLeast(n, schema) /\ (schema.max = NoDefault \/ n = NotFinite \/ n <= schema.max)

CheckRange(n, schema) == IF InRange(n, schema) THEN {Number(n)} ELSE {}

NumberOf(v, schema) ==
    CASE v.t \in {"bytes", "date"} -> NoNumber
      [] v.t = "text" /\ schema.percent /\ v.pieces # <<>> /\ v.pieces[Len(v.pieces)] = W("%") ->
            ParseNumber(Without(v.pieces, {"%"}))
      [] OTHER -> AsNumber(v)

CoerceNumber(v, schema) ==
    LET n == NumberOf(v, schema)
    IN  IF ~Finite(n) \/ (schema.integer /\ n % PointUnits # 0) THEN {} ELSE CheckRange(n, schema)

CoerceLength(v, schema) ==
    LET n == CASE v.t = "text" -> ParseLength(v.pieces)
               [] v.t = "number" -> v.n
               [] OTHER -> NoNumber
    IN  IF n = NoNumber THEN {} ELSE CheckRange(n, schema)

Trim(pieces) == Without(pieces, {" "})

CoerceUntyped(v) ==
    CASE v.t = "bytes" -> {}
      [] v.t \in {"bool", "number"} -> {v}
      [] OTHER -> {Pieces(AsDisplay(v))}

CoerceColor(v) ==
    IF v.t = "text" /\ Trim(v.pieces) # <<>> THEN {Pieces(ParseColor(Trim(v.pieces)))} ELSE {}

CoerceEnum(v, schema) == IF AsDisplay(v) \in schema.members THEN {Pieces(AsDisplay(v))} ELSE {}

CoerceText(v, schema) ==
    IF schema.maxLength # NoDefault /\ Len(AsDisplay(v)) > schema.maxLength
    THEN {} ELSE {Pieces(AsDisplay(v))}

\* A name, an id, a URL or a path: any text but a blank one.
CoerceName(pieces) == IF Trim(pieces) = <<>> THEN {} ELSE {Pieces(Trim(pieces))}

CoerceList(v, n) ==
    LET list == Numbers(AsDisplay(v), n)
    IN  IF list = <<>> THEN {} ELSE {[t |-> "list", list |-> list]}

CoerceTyped(v, schema) ==
    CASE schema.type = "bool"   -> {Bool(b) : b \in AsBool(v)}
      [] schema.type = "number" -> CoerceNumber(v, schema)
      [] schema.type = "length" -> CoerceLength(v, schema)
      [] schema.type = "color"  -> CoerceColor(v)
      [] schema.type = "enum"   -> CoerceEnum(v, schema)
      [] schema.type = "text"   -> CoerceText(v, schema)
      [] schema.type = "ref"    -> CoerceName(AsDisplay(v))
      [] schema.type = "asset"  -> IF v.t = "text" THEN CoerceName(v.pieces) ELSE {}
      [] schema.type \in DOMAIN ListLength -> CoerceList(v, ListLength[schema.type])
      [] schema.type = "unsupported" -> {}

Coerce(v, schema) ==
    CASE v.t = "error" -> {}
      [] v.t # "error" /\ schema = NoSchema -> CoerceUntyped(v)
      [] v.t # "error" /\ schema # NoSchema -> CoerceTyped(v, schema)

-----------------------------------------------------------------------------
(* Targets and what they may hold.                                         *)

\* The values a schema row allows.
FitsType(p, s) ==
    CASE s.type = "bool" -> p.t = "bool"
      [] s.type \in {"number", "length"} ->
           /\ p.t = "number"
           /\ s.min # NoDefault => p.n >= s.min
           /\ s.max # NoDefault => p.n <= s.max
           /\ s.integer => p.n % PointUnits = 0
      [] s.type = "enum" -> p.t = "text" /\ p.pieces \in s.members
      [] s.type = "text" -> p.t = "text" /\ (s.maxLength # NoDefault => Len(p.pieces) <= s.maxLength)
      [] s.type \in {"color", "ref", "asset"} -> p.t = "text" /\ p.pieces # <<>>
      [] s.type \in DOMAIN ListLength ->
           p.t = "list" /\ Len(p.list) = ListLength[s.type] /\ \A i \in DOMAIN p.list : Finite(p.list[i])
      [] s.type = "unsupported" -> FALSE

Fits(p, s) == s # NoSchema => IF p = PropNull THEN s.nullable ELSE FitsType(p, s)

\* TargetSchema: a row of the host's object model; its default is a value of it.
TargetSchema ==
    {s \in [type : {"bool", "number", "length", "color", "enum", "text", "ref", "asset",
                    "unsupported"} \cup DOMAIN ListLength,
            nullable : BOOLEAN, min : Int \cup {NoDefault}, max : Int \cup {NoDefault},
            default : PropValue \cup {PropNull, NoDefault}, integer : BOOLEAN, percent : BOOLEAN,
            members : SUBSET Seq(Piece), maxLength : Nat \cup {NoDefault}] :
        s.default = NoDefault \/ Fits(s.default, s)}

\* A property binding; a visibility binding writes a bool.
PropertyBinding ==
    [kind : {"property"}, schema : TargetSchema \cup {NoSchema}, coerce : {"strict", "lenient"},
     missing : {"keepLast", "clear", "default", "error"}, invert : {FALSE}]
    \cup [kind : {"visibility"}, schema : {s \in TargetSchema : s.type = "bool"}, coerce : {"strict"},
          missing : {"hide", "show", "leave"}, invert : BOOLEAN]

-----------------------------------------------------------------------------
(* The decision for one value                                              *)

Write(v) == [outcome |-> "write", value |-> v]
Keep     == [outcome |-> "keep"]
Fail     == [outcome |-> "fail"]

Missing(policy, schema) ==
    CASE policy = "keepLast" -> Keep
      [] policy = "clear" ->
            IF schema # NoSchema /\ ~schema.nullable THEN Fail ELSE Write(PropNull)
      [] policy = "default" ->
            IF schema = NoSchema \/ schema.default = NoDefault THEN Fail ELSE Write(schema.default)
      [] policy = "error" -> Fail

(* A value that is null, or that does not fit under the lenient policy, is *)
(* missing; a strict misfit fails. *)
Decide(v, b) ==
    LET fit == Coerce(v, b.schema)
    IN  CASE v.t = "null" -> Missing(b.missing, b.schema)
          [] v.t # "null" /\ fit # {} -> Write(CHOOSE p \in fit : TRUE)
          [] OTHER -> IF b.coerce = "strict" THEN Fail ELSE Missing(b.missing, b.schema)

(* A visibility binding shows or hides its element; a value that is no     *)
(* truth value is left to the policy, never guessed (resolve_visibility).  *)
ApplyVisibilityMissing(policy) ==
    CASE policy = "hide"  -> Write(Bool(FALSE))
      [] policy = "show"  -> Write(Bool(TRUE))
      [] policy = "leave" -> Keep

\* Mutant of ResolveVisibility: what is no truth value is false.
ResolveVisibilityGuessed(v, b) ==
    IF v.t = "null" THEN ApplyVisibilityMissing(b.missing)
    ELSE Write(Bool((TRUE \in AsBool(v)) # b.invert))

ResolveVisibility(v, b) ==
    IF v.t = "null" \/ AsBool(v) = {} THEN ApplyVisibilityMissing(b.missing)
    ELSE Write(Bool((CHOOSE x \in AsBool(v) : TRUE) # b.invert))

(* The host writes JSON, where a number that is not finite becomes null. *)
AsJson(p) == IF p = Number(NotFinite) THEN PropNull ELSE p

PropInit ==
    /\ property = NoSchema
    /\ held = PropNull
    /\ decision = "none"

(* The panel binds a target whose value the document already holds. *)
DefineProperty(b, initial) ==
    /\ property = NoSchema
    /\ Fits(initial, b.schema)
    /\ property' = b
    /\ held' = initial
    /\ UNCHANGED decision

(* One refresh: resolve_property over the record's value (a record that is *)
(* not there is null), lowered and applied by the host. *)
RefreshProperty(v) ==
    /\ property # NoSchema
    /\ LET d == IF property.kind = "visibility"
                THEN ResolveVisibility(v, property) ELSE Decide(v, property)
       IN  /\ decision' = d.outcome
           /\ held' = IF d.outcome = "write" THEN AsJson(d.value) ELSE held
    /\ UNCHANGED property

PropNext ==
    \/ \E b \in PropertyBinding, initial \in PropValue \cup {PropNull} : DefineProperty(b, initial)
    \/ \E v \in ColumnValue : RefreshProperty(v)

PropSpec == PropInit /\ [][PropNext]_propVars

-----------------------------------------------------------------------------
(* However data, policies and refreshes follow each other, the document    *)
(* holds a value its target's schema row allows.  A length target is left  *)
(* to LengthFits, since the code lets NaN through there. *)
DocFits ==
    property # NoSchema /\ property.schema # NoSchema /\ property.schema.type # "length"
        => Fits(held, property.schema)

(* A value that cannot be decided on: absent, failed, or unreadable. *)
Undecidable(v) ==
    \/ v.t \in {"null", "error"}
    \/ IF property.kind = "visibility" THEN AsBool(v) = {} ELSE Coerce(v, property.schema) = {}

(* The policies that promise to write nothing (VisibilityMissing::Leave,   *)
(* PropertyMissing::KeepLast) keep it for every value that cannot be       *)
(* decided on, an error included: the designer's artwork stays. *)
KeepsArtwork ==
    [][\A v \in Tried : RefreshProperty(v) /\ Undecidable(v) /\ property.missing \in {"leave", "keepLast"}
          => held' = held]_propVars

(* The table of data-bind/property.rs, line 29: a length is range checked. *)
LengthFits ==
    property # NoSchema /\ property.schema # NoSchema /\ property.schema.type = "length"
        => Fits(held, property.schema)
=============================================================================
