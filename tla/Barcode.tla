------------------------------- MODULE Barcode -------------------------------
(* The linear symbologies of data-barcode (EAN-13, UPC-A, Code 128), the      *)
(* geometry all symbologies share and the widened quiet zone.                 *)
(*                                                                            *)
(* A character is its ASCII code, or Wide for one outside ASCII.  A rectangle *)
(* of the unit box is kept in whole modules of the grid (modules_x by         *)
(* modules_y), so that scaling is exact.                                      *)
EXTENDS Integers, Sequences, FiniteSets
LOCAL INSTANCE SequencesExt
LOCAL INSTANCE FiniteSetsExt

CONSTANT Wide        \* a character outside ASCII
CONSTANT NoGeometry  \* the geometry before one is encoded
ASSUME BarcodeAssumption == Wide \in Int /\ Wide \notin 0 .. 127

VARIABLES
    barStep,    \* "idle", "values", "encoded", "widened" or a BarcodeError
    symbology,  \* "ean13", "upca", "code128" or "qr"
    barText,    \* the data to encode
    values,     \* the Code 128 symbol values so far, the start code included
    position,   \* how many characters of barText the values encode
    inC,        \* whether code set C is selected
    geometry    \* the encoded BarcodeGeometry

barVars == << barStep, symbology, barText, values, position, inC, geometry >>

----------------------------------------------------------------------------
(* Geometry.                                                                *)

Matrix2D(s) == s = "qr"

QuietOf == [ean13 |-> 9, upca |-> 9, code128 |-> 10, qr |-> 4]

\* One full-height rectangle per maximal run of dark modules.
LinearGeometry(s, modules, quiet, text) ==
    LET dark(i) == i \in DOMAIN modules /\ modules[i] = 1
        firsts  == {i \in DOMAIN modules : dark(i) /\ ~ dark(i - 1)}
        last(i) == Min({j \in i .. Len(modules) : ~ dark(j + 1)})
    IN  [symbology |-> s, mx |-> Len(modules) + 2 * quiet, my |-> 1, text |-> text,
         rects |-> {[x |-> quiet + i - 1, y |-> 0, w |-> last(i) - i + 1, h |-> 1] :
                    i \in firsts}]

WithQuietZone(g, extra) ==
    LET ey == IF Matrix2D(g.symbology) THEN extra ELSE 0
    IN  [g EXCEPT !.mx = @ + 2 * extra, !.my = @ + 2 * ey,
                  !.rects = {[r EXCEPT !.x = @ + extra, !.y = @ + ey] : r \in @}]

----------------------------------------------------------------------------
(* EAN-13 and UPC-A.                                                        *)

LCode == << <<0,0,0,1,1,0,1>>, <<0,0,1,1,0,0,1>>, <<0,0,1,0,0,1,1>>, <<0,1,1,1,1,0,1>>,
            <<0,1,0,0,0,1,1>>, <<0,1,1,0,0,0,1>>, <<0,1,0,1,1,1,1>>, <<0,1,1,1,0,1,1>>,
            <<0,1,1,0,1,1,1>>, <<0,0,0,1,0,1,1>> >>

\* The positions of the left half that the first digit puts in the G set.
Parity == << {}, {3, 5, 6}, {3, 4, 6}, {3, 4, 5}, {2, 5, 6}, {2, 3, 6},
             {2, 3, 4}, {2, 4, 6}, {2, 4, 5}, {2, 3, 5} >>

RCode(d) == [i \in 1 .. 7 |-> 1 - LCode[d + 1][i]]

GCode(d) == Reverse(RCode(d))

IsDigit(c)  == c \in 48 .. 57
DigitsOf(text) == [i \in DOMAIN text |-> text[i] - 48]
TextOf(digits) == [i \in DOMAIN digits |-> digits[i] + 48]

Checksum(d) ==
    LET weighted[i \in 0 .. Len(d)] ==
            IF i = 0 THEN 0
            ELSE weighted[i - 1] + d[i] * (IF (Len(d) - i) % 2 = 0 THEN 3 ELSE 1)
    IN  (10 - (weighted[Len(d)] % 10)) % 10

\* What numeric_with_optional_check answers for text with n data digits.
NumericError(text, n) ==
    CASE Len(text) = 0                        -> "Empty"
      [] Len(text) \notin {n, n + 1}          -> "WrongLength"
      [] \E i \in DOMAIN text : ~ IsDigit(text[i]) -> "NonDigit"
      [] Len(text) = n + 1 /\ Checksum(SubSeq(DigitsOf(text), 1, n)) # DigitsOf(text)[n + 1]
                                              -> "CheckDigit"
      [] OTHER                                -> "none"

NumericDigits(text, n) ==
    IF Len(text) = n THEN Append(DigitsOf(text), Checksum(DigitsOf(text))) ELSE DigitsOf(text)

EanModules(d) ==
    <<1, 0, 1>>
    \o FlattenSeq([i \in 1 .. 6 |-> IF i \in Parity[d[1] + 1] THEN GCode(d[i + 1])
                                                               ELSE LCode[d[i + 1] + 1]])
    \o <<0, 1, 0, 1, 0>>
    \o FlattenSeq([i \in 1 .. 6 |-> RCode(d[i + 7])])
    \o <<1, 0, 1>>

DataDigits(s) == IF s = "ean13" THEN 12 ELSE 11

EanGeometry(s, text) ==
    LET d == NumericDigits(text, DataDigits(s))
    IN  LinearGeometry(s, EanModules(IF s = "upca" THEN <<0>> \o d ELSE d), QuietOf[s], TextOf(d))

----------------------------------------------------------------------------
(* Code 128.  A pattern is the widths of its bars and spaces, a bar first.   *)

Patterns == <<
    212222, 222122, 222221, 121223, 121322, 131222, 122213, 122312, 132212, 221213,
    221312, 231212, 112232, 122132, 122231, 113222, 123122, 123221, 223211, 221132,
    221231, 213212, 223112, 312131, 311222, 321122, 321221, 312212, 322112, 322211,
    212123, 212321, 232121, 111323, 131123, 131321, 112313, 132113, 132311, 211313,
    231113, 231311, 112133, 112331, 132131, 113123, 113321, 133121, 313121, 211331,
    231131, 213113, 213311, 213131, 311123, 311321, 331121, 312113, 312311, 332111,
    314111, 221411, 431111, 111224, 111422, 121124, 121421, 141122, 141221, 112214,
    112412, 122114, 122411, 142112, 142211, 241211, 221114, 413111, 241112, 134111,
    111242, 121142, 121241, 114212, 124112, 124211, 411212, 421112, 421211, 212141,
    214121, 412121, 111143, 111341, 131141, 114113, 114311, 411113, 411311, 113141,
    114131, 311141, 411131, 211412, 211214, 211232, 2331112 >>

StartB == 104
StartC == 105
CodeB  == 100
CodeC  == 99
Stop   == 106

PatternModules(v) ==
    LET p == Patterns[v + 1]
        n == IF v = Stop THEN 7 ELSE 6
    IN  FlattenSeq([k \in 1 .. n |-> [m \in 1 .. (p \div 10 ^ (n - k)) % 10 |-> k % 2]])

PatternTable == [v \in 0 .. 106 |-> PatternModules(v)]

\* The number of digits that start at character i + 1.
DigitRun(text, i) ==
    Max({n \in 0 .. Len(text) - i : \A k \in i + 1 .. i + n : IsDigit(text[k])})

Even(n) == n % 2 = 0

ShouldStartC(text) == DigitRun(text, 0) >= 4 /\ Even(DigitRun(text, 0))

SwitchesToC(text, i) ==
    LET run == DigitRun(text, i)
    IN  Even(run) /\ run >= (IF i + run = Len(text) THEN 4 ELSE 6)

PairAt(text, i) == i + 2 <= Len(text) /\ IsDigit(text[i + 1]) /\ IsDigit(text[i + 2])

\* Mutant of CheckValue: the first value after the start code weighs two.
CheckValueLate(vs) ==
    LET sum[k \in 1 .. Len(vs)] == IF k = 1 THEN vs[1] ELSE sum[k - 1] + vs[k] * k
    IN  sum[Len(vs)] % 103

CheckValue(vs) ==
    LET sum[k \in 1 .. Len(vs)] == IF k = 1 THEN vs[1] ELSE sum[k - 1] + vs[k] * (k - 1)
    IN  sum[Len(vs)] % 103

Code128Error(text) ==
    CASE Len(text) = 0                                      -> "Empty"
      [] \E i \in DOMAIN text : text[i] \notin 32 .. 127    -> "Unencodable"
      [] OTHER                                              -> "none"

Code128Geometry(text, vs) ==
    LET symbols == vs \o <<CheckValue(vs), Stop>>
    IN  LinearGeometry("code128", FlattenSeq([k \in DOMAIN symbols |-> PatternTable[symbols[k]]]),
                       QuietOf.code128, text)

----------------------------------------------------------------------------
BarInit ==
    /\ barStep = "idle" /\ symbology = "ean13" /\ barText = << >>
    /\ values = << >> /\ position = 0 /\ inC = FALSE /\ geometry = NoGeometry

\* encode_ean13, encode_upca
EncodeNumeric(s, text) ==
    /\ barStep = "idle" /\ s \in {"ean13", "upca"}
    /\ symbology' = s /\ barText' = text
    /\ LET error == NumericError(text, DataDigits(s))
       IN  IF error = "none"
           THEN barStep' = "encoded" /\ geometry' = EanGeometry(s, text)
           ELSE barStep' = error /\ UNCHANGED geometry
    /\ UNCHANGED << values, position, inC >>

\* encode_code128 up to the loop of encode_values.
StartCode128(text) ==
    /\ barStep = "idle"
    /\ symbology' = "code128" /\ barText' = text
    /\ IF Code128Error(text) = "none"
       THEN /\ barStep' = "values"
            /\ inC' = ShouldStartC(text)
            /\ values' = << IF ShouldStartC(text) THEN StartC ELSE StartB >>
       ELSE barStep' = Code128Error(text) /\ UNCHANGED << values, inC >>
    /\ UNCHANGED << position, geometry >>

Encoding == barStep = "values" /\ position < Len(barText)

EncodePair ==
    /\ Encoding /\ inC /\ PairAt(barText, position)
    /\ values' = Append(values, 10 * (barText[position + 1] - 48) + barText[position + 2] - 48)
    /\ position' = position + 2
    /\ UNCHANGED << barStep, symbology, barText, inC, geometry >>

LeaveC ==
    /\ Encoding /\ inC /\ ~ PairAt(barText, position)
    /\ values' = Append(values, CodeB) /\ inC' = FALSE
    /\ UNCHANGED << barStep, symbology, barText, position, geometry >>

EnterC ==
    /\ Encoding /\ ~ inC /\ SwitchesToC(barText, position)
    /\ values' = Append(values, CodeC) /\ inC' = TRUE
    /\ UNCHANGED << barStep, symbology, barText, position, geometry >>

EncodeCharacter ==
    /\ Encoding /\ ~ inC /\ ~ SwitchesToC(barText, position)
    /\ values' = Append(values, barText[position + 1] - 32)
    /\ position' = position + 1
    /\ UNCHANGED << barStep, symbology, barText, inC, geometry >>

FinishCode128 ==
    /\ barStep = "values" /\ position = Len(barText)
    /\ barStep' = "encoded"
    /\ geometry' = Code128Geometry(barText, values)
    /\ UNCHANGED << symbology, barText, values, position, inC >>

Widen(extra) ==
    /\ barStep = "encoded"
    /\ barStep' = "widened"
    /\ geometry' = IF extra = 0 THEN geometry ELSE WithQuietZone(geometry, extra)
    /\ UNCHANGED << symbology, barText, values, position, inC >>

BarcodeSteps ==
    EncodePair \/ LeaveC \/ EnterC \/ EncodeCharacter \/ FinishCode128

----------------------------------------------------------------------------
(* A reader: it has the encoder's code tables (LCode, Parity and PatternTable *)
(* are the published ones, and TablesDecode says they can be read back) and  *)
(* rules of its own for the rest; a digit it cannot read is -1.              *)

\* No two symbols of a table look alike; digits of the left half start light
\* and end dark, with an odd number of dark modules; a Code 128 symbol has
\* eleven modules, an even number of them dark, the stop thirteen.
TablesDecode ==
    LET darkIn(p) == Cardinality({i \in DOMAIN p : p[i] = 1})
        distinct(s) == \A i, k \in DOMAIN s : s[i] = s[k] => i = k
    IN  /\ distinct(LCode) /\ distinct(Parity) /\ distinct(PatternTable)
        /\ \A i \in DOMAIN LCode :
               /\ Len(LCode[i]) = 7 /\ darkIn(LCode[i]) % 2 = 1
               /\ LCode[i][1] = 0 /\ LCode[i][7] = 1
        /\ \A v \in 0 .. 105 : Len(PatternTable[v]) = 11 /\ darkIn(PatternTable[v]) % 2 = 0
        /\ Len(PatternTable[Stop]) = 13

Scanned ==
    LET dark(c) == \E r \in geometry.rects : c \in r.x .. r.x + r.w - 1
        first   == Min({r.x : r \in geometry.rects})
        last    == Max({r.x + r.w - 1 : r \in geometry.rects})
    IN  [k \in 1 .. last - first + 1 |-> IF dark(first + k - 1) THEN 1 ELSE 0]

DigitOfL(p)   == Max({-1} \cup {d \in 0 .. 9 : LCode[d + 1] = p})
Flipped(p)    == [i \in 1 .. 7 |-> 1 - p[i]]
EvenParity(p) == Even(Cardinality({i \in 1 .. 7 : p[i] = 1}))

ReadNumeric(scan) ==
    LET left(i)  == SubSeq(scan, 7 * i - 3, 7 * i + 3)
        right(i) == SubSeq(scan, 7 * i + 44, 7 * i + 50)
        firstOf  == Max({-1} \cup {d \in 0 .. 9 : Parity[d + 1] = {i \in 1 .. 6 : EvenParity(left(i))}})
    IN  <<firstOf>>
        \o [i \in 1 .. 6 |-> IF EvenParity(left(i)) THEN DigitOfL(Flipped(Reverse(left(i))))
                                                     ELSE DigitOfL(left(i))]
        \o [i \in 1 .. 6 |-> DigitOfL(Flipped(right(i)))]

ValueOf(p) == CHOOSE v \in 0 .. 105 : PatternTable[v] = p

\* The characters of symbol values read one by one; on carries the code set.
ReadValues(vs) ==
    FoldLeft(LAMBDA on, v :
                 IF v = CodeC THEN [on EXCEPT !.c = TRUE]
                 ELSE IF v = CodeB /\ on.c THEN [on EXCEPT !.c = FALSE]
                 ELSE IF on.c THEN [on EXCEPT !.text = @ \o << 48 + (v \div 10), 48 + (v % 10) >>]
                 ELSE [on EXCEPT !.text = Append(@, v + 32)],
             [c |-> vs[1] = StartC, text |-> << >>], Tail(vs)).text

\* The check as a scanner keeps it, from the last value back to the first: each
\* joins a running sum, and the sum after each joins the total; the start code
\* counts once.
ScannerCheck(vs) ==
    LET sums == FoldRight(LAMBDA v, on : [run |-> on.run + v, total |-> on.total + on.run + v],
                          Tail(vs), [run |-> 0, total |-> 0])
    IN  (vs[1] + sums.total) % 103

ReadCode128(scan) ==
    LET n  == (Len(scan) - 13) \div 11
        vs == [k \in 1 .. n |-> ValueOf(SubSeq(scan, 11 * k - 10, 11 * k))]
        read == SubSeq(vs, 1, n - 1)
    IN  [text |-> ReadValues(read), checks |-> vs[n] = ScannerCheck(read)]

\* The thirteen digits of a scan, those at the even places counted three times,
\* make a multiple of ten.
DigitsCheck(read) ==
    MapThenSumSet(LAMBDA i : read[i] * (IF Even(i) THEN 3 ELSE 1), DOMAIN read) % 10 = 0

----------------------------------------------------------------------------
Drawn == barStep = "widened" /\ symbology # "qr"

\* A scanner takes the bars: the check symbol or digit it reads is the one it
\* computes from the rest.  What it reads is the text printed under the bars, and
\* that text is the data with its check digit: set choice, parity row, mirrored G
\* set, weights and merged bars agree (ean.rs:126 and 190, code128.rs:78 and 94,
\* lib.rs:222).
BarsRead ==
    Drawn =>
        IF symbology = "code128"
        THEN LET read == ReadCode128(Scanned)
             IN  read.checks /\ read.text = barText /\ geometry.text = barText
        ELSE LET read == ReadNumeric(Scanned)
                 text == IF symbology = "upca" THEN Tail(read) ELSE read
             IN  /\ DigitsCheck(read)
                 /\ geometry.text = TextOf(text)
                 /\ SubSeq(geometry.text, 1, DataDigits(symbology))
                        = SubSeq(barText, 1, DataDigits(symbology))
                 /\ symbology = "upca" => read[1] = 0

\* With its check digit, a number with one digit mistyped is refused, and so is
\* one with two neighbours swapped unless they are five apart, which weights of
\* three and one cannot see (numeric_with_optional_check, ean.rs:153).
MistypedRefused ==
    Drawn /\ symbology # "code128" =>
        LET text    == geometry.text
            refused(t) == NumericError(t, DataDigits(symbology)) = "CheckDigit"
            swap(i) == [text EXCEPT ![i] = text[i + 1], ![i + 1] = text[i]]
        IN  /\ \A i \in DOMAIN text, d \in (48 .. 57) :
                   d # text[i] => refused([text EXCEPT ![i] = d])
            /\ \A i \in 1 .. Len(text) - 1 :
                   (text[i] - text[i + 1]) % 5 # 0 => refused(swap(i))

\* The light margin left around a symbol is the same on every side it has, no
\* less than the symbology asks for, and a widened matrix keeps its rows too: a
\* linear symbol has none above and below (with_quiet_zone, lib.rs:183).
QuietKept ==
    barStep = "widened" =>
        LET rs     == geometry.rects
            left   == Min({r.x : r \in rs})
            right  == geometry.mx - Max({r.x + r.w : r \in rs})
            top    == Min({r.y : r \in rs})
            bottom == geometry.my - Max({r.y + r.h : r \in rs})
        IN  /\ left = right /\ left >= QuietOf[symbology]
            /\ IF Matrix2D(symbology) THEN top = left /\ bottom = left ELSE top = 0 /\ bottom = 0

\* Together: a scan of the symbol is accepted and is the text that was meant, a slip of the pen
\* is noticed, and nothing is drawn into the margin a scanner needs.
BarcodeSound == BarsRead /\ MistypedRefused /\ QuietKept
=============================================================================
