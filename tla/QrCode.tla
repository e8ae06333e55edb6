------------------------------- MODULE QrCode -------------------------------
(* The QR encoder of data-barcode: byte mode, error-correction level M,       *)
(* versions 1 to 10.  The five stages of encode_qr_masked are the actions; a  *)
(* module of the symbol is a pair << column, row >>, and the matrix is the    *)
(* set of its dark modules and the set of its function modules.               *)
EXTENDS Barcode, Bitwise
LOCAL INSTANCE SequencesExt
LOCAL INSTANCE FiniteSetsExt

CONSTANT NoMask   \* the mask is chosen by penalty

VARIABLES
    payload,    \* the bytes of the data
    force,      \* the mask the caller forces, or NoMask
    qrStep,     \* "idle", "codewords", "corrected", "matrix", "filled", "masked", "refused"
    codewords,  \* the data codewords, then the interleaved ones
    matrix      \* [n, dark, function], of type Matrix

qrVars == << payload, force, qrStep, codewords, matrix >>

Bit(value, k) == (value \div 2 ^ k) % 2

\* The low n bits of value, the most significant first.
PushBits(value, n) == [k \in 1 .. n |-> Bit(value, n - k)]

BitsOf(bytes) ==
    [k \in 1 .. 8 * Len(bytes) |-> Bit(bytes[((k - 1) \div 8) + 1], 7 - ((k - 1) % 8))]

BytesOf(bits) ==
    [k \in 1 .. Len(bits) \div 8 |->
        MapThenSumSet(LAMBDA i : bits[8 * k - 7 + i] * 2 ^ (7 - i), 0 .. 7)]

----------------------------------------------------------------------------
(* Versions and data codewords.                                             *)

EcRow(data, ec, n1, d1, n2, d2) == [data |-> data, ec |-> ec, g1 |-> <<n1, d1>>, g2 |-> <<n2, d2>>]

VersionM == << EcRow( 16, 10, 1, 16, 0,  0), EcRow( 28, 16, 1, 28, 0,  0),
               EcRow( 44, 26, 1, 44, 0,  0), EcRow( 64, 18, 2, 32, 0,  0),
               EcRow( 86, 24, 2, 43, 0,  0), EcRow(108, 16, 4, 27, 0,  0),
               EcRow(124, 18, 4, 31, 0,  0), EcRow(154, 22, 2, 38, 2, 39),
               EcRow(182, 22, 3, 36, 2, 37), EcRow(216, 26, 4, 43, 1, 44) >>

CountBits(version) == IF version <= 9 THEN 8 ELSE 16

FittingVersions(len) ==
    {v \in 1 .. 10 : 4 + CountBits(v) + 8 * len <= 8 * VersionM[v].data}

PickVersion(len) == Min(FittingVersions(len))

BuildDataCodewords(data, version) ==
    LET cap    == VersionM[version].data
        raw    == PushBits(4, 4) \o PushBits(Len(data), CountBits(version)) \o BitsOf(data)
        room   == 8 * cap - Len(raw)
        ended  == raw \o PushBits(0, IF room < 4 THEN room ELSE 4)
        cw     == BytesOf(ended \o PushBits(0, (8 - (Len(ended) % 8)) % 8))
    IN  [i \in 1 .. cap |-> IF i <= Len(cw) THEN cw[i]
                            ELSE IF (i - Len(cw)) % 2 = 1 THEN 236 ELSE 17]

----------------------------------------------------------------------------
(* Reed-Solomon over GF(256).                                               *)

Double(x) == IF x >= 128 THEN (2 * x - 256) ^^ 29 ELSE 2 * x

Times(a, b) == FoldLeft(LAMBDA product, k : Double(product) ^^ (a * Bit(b, 8 - k)), 0,
                        [k \in 1 .. 8 |-> k])

\* GfExp[i + 1] is the i-th power of 2: a table of 2^k powers, times the next
\* power, gives the 2^k that follow.  GfLog is its inverse; `powers' is bound
\* so that TLC evaluates the table once.
GfExp == FoldLeft(LAMBDA powers, k : powers \o [i \in DOMAIN powers |->
                      Times(powers[i], Double(powers[Len(powers)]))],
                  <<1>>, [k \in 1 .. 8 |-> k])
GfLog == CHOOSE log \in {[a \in 1 .. 255 |-> (CHOOSE i \in 1 .. 255 : powers[i] = a) - 1] :
                             powers \in {GfExp}} : TRUE
GfMul(a, b) == IF a = 0 \/ b = 0 THEN 0 ELSE GfExp[((GfLog[a] + GfLog[b]) % 255) + 1]

\* The product of the factors (x + alpha^i), i below n.
RsGenerator(n) ==
    FoldLeft(LAMBDA g, i : [j \in 1 .. Len(g) + 1 |->
                 (IF j <= Len(g) THEN g[j] ELSE 0)
                 ^^ (IF j > 1 THEN GfMul(g[j - 1], GfExp[i]) ELSE 0)],
             <<1>>, [i \in 1 .. n |-> i])

\* The remainder of the block shifted by the degree n, divided by the generator.
ReedSolomon(block, generator) ==
    LET n == Len(generator) - 1
        residue == FoldLeft(
            LAMBDA r, i : [k \in DOMAIN r |-> IF k \in i .. i + n /\ r[i] # 0
                                              THEN r[k] ^^ GfMul(generator[k - i + 1], r[i])
                                              ELSE r[k]],
            block \o PushBits(0, n), [i \in DOMAIN block |-> i])
    IN  SubSeq(residue, Len(block) + 1, Len(block) + n)

Blocks(data, ec) ==
    LET count    == ec.g1[1] + ec.g2[1]
        size(k)  == IF k <= ec.g1[1] THEN ec.g1[2] ELSE ec.g2[2]
        start(k) == IF k <= ec.g1[1] THEN (k - 1) * ec.g1[2]
                    ELSE ec.g1[1] * ec.g1[2] + (k - 1 - ec.g1[1]) * ec.g2[2]
    IN  [k \in 1 .. count |-> SubSeq(data, start(k) + 1, start(k) + size(k))]

\* The first codeword of every block, then the second of every block, ...
InterleaveBlocks(blocks) ==
    FlattenSeq([i \in 1 .. Max({Len(blocks[k]) : k \in DOMAIN blocks}) |->
        LET long == SelectSeq(blocks, LAMBDA b : Len(b) >= i)
        IN  [k \in DOMAIN long |-> long[k][i]]])

InterleaveWithEc(data, ec, generator) ==
    LET blocks == Blocks(data, ec)
    IN  InterleaveBlocks(blocks) \o InterleaveBlocks([k \in DOMAIN blocks |-> ReedSolomon(blocks[k], generator)])

----------------------------------------------------------------------------
(* Function patterns.                                                       *)

Paint(m, cells, dark) ==
    [m EXCEPT !.dark = (@ \ cells) \cup (cells \cap dark), !.function = @ \cup cells]

Box(x, y, w, h) == (x .. x + w - 1) \X (y .. y + h - 1)

Finder(m, x, y) ==
    LET ring == Box(x - 1, y - 1, 9, 9) \cap Box(0, 0, m.n, m.n)
    IN  Paint(m, ring, (Box(x, y, 7, 7) \ Box(x + 1, y + 1, 5, 5)) \cup Box(x + 2, y + 2, 3, 3))

Timing(m) ==
    LET line == (8 .. m.n - 9) \X {6}
        col  == {6} \X (8 .. m.n - 9)
    IN  Paint(m, line \cup col, {c \in line : Even(c[1])} \cup {c \in col : Even(c[2])})

AlignmentCentres == << {}, {6, 18}, {6, 22}, {6, 26}, {6, 30}, {6, 34},
                       {6, 22, 38}, {6, 24, 42}, {6, 26, 46}, {6, 28, 50} >>

NearFinder(n, x, y) == (y < 8 /\ (x < 8 \/ x >= n - 8)) \/ (x < 8 /\ y >= n - 8)

Alignments(n, version) ==
    {c \in AlignmentCentres[version] \X AlignmentCentres[version] : ~ NearFinder(n, c[1], c[2])}

Alignment(m, version) ==
    LET at(c, r) == Box(c[1] - r, c[2] - r, 2 * r + 1, 2 * r + 1)
        all(r)   == UNION {at(c, r) : c \in Alignments(m.n, version)}
    IN  Paint(m, all(2), (all(2) \ all(1)) \cup all(0))

\* Seven below: the eighth module is the dark one.
ReservedBelow == 7

ReserveFormat(m) ==
    LET near == {<<i, 8>> : i \in (0 .. 8) \ {6}} \cup {<<8, i>> : i \in (0 .. 8) \ {6}}
        right == {<<m.n - 1 - i, 8>> : i \in 0 .. 7}
        below == {<<8, m.n - 1 - i>> : i \in 0 .. ReservedBelow - 1}
    IN  Paint(m, near \cup right \cup below, {})

\* The remainder of value, shifted by degree, divided by g (bits bits long).
BchRemainder(value, degree, g, bits) ==
    FoldLeft(LAMBDA d, i : IF Bit(d, degree + bits - i) = 1 THEN d ^^ (g * 2 ^ (bits - i)) ELSE d,
             value * 2 ^ degree, [i \in 1 .. bits |-> i])

BchVersion(version) == version * 2 ^ 12 + BchRemainder(version, 12, 7973, 6)
BchFormat(format)   == (format * 2 ^ 10 + BchRemainder(format, 10, 1335, 5)) ^^ 21522

VersionInfo(m, version) ==
    LET cell(i)  == << m.n - 11 + (i % 3), i \div 3 >>
        dark     == {i \in 0 .. 17 : Bit(BchVersion(version), i) = 1}
        both(I)  == {cell(i) : i \in I} \cup {Reverse(cell(i)) : i \in I}
    IN  IF version < 7 THEN m ELSE Paint(m, both(0 .. 17), both(dark))

DarkModule(version) == << 8, 4 * version + 9 >>

PlaceFunctionPatterns(version) ==
    LET n  == 17 + 4 * version
        m0 == [n |-> n, dark |-> {}, function |-> {}]
        m1 == Timing(Finder(Finder(Finder(m0, 0, 0), n - 7, 0), 0, n - 7))
        m2 == Alignment(Paint(m1, {DarkModule(version)}, {DarkModule(version)}), version)
    IN  VersionInfo(ReserveFormat(m2), version)

----------------------------------------------------------------------------
(* Data, masks and format.                                                  *)

\* Mutant of ZigZag: every sweep goes downward.
ZigZagDown(n) ==
    FlattenSeq([k \in 1 .. (n - 1) \div 2 |->
        LET c == IF n + 1 - 2 * k <= 6 THEN n - 2 * k ELSE n + 1 - 2 * k
        IN  [r \in 1 .. 2 * n |-> << c - ((r - 1) % 2), (r - 1) \div 2 >>]])

\* Two-column sweeps from the right, upward and downward in turn, past column 6.
ZigZag(n) ==
    FlattenSeq([k \in 1 .. (n - 1) \div 2 |->
        LET c == IF n + 1 - 2 * k <= 6 THEN n - 2 * k ELSE n + 1 - 2 * k
        IN  [r \in 1 .. 2 * n |->
                << c - ((r - 1) % 2),
                   IF k % 2 = 1 THEN n - 1 - ((r - 1) \div 2) ELSE (r - 1) \div 2 >>]])

PlaceDataBits(m, bits) ==
    LET cells == SelectSeq(ZigZag(m.n), LAMBDA c : c \notin m.function)
    IN  [m EXCEPT !.dark = @ \cup {cells[i] : i \in {k \in DOMAIN cells \cap DOMAIN bits : bits[k] = 1}}]

MaskCondition(mask, x, y) ==
    CASE mask = 0 -> (x + y) % 2 = 0
      [] mask = 1 -> y % 2 = 0
      [] mask = 2 -> x % 3 = 0
      [] mask = 3 -> (x + y) % 3 = 0
      [] mask = 4 -> ((y \div 2) + (x \div 3)) % 2 = 0
      [] mask = 5 -> ((x * y) % 2) + ((x * y) % 3) = 0
      [] mask = 6 -> (((x * y) % 2) + ((x * y) % 3)) % 2 = 0
      [] mask = 7 -> (((x + y) % 2) + ((x * y) % 3)) % 2 = 0

WithMask(m, mask) ==
    LET flipped == {c \in Box(0, 0, m.n, m.n) \ m.function : MaskCondition(mask, c[1], c[2])}
    IN  [m EXCEPT !.dark = (@ \ flipped) \cup (flipped \ @)]

\* A run of r modules of a colour holds r - 4 windows of five, and scores r - 2.
LinePenalty(line) ==
    LET same  == {i \in 1 .. Len(line) - 4 : \A k \in 1 .. 4 : line[i + k] = line[i]}
    IN  Cardinality(same) + 2 * Cardinality({i \in same : i - 1 \notin same})

FinderLike == << <<1,0,1,1,1,0,1,0,0,0,0>>, <<0,0,0,0,1,0,1,1,1,0,1>> >>

CountSubslice(line, pattern) ==
    Cardinality({i \in 1 .. Len(line) - 10 : SubSeq(line, i, i + 10) = pattern})

AbsInt(i) == IF i < 0 THEN - i ELSE i

Penalty(m) ==
    LET colour(x, y) == IF <<x, y>> \in m.dark THEN 1 ELSE 0
        lines == [k \in 1 .. 2 * m.n |->
                     [i \in 1 .. m.n |-> IF k <= m.n THEN colour(i - 1, k - 1)
                                                     ELSE colour(k - 1 - m.n, i - 1)]]
        blocks == {c \in Box(0, 0, m.n - 1, m.n - 1) :
                     Cardinality(Box(c[1], c[2], 2, 2) \cap m.dark) \in {0, 4}}
        step == ((Cardinality(m.dark) * 100) \div (m.n * m.n)) \div 5
    IN  MapThenSumSet(LAMBDA k : LinePenalty(lines[k]) + 40 * CountSubslice(lines[k], FinderLike[1])
                                 + 40 * CountSubslice(lines[k], FinderLike[2]), DOMAIN lines)
        + 3 * Cardinality(blocks)
        + 10 * Min({AbsInt(step - 10), AbsInt(step - 9)})

ChooseMask(m) ==
    LET score == [mask \in 0 .. 7 |-> Penalty(WithMask(m, mask))]
    IN  Min({mask \in 0 .. 7 : \A other \in 0 .. 7 : score[mask] <= score[other]})

FormatPosA(i) ==
    IF i <= 5 THEN <<8, i>> ELSE IF i <= 7 THEN <<8, i + 1>>
    ELSE IF i = 8 THEN <<7, 8>> ELSE <<14 - i, 8>>

FormatPosB(i, n) == IF i < 8 THEN << n - 1 - i, 8 >> ELSE << 8, n - 15 + i >>

WriteFormat(m, mask) ==
    LET cells(I) == {FormatPosA(i) : i \in I} \cup {FormatPosB(i, m.n) : i \in I}
    IN  Paint(m, cells(0 .. 14), cells({i \in 0 .. 14 : Bit(BchFormat(mask), i) = 1}))

ToGeometry(m) ==
    [symbology |-> "qr", mx |-> m.n + 8, my |-> m.n + 8, text |-> << >>,
     rects |-> {[x |-> c[1] + 4, y |-> c[2] + 4, w |-> 1, h |-> 1] : c \in m.dark}]

----------------------------------------------------------------------------
NoMatrix == [n |-> 0, dark |-> {}, function |-> {}]

QrInit ==
    /\ payload = << >> /\ force = NoMask /\ qrStep = "idle"
    /\ codewords = << >> /\ matrix = NoMatrix

Version == (matrix.n - 17) \div 4

BuildCodewords(data, mask) ==
    /\ barStep = "idle" /\ qrStep = "idle"
    /\ payload' = data /\ force' = mask
    /\ IF data = << >> \/ FittingVersions(Len(data)) = {}
       THEN /\ qrStep' = "refused"
            /\ barStep' = IF data = << >> THEN "Empty" ELSE "TooLong"
            /\ UNCHANGED << codewords, matrix >>
       ELSE /\ qrStep' = "codewords" /\ UNCHANGED barStep
            /\ codewords' = BuildDataCodewords(data, PickVersion(Len(data)))
            /\ matrix' = [NoMatrix EXCEPT !.n = 17 + 4 * PickVersion(Len(data))]
    /\ UNCHANGED << symbology, barText, values, position, inC, geometry >>

CorrectErrors ==
    /\ qrStep = "codewords" /\ qrStep' = "corrected"
    /\ \E generator \in {RsGenerator(VersionM[Version].ec)} :
           codewords' = InterleaveWithEc(codewords, VersionM[Version], generator)
    /\ UNCHANGED << payload, force, matrix, barVars >>

PlacePatterns ==
    /\ qrStep = "corrected" /\ qrStep' = "matrix"
    /\ matrix' = PlaceFunctionPatterns(Version)
    /\ UNCHANGED << payload, force, codewords, barVars >>

PlaceData ==
    /\ qrStep = "matrix" /\ qrStep' = "filled"
    /\ matrix' = PlaceDataBits(matrix, BitsOf(codewords))
    /\ UNCHANGED << payload, force, codewords, barVars >>

MaskAndDraw ==
    /\ qrStep = "filled" /\ qrStep' = "masked"
    /\ LET mask == IF force = NoMask THEN ChooseMask(matrix) ELSE force
       IN  matrix' = WriteFormat(WithMask(matrix, mask), mask)
    /\ barStep' = "encoded" /\ symbology' = "qr"
    /\ geometry' = ToGeometry(matrix')
    /\ UNCHANGED << payload, force, codewords, barText, values, position, inC >>

QrSteps == CorrectErrors \/ PlacePatterns \/ PlaceData \/ MaskAndDraw

----------------------------------------------------------------------------
(* A reader of the drawn symbol.                                             *)

\* The modules of a symbol of n modules a side that carry no data.
StandardCells(n) ==
    LET version == (n - 17) \div 4
    IN  Box(0, 0, 9, 9) \cup Box(n - 8, 0, 8, 9) \cup Box(0, n - 8, 9, 8)
        \cup ((0 .. n - 1) \X {6}) \cup ({6} \X (0 .. n - 1))
        \cup UNION {Box(c[1] - 2, c[2] - 2, 5, 5) : c \in Alignments(n, version)}
        \cup (IF version < 7 THEN {} ELSE Box(n - 11, 0, 3, 6) \cup Box(0, n - 11, 6, 3))

\* The k-th module of the reading order, counted over all columns but the sixth.
ReadingCell(n, k) ==
    LET pair == k \div (2 * n)
        row  == (k % (2 * n)) \div 2
        col  == n - 2 - 2 * pair - (k % 2)
    IN  << IF col >= 6 THEN col + 1 ELSE col, IF Even(pair) THEN n - 1 - row ELSE row >>

ReadingOrder(n) == [k \in 1 .. n * (n - 1) |-> ReadingCell(n, k - 1)]

DarkModules == {<<r.x - (geometry.mx - matrix.n) \div 2, r.y - (geometry.my - matrix.n) \div 2>> :
                r \in geometry.rects}

\* The format words of level M for the masks 0 to 7 and the version words of
\* the versions 7 to 10, as the standard prints them.
PublishedFormats  == << 21522, 20773, 24188, 23371, 17913, 16590, 20375, 19104 >>
PublishedVersions == << 31892, 34236, 39577, 42195 >>

WordAt(dark, pos(_), size) ==
    MapThenSumSet(LAMBDA i : IF pos(i) \in dark THEN 2 ^ i ELSE 0, 0 .. size - 1)

ReadMask(dark) ==
    (CHOOSE k \in 1 .. 8 : PublishedFormats[k] = WordAt(dark, FormatPosA, 15)) - 1

ReadCodewords ==
    LET n    == matrix.n
        dark == DarkModules
        mask == ReadMask(dark)
        data == SelectSeq(ReadingOrder(n), LAMBDA c : c \notin StandardCells(n))
        bits == [i \in 1 .. Len(codewords) * 8 |->
                    IF (data[i] \in dark) # MaskCondition(mask, data[i][1], data[i][2]) THEN 1 ELSE 0]
    IN  BytesOf(bits)

\* The k-th block among count blocks, whose first short ones are one shorter.
ReadBlock(words, ec, k) ==
    LET count == ec.g1[1] + ec.g2[1]
        short == ec.g1[2]
        size  == IF k <= ec.g1[1] THEN short ELSE short + 1
        pos(i) == IF i <= short THEN (i - 1) * count + k ELSE short * count + k - ec.g1[1]
    IN  [i \in 1 .. size + ec.ec |-> IF i <= size THEN words[pos(i)]
                                     ELSE words[ec.data + (i - size - 1) * count + k]]

\* The value of a block's polynomial at the j-th power of the generator.
Syndrome(block, j) ==
    FoldLeft(LAMBDA sum, c : GfMul(sum, GfExp[j + 1]) ^^ c, 0, block)

ReadPayload(words, ec, version) ==
    LET blocks == [k \in 1 .. ec.g1[1] + ec.g2[1] |-> ReadBlock(words, ec, k)]
        data   == FlattenSeq([k \in DOMAIN blocks |->
                      SubSeq(blocks[k], 1, Len(blocks[k]) - ec.ec)])
        bits   == BitsOf(data)
        head   == 4 + CountBits(version)
        number(s) == FoldLeft(LAMBDA v, b : 2 * v + b, 0, s)
        len    == number(SubSeq(bits, 5, head))
    IN  [mode |-> number(SubSeq(bits, 1, 4)), bytes |-> IF head + 8 * len <= Len(bits) THEN BytesOf(SubSeq(bits, head + 1, head + 8 * len)) ELSE << >>,
         clean |-> \A k \in DOMAIN blocks, j \in 0 .. ec.ec - 1 : Syndrome(blocks[k], j) = 0]

----------------------------------------------------------------------------
DrawnQr == qrStep = "masked" /\ barStep = "widened"

\* Unmasking the drawn symbol, reading its modules in the standard's order,
\* taking the blocks apart and checking every syndrome gives the payload back,
\* for every version and every mask (encode_qr_masked, qr.rs:131).
SymbolReads ==
    DrawnQr =>
        LET read == ReadPayload(ReadCodewords, VersionM[Version], Version)
        IN  read.mode = 4 /\ read.bytes = payload /\ read.clean

\* The marks a reader finds the symbol by survive data, mask and format: the
\* dark module, two copies of one published format word, the published version
\* word, and the finders, timing lines and alignment patterns as first placed
\* (apply_mask_and_format, qr.rs:610; reserve_format, qr.rs:514).
MarksSurvive ==
    DrawnQr =>
        LET n       == matrix.n
            dark    == DarkModules
            first   == PlaceFunctionPatterns(Version)
            copyB(i) == IF i < 8 THEN << n - 1 - i, 8 >> ELSE << 8, n - 15 + i >>
            block(i) == << i \div 3, n - 11 + (i % 3) >>
            formats == {c \in StandardCells(n) : c[1] = 8 \/ c[2] = 8}
        IN  /\ << 8, n - 8 >> \in dark
            /\ WordAt(dark, FormatPosA, 15) \in {PublishedFormats[k] : k \in 1 .. 8}
            /\ WordAt(dark, FormatPosA, 15) = WordAt(dark, copyB, 15)
            /\ Version >= 7 => WordAt(dark, block, 18) = PublishedVersions[Version - 6]
            /\ first.function = StandardCells(n)
            /\ (dark \cap StandardCells(n)) \ formats = first.dark \ formats

\* Together: a reader finds the symbol, knows its mask and version, and reads
\* the payload without an error to correct.
SymbolSound == SymbolReads /\ MarksSurvive

\* "URLs up to ~270 bytes" (qr.rs:27): none of fewer than 260 is refused for its
\* length.
PromisedFits == qrStep = "refused" /\ payload # << >> => Len(payload) >= 260
=============================================================================
