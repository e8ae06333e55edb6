------------------------------ MODULE MergePlan ------------------------------
(***************************************************************************)
(* Data Merge (data-lower/src/merge.rs): the plan that puts every record's *)
(* copy of the template frames on a page, and the overset test the host    *)
(* makes from it.  The host plans, measures the words the plan lists, and  *)
(* asks which merged texts do not fit.                                     *)
(*                                                                         *)
(* Lengths are whole points.  A template text is lines of tokens: the      *)
(* markers << and >>, field names, and literal words; a word is its        *)
(* advance width (0: white space), tokens are separated by spaces, and a   *)
(* cell merges as one word or, as 0, as nothing.                           *)
(***************************************************************************)
EXTENDS Integers, Sequences, FiniteSets

Seqs == INSTANCE SequencesExt

CONSTANTS
    Open, Close,        \* the tokens << and >>
    Base,               \* field names up to case and their leading @s
    NoColumn, NoStory

\* A field name: its leading @s, its letters, whether they are capitals.
FieldName == [ats : Nat, base : Base, caps : BOOLEAN]
Word(w) == [word |-> w]
Token == {Open, Close} \cup FieldName \cup [word : Nat]

\* <<top, left, bottom, right>>
Bounds == Int \X Int \X Int \X Int

\* A frame holds a text or an image.
MergeTemplateFrame ==
    [kind : {"text", "image"}, bounds : Bounds, text : Seq(Seq(Token)), field : FieldName]

\* With RecordsPerPage and MergeArrange in it; spacing is <<rows, columns>>.
MergeSpec ==
    [mode : {"single", "multiple"}, frames : Seq(MergeTemplateFrame), spacing : Int \X Int,
     marginBox : Bounds, arrange : {"rows", "columns"}, removeBlank : BOOLEAN]

\* RecordSet: the columns and the width of each cell, of each row.
MergeTable ==
    {t \in [columns : Seq(FieldName), rows : Seq(Seq(Nat))] :
        \A k \in DOMAIN t.rows : Len(t.rows[k]) = Len(t.columns)}

ASSUME MergeAssumption == NoStory \notin MergeSpec /\ Open # Close

VARIABLES
    spec, table,    \* the arguments of plan_merge: table is [columns, rows]
    merged,         \* MergePlan.records: the records merged so far
    words,          \* merge_words, once the host asked
    overset,        \* merge_overset, once the host measured the words
    stage           \* "idle", "merging", "planned", "measured", "checked"

mergeVars == <<spec, table, merged, words, overset, stage>>

-----------------------------------------------------------------------------
(* Placeholders and merged texts. *)

\* Mutant of Placeholders: the first << stands for the placeholder's.
PlaceholdersOuter(line) ==
    LET scan[at \in 1..(Len(line) + 1)] ==
            LET starts == {i \in at..Len(line) : line[i] = Open}
                start  == Seqs!Min(starts)
                closes == {i \in (start + 1)..Len(line) : line[i] = Close}
                close  == Seqs!Min(closes)
            IN  IF starts = {} \/ closes = {} THEN <<>>
                ELSE <<[start |-> start, end |-> close]>> \o scan[close + 1]
    IN  scan[1]

\* placeholders: the spans of every <<name>>; a << inside a name means the
\* first was literal text.
Placeholders(line) ==
    LET scan[at \in 1..(Len(line) + 1)] ==
            LET starts == {i \in at..Len(line) : line[i] = Open}
                start  == Seqs!Min(starts)
                closes == {i \in (start + 1)..Len(line) : line[i] = Close}
                close  == Seqs!Min(closes)
                inner  == {i \in (start + 1)..(close - 1) : line[i] = Open}
            IN  IF starts = {} \/ closes = {} THEN <<>>
                ELSE IF inner # {} THEN scan[Seqs!Max(inner)]
                ELSE <<[start |-> start, end |-> close]>> \o scan[close + 1]
    IN  scan[1]

NameAt(line, span) == SubSeq(line, span.start + 1, span.end - 1)

\* The names in a text, in order of use.
PlaceholderFields(text) ==
    Seqs!FlattenSeq([l \in DOMAIN text |->
        [p \in DOMAIN Placeholders(text[l]) |-> NameAt(text[l], Placeholders(text[l])[p])]])

\* The literal tokens of a line: those outside its placeholders.
Literals(line) ==
    {i \in DOMAIN line : \A p \in DOMAIN Placeholders(line) :
        i \notin Placeholders(line)[p].start..Placeholders(line)[p].end}

\* A line whose only content is fields that are all empty.
OnlyEmptyFields(line, value) ==
    /\ Placeholders(line) # <<>>
    /\ \A i \in Literals(line) : line[i] = Word(0)
    /\ \A p \in DOMAIN Placeholders(line) : value[NameAt(line, Placeholders(line)[p])] = 0

\* The advance of a token of literal text: a stray marker or name is 1 wide.
LiteralWidth(token) == IF "word" \in DOMAIN token THEN token.word ELSE 1

Printed(line, value, i) ==
    LET ending == {p \in DOMAIN Placeholders(line) : Placeholders(line)[p].end = i}
    IN  IF i \in Literals(line)
        THEN IF line[i] \in {Open, Close} THEN 1 ELSE LiteralWidth(line[i])
        ELSE IF ending = {} THEN 0
        ELSE value[NameAt(line, Placeholders(line)[CHOOSE p \in ending : TRUE])]

\* One line of a merged text, as its words: what prints as nothing is none.
MergeLine(line, value) ==
    LET printed(w) == IF w = 0 THEN <<>> ELSE <<w>>
    IN  Seqs!FlattenSeq([i \in DOMAIN line |-> printed(Printed(line, value, i))])

\* merge_text; value gives what each name holds in the record.
MergeText(text, value, removeBlank) ==
    Seqs!FlattenSeq([l \in DOMAIN text |->
        IF removeBlank /\ OnlyEmptyFields(text[l], value) THEN <<>>
        ELSE <<MergeLine(text[l], value)>>])

\* text.is_empty()
EmptyText(text) == text \in {<<>>, <<<<>>>>}

-----------------------------------------------------------------------------
(* Columns and the grid. *)

\* column_of: the exact name, the name without its @s, with one, else any
\* column of those letters whatever the case.
ColumnOf(columns, name) ==
    LET bare  == [name EXCEPT !.ats = 0]
        tries == <<{name}, {bare}, {[bare EXCEPT !.ats = 1]},
                   {c \in Seqs!Range(columns) : c.base = name.base}>>
        called(names) == {i \in DOMAIN columns : columns[i] \in names}
        hits  == {n \in DOMAIN tries : called(tries[n]) # {}}
    IN  IF hits = {} THEN NoColumn ELSE Seqs!Min(called(tries[Seqs!Min(hits)]))

\* The column a placeholder reads: its name may be no field name at all.
Reads(t, name) ==
    IF Len(name) = 1 /\ name[1] \notin {Open, Close} /\ "base" \in DOMAIN name[1]
    THEN ColumnOf(t.columns, name[1]) ELSE NoColumn

\* cell_text of record k under a placeholder: 0 for no column, null or "".
Cell(t, k, name) == IF Reads(t, name) = NoColumn THEN 0 ELSE t.rows[k][Reads(t, name)]

Lowest(S)  == CHOOSE x \in S : \A y \in S : x <= y
Highest(S) == CHOOSE x \in S : \A y \in S : x >= y

\* cell_of: the union of the template's frames.
CellOf(frames) ==
    LET edge(e) == {frames[i].bounds[e] : i \in DOMAIN frames}
    IN  <<Lowest(edge(1)), Lowest(edge(2)), Highest(edge(3)), Highest(edge(4))>>

Multiple(s) == s.mode = "multiple"
Height(b) == b[3] - b[1]
Width(b) == b[4] - b[2]

\* How many cells of a size fit along a side of the margin box; at least one.
Slots(room, size, spacing) ==
    LET fit == (room + spacing) \div (size + spacing) IN IF fit < 1 THEN 1 ELSE fit

\* merge_grid, for a record cell that is not empty (see DegenerateCell)
DegenerateCell(s) ==
    /\ Multiple(s) /\ s.frames # <<>>
    /\ \/ Height(CellOf(s.frames)) + s.spacing[1] <= 0
       \/ Width(CellOf(s.frames)) + s.spacing[2] <= 0

MergeGrid(s) ==
    IF ~Multiple(s) \/ s.frames = <<>> THEN [rows |-> 1, columns |-> 1]
    ELSE [rows |-> Slots(Height(s.marginBox), Height(CellOf(s.frames)), s.spacing[1]),
          columns |-> Slots(Width(s.marginBox), Width(CellOf(s.frames)), s.spacing[2])]

PerPage(s) == MergeGrid(s).rows * MergeGrid(s).columns

\* Mutant of SlotOf: the rows of a page are filled with its row count.
SlotOfRows(s, slot) ==
    IF s.arrange = "rows" THEN <<slot \div MergeGrid(s).rows, slot % MergeGrid(s).rows>>
    ELSE <<slot % MergeGrid(s).rows, slot \div MergeGrid(s).rows>>

\* The row and column of a slot of a page; Single Record has one slot.
SlotOf(s, slot) ==
    IF s.arrange = "rows" THEN <<slot \div MergeGrid(s).columns, slot % MergeGrid(s).columns>>
    ELSE <<slot % MergeGrid(s).rows, slot \div MergeGrid(s).rows>>

\* How far a slot is from the template frames.
Offset(s, at) ==
    LET cell == CellOf(s.frames)
    IN  IF ~Multiple(s) THEN <<0, 0>>
        ELSE <<s.marginBox[1] + at[1] * (Height(cell) + s.spacing[1]) - cell[1],
               s.marginBox[2] + at[2] * (Width(cell) + s.spacing[2]) - cell[2]>>

Moved(b, by) == <<b[1] + by[1], b[2] + by[2], b[3] + by[1], b[4] + by[2]>>

\* One frame of record k.
MergedFrame(s, t, k, i, by) ==
    [template |-> i, bounds |-> Moved(s.frames[i].bounds, by),
     text |-> IF s.frames[i].kind = "text"
              THEN LET text == s.frames[i].text
                   IN  MergeText(text, [n \in Seqs!ToSet(PlaceholderFields(text)) |-> Cell(t, k, n)],
                                 s.removeBlank)
              ELSE NoStory,
     image |-> IF s.frames[i].kind = "image" THEN Cell(t, k, <<s.frames[i].field>>) ELSE 0]

\* Record k (from 1) of the plan.
MergedRecord(s, t, k) ==
    LET at == SlotOf(s, (k - 1) % PerPage(s))
    IN  [record |-> k, page |-> (k - 1) \div PerPage(s), row |-> at[1], column |-> at[2],
         frames |-> [i \in DOMAIN s.frames |-> MergedFrame(s, t, k, i, Offset(s, at))]]

\* MergePlan.fields and missing_fields
Fields(s) ==
    UNION {IF s.frames[i].kind = "text" THEN Seqs!Range(PlaceholderFields(s.frames[i].text))
           ELSE {<<s.frames[i].field>>} : i \in DOMAIN s.frames}
MissingFields(s, t) == {n \in Fields(s) : Reads(t, n) = NoColumn}

-----------------------------------------------------------------------------
(* Overset. *)

\* merge_words: the words of the texts of each template frame.
MergeWords(records, frames) ==
    [i \in 1..frames |->
        UNION {UNION {Seqs!Range(r.frames[i].text[l]) : l \in DOMAIN r.frames[i].text} :
                  r \in {x \in Seqs!Range(records) : x.frames[i].text # NoStory}}]

Span(width, advance) ==
    IF width <= 0 THEN 1 ELSE Seqs!Max({1, (advance + width - 1) \div width})

\* Mutant of CountLine: a word wider than the column takes one line.
CountLineUnbroken(line, width, space, measured) ==
    LET adv(w) == IF w \in measured THEN w ELSE 0
        put(acc, a) ==
            IF acc.lines > 0 /\ acc.used + space + a <= width
            THEN [acc EXCEPT !.used = @ + space + a]
            ELSE [lines |-> acc.lines + 1, used |-> a]
        wrapped[n \in 0..Len(line)] ==
            IF n = 0 THEN [lines |-> 0, used |-> 0] ELSE put(wrapped[n - 1], adv(line[n]))
    IN  Seqs!Max({1, wrapped[Len(line)].lines})

\* count_lines, for one line of the text: greedy wrap; an unmeasured word is
\* 0 wide, a word wider than the column takes the lines its width needs.
CountLine(line, width, space, measured) ==
    LET adv(w) == IF w \in measured THEN w ELSE 0
        put(acc, a) ==
            IF acc.lines > 0 /\ acc.used + space + a <= width
            THEN [acc EXCEPT !.used = @ + space + a]
            ELSE [lines |-> acc.lines + Span(width, a),
                  used |-> IF a > width /\ width > 0 THEN a % width ELSE a]
        wrapped[n \in 0..Len(line)] ==
            IF n = 0 THEN [lines |-> 0, used |-> 0] ELSE put(wrapped[n - 1], adv(line[n]))
    IN  Seqs!Max({1, wrapped[Len(line)].lines})

Total(counts) == Seqs!FoldLeft(+, 0, counts)

CountLines(text, width, space, measured) ==
    Total([l \in DOMAIN text |-> CountLine(text[l], width, space, measured)])

\* merge_overset, of one frame of a record (half a point of grace is none in
\* whole points).
Overset(f, leading, space, measured) ==
    /\ f.text # NoStory
    /\ ~EmptyText(f.text)
    /\ CountLines(f.text, Width(f.bounds), space, measured) * leading > Height(f.bounds)

-----------------------------------------------------------------------------
(* The calls. *)

MergeInit ==
    /\ spec = NoStory /\ table = NoStory
    /\ merged = <<>> /\ words = <<>> /\ overset = <<>>
    /\ stage = "idle"

PlanMerge(s, t) ==
    /\ stage = "idle"
    /\ ~DegenerateCell(s)
    /\ spec' = s /\ table' = t
    /\ stage' = "merging"
    /\ UNCHANGED <<merged, words, overset>>

MergeRecord ==
    /\ stage = "merging"
    /\ Len(merged) < Len(table.rows)
    /\ merged' = Append(merged, MergedRecord(spec, table, Len(merged) + 1))
    /\ UNCHANGED <<spec, table, words, overset, stage>>

PlanDone ==
    /\ stage = "merging"
    /\ Len(merged) = Len(table.rows)
    /\ stage' = "planned"
    /\ UNCHANGED <<spec, table, merged, words, overset>>

ListWords ==
    /\ stage = "planned"
    /\ words' = MergeWords(merged, Len(spec.frames))
    /\ stage' = "measured"
    /\ UNCHANGED <<spec, table, merged, overset>>

\* The host measured the words of each frame: the space and the leading.
CheckOverset(space, leading) ==
    /\ stage = "measured"
    /\ overset' = [k \in DOMAIN merged |-> [i \in DOMAIN spec.frames |->
                      [space |-> space, leading |-> leading,
                       over |-> Overset(merged[k].frames[i], leading, space, words[i])]]]
    /\ stage' = "checked"
    /\ UNCHANGED <<spec, table, merged, words>>

MergeSteps == MergeRecord \/ PlanDone \/ ListWords

MergeNext ==
    \/ \E s \in MergeSpec, t \in MergeTable : PlanMerge(s, t)
    \/ MergeSteps
    \/ \E space, leading \in Nat : CheckOverset(space, leading)

Merging == MergeInit /\ [][MergeNext]_mergeVars

-----------------------------------------------------------------------------
(* What a merge promises. *)

\* << and >> pair as the nearest ones with no marker between them, whatever
\* stray markers a text holds: no placeholder is lost or invented.
PlaceholdersPaired ==
    stage # "idle" => \A i \in DOMAIN spec.frames :
        spec.frames[i].kind = "text" =>
            \A l \in DOMAIN spec.frames[i].text :
                LET line == spec.frames[i].text[l]
                IN  {<<p.start, p.end>> : p \in Seqs!Range(Placeholders(line))} =
                    {x \in (DOMAIN line) \X (DOMAIN line) :
                        /\ x[1] < x[2] /\ line[x[1]] = Open /\ line[x[2]] = Close
                        /\ \A c \in (x[1] + 1)..(x[2] - 1) : line[c] \notin {Open, Close}}

CellAt(r) == Moved(CellOf(spec.frames), Offset(spec, <<r.row, r.column>>))
Apart(a, b) == a[3] <= b[1] \/ b[3] <= a[1] \/ a[4] <= b[2] \/ b[4] <= a[2]
Inside(a, b) == b[1] <= a[1] /\ b[2] <= a[2] /\ a[3] <= b[3] /\ a[4] <= b[4]

\* A cell of some size, set apart by nothing or more.
Spaced(size, spacing) == size > 0 /\ spacing >= 0

\* Whether a page's box has room for n cells of a size along a side.
RoomFor(n, box, size, spacing) == n * size + (n - 1) * spacing <= box

\* "As many records per page as the margin box holds": records on one page do
\* not overlap, unless a spacing below zero asks for it; of a page of Multiple
\* Records none leaves the margin box along a side that has room for one; and a
\* page is left only when neither another row nor another column of records
\* would fit on it, or it is Single Record.
RecordsApart ==
    spec # NoStory /\ spec.frames # <<>> => \A k \in DOMAIN merged :
        LET r == merged[k]
            h == Height(CellOf(spec.frames))
            w == Width(CellOf(spec.frames))
            before == {m \in 1..(k - 1) : merged[m].page = r.page - 1}
        IN  /\ \A m \in 1..(k - 1) :
                 merged[m].page = r.page /\ Spaced(h, spec.spacing[1]) /\ Spaced(w, spec.spacing[2])
                    => Apart(CellAt(merged[m]), CellAt(r))
            /\ Multiple(spec) /\ h <= Height(spec.marginBox)
                 => CellAt(r)[1] >= spec.marginBox[1] /\ CellAt(r)[3] <= spec.marginBox[3]
            /\ Multiple(spec) /\ w <= Width(spec.marginBox)
                 => CellAt(r)[2] >= spec.marginBox[2] /\ CellAt(r)[4] <= spec.marginBox[4]
            /\ Multiple(spec) /\ r.page > 0 =>
                 \E rows, columns \in 1..Cardinality(before) :
                    /\ rows * columns = Cardinality(before)
                    /\ ~RoomFor(rows + 1, Height(spec.marginBox), h, spec.spacing[1])
                    /\ ~RoomFor(columns + 1, Width(spec.marginBox), w, spec.spacing[2])

\* Set greedily character by character: where the text stands after each word,
\* as [line, used]; a word that does not fit starts a line and fills as many
\* as it needs.
LinesSet(line, width, space) ==
    LET at[n \in 0..Len(line)] ==
            IF n = 0 THEN [line |-> 1, used |-> 0]
            ELSE LET b == at[n - 1]
                     w == line[n]
                     first == IF n = 1 THEN 0 ELSE b.line
                 IN  IF n > 1 /\ b.used + space + w <= width
                     THEN [line |-> b.line, used |-> b.used + space + w]
                     ELSE [line |-> first + (w + width - 1) \div width,
                           used |-> ((w - 1) % width) + 1]
    IN  at[Len(line)].line

\* "a word wider than the column takes the lines its width needs", "compares
\* its lines x leading with the frame": the overset the merge reports is that
\* of the text set in the frame, from the words it had measured.
OversetTrue ==
    stage = "checked" =>
        \A k \in DOMAIN merged : \A i \in DOMAIN spec.frames :
            LET f == merged[k].frames[i]
                o == overset[k][i]
                w == Width(f.bounds)
            IN  f.text # NoStory /\ ~EmptyText(f.text) /\ w > 0
                /\ (\A l \in DOMAIN f.text : \A m \in DOMAIN f.text[l] :
                        f.text[l][m] > w => f.text[l][m] % w # 0)
                => (o.over <=> Total([l \in DOMAIN f.text |-> LinesSet(f.text[l], w, o.space)])
                               * o.leading > Height(f.bounds))
=============================================================================
