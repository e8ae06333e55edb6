------------------------------ MODULE RowReview ------------------------------
(***************************************************************************)
(* The row diff (data-js/src/review.rs over data-bind/src/diff.rs): what   *)
(* changed between the rows the document was written from and the rows a   *)
(* refresh delivered, and which bindings read it.                          *)
(*                                                                         *)
(* `applied' is what mark_rows_applied took; `document' is what the host   *)
(* really wrote, binding by binding (data-bundle/src/session.ts lowerAll   *)
(* and refreshFields, which both end with mark_rows_applied).  No binding  *)
(* is pinned or overridden here.  A binding of kind "record" is a text     *)
(* field; the listing limit and the shown values are left out.             *)
(*                                                                         *)
(* The review is told neither of a flow's sum_field nor of the kinds of    *)
(* binding a field refresh writes: AffectedComplete leaves the first out,  *)
(* EveryReaderListed and StaleIsListed state what the comments promise.    *)
(***************************************************************************)
EXTENDS ChangeReport

CONSTANTS
    DiffKeys        \* the keys a user may declare for a query's rows

ASSUME ReviewAssumption == DiffKeys \subseteq Seq(Column)

VARIABLES
    diffKey,        \* RowDiffOptions.keys: the declared key, or NoEntry
    applied,        \* applied_rows per query
    document        \* the content of each binding in the document

reviewVars == <<diffKey, applied, document>>
rowVars == <<vars, reviewVars>>

-----------------------------------------------------------------------------
(* The diff of two results by a key. *)

EmptyResult == [schema |-> <<>>, rows |-> <<>>]

\* key_cols: the columns of a key that are among cs, in the order of the key.
KeyColumns(key, cs) ==
    LET present == {k \in DOMAIN key : key[k] \in cs}
    IN  [n \in 1..Cardinality(present) |->
            key[CHOOSE k \in present : Cardinality({m \in present : m < k}) = n - 1]]

CellsOf(res, i, cols) == [k \in DOMAIN cols |-> res.rows[i][cols[k]]]

\* row_key: the key columns a result has; every column for an empty key.
RowKey(res, i, key) ==
    CellsOf(res, i, IF key = <<>> THEN res.schema ELSE KeyColumns(key, ColumnsOf(res.schema)))

\* row_content: the cells, left to right.
RowContent(res, i) == CellsOf(res, i, res.schema)

\* old_map: of the old rows with one key, the last.
OldMap(old, key) ==
    {j \in Rows(old) : \A k \in Rows(old) : RowKey(old, k, key) = RowKey(old, j, key) => k <= j}

\* The row of old with the key of row i of new.
Matches(old, new, i, key) == {j \in OldMap(old, key) : RowKey(old, j, key) = RowKey(new, i, key)}
Matched(old, new, i, key) == CHOOSE j \in Matches(old, new, i, key) : TRUE

Inserted(old, new, key) == {i \in Rows(new) : Matches(old, new, i, key) = {}}
Removed(old, new, key) ==
    {j \in OldMap(old, key) : \A i \in Rows(new) : RowKey(new, i, key) # RowKey(old, j, key)}

\* Mutant of Updated: a row is compared with the row at its own place.
UpdatedInPlace(old, new, key) ==
    {i \in Rows(new) \ Inserted(old, new, key) :
        i \in Rows(old) /\ RowContent(old, i) # RowContent(new, i)}

Updated(old, new, key) ==
    {i \in Rows(new) \ Inserted(old, new, key) :
        RowContent(old, Matched(old, new, i, key)) # RowContent(new, i)}

\* default_key: the first column of the new result that is present and unique
\* in both (an old result without rows need not have it).
UniqueIn(res, c) ==
    IF c \notin ColumnsOf(res.schema) THEN res.rows = <<>>
    ELSE \A i, j \in Rows(res) : res.rows[i][c] = res.rows[j][c] => i = j

DefaultKey(old, new) ==
    LET unique == {k \in DOMAIN new.schema : /\ UniqueIn(new, new.schema[k])
                                             /\ UniqueIn(old, new.schema[k])}
    IN  IF unique = {} THEN <<>>
        ELSE <<new.schema[CHOOSE k \in unique : \A m \in unique : k <= m]>>

OldRows(q) == IF applied[q] = NoResult THEN EmptyResult ELSE applied[q]
DiffKeyOf(q) == IF diffKey[q] # NoEntry THEN diffKey[q] ELSE DefaultKey(OldRows(q), results[q])

\* key_index: the review reads every column of a key, present or not.
IndexKey(res, i, key) == CellsOf(res, i, IF key = <<>> THEN res.schema ELSE key)

\* old_by_key: the last row of old with that key of row i of new, if any.
IndexMatches(old, new, i, key) ==
    {j \in Rows(old) :
        /\ IndexKey(old, j, key) = IndexKey(new, i, key)
        /\ \A k \in Rows(old) : IndexKey(old, k, key) = IndexKey(new, i, key) => k <= j}

\* changed_columns: the columns of the new result in which an updated row
\* differs from its old row.
ChangedColumns(q) ==
    LET old == OldRows(q)
        new == results[q]
        key == DiffKeyOf(q)
    IN  {c \in ColumnsOf(new.schema) :
            \E i \in Updated(old, new, key) : \E j \in IndexMatches(old, new, i, key) :
                new.rows[i][c] # old.rows[j][c]}

RowsMoved(q) ==
    \/ Inserted(OldRows(q), results[q], DiffKeyOf(q)) # {}
    \/ Removed(OldRows(q), results[q], DiffKeyOf(q)) # {}

\* Mutant of BindingReads: a flow's grouping columns are not read.
BindingReadsOfTemplate(b) ==
    IF bindings[b].kind = "flow"
    THEN IF templates[bindings[b].template] = NoTemplate THEN {} ELSE templates[bindings[b].template]
    ELSE bindings[b].reads

\* binding_reads: the fields of the expressions; of a flow, its template's and
\* its grouping columns, and not the sum_field of its footer.
BindingReads(b) ==
    IF bindings[b].kind = "flow"
    THEN ColumnsOf(bindings[b].keys)
         \cup (IF templates[bindings[b].template] = NoTemplate THEN {}
               ELSE templates[bindings[b].template])
    ELSE bindings[b].reads

\* affected_bindings, for a query with a result.
Affected(b) ==
    LET q == bindings[b].query
    IN  /\ Defined(b) /\ results[q] # NoResult
        /\ \/ BindingReads(b) \cap ChangedColumns(q) # {}
           \/ RowsMoved(q)
           \/ BindingReads(b) = {} /\ ChangedColumns(q) # {}

\* row_diffs, of one query; the rows of its result are numbered from 1.
QueryRowDiff(q) ==
    [baseline |-> applied[q] = NoResult,
     inserted |-> Inserted(OldRows(q), results[q], DiffKeyOf(q)),
     removed |-> Removed(OldRows(q), results[q], DiffKeyOf(q)),
     updated |-> Updated(OldRows(q), results[q], DiffKeyOf(q)),
     unchanged |-> Cardinality(Rows(results[q])
                     \ (Inserted(OldRows(q), results[q], DiffKeyOf(q))
                        \cup Updated(OldRows(q), results[q], DiffKeyOf(q)))),
     changedColumns |-> ChangedColumns(q),
     affected |-> {b \in BindingId : Defined(b) /\ bindings[b].query = q /\ Affected(b)}]

-----------------------------------------------------------------------------
(* The calls. *)

RowInit ==
    /\ Init
    /\ diffKey = [q \in QueryId |-> NoEntry]
    /\ applied = [q \in QueryId |-> NoResult]
    /\ document = [b \in BindingId |-> NoContent]

\* mark_rows_applied takes the rows of every query that has a result.
MarkedApplied == [q \in QueryId |-> IF results[q] = NoResult THEN applied[q] ELSE results[q]]

\* What the host writes of the bindings of some kinds: those that resolve.
Written(kinds) ==
    [b \in BindingId |-> IF Defined(b) /\ bindings[b].kind \in kinds /\ Resolvable(b)
                         THEN Content(b) ELSE document[b]]

\* lowerAll writes every binding, then marks the rows applied.
LowerAll ==
    /\ document' = Written({"record", "table", "flow"})
    /\ applied' = MarkedApplied
    /\ UNCHANGED <<vars, diffKey>>

\* refreshFields writes the text fields, then marks the rows applied.
RefreshFields ==
    /\ document' = Written({"record"})
    /\ applied' = MarkedApplied
    /\ UNCHANGED <<vars, diffKey>>

\* setDiffKey: an empty list takes the declared key back.
SetDiffKey(q, key) ==
    /\ diffKey' = [diffKey EXCEPT ![q] = IF key = <<>> THEN NoEntry ELSE key]
    /\ UNCHANGED <<vars, applied, document>>

\* Removing a binding, or defining it anew, leaves what was written; the
\* document of the model forgets it.
Redefine(b) ==
    /\ \/ \E d \in Definition : AddBinding(b, d)
       \/ RemoveBinding(b)
    /\ document' = [document EXCEPT ![b] = NoContent]
    /\ UNCHANGED <<diffKey, applied>>

Deliver(q, res) == SetResult(q, res) /\ UNCHANGED reviewVars
DefineTemplate(t, fields) == AddTemplate(t, fields) /\ UNCHANGED reviewVars
DefineQuery(q, o) == AddQuery(q, o) /\ UNCHANGED reviewVars

LoweringSteps ==
    \/ \E q \in QueryId, res \in Deliverable : Deliver(q, res)
    \/ \E b \in BindingId : Redefine(b)
    \/ \E t \in TemplateRef, fields \in Fields : DefineTemplate(t, fields)
    \/ \E q \in QueryId, o \in BOOLEAN : DefineQuery(q, o)
    \/ \E q \in QueryId, key \in DiffKeys : SetDiffKey(q, key)
    \/ LowerAll

RowNext == LoweringSteps \/ RefreshFields

RowSpec == RowInit /\ [][RowNext]_rowVars

-----------------------------------------------------------------------------
(* What the review promises. *)

\* The two results can be told apart row by row: the same columns, and a key
\* that names each row once.
Comparable(old, new, key) ==
    /\ ColumnsOf(old.schema) = ColumnsOf(new.schema) /\ key # <<>>
    /\ \A res \in {old, new} : \A i, j \in Rows(res) : RowKey(res, i, key) = RowKey(res, j, key) => i = j

\* Counts account for every row: of comparable results a row of the old one is
\* removed or has exactly one row in the new one, which is unchanged precisely
\* when nothing in it changed; nothing is both.
RowsAccounted ==
    \A q \in QueryId :
        results[q] # NoResult /\ Comparable(OldRows(q), results[q], DiffKeyOf(q)) =>
            LET d == QueryRowDiff(q)
                old == OldRows(q)
                new == results[q]
            IN  /\ Len(old.rows) - Cardinality(d.removed) = Len(new.rows) - Cardinality(d.inserted)
                /\ old.schema = new.schema =>
                     d.unchanged = Cardinality({RowContent(new, i) : i \in Rows(new)}
                                               \cap {RowContent(old, j) : j \in Rows(old)})
                /\ d.inserted = {} /\ d.removed = {} /\ d.updated = {} /\ old.schema = new.schema
                     => {old.rows[i] : i \in Rows(old)} = {new.rows[i] : i \in Rows(new)}

\* The cells b shows of a result, each row's with the footer of its group.
ShownCells(b, res) ==
    Counted([i \in Rows(res) |-> [cells |-> [c \in DisplayColumns(b) |-> res.rows[i][c]],
                                  footer |-> FooterAt(bindings[b], res.rows, i)]])

\* What the review reads of b has all that its footers aggregate.
FooterRead(b) == bindings[b].sums \subseteq BindingReads(b)

\* Two columns have changed places and a row has not: its cells, left to right,
\* are those of the row it matches, but under other names.
ColumnsSwapped(old, new, key) ==
    \E i \in Rows(new), j \in Rows(old) :
        /\ RowKey(new, i, key) = RowKey(old, j, key) /\ RowContent(new, i) = RowContent(old, j)
        /\ \E c \in ColumnsOf(new.schema) : new.rows[i][c] # old.rows[j][c]

\* Of comparable results, a table or a flow whose cells or footers differ from
\* those of the applied rows, and a field whose record is still the same one
\* and reads differently, is affected.  Rows are compared left to right
\* (row_content), so columns that changed places over the same cells are left
\* out.
ReaderListed(b) ==
    LET q == bindings[b].query
        old == OldRows(q)
        new == results[q]
        key == DiffKeyOf(q)
    IN  Comparable(old, new, key) /\ ~ColumnsSwapped(old, new, key) =>
          /\ bindings[b].kind # "record" /\ ShownCells(b, old) # ShownCells(b, new) => Affected(b)
          /\ bindings[b].kind = "record" =>
               \A i \in Rows(new), j \in Rows(old) :
                   /\ RowKey(new, i, key) = RowKey(old, j, key)
                   /\ \E c \in DisplayColumns(b) : new.rows[i][c] # old.rows[j][c]
                   => Affected(b)

\* The review lists every binding that shows something else (affected_bindings),
\* if what it reads of the binding has the column its footers aggregate.
AffectedComplete ==
    \A b \in BindingId : Resolvable(b) /\ FooterRead(b) => ReaderListed(b)

\* "Which bindings on `query` read what changed" (affected_bindings) by "every
\* field a binding's expressions read" (binding_reads): so it lists a flow
\* whose footers show another sum.
EveryReaderListed ==
    \A b \in BindingId : Resolvable(b) => ReaderListed(b)

\* "Record every query's current result as the one the document was written
\* from: the before of the next row_diff" (core.rs mark_rows_applied): a table
\* or flow in the document that does not show the cells of its result is
\* listed as affected.
StaleIsListed ==
    \A b \in BindingId :
        LET q == bindings[b].query
            written == document[b]
        IN  /\ Resolvable(b) /\ FooterRead(b) /\ bindings[b].kind # "record"
            /\ written # NoContent /\ written.definition = bindings[b]
            /\ Comparable(OldRows(q), results[q], DiffKeyOf(q))
            /\ ~ColumnsSwapped(OldRows(q), results[q], DiffKeyOf(q))
            /\ \A n \in DOMAIN written.cells : DOMAIN written.cells[n] = DisplayColumns(b)
            /\ Counted([n \in DOMAIN written.cells |->
                          [cells |-> written.cells[n], footer |-> written.footers[n]]])
                 # ShownCells(b, results[q])
            => Affected(b)
=============================================================================
