----------------------------- MODULE ChangeReport -----------------------------
(***************************************************************************)
(* Record numbering and the change report of the engine (data-bind/src/    *)
(* lib.rs and diff.rs over data-query/src/lib.rs, called through data-js/  *)
(* src/core.rs refresh_change_report).                                     *)
(*                                                                         *)
(* A result is rows under a schema.  Record N is the Nth row as delivered  *)
(* when the query's SQL defines its order, otherwise the Nth row of the    *)
(* sorted result; sorts are cached per query and sort keys.  A change      *)
(* report re-resolves only the bindings whose dependency stamp moved and   *)
(* compares fingerprints with the report before.                           *)
(*                                                                         *)
(* The three kinds are what one report tells apart: "record" reads one     *)
(* record (text, image, barcode, visibility, property), "table" and "flow" *)
(* read them all, a flow through a template, with a footer for each group. *)
(* Hashes are taken to be injective, `today' is fixed, a display is the    *)
(* cell, its locale and the parameters, and what a footer makes of a       *)
(* group's numbers does not depend on their order.                         *)
(***************************************************************************)
EXTENDS Naturals, Sequences, FiniteSets

CONSTANTS
    BindingId, QueryId,
    Column,         \* column names
    Schema,         \* the column lists a result may have
    Value,          \* cell values, as numbers: cmp_values orders them
    MaxRows,        \* rows in a result
    Deliverable,    \* the results a query may deliver
    Fields,         \* the columns a template's fields may read
    Definition,     \* the binding definitions in use
    TemplateRef,    \* record-flow templates
    Param, InitParam,
    Locale, InitLocale,
    Blob,           \* the values that are byte blobs
    BlobSize,       \* the length of each blob
    Aggregate(_),   \* what a footer shows of a group's numbers, each with its count
    Absent, NoResult, NoDefinition, NoTemplate, NoOrder, NoContent, NoEntry, NoLocale

ColumnsOf(s) == {s[i] : i \in DOMAIN s}

\* A cell in every column of the schema and in no other.
Result ==
    {res \in [schema : Schema, rows : UNION {[1..n -> [Column -> Value \cup {Absent}]] :
                                                n \in 0..MaxRows}] :
        \A i \in DOMAIN res.rows, c \in Column :
            res.rows[i][c] = Absent <=> c \notin ColumnsOf(res.schema)}

ASSUME ReportAssumption ==
    /\ \A s \in Schema : s \in Seq(Column)
    /\ Value \subseteq Nat /\ Absent \notin Value /\ Blob \subseteq Value
    /\ BlobSize \in [Blob -> Nat]
    /\ MaxRows \in Nat
    /\ Definition \subseteq [kind : {"record", "table", "flow"}, query : QueryId,
                             reads : SUBSET Column, keys : Seq(Column), template : TemplateRef,
                             sums : SUBSET Column]
    /\ \A d \in Definition : d.kind # "flow" => d.sums = {}
    /\ Deliverable \subseteq Result
    /\ Fields \subseteq SUBSET Column
    /\ InitParam \in Param /\ InitLocale \in Locale

VARIABLES
    ordered,        \* whether each query's SQL defines the result order
    bindings,       \* the definition of each registered binding
    templates,      \* the columns each template's fields read
    results,        \* the result each query delivered last
    params, locale,
    bindingLocale,  \* the locale override of each binding
    orderCache,     \* [content, order] per query and sort keys
    snapshot,       \* last_fingerprints: [stamp, print] per binding
    report,         \* the last change report
    shown,          \* history: the content of each binding at that report
    same            \* history: the bindings it had not changed since the one before

vars == <<ordered, bindings, templates, results, params, locale, bindingLocale,
          orderCache, snapshot, report, shown, same>>

SortKeys == {<<>>} \cup {d.keys : d \in Definition}

-----------------------------------------------------------------------------
(* Orders (data-query).                                                    *)

Rows(res) == 1..Len(res.rows)

\* Row i comes before row j by cols, compared left to right; a column the
\* result has not decides nothing.
Before(res, i, j, cols) ==
    \E k \in DOMAIN cols :
        /\ cols[k] \in ColumnsOf(res.schema)
        /\ res.rows[i][cols[k]] < res.rows[j][cols[k]]
        /\ \A m \in 1..(k - 1) : res.rows[i][cols[m]] = res.rows[j][cols[m]]

\* A stable sort by cols: ties in delivery order.
Precedes(res, i, j, cols) ==
    Before(res, i, j, cols) \/ (~Before(res, j, i, cols) /\ i < j)

SortedBy(res, cols) ==
    [n \in Rows(res) |->
        CHOOSE i \in Rows(res) :
            Cardinality({j \in Rows(res) : Precedes(res, j, i, cols)}) = n - 1]

\* Mutant of StableOrder: ties are left in delivery order.
UnbrokenTies(res, keys) == SortedBy(res, IF keys = <<>> THEN res.schema ELSE keys)

\* stable_order: the keys first, ties broken by every remaining column (a key
\* compared again breaks none).
StableOrder(res, keys) == SortedBy(res, keys \o res.schema)

\* delivered_order: the keys only, ties in delivery order.
DeliveredOrder(res, keys) == SortedBy(res, keys)

FreshOrder(q, keys) ==
    IF ordered[q] THEN DeliveredOrder(results[q], keys) ELSE StableOrder(results[q], keys)

\* cached_order_entry: the cached order when it was sorted from this content.
CachedOrder(q, keys) ==
    LET entry == orderCache[<<q, keys>>]
    IN  IF entry # NoOrder /\ entry.content = results[q] THEN entry.order
        ELSE FreshOrder(q, keys)

\* first_stable_row: the first minimum of one scan.
FirstStableRow(res) ==
    CHOOSE i \in Rows(res) :
        \A j \in Rows(res) : \/ Before(res, i, j, res.schema)
                             \/ ~Before(res, j, i, res.schema) /\ i <= j

\* Mutant of RecordRow: the scan is used for every query.
RecordRowScans(q, n) ==
    IF n = 1 THEN FirstStableRow(results[q])
    ELSE IF ordered[q] THEN n ELSE CachedOrder(q, <<>>)[n]

\* record_row, for a record the result has (records are numbered from 1 here):
\* record 1 of a sorted result is found without sorting.
RecordRow(q, n) ==
    CASE ordered[q] -> n
      [] ~ordered[q] /\ n = 1 ->
            LET entry == orderCache[<<q, <<>>>>]
            IN  IF entry # NoOrder /\ entry.content = results[q] THEN entry.order[1]
                ELSE FirstStableRow(results[q])
      [] ~ordered[q] /\ n # 1 -> CachedOrder(q, <<>>)[n]

-----------------------------------------------------------------------------
(* Resolved content, its fingerprint and its dependency stamp.             *)

Defined(b) == bindings[b] # NoDefinition
LocaleFor(b) == IF bindingLocale[b] = NoLocale THEN locale ELSE bindingLocale[b]

Resolvable(b) ==
    /\ Defined(b)
    /\ results[bindings[b].query] # NoResult
    /\ bindings[b].kind = "flow" => templates[bindings[b].template] # NoTemplate

\* The columns whose cells b shows, one by one.
DisplayColumns(b) ==
    IF bindings[b].kind = "flow"
    THEN templates[bindings[b].template] \cup ColumnsOf(bindings[b].keys)
    ELSE bindings[b].reads

\* The rows b reads, in the order it reads them.
RowsRead(b) ==
    LET q == bindings[b].query
    IN  CASE bindings[b].kind # "record" -> CachedOrder(q, bindings[b].keys)
          [] bindings[b].kind = "record" /\ Rows(results[q]) # {} -> <<RecordRow(q, 1)>>
          [] bindings[b].kind = "record" /\ Rows(results[q]) = {} -> <<>>

\* Cells in whatever order: how often each of them occurs.
Counted(cells) ==
    [x \in {cells[n] : n \in DOMAIN cells} |-> Cardinality({n \in DOMAIN cells : cells[n] = x})]

\* The numbers of column c in the group of row n: the rows that agree with it
\* in the keys and have a number there.
GroupNumbers(rows, n, keys, c) ==
    LET group == {m \in DOMAIN rows : \A k \in ColumnsOf(keys) : rows[m][k] = rows[n][k]}
    IN  [m \in {g \in group : rows[g][c] \notin Blob \cup {Absent}} |-> rows[m][c]]

\* GroupFooter: what the footer of row n's group shows of sum_field.
FooterAt(definition, rows, n) ==
    [c \in definition.sums |-> Aggregate(Counted(GroupNumbers(rows, n, definition.keys, c)))]

\* What b commits into the document when it reads the rows of order: the cells
\* of each row, and the footer of its group.
ContentOver(b, order) ==
    LET rows == [n \in DOMAIN order |-> results[bindings[b].query].rows[order[n]]]
    IN  [definition |-> bindings[b], params |-> params, locale |-> LocaleFor(b),
         cells |-> [n \in DOMAIN rows |-> [c \in DisplayColumns(b) |-> rows[n][c]]],
         footers |-> [n \in DOMAIN rows |-> FooterAt(bindings[b], rows, n)]]

Content(b) == IF Resolvable(b) THEN ContentOver(b, RowsRead(b)) ELSE NoContent

\* resolved_fingerprint: a text names its value, a blob only its length.
Printed(v) == IF v \in Blob THEN [blob |-> BlobSize[v]] ELSE [text |-> v]

Fingerprint(content) ==
    [content EXCEPT !.cells = [n \in DOMAIN content.cells |->
        [c \in DOMAIN content.cells[n] |-> Printed(content.cells[n][c])]]]

\* column_hashes: the values of one column in row order.
ColumnHash(q, c) ==
    IF c \in ColumnsOf(results[q].schema)
    THEN [i \in Rows(results[q]) |-> results[q].rows[i][c]] ELSE <<Absent>>

\* The part of a stamp that is about the data: the rows read and the columns
\* named (a flow without its template names its keys and its sum_field only).
DataStamp(b) ==
    LET q == bindings[b].query
        named == bindings[b].sums
                 \cup (IF Resolvable(b) THEN DisplayColumns(b) ELSE ColumnsOf(bindings[b].keys))
    IN  [rows |-> RowsRead(b), columns |-> [c \in named |-> ColumnHash(q, c)]]

TemplateOf(b) == IF bindings[b].kind = "flow" THEN templates[bindings[b].template] ELSE {}

\* Mutant of DependencyStamp: the session's locale instead of the binding's.
StampOfSession(b) ==
    [definition |-> bindings[b], params |-> params, locale |-> locale,
     template |-> TemplateOf(b), data |-> DataStamp(b)]

\* dependency_stamp, for a binding whose query has a result.
DependencyStamp(b) ==
    [definition |-> bindings[b], params |-> params, locale |-> LocaleFor(b),
     template |-> TemplateOf(b), data |-> DataStamp(b)]

-----------------------------------------------------------------------------
(* Operations.                                                             *)

\* What is remembered of a binding that has no value.
EmptyEntry == [stamp |-> NoEntry, print |-> NoContent]

Init ==
    /\ ordered = [q \in QueryId |-> FALSE]
    /\ bindings = [b \in BindingId |-> NoDefinition]
    /\ templates = [t \in TemplateRef |-> NoTemplate]
    /\ results = [q \in QueryId |-> NoResult]
    /\ params = InitParam
    /\ locale = InitLocale
    /\ bindingLocale = [b \in BindingId |-> NoLocale]
    /\ orderCache = [k \in QueryId \X SortKeys |-> NoOrder]
    /\ snapshot = [b \in BindingId |-> EmptyEntry]
    /\ report = [b \in BindingId |-> "absent"]
    /\ shown = [b \in BindingId |-> NoContent]
    /\ same = {}

reportVars == <<snapshot, report, shown, same>>

WithoutOrdersOf(q) ==
    [k \in DOMAIN orderCache |-> IF k[1] = q THEN NoOrder ELSE orderCache[k]]

\* Mutant of AddQuery: the cached orders of the old recipe stay.
AddQueryOnly(q, o) ==
    /\ ordered' = [ordered EXCEPT ![q] = o]
    /\ UNCHANGED <<bindings, templates, results, params, locale, bindingLocale, orderCache, reportVars>>

\* add_query: a changed query may number its records differently.
AddQuery(q, o) ==
    /\ ordered' = [ordered EXCEPT ![q] = o]
    /\ orderCache' = WithoutOrdersOf(q)
    /\ UNCHANGED <<bindings, templates, results, params, locale, bindingLocale, reportVars>>

AddBinding(b, d) ==
    /\ bindings' = [bindings EXCEPT ![b] = d]
    /\ UNCHANGED <<ordered, templates, results, params, locale, bindingLocale, orderCache, reportVars>>

RemoveBinding(b) ==
    /\ Defined(b)
    /\ bindings' = [bindings EXCEPT ![b] = NoDefinition]
    /\ bindingLocale' = [bindingLocale EXCEPT ![b] = NoLocale]
    /\ UNCHANGED <<ordered, templates, results, params, locale, orderCache, reportVars>>

AddTemplate(t, fields) ==
    /\ templates' = [templates EXCEPT ![t] = fields]
    /\ UNCHANGED <<ordered, bindings, results, params, locale, bindingLocale, orderCache, reportVars>>

SetParam(p) ==
    /\ params' = p
    /\ UNCHANGED <<ordered, bindings, templates, results, locale, bindingLocale, orderCache, reportVars>>

SetLocale(l) ==
    /\ locale' = l
    /\ UNCHANGED <<ordered, bindings, templates, results, params, bindingLocale, orderCache, reportVars>>

SetBindingLocale(b, l) ==
    /\ bindingLocale' = [bindingLocale EXCEPT ![b] = l]
    /\ UNCHANGED <<ordered, bindings, templates, results, params, locale, orderCache, reportVars>>

\* set_result: a change frees the orders sorted from the old result.
SetResult(q, res) ==
    /\ results' = [results EXCEPT ![q] = res]
    /\ orderCache' = IF res = results[q] THEN orderCache ELSE WithoutOrdersOf(q)
    /\ UNCHANGED <<ordered, bindings, templates, params, locale, bindingLocale, reportVars>>

\* The cache after the orders of K were asked for.
WithOrders(K) ==
    [k \in DOMAIN orderCache |->
        IF k \in K THEN [content |-> results[k[1]], order |-> CachedOrder(k[1], k[2])]
        ELSE orderCache[k]]

\* A lowered table or flow, an evaluated rule, a batch plan (record_order) and
\* a preview past record 1 of a sorted result (record_row) sort by keys.
UseOrder(q, keys) ==
    /\ results[q] # NoResult
    /\ orderCache' = WithOrders({<<q, keys>>})
    /\ UNCHANGED <<ordered, bindings, templates, results, params, locale, bindingLocale, reportVars>>

PrintOf(content) == IF content = NoContent THEN NoContent ELSE Fingerprint(content)

\* fingerprint_incremental: the entry of b after the report.
NextEntry(b) ==
    IF ~Defined(b) \/ results[bindings[b].query] = NoResult THEN EmptyEntry
    ELSE [stamp |-> DependencyStamp(b),
          print |-> IF snapshot[b].stamp # NoEntry /\ snapshot[b].stamp = DependencyStamp(b)
                    THEN snapshot[b].print ELSE PrintOf(Content(b))]

\* diff_resolved, for one binding.
Kind(before, after) ==
    CASE before = NoContent /\ after = NoContent -> "absent"
      [] before = NoContent /\ after # NoContent -> "added"
      [] before # NoContent /\ after = NoContent -> "removed"
      [] before # NoContent /\ after = before    -> "unchanged"
      [] before # NoContent /\ after \notin {before, NoContent} -> "changed"

\* The orders a report asks for: those of the tables and flows with a result.
OrdersReported ==
    {<<bindings[b].query, bindings[b].keys>> :
        b \in {x \in BindingId : /\ Defined(x) /\ bindings[x].kind # "record"
                                 /\ results[bindings[x].query] # NoResult}}

\* What b commits, with every order computed afresh.
TrueContent(b) ==
    LET q == bindings[b].query
        order == CASE bindings[b].kind # "record" -> FreshOrder(q, bindings[b].keys)
                   [] bindings[b].kind = "record" ->
                         [n \in Rows(results[q]) \cap {1} |-> FreshOrder(q, <<>>)[n]]
    IN  IF Resolvable(b) THEN ContentOver(b, order) ELSE NoContent

RefreshChangeReport ==
    /\ snapshot' = [b \in BindingId |-> NextEntry(b)]
    /\ report' = [b \in BindingId |-> Kind(snapshot[b].print, NextEntry(b).print)]
    /\ orderCache' = WithOrders(OrdersReported)
    /\ shown' = [b \in BindingId |-> TrueContent(b)]
    /\ same' = {b \in BindingId : shown[b] = TrueContent(b)}
    /\ UNCHANGED <<ordered, bindings, templates, results, params, locale, bindingLocale>>

\* load_payload: the recipe and the locales stay, what was derived goes.
LoadPayload ==
    /\ results' = [q \in QueryId |-> NoResult]
    /\ params' = InitParam
    /\ orderCache' = [k \in DOMAIN orderCache |-> NoOrder]
    /\ snapshot' = [b \in BindingId |-> EmptyEntry]
    /\ report' = [b \in BindingId |-> "absent"]
    /\ shown' = [b \in BindingId |-> NoContent]
    /\ same' = {}
    /\ UNCHANGED <<ordered, bindings, templates, locale, bindingLocale>>

Next ==
    \/ \E q \in QueryId, o \in BOOLEAN : AddQuery(q, o)
    \/ \E b \in BindingId, d \in Definition : AddBinding(b, d)
    \/ \E b \in BindingId : RemoveBinding(b)
    \/ \E t \in TemplateRef, fields \in Fields : AddTemplate(t, fields)
    \/ \E p \in Param : SetParam(p)
    \/ \E l \in Locale : SetLocale(l)
    \/ \E b \in BindingId, l \in Locale \cup {NoLocale} : SetBindingLocale(b, l)
    \/ \E q \in QueryId, res \in Deliverable : SetResult(q, res)
    \/ \E q \in QueryId, keys \in SortKeys : UseOrder(q, keys)
    \/ RefreshChangeReport
    \/ LoadPayload

Spec == Init /\ [][Next]_vars

-----------------------------------------------------------------------------
(* Properties.                                                             *)

\* A cached order that would be used is the order a fresh sort would give.
CacheFresh ==
    \A q \in QueryId, keys \in SortKeys :
        LET entry == orderCache[<<q, keys>>]
        IN  entry # NoOrder /\ entry.content = results[q] => entry.order = FreshOrder(q, keys)

\* Record N is the same record to the preview stepper (record_row, with its
\* shortcuts) and to tables, rules and batch plans (record_order).
NumberingAgrees ==
    \A q \in QueryId :
        results[q] # NoResult =>
            \A n \in Rows(results[q]) :
                results[q].rows[RecordRow(q, n)] = results[q].rows[CachedOrder(q, <<>>)[n]]

Permuted(res, p) == [res EXCEPT !.rows = [i \in Rows(res) |-> res.rows[p[i]]]]

\* "so record N is the same row whatever order the query engine delivered"
\* (record_row): a sorted result is numbered the same under every delivery.
DeliveryOrderIrrelevant ==
    \A q \in QueryId :
        results[q] # NoResult /\ ~ordered[q] =>
            LET res == results[q]
            IN  \A keys \in SortKeys, p \in {f \in [Rows(res) -> Rows(res)] :
                                              {f[i] : i \in Rows(res)} = Rows(res)} :
                    LET other == Permuted(res, p)
                    IN  \A n \in Rows(res) : other.rows[StableOrder(other, keys)[n]] =
                                             res.rows[StableOrder(res, keys)[n]]

\* An incremental report is the full one: re-resolving only the bindings whose
\* stamp moved gives, for every binding, the entry that resolving all of them
\* now and at the last report would give (fingerprint_incremental).
ReportExact ==
    [][RefreshChangeReport =>
         \A b \in BindingId : report'[b] = Kind(PrintOf(shown[b]), PrintOf(TrueContent(b)))]_vars

\* "Two resolutions with the same fingerprint commit the same host content"
\* (resolved_fingerprint): what a report calls unchanged is unchanged.
UnchangedIsSame == \A b \in BindingId : report[b] = "unchanged" => b \in same
=============================================================================
