# A TLA+ model of plugin-data

`plugin-data` puts data into documents: it reads sources (files, remote URLs),
runs queries over them, binds the results to text, images, tables, barcodes,
object properties and record flows, and keeps the document in step when the data
change. A Rust engine (compiled to wasm, `data-js`) decides what the document
should show; a TypeScript plugin (`packages/data-bundle`) runs it inside the host
application, persists the session in the document, and writes the results.

Three kinds of thing are hard in it, and the project has a group of modules for
each:

* **state that follows a policy**: which bindings a refresh may write, which it must
  leave alone, what a report must say — over any order of definitions, results,
  pins, overrides, captures and reopens (`DataSession`, `ConflictPolicy`,
  `ChangeReport`, `RowReview`);
* **asynchrony on one JavaScript thread**: saves, restores, engine boots, fetches,
  polls and document switches interleaved at their awaits (`SessionPersistence`,
  `RemoteSources`);
* **algorithms whose bad output looks like good output**: pagination, batch
  generation, data merge, table geometry, barcodes, the expression language,
  coercions, the library codec. Each is translated from the source and compared with
  a reference written from what it promises (a scanner that reads the barcode back,
  the tree an expression was printed from, the placement a frame has room for).

Run everything from this directory: `tlc -workers 2 -config MCSession.cfg
MCDataSession` and so on (the table of runs gives each module and config);
`tlapm DataSessionProofs.tla`, and likewise the other modules of proofs.

## Inventory

| Component | State it keeps | Operations | What is hard | What makes it correct | Modules |
|---|---|---|---|---|---|
| Resolution and sync engine (`data-bind/src/lib.rs`, `data-core/src/binding.rs`) | queries, bindings, templates, parameters, results and their hashes, a sync state per binding | register, remove, set a parameter, deliver a result, resolve, pin, override, relink, report | a status is read and written by operations that know nothing of each other | frozen bindings are kept, divergences reported, errors are real | `ResolutionEngine`, `DataSession`, `ConflictPolicy` |
| Data session (`data-js/src/core.rs`, `columns.rs`) | the saved recipe beside the engine, the typed-column ingest in progress, the hash of the last one, variables | the calls of the wasm API: define, ingest, refresh lanes, payload, load | the recipe is kept twice; one ingest is several calls; a hash stands for a result | the two recipes agree; "unchanged" is never a stale answer | `DataSession` |
| Record order and change report (`data-query`, `data-bind/src/diff.rs`) | order cache, column hashes, last fingerprints | judge a statement, number records, sort, fingerprint, stamp, diff | two caches with different keys; shortcuts for record 0 and for ordered queries; "ordered" is read off the text | equal to the uncached computation; one numbering for all readers; no unordered statement trusted | `ChangeReport`, `OrderBy` |
| Row diff and review (`diff.rs`, `review.rs`) | rows as last applied, the declared key | diff by key, name the affected bindings, move the baseline | duplicate keys, columns that come and go | every row accounted for, every binding that shows a change named | `RowReview` |
| Variables and data sets (`data-dataset`, `core.rs`) | declarations, captured sets | declare, capture, apply, delete, import, export | capturing resolves; applying overrides; the reader is a state machine over XML events | what is exported reads back; every captured record keeps its set | `VariableLibrary`, `DataSession` |
| Session persistence (`session.ts`, `persist.ts`, `property-session.ts`, `activate.ts`) | pending definitions, saved payload, known data parts, last text, timer, flush chain, document epoch | mark dirty, flush, save hook, collect parts, restore, document opened | everything awaits the host; a document may open, a user may edit at every await | a save is complete, names only parts that are there, holds only this document's session | `SessionPersistence` |
| Engine boot (`engine.ts`, `session.ts`) | engine handle, queued definitions | boot, replay | two boots at once; a boot across a document switch | the booted engine holds the saved recipe and what was defined since | `SessionPersistence` |
| Sources, consent, refresh policies (`data-sources`, `session.ts`, `refresh.ts`) | descriptors, invalidation keys, consented origins, timers, the busy set | save and reopen a source, fetch, poll, change a policy, withdraw consent | a slow tick under a changed timer; a fetch across documents; a key that must tell every parameter apart | polls do not stack and follow the open document; a saved source asks for the same and carries no secret | `SourceCatalog`, `RemoteSources` |
| Pagination and lowering (`data-lower`) | none | pack a flow into a frame chain; lay a table out | boundaries: exact fit, too tall, repeated headers | every record placed once, in order, within its frame; rules enclose the text | `FlowLayout`, `TableGrid` |
| Batch and merge (`data-automation`, `data-cli`, `data-script`, `data-lower/src/merge.rs`) | a plan | one output per record or group; merge records into a grid | plan and executor partition differently; slots, placeholders, overset | every record printed once; records apart; the overset reported is real | `BatchRun`, `MergePlan` |
| Property bindings (`property.rs`) | what the document holds | coerce, apply the policies, keep or write | types, units, ranges, missing values, errors | what is written fits its target; a keep keeps | `PropertyValue`, `DataSession` |
| Expression language (`data-expr`) | none | parse, evaluate | associativity, errors as values, comparisons of mixed kinds | read as written, errors surface, comparisons agree | `Expression`, `ExprValue` |
| Barcodes (`data-barcode`) | none | encode, widen | code-set switching, check digits, QR layout and masks | a scanner reads back the data | `Barcode`, `QrCode` |
| Document labels and undo (`doc-label.ts`, `labels.ts`) | label version, pending label | ride a write, follow an undo | label, part and version are written apart | undo brings back the session of that moment | — |
| Document writes (`lower.ts`, `flow-writer.ts`, `relower.ts`, `merge.ts`) | where things were lowered | write fields, update in place | rejected children, shifting offsets | a bad write does not hold back the others | — |
| Query lane (`query/*.ts`), xlsx (`data-xlsx`), host model, panels, conformance | a DuckDB handle, or none | register, query; decode; map; display | third party | — | — |

Panels call the session; the session calls the engine synchronously and the host
asynchronously. The engine never calls out. A document is the only thing the
session and the host share: container parts (`session`, `data/<hash>.<ext>`),
labels, and the content that was written. `PROJECT.json` lists every component with
its status, and under `hazards` the places where this code can go wrong in ways a
unit test would hardly reach.

## Modules

| Module | Models | Extends |
|---|---|---|
| `ResolutionEngine` | sync states, stamps and the engine's operations | — |
| `DataSession` | the session's calls over the engine: recipe, column door, refresh lanes, data sets, save and reopen | `ResolutionEngine`; instantiates `ConflictPolicy` |
| `ConflictPolicy` | abstract: a binding follows its source or its value is kept | — |
| `DataSessionProofs` | theorems about `DataSession`, and that it implements `ConflictPolicy` | `DataSession` |
| `ConflictPolicyProofs` | what the policy amounts to | `ConflictPolicy` |
| `ChangeReport` | record orders, their cache, stamps, fingerprints, the incremental report | — |
| `RowReview` | the keyed row diff, the affected bindings, the applied baseline | `ChangeReport` |
| `RowProofs` | theorems about the orders, the report and the row review | `RowReview` |
| `OrderBy` | whether the text of a query defines the order of its result | — |
| `SessionPersistence` | the asynchronous session inside a document | — |
| `SessionPersistenceProofs` | theorems about what is saved, held and listed | `SessionPersistence` |
| `RemoteSources` | consent, Load, polling, on-open refresh, across document switches | — |
| `SourceCatalog` | source descriptors, redaction, keys, documented schemas | — |
| `SourceProofs` | theorems about polling and about what is said of a source | `RemoteSources`, `SourceCatalog` |
| `FlowLayout` | `paginate_flow`, one action per block or decision | — |
| `BatchRun` | the batch job, its script, plan and executor | `FlowLayout` |
| `MergePlan` | Data Merge: placeholders, the grid of records, overset | — |
| `MergeProofs` | theorems about Data Merge | `MergePlan` |
| `TableGrid` | `lower_table` | — |
| `OutputProofs` | theorems about the paginator, batches and tables | `BatchRun`, `TableGrid`, `MergeProofs` (its lemmas) |
| `PropertyValue` | coercion to a target, missing policies, visibility | — |
| `PropertyValueProofs` | theorems about what a target holds and keeps | `PropertyValue` |
| `Expression`, `ExprValue` | the parser; the evaluator | —; `Expression`, `PropertyValue` |
| `VariableLibrary` | the variable set, its XML codec, capture, apply, import | — |
| `Barcode`, `QrCode` | EAN-13, UPC-A, Code 128; QR | —; `Barcode` |
| `MC…` | instances for TLC (`MCRows`, `MCOutput`, `MCContent` and `MCSettle` hold several parts) | the modules above |

### ResolutionEngine, DataSession and ConflictPolicy

State: `queries`, `bindings`, `templates`, `results`, `params`, `sync` are the
fields of `ResolutionEngine`; `recipe`, `declared`, `dataSets`, `pending`,
`transport` are `bindings`, `variables`, `pending_columns` and `column_hashes` of
`DataSession`. One action is one call, since the library is synchronous. A typed
column ingest is several calls (`BeginColumns`, `PushColumn`, `PushRefused`,
`FinishColumns`, `FinishRefused`), and anything may come between them.

What the sync decisions do not look at is abstracted. A result is its content (the
content hash is taken to be injective); a query is its recipe, SQL and shape; the
parameter set is one value; a binding is its kind, its query and what it reads.
`Resolvable` says when `resolve_content` succeeds, and `Uncoercible` which property
values fail coercion. Text and image bindings share the kind `variable`, tables
and barcodes the kind `table`: the sync decisions do not tell them apart. What a
value of each kind becomes is in `PropertyValue`, `TableGrid`, `Barcode` and
`BatchRun`. Locale and `today` affect the display and belong to `ChangeReport`.

`RefreshFieldValues` and `ResolveProperties` hand values to the host, which may
refuse any of them: the set actually written is a nondeterministic subset.
`Reopen` is `payload`, `load_payload` and the re-freezing of pinned and overridden
bindings that `restoreInternal` does.

History variables, read by no guard: `edited` (bindings whose definition, template,
query or parameters changed since their last resolve), `held` (bindings the user
pinned, or to which a data set was applied, and which nothing explicit has
released), `captured` (held bindings a capture has resolved) and `clobbered` (held
bindings a refresh lane wrote).

`ConflictPolicy` is what a user of the plugin relies on: per binding a mode (absent,
following, kept), the promise that it is kept (`owed`), and what a refresh wrote over
all the same (`overwritten`). `ImplementsPolicy` is its specification under the
mapping of the sync states to modes: every call of the session is a step of the
policy, or none. Letting go of a binding (`LetGo`) is relinking, lowering, or the one
hole the code has, a capture: `held` and `clobbered` are mapped without the captured
bindings, and everything else must keep to the policy.

### ChangeReport, RowReview and OrderBy

In `ChangeReport` results are real: rows of numbers under a list of columns, with
duplicates, reordered and missing columns. The module has the two sorts
(`stable_order`, with ties broken by every column, and `delivered_order`), the order
cache with its invalidation, the shortcuts of `record_row`, the dependency stamp, the
resolved fingerprint and `fingerprint_incremental`. Three binding kinds stand for
what a report tells apart: one record (text, image, barcode, visibility, property), a
table, a flow through a template. `shown` and `same` are history: what each binding
would have committed, with every order sorted afresh, at the last two reports. A flow
has the columns its footers aggregate (`sums`, the code's `sum_field`): `FooterAt` is
what the footer of a row's group shows, an `Aggregate` of the numbers of that group in
whatever order they are added. The dependency stamp reads those columns; what the
review reads of a flow (`BindingReads`) does not, as in the code.
Records are numbered from 1 here and from 0 in `DataSession`, where no property
depends on the origin.

`RowReview` adds the baseline `applied` (the rows `mark_rows_applied` took) and the
history `document` (what each binding last wrote), a declared key per query, and the
two paths that move the baseline: lowering everything, and refreshing fields. The
diff keeps, of old rows with one key, the last, as `old_map` does, and reads the key
columns a result has (`key_cols`); the review looks the old row up under all of the
key's columns (`key_index`). That both find the same row is a lemma (`SameKey`).

`OrderBy` writes statements down as trees (CTEs, FROM-first, joins, derived tables,
DISTINCT, windows, filters, set operations), says on the tree when the database keeps
an order, renders the tree to the tokens the code reads, and runs the code's reading
(`ResultOrderIsDefined`) on them.

### SessionPersistence

One JavaScript thread: an action is the code between two awaits that really wait,
for a host call, a content hash or a boot. What an already settled promise
continues with is a *microtask* and runs before any other event
(`MicrotaskDue`). Commands, timers and replies of the host interleave freely.

* `Define`, `Remove`, `Import`, `BootEngine`/`EngineBooted`: `defineOnEngine`,
  `removeBinding`, `importFile`, `ensureEngine`.
* `StartBuild`, `HashNext`, `StoreKnown`, `StoreNew`, `PartStored`, `Built`:
  `buildPersisted`, the recipe taken at once and the files written one by one: each is
  hashed, which is awaited, looked up among the known parts *after* the hash
  (`persist.ts:174`, `203`), and written if it is not there. `HashNext` is the microtask
  that goes on to the next file (`BetweenFiles`).
* `TimerFires`, `FlushSkipped`, `FlushStarts`, `FlushBuilt`, `FlushProbed`,
  `FlushWritten`, `StoreRefused`, `WriteRefused`: `flushPersistInternal` on its
  chain, with both epoch checks and the await of `labelOn()` after the second.
* `WillSave`, `Collect…`, `DeletePart`: the save hook and `collectDataParts`.
* `DocumentOpened`, `EndRestore`, `Restore…`: `documentOpened`, `resetState` (the
  epoch moves at once; the reset waits for a running restore) and
  `restoreInternal`.

A session is its bindings and its imported files. Every file is large, so each is
a content-addressed part; a part write lands in the document that is open when the
call is made. Remote descriptors, targets, the locale and refresh policies are
saved with the recipe and read back with it, and are left out. The host has
container parts and label calls, but its engine has no document labels, so
`labelOn()` answers false and no versions are written. The host runs one save hook
at a time and opens no document during it. The awaits inside `importFile` are not
split: a file is imported when both engines are up.

`disturbed` is a history of the races and failures that happened: an edit, flush
or collection during a restore (`restore`), a document opened while an earlier one
still waits for a running restore (`twice`), a second engine replacing the first
(`boot`), a failed read or boot (`unavailable`), a flush skipped with definitions
queued (`unbooted`), a document opened under a flush past its checks (`late`) or
under a part write (`mid`), edits or imports during a save (`edit`, `collect`), a
binding removed before the boot (`ghost`), a refused write (`refused`). Each
property names the kinds it holds without. Each exclusion was found necessary: with
that kind allowed, TLC has a counterexample, and it is a behaviour of the code. They
are the hazards a change to this file should be weighed against.

### RemoteSources and SourceCatalog

`RemoteSources` has one source name over the origins it may be pointed at. A fetch
(Load, poll or on-open) is a task with a phase and the entry it was started with;
between its awaits consent may be withdrawn, the source defined again, its policy
changed, the content at the origin changed, another document opened. `Tick` is one
interval of `IntervalScheduler`, with its busy set.

`SourceCatalog` has the descriptors a session saves: the capability each needs, the
attach plan, the redaction of a DSN's user part, the invalidation key (the hash
as the byte stream it is fed) and the documented catalog of a governed source. An
`@` in the path of a DSN, which the code takes for the end of the user part, is left
out. `Cataloguing` is any number of its calls on any descriptors and schemas.

### FlowLayout, BatchRun, MergePlan and TableGrid

`FlowLayout` is the loop of `paginate_flow` as a state machine, one action per
header, record, footer, frame change or overflow. `top`, the place a block got, is
what the code keeps only as the running `used_pt`; the stack of ancestors is kept as
the places of their sections in the flow. `LayoutSpec` is any number of calls on any
arguments, which the theorems are about; the run calls it on a small set of them.
`BatchRun` extends it with the
job: read, script, mode, resolved flow, one pagination per document, and beside it
the plan of `data-automation`, which partitions the raw result. A mode carries what the
code's carries: `perGroup` the columns `by`, `perRecord` the `key` of its labels
(`NoKey` if it has none). The plan groups and labels by them (`PlanKey`,
`RecordLabel`); the executor reads neither, and makes the documents of the sections the
binding's own `group_by` cuts the flow into. `Batching` is one job of any kind. Lengths
are whole.

`MergePlan` has the placeholders of a text (tokens, with `<<` and `>>`), the slot of
each record on its page, and the overset estimate; the host plans, measures the
words, and asks (`PlanMerge`, `MergeRecord`, `ListWords`, `CheckOverset`). `Merging` is
a merge of any template and table, which the theorems are about. `TableGrid` has column
widths from character counts and the rules between cells; `Lowering` is any one table.

### PropertyValue, Expression, ExprValue, VariableLibrary, barcodes

A text is a sequence of pieces (numbers, words, units), a character nowhere more
than a token of its own; in `Barcode` a character is its code, since the symbologies
are about codes. Numbers count 1/508 of a point, so that every length unit converts
exactly. `Expression` is the precedence-climbing parser over tokens, `ExprValue` its
evaluator over the values of `PropertyValue`: errors as values, coercions, the two
comparisons, the logic functions and CONCAT, with the arity check of the generated
registry. `VariableLibrary` has the XML writer and the reader's event loop with its
depth counter. `RemoveVariable` is `remove_binding`: the declaration goes, the values
its data sets captured stay, and a library may be exported after that.

`Barcode` and `QrCode` go from text to modules, and scanners written from the
symbologies go back (for QR: format and version bits, zigzag, unmasking, block
de-interleaving, syndromes). The way back has rules of its own, and computes the check
of a barcode in its own way (`ScannerCheck`, `DigitsCheck`), but it has the encoder's
tables and fields: `LCode`, `Parity` and `PatternTable` of the linear codes,
`MaskCondition`, `GfExp` and `GfMul`, `VersionM`, `Alignments` and `FormatPosA` of QR.
An error that both sides share, such as a wrong entry of a table or a wrong mask
formula, is not seen. Of the linear tables `TablesDecode`, which the run assumes, says
at least that no two entries are alike and that each has the shape of its symbology.

## Runs

A run of several parts is one state machine that first picks a part and then takes
that part's steps only; the others stay as they start. Nothing is shared between
the parts of a run, so a run shows of each part what a run of its own would.

| Run | Config, module | Question | Instance |
|---|---|---|---|
| `session` | `MCSession.cfg`, `MCDataSession` | do the sync policy, the two recipes and the column door hold under any order of calls, and is every call a step of the abstract policy? | 1 binding of 3 kinds, 1 query, 2 recipes, 2 contents, 2 parameters, 2 buffers, 2 records, 1 data set |
| `rows` | `MCRows.cfg`, `MCRows` | are cached orders fresh, is record N one record, is the incremental report the full one, does the review account for every row and reader, is an unordered statement ever trusted? | parts `order` (every result of at most 2 rows over 3 schemas and 2 values), `report` (3 binding kinds, 3 results, 2 locales), `review` (6 results with duplicate, changed and missing rows, declared and default keys, a flow whose footers sum a column it prints and one whose footers sum another), `statement` (trees of every construct, two or three at a time) |
| `output` | `MCOutput.cfg`, `MCOutput` | is every record printed once, in its frame, under its headers, apart from the others? | parts `flow` (≤ 2 sections or 2 headings over one, ≤ 3 frames, heights below, at and above the frame's), `batch` (≤ 3 records of 2 grouping columns, one catalogue, per record, per group by none, by both columns the other way around, by one of them and one that is not there; every way a job fails), `merge` (lines of ≤ 4 tokens, 7 records on pages with room for none to nine, ≤ 3 words at, below and above the width), `grid` (≤ 3 columns, ragged rows) |
| `content` | `MCContent.cfg`, `MCContent` | is one value written as what it is, read back as what it was? | parts `barcode` (Code 128 texts of ≤ 6 characters and two longer, every leading and check digit), `qr` (sizes 1 to 10, every mask), `source`, `column`, `property` (every target type, policy and kind of value), `expression` (trees of two operators over every binding power; every operator and function over 14 values), `library` |
| `persist` | `MCPersist.cfg`, `MCSessionPersistence` | are saves complete and confined to their document? | 3 openings of 2 documents, 2 bindings, 2 files, 4 commands, 1 kind of disturbance before the last |
| `settle` | `MCSettle.cfg`, `MCSettle` | does every change get written; do polls stop, and never stack? | parts `persist` (3 commands), `remote` (2 fetches, 1 origin, 2 documents) |
| `capture`, `blob`, `foreign`, `unbooted`, `remote`, `stale` | `MCCapture.cfg` … `MCStale.cfg` | six statements of the repository that the code does not keep, one each | as above; stop at the violation |

What the passing runs show:

* **TypeOK** (`DataSession`): includes that no ingest holds more columns than its
  schema.
* **SyncCoversRecipe, PayloadIsLive**: a binding has a sync state exactly while it
  is defined, and what a save writes is what the engine runs.
* **DivergenceReported, ErrorIsReal**: a binding whose last value came from data
  since replaced is in the sync report, unless its recipe was edited; an Error is
  never a leftover.
* **FrozenHeld, ImplementsPolicy**: the non-destructive policy, as an invariant and
  as a refinement of `ConflictPolicy`: no call other than the explicit decisions
  (and a capture, the exception the code makes) freezes, releases or overwrites.
* **TransportSound**: the column door's `Unchanged` is right.
* **CacheFresh, NumberingAgrees, DeliveryOrderIrrelevant**: the cached order is the
  fresh one; `record_row` and `record_order` agree; a sorted result is numbered
  the same under every delivery.
* **OrderIsReal**: a statement the code reads as ordered keeps its order.
* **ReportExact**: for every report, every binding: the kind reported is that of
  comparing full re-resolves then and now.
* **RowsAccounted, AffectedComplete**: of results a key tells apart row by row,
  inserted, updated, removed and unchanged add up; every binding whose shown cells
  or footers changed is named, if the review reads the column its footers sum.
* **NonTallFits, ContextCarries, OverflowTold**: a record that fits a frame never
  leaves it; a frame opened in mid-section repeats the headers in force; records
  are placed in order, once, and what is not placed is told.
* **EveryRecordPrinted, PlanIsFollowed**: no record is printed twice, and none is
  missing without an overflow; of a mode that groups as the binding does, the documents
  that hold records hold those of the plan's units.
* **PlaceholdersPaired, RecordsApart, OversetTrue, GridEncloses**: brackets pair as
  the nearest ones; records keep apart and inside the margins, and a page is full
  before the next begins; the overset told is that of the text as it is set; every
  cell has room between its rules.
* **BarcodeSound, SymbolSound**: a scanner reads the text back and finds the check
  symbol or digit it computes itself, mistyped check
  digits are refused, quiet zones and QR function patterns survive.
* **SourcesSound**: a reopened source asks for what it asked, the DSN of a database is
  saved and shown without its user part, keys tell locators,
  formats, parameters and bytes apart, a drifted governed schema is told.
* **DocFits, KeepsArtwork**: what the document holds fits the target's row; a
  policy that keeps writes nothing for any value that cannot be decided.
* **ExpressionSound**: a printed tree is read back with its grouping; an error
  anywhere is in the value unless a call may do without that argument; of two
  values exactly one of `<`, `=`, `>` holds.
* **LibrarySurvives, EveryRecordKept**: a consistent library, exported, reads back; after
  capturing every record each has its own set.
* **ForeignOnlyLate, DataHeld, EngineIsListed, LastWrittenTrue, SaveComplete,
  ChangesSettle**: see `SessionPersistence`; each outside the disturbances it names.
* **PollingSound, PollingStops**: at most one poll at a time, timers only for the
  open document's interval policies, and polling ends after consent does.

### Cases the properties leave out

Each is named in the property's definition, because the code really behaves
otherwise there.

* `OrderIsReal`: a subquery written FROM-first inside a filter is read as ordered.
* `ComparisonsAgree` (in `ExpressionSound`): a text that spells NaN is not equal to
  itself and gives `#TYPE` under every order; `NULL <= ""` and `NULL >= ""` hold
  though `NULL = ""` does not (`eval.rs:110-132`).
* `ErrorsSurface` (in `ExpressionSound`): AND and OR stop at the first argument that
  decides, SWITCH compares by display and passes over a case that is an error.
* `RecordsApart`: a spacing below zero, which the plan takes, asks records of a page to
  overlap; the rest of the property holds of it.
* `OversetTrue`: a word that is wider than its column by a whole number of widths
  counts a line too many.
* `EveryRecordKept`: a title that is itself another record's numbered name.
* `DocFits`: a length target takes NaN (`property.rs:151-161`).
* `LibrarySurvives`: names with a space or a colon, texts with blank lines or outer
  spaces, which the reader trims (`PlainSet`); and inconsistent sets, with a value whose
  variable was removed, or bound anew to another kind, since the capture
  (`Inconsistent`). Import refuses a file with the first (`ExportIsRead`).
* `SourcesSound`: a DSN without a scheme is saved as it is, as `redact_dsn` finds the
  user part by the scheme before it.
* `RowsAccounted`, `AffectedComplete`: results with other columns than before, or
  rows that share a key (`Comparable`); rows are compared left to right
  (`row_content`, `diff.rs:119`), so two columns that trade places over the same cells
  leave a row unchanged, and what reads them unnamed (`ColumnsSwapped`).
* `AffectedComplete`: flows whose footers sum a column that neither the template prints
  nor the flow groups by (`FooterRead`; `EveryReaderListed` is without that condition).
* `PlanIsFollowed`: modes that name other columns than the binding groups by
  (`GroupedAlike`), of which the executor takes no notice (`GroupedAsAsked`). That the
  executor makes as many documents as the plan, in its order and under its labels, is
  not so either (`OneDocumentPerUnit`; the `key` of `perRecord` is read by the plan alone);
  that their records are the same is.
* The persistence properties: the disturbances above.

Stated and not run, each implied or excluded by one that is: `NothingLost`,
`PolicyTypeOK`, `RefreshKeepsFrozen` (these proved), and the counterparts of the
exclusions above, `OverflowMeansFull`, `SubqueryUnordered` and
`LengthFits`. `LinkedIsCurrent` is false of the code: `set_param`, `add_query` and
`add_binding` leave dependents Linked with an outdated stamp
(`data-bind/src/lib.rs:384`), against `docs/concept.md:463`; `DivergenceReported`
says what does hold.

### Where the code departs from what it says

* `capture` — capturing a data set re-links pinned and overridden bindings
  (`data-js/src/core.rs:1312`); the next refresh overwrites them, against
  `data-core/src/binding.rs:489`.
* `blob` — image bytes are fingerprinted by length (`data-bind/src/diff.rs:254`), so
  a replaced image of equal size is "unchanged", against the comment at 171.
* `foreign` — a binding of one document can be written into the next
  (`session.ts:1886`, `1229`), against `session.ts:841`. Trace: open B while A's
  restore runs; the restore boots an engine with A's recipe, under B's epoch; a save
  of B, before the restore ends and the reset runs, writes A's recipe into B.
* `unbooted` — definitions made before the engine boots are not saved
  (`session.ts:1152`), against the comment at 1149.
* `remote` — a fetch in flight while another document opens loads its table there
  (`session.ts:1834`), against `session.ts:1881`.
* `stale` — refreshing fields marks the rows of every query as applied
  (`session.ts:3435`), also those of tables and flows it does not write; the review then
  has nothing to say of a table that shows the old cells, against
  `docs/adr/553-non-destructive-refresh.md:99`.

Five more are stated in the modules and refuted by TLC on the instances of the passing
runs; to see the trace, name the definition as the one invariant of the config.

* `EveryReaderListed` (`RowReview`, `MCRows.cfg`): the review does not read the
  `sum_field` of a flow's footers (`data-js/src/review.rs:305`), which the flow shows:
  one whose sums change is not named, against `review.rs:321`.
* `OneDocumentPerUnit` (`BatchRun`, `MCOutput.cfg`): a batch over nested groups makes a
  document of each parent section, with a header and no records
  (`data-js/src/core.rs:769`), which the plan does not have (818).
* `GroupedAsAsked` (`BatchRun`, `MCOutput.cfg`): the executor ignores the `by` of a batch
  per group (`data-js/src/core.rs:771`), against `data-automation/src/lib.rs:65`.
* `ExportIsRead` (`VariableLibrary`, `MCContent.cfg`): a library exported after a
  captured variable was removed has values of a variable it does not declare
  (`data-js/src/core.rs:416`), which import refuses (`data-dataset/src/xml.rs:284`),
  against `core.rs:409`.
* `PromisedFits` (`QrCode`, `MCContent.cfg`): a QR payload of 220 bytes is refused
  (`data-barcode/src/qr.rs:166`), as version 10-M holds 213, against the "~270 bytes" of
  `qr.rs:27`.

Smaller observations, made while modelling and visible in the definitions: a tall
record skips an empty frame it could have opened (`data-lower/src/lib.rs:628`);
loading a payload clears no baseline; rows with an empty key are not reported as
duplicates; a dropped column makes rows "updated" with no changed column;
visibility rules use the engine's locale, not the session's; planned units may share
a label; a barcode of an error encodes its code; the first poll never refreshes; a
slow poll can overwrite a newer Load; a Load of changed data does not re-run the
queries over it; of two documents opened while one restore runs, the resets of both
wait for that same restore, and a third waits only for the restore of the second, so
that two restores can run at once (`session.ts:1889`, `3935-3942`).

### Bounds

One binding is enough for `session` because a call touches the sync states of several
bindings only by doing the same to each, and the proofs cover any number. Two contents
and two recipes give change, return and difference; two buffers that decode differently
give re-delivery and replacement. Record 1 fails coercion where record 0 does not, so an
Error can come and go without new data. The two recipes are interchangeable
(`RecipeSymmetry`): the session only compares them.

In `rows`, two rows over two values have ties, inversions and duplicates; with three
schemas a column moves and disappears. `MaxRows` bounds the rows of a result,
`Deliverable` the results used; in the report part a locale set on a binding is the one
the session did not start with (an override by the same locale is no difference). The
review uses six results that change, drop, repeat and add a row, and flows whose footers
sum a column the template prints, or another; a behaviour asks about one statement,
which no other call looks at. Statements take every source with every wrapper, so that
each construct meets each other.

In `output`, three frames are one before, one at and one after the boundary; heights 1
to 3 in frames of 2 to 4 with headers and footers give the exact fit and one off it
either way; two headings over a section are the shortest hierarchy that can be carried
over. Three records of two columns give groups of two, repeated keys that are not
adjacent, and records alone; the columns a mode groups by are none, all in another
order, and some with one the result has not, over flows of no, one and two levels, so
that a mode groups as the binding does, or more finely, or less. Seven records fill at
least one page partly; spacings are below, at and above zero.

In `content`, runs of one to six digits before and after a letter are all the cases
of the Code 128 switch (2, 4, odd, at an end); the payload sizes reach each symbol
size where the block structure or the width of the count changes (213 bytes fill version
10; 220 and 300 fit none); two operators on a
tree decide every pair of binding powers. `MaxBound` (2) bounds the bindings of a
library, `MaxDataSets` (1) the data sets an author goes on editing with, so that a
set is captured, another added, one deleted and the rest exported, and a variable is
removed in between.

`SessionPersistence` bounds: `MaxOpen` documents opened after the first (2: a switch
during a switch; 1 in the other runs), `MaxQueue` flushes waiting behind the running one
(1: losing a change made while a flush runs needs one), `MaxCommands` user commands (4:
import, define, save and switch in one behaviour; 3 for liveness), `MaxDisturbed` kinds
of disturbance before the last command or refusal (1). `RemoteSources`: `Versions` of
the content at an origin (1 change), `Documents` (2), `Redefinitions` (1), two tasks, as
a poll and a Load may overlap. The violations found need at most 3 commands.

`MCPersist`, `MCSettle`, `MCForeign` and `MCUnbooted` turn deadlock checking off:
commands are bounded, and a session with nothing to do rests. In `MCOutput` and
`MCContent` a part that has its output stays there, by a step of its own (`Finished`),
as does the statement part of `MCRows`; any other end is a deadlock and would be
reported.

### Fairness

The Rust modules are a synchronous library: no fairness, no liveness. In
`SessionPersistence` microtasks run, timers fire and the host answers each call
made to it: weak fairness of `MicrotaskStep`, `TimerStep` and `ReplyStep`. The
event loop gives the first two; the third is the assumption that the host's promises
settle. `RemoteSources` assumes that a fetch is answered or fails, that DuckDB
answers, per task, and that the interval timer fires; the user's consent and policy
changes and the server's content are free. In `MCSettle` the same fairness is that
of each part's steps. A refusal is never forced. `ChangesSettle` is conditional on
the user stopping, `PollingStops` on the consent staying withdrawn.

## Proofs

36 theorems, for every value of the constants: any number of bindings, queries,
columns, rows, records and data sets, all six binding kinds, any coercion failures;
any number of origins, fetches, documents, files, flushes and commands; flows of any
sections over chains of any frames; jobs of any mode over results of any groups; merges of
any frames, tables and margin boxes; any ragged table; any source descriptors and schemas;
any values, schema rows and policies.

| Module | Theorem | States | Inductive invariant |
|---|---|---|---|
| `DataSessionProofs` | `TypeCorrect` | `TypeOK` | itself |
| | `RecipeCovered` | `PayloadIsLive /\ SyncCoversRecipe` | `Cover`, the conjunction: neither is inductive without the other, as `Reopen` rebuilds the states from the saved recipe |
| | `SavedIsLive` | `PayloadIsLive` | from `Cover` |
| | `NonDestructive` | `FrozenHeld /\ RefreshKeepsFrozen` | `PromiseKept`, the conjunction, over `TypeOK` and `Cover`: a lane writes only what it found unfrozen, which by `FrozenHeld` is not held unless captured |
| | `TransportTrusted` | `TransportSound` | itself, over `TypeOK`: every path that changes a result updates or clears the remembered buffers |
| | `ReportHonest` | `DivergenceReported /\ ErrorIsReal` | `Honest`, the same per binding; `edited` is what makes it inductive |
| | `ErrorsAreReal` | `ErrorIsReal` | from `Honest` |
| | `Implements` | `ImplementsPolicy` | `Sound`: `TypeOK`, `Cover` and `PromiseKept` |
| `ConflictPolicyProofs` | `PolicyKeepsPromises` | `NothingLost`, of the policy | itself, over `PolicyTypeOK` |
| `SourceProofs` | `PollsSound` | `PollingSound` | `PollingInv` |
| | `DescriptionsTrue` | `SourcesSound` | `CatalogInv`: every key is that of some remote source, the catalog that of its schema |
| `SessionPersistenceProofs` | `TypeCorrect` | `TypeOK` | `SessionInv` |
| | `NothingForeignWritten` | `ForeignOnlyLate` | `SessionInv`, its part `OwnBindings` |
| | `NamedFilesAreHeld` | `DataHeld` | `SessionInv`, its part `FilesHeld` |
| | `EngineHoldsListed` | `EngineIsListed` | `SessionInv`, its part `EnginePhase` |
| | `LastWrittenIsThere` | `LastWrittenTrue` | `SessionInv`, its part `PartKnown` |
| | `SavesAreComplete` | `SaveComplete`, of every step | `SessionInv`, its part `SaveReached` |
| `RowProofs` | `CachedOrdersAreFresh` | `CacheFresh` | `CacheInv`: an entry of the present content is of the present order rule |
| | `RecordsNumberedAlike` | `NumberingAgrees` | `CacheInv` |
| | `NumberedAlikeUnderDelivery` | `DeliveryOrderIrrelevant` | the types |
| | `IncrementalIsFull` | `ReportExact`, of every step | `ReportInv`: `CacheInv`, and a stamp remembered tells the content that was printed |
| | `ReviewTyped` | `RowTypeOK` | itself |
| | `EveryRowAccounted` | `RowsAccounted` | `RowTypeOK` |
| | `EveryReaderNamed` | `AffectedComplete` | `RowTypeOK` |
| `OutputProofs` | `LayoutTyped` | `LayoutTypeOK` | `LayoutInv` |
| | `RecordsFitTheirFrame` | `NonTallFits` | `LayoutInv` |
| | `ContinuationsCarryContext` | `ContextCarries` | `LayoutInv`, its parts `StackTrue` and `AheadEmpty` |
| | `NothingDroppedSilently` | `OverflowTold` | `LayoutInv`, its parts `RecordsTrue` and `PassedPlaced` |
| | `EachRecordPrintedOnce` | `EveryRecordPrinted` | `BatchInv`: the documents made and the units queued are the job's, in order |
| | `DocumentsFollowThePlan` | `PlanIsFollowed` | `BatchInv` |
| | `RulesEncloseText` | `GridEncloses` | `GridInv`: the grid is a lowered table |
| `MergeProofs` | `RecordsKeptApart` | `RecordsApart` | `MergeInv`: the records merged so far are the plan's |
| | `EveryPlaceholderFound` | `PlaceholdersPaired` | `MergeInv`: the template is one |
| | `OversetIsReal` | `OversetTrue` | `MergeInv` and `OversetInv`: the words are those of the records, the overset is of them |
| `PropertyValueProofs` | `TargetsHoldWhatFits` | `DocFits` | itself, over `Bound`: the binding is one |
| | `ArtworkStays` | `KeepsArtwork`, of every step | `Bound` |

**The session's calls.** The refinement has one step per call. Three lemmas say which
step of the policy a call is from what it does binding by binding: it moves no mode
and no history (`Stutters`), freezes a set of bindings (`Keeps`), or ends the
protection of one (`LetsGo`). Lemmas about the engine's functions say what a delivery,
an edit and a resolve do to the mode of a binding. A delivery creates no state only
because of `Cover`, and a refresh writes only bindings that follow only because of
`PromiseKept`.

**Polling.** That at most one poll runs is not inductive: a tick asks `busy`, and what
is counted is polls. `PollingInv` adds that a poll in flight means `busy`, and that
any two are the same one. A redefinition, a new policy and a document switch replace
the timer but leave `busy` alone, which is why it holds.

**The session in a document.** None of the promises is inductive: what is written
depends on what was built, that on the engine, that on how the last restore went and
on which document each of them belongs to. `SessionInv` says all of it: one restore
runs at a time, and only the newest document waits for it; a flush past its epoch
check is of the open document; the engine, the pending definitions and the saved
recipe add up to what is listed in each phase of a start; what is known of the part
on disk is what is there; each file a text may name is held, or is being written. Each
part holds only while what its property excludes has not happened, and the proof of a
step that could break it shows that the step records it in `disturbed`. A file being hashed is an imported one of
which no part is being written; that its part is there is known of it only after the
lookup, so a collection may take the part away during the hash. Looking for
this invariant is what showed the kind `twice`.

**The orders.** Comparing rows column by column is a weak order, and breaking its ties
by delivery makes it total; in a finite total order each rank belongs to exactly one
row, so a sort is a permutation. Of two deliveries of the same rows the row at each
rank has the same cells, as ties remain only between equal rows, which is
`DeliveryOrderIrrelevant`. The first minimum of a scan is the row of rank one, which
makes `record_row` and `record_order` agree. The report is exact because everything a
content is made of can be read back off the stamp (`ContentFrom`): equal stamps mean
equal contents, so skipping a binding whose stamp did not move loses nothing.

**The review.** It enters through the types only: whatever results, keys and
templates the calls left are compared rightly. Rows are paired by their keys, a
pairing unique both ways makes two finite sets as large as one another, and the counts
follow; a cell that differs between paired rows is in a column the review names. A
footer is of a group: if the paired rows agree in the grouping columns and in those the
footers sum, the groups are paired too, each with the same numbers as often, and the
footers are the same (`PairedFooters`); so a footer that differs has a changed cell
behind it, in a column the review reads, which is where `FooterRead` is needed.

**The paginator.** A step puts one block on one frame, after the frame's own blocks or
after repeated headers on an empty one. `LayoutInv` says what the frames, the stack and
the flow have to do with one another: the frames ahead are empty; the stack holds the
parents that no later one closed, said of the flow alone; the records on the frames are,
in order, the first of the flow. That a record that fits a frame lies within it, and
that a continuation opens with the headers in force, is then a property of the block
put, and of the others because they stay where they are.

**The merge.** What is inductive is that record *k* merged is record *k* of the plan;
the rest is arithmetic of the plan. The records of a page are an interval of the table
as long as the grid has slots; row and column of a slot are quotient and remainder of
its number, so two records of a page differ in one of them (`RecordsDiffer`); a slot
ends before the next one starts, whatever the sizes (`SlotsFollow`); and the slots
along a side fit if one does, while another would not (`SlotsFill`).

**The placeholders.** The scan goes from one opening bracket to the next marker after it.
By induction downwards from the end of the line, what the scan finds from any place on is
every pair of nearest brackets from there on: between the place and the next opening
bracket no pair starts, and a bracket that meets another first opens none.

**The overset.** The words measured are those of the merged texts, so none counts as
unmeasured; every word printed has some width; and a line is wrapped, word by word, as it
is set, since the lines a wide word needs and what is left of it on the last are a
quotient and a remainder either way. That the lines of a text are added up is a fold on
both sides, of the same counts.

**The batch.** What is inductive is that the documents made are those of the first units
and the queue holds the others, each document a layout of `FlowLayout`, so that
`LayoutInv` says which of its records are placed. The rest is about the job. The two
orders are permutations (`Before` is total, and each rank belongs to one row); the units
of a mode divide the rows between them; and the executor's sections are runs of rows with
equal keys. A key occurs in one section only because the rows were sorted by it, so the
sections with records are the groups of the plan, which collects them from the raw
result. The plan's key of a row is its cells in the columns `by` names; two rows agree
in it exactly when they agree in the columns the binding groups by (`PlanKeyAgrees`),
which is all that `GroupedAlike` is for.

**The table.** Offsets are sums of widths, so each column starts where the one before it
ends; no width is less than its longest cell with its padding; and between the rules of
neighbouring columns no other rule lies, since offsets never decrease.

**The sources.** A case analysis says that redaction changes nothing a source asks for,
and leaves no user part where there is a scheme before it.
That two keys tell their parameters apart is that the byte stream can be read back. It is
read from its end: the last marker for a value and the last marker for a name, neither a
byte of UTF-8 text, delimit the last parameter, and by induction equal streams come of
equal parameters.

**The targets.** The coercion is an analysis by the type of the row: each arm refuses
or gives a value of the row. What a text goes through on the way (trimming, cutting at
commas, reading units) keeps it a text or gives finite numbers. That a `default` policy
writes something that fits is the host's doing: the code writes the default of the row
as it is, and `TargetSchema` takes rows whose default is a value of theirs. Length
targets are outside `DocFits`; `LengthFits` is the violation that shows why.

The assumptions are those on the constants, named in the modules that declare them
(`DefinitionAssumption`, `InputAssumption`, `SentinelAssumption`, `BatchAssumption`,
`GridAssumption`, `CatalogAssumption`, `StateSentinelAssumption`, `ColumnAssumption`,
`SessionSentinelAssumption`, `EntryAssumption`, `PersistenceAssumption`,
`SavedAssumption`, `ReportAssumption`, `ReviewAssumption`, `TextAssumption`,
`MergeAssumption`, `PropertyAssumption`, `WordsAssumption`): they type the inputs, bound
nothing, and keep the sentinels apart from the data (`ReportAssumption` has a missing
cell differ from every value; `WordsAssumption` says of six words that they are strings,
which the provers do not know; `MergeAssumption` has the two brackets differ;
`BatchAssumption` has keys be numbers, as the sort compares them, and a missing result
no result). TLC evaluates them in the runs, as it does those of the modules without
proofs. Each step lemma has one step per action and states the frame of the actions that
touch nothing relevant once.

Only model-checked, for good: liveness under fairness (`ChangesSettle`,
`PollingStops`), and what the modules with RECURSIVE or bitwise operators compute
(`OrderIsReal`, `ExpressionSound`, `SymbolSound`). Only model-checked so far, as each
compares the result of a fold or a selection with its reference for every input:
`BarcodeSound`, `LibrarySurvives`, `EveryRecordKept`.

## Not modelled, and why

* **Document labels and undo.** A version of the session rides on the host's undo
  stack as an element label; what an undo restores, and what the host merges into one
  step, is not stated under `src/` precisely enough to model. The races seen while
  reading are listed as a hazard.
* **Document writes.** `lower.ts`, `flow-writer.ts`, `relower.ts` and `merge.ts`
  retry and repair around refusals of the host, which are defined elsewhere; a model
  would be of an assumed host. `DataSession` lets the host refuse any write.
* **Panels, menus, formatting helpers, the reflow debounce**: no state that another
  component reads.
* **Query lane, spreadsheet import**: a third-party database behind an asynchronous
  handle, and a format decoder. A delivered result enters `DataSession`, a loaded
  table `RemoteSources`.
* **The wasm surface** (`data-js/src/lib.rs`): one call handed on per function, with
  its serialisation.
* **Expression language**: the tokenizer, and the families of functions on dates,
  colours, number formats, and texts other than CONCAT.
* **Host model, conformance suite**: stateless mapping; fixtures and workloads.
* **Character escapes** of the XML library, and loading the wasm.

## Plan

What is left, in order of what it would add.

1. `EveryRecordKept`, whose numbering is a scan like that of the placeholders.
2. `LibrarySurvives` and `BarcodeSound`: that a reader inverts a writer, as the key's
   byte stream is read back.
3. Document labels beside `SessionPersistence`, if the host's undo were specified.
