------------------------------- MODULE BatchRun -------------------------------
(***************************************************************************)
(* Headless generation: the batch job (data-cli/src/lib.rs run_job and its *)
(* binary), the build script's spec (data-script/src/lib.rs), the batch    *)
(* plan (data-automation/src/lib.rs) and the executor that partitions a    *)
(* resolved record flow into documents and paginates each (data-js/src/    *)
(* core.rs run_record_flow_batch over data-bind/src/lib.rs                 *)
(* resolve_record_flow).                                                   *)
(*                                                                         *)
(* A result is its rows in record order (ORDER BY); a row is the values of *)
(* its key columns, numbered from 1, and of column 0, the template's first *)
(* field.  The session's one record-flow binding groups by the first       *)
(* `levels' key columns; a mode names the columns it groups or labels by,  *)
(* which the plan follows and the executor does not read.                  *)
(***************************************************************************)
EXTENDS FlowLayout

SeqsExt == INSTANCE SequencesExt

CONSTANTS
    Key,            \* values of the key columns (their text is the value)
    Name,           \* values of the naming column: the template's first field
    FlowBinding,    \* the binding that is a record flow
    OtherBinding,   \* a binding of another kind
    Locale,         \* formatting locales
    Null,           \* what a column the result has not reads as
    NoBinding, NoMode, NoScript, NoLocale, NoResult, NoKey

Row == [keys : Seq(Key), name : Name]

ASSUME BatchAssumption ==
    /\ Key \subseteq Text \cap Nat
    /\ NoResult \notin Seq(Row) /\ NoResult \notin Seq(Key)

\* FlowOptions and the template: grouping depth, the height of a record, and
\* that of a footer when the binding asks for one.
FlowOptions == [levels : Nat, height : Nat, footer : Nat \cup {NoFooter}]

\* BatchMode: the columns of a mode may be any, and need not be there.
Mode == [mode : {"oneCatalog"}]
        \cup [mode : {"perGroup"}, by : Seq(Nat)]
        \cup [mode : {"perRecord"}, key : Nat \cup {NoKey}]

\* ScriptSpec; a script may also throw, or return no spec.
BuildSpec == [binding : {FlowBinding, OtherBinding}, mode : Mode]
Script == [returns : {"spec", "error"}, build : BuildSpec \cup {NoBinding},
           locale : Locale \cup {NoLocale}]

\* BatchJob, with the resolved result, the binding's flow and the chain it
\* is for: the rows have the same columns, those the binding groups by among
\* them.
Job ==
    {j \in [readable : BOOLEAN, script : Script \cup {NoScript},
            binding : {FlowBinding, OtherBinding, NoBinding}, mode : Mode \cup {NoMode},
            locale : Locale \cup {NoLocale}, result : Seq(Row) \cup {NoResult},
            flow : FlowOptions, chain : Seq(Nat), opts : FlowLayoutOpts] :
        j.result # NoResult =>
            \A i, k \in DOMAIN j.result :
                /\ j.flow.levels <= Len(j.result[i].keys)
                /\ Len(j.result[i].keys) = Len(j.result[k].keys)}

VARIABLES
    job,        \* the job being run
    locale,     \* the session's formatting locale
    outcome,    \* "idle", "running", "done", or the error the binary prints
    labels,     \* the labels of the documents
    queue,      \* the units not yet paginated
    runs        \* BatchRun: the documents so far

batchOwn == <<job, locale, outcome, labels, queue, runs>>
batchVars == <<layoutVars, batchOwn>>

-----------------------------------------------------------------------------
(* The resolved flow. *)

\* cached_order over the grouping columns: sorted by them, ties in record order.
KeyBefore(j, i, k) ==
    \E l \in 1..j.flow.levels :
        /\ j.result[i].keys[l] < j.result[k].keys[l]
        /\ \A m \in 1..(l - 1) : j.result[i].keys[m] = j.result[k].keys[m]

Before(j, i, k) == KeyBefore(j, i, k) \/ (~KeyBefore(j, k, i) /\ i < k)

FlowOrder(j) ==
    [n \in DOMAIN j.result |->
        CHOOSE i \in DOMAIN j.result :
            Cardinality({k \in DOMAIN j.result : Before(j, k, i)}) = n - 1]

KeyOf(j, row) == SubSeq(j.result[row].keys, 1, j.flow.levels)

Section(header, level) ==
    [header |-> header, level |-> level, records |-> <<>>, footer |-> NoFooter]

\* Mutant of Opened: only a change of the innermost value opens a section.
OpenedLeaf(j, before, key) ==
    IF key = <<>> THEN (IF before = NoResult THEN <<Section(NoText, 0)>> ELSE <<>>)
    ELSE IF before # NoResult /\ key[Len(key)] = before[Len(key)] THEN <<>>
    ELSE [l \in DOMAIN key |-> Section(key[l], l - 1)]

\* The sections a record with this key opens after one with the key before it
\* (NoResult before the first): from the first level that changed, a parent
\* without records for each level but the last.
Opened(j, before, key) ==
    IF key = before THEN <<>>
    ELSE IF key = <<>> THEN <<Section(NoText, 0)>>
    ELSE LET first == IF before = NoResult THEN 1
                      ELSE SeqsExt!Min({l \in DOMAIN key : key[l] # before[l]})
         IN  [i \in 1..(Len(key) - first + 1) |->
                 Section(key[first + i - 1], first + i - 2)]

\* A record joins the section opened last.
Joined(sections, rec) ==
    [sections EXCEPT ![Len(sections)].records = Append(@, rec)]

\* The sections of the first n records, for every n.
SectionsUpTo(j) ==
    LET order == FlowOrder(j)
        key(n) == IF n = 0 THEN NoResult ELSE KeyOf(j, order[n])
        upTo[n \in 0..Len(j.result)] ==
            IF n = 0 THEN <<>>
            ELSE Joined(upTo[n - 1] \o Opened(j, key(n - 1), key(n)),
                        [row |-> order[n], height |-> j.flow.height])
    IN  upTo

\* resolve_record_flow, to_flow_groups; only sections with records get a footer.
Sections(j) ==
    LET all == SectionsUpTo(j)[Len(j.result)]
    IN  [s \in DOMAIN all |->
            [all[s] EXCEPT !.footer = IF all[s].records = <<>> THEN NoFooter ELSE j.flow.footer]]

-----------------------------------------------------------------------------
(* The documents. *)

Unit(label, sections) == [label |-> label, groups |-> sections]

\* Mutant of UnitsOf: a section's last record is left without a document.
UnitsOfAllButLast(j, mode) ==
    LET ss == Sections(j)
    IN  SeqsExt!FlattenSeq([s \in DOMAIN ss |-> [r \in 1..Len(ss[s].records) - 1 |->
            Unit(j.result[ss[s].records[r].row].name,
                 <<[ss[s] EXCEPT !.records = <<@[r]>>, !.footer = NoFooter]>>)]])

\* The units of run_record_flow_batch, whatever columns the mode names: the
\* sections are those of the binding's own grouping.  A section is a document, a parent
\* section too; a record's document repeats its section's header, without its
\* ancestors and without a footer.
UnitsOf(j, mode) ==
    LET ss == Sections(j)
    IN  CASE mode.mode = "oneCatalog" -> <<Unit("catalog", ss)>>
          [] mode.mode = "perGroup" ->
                [s \in DOMAIN ss |-> Unit(IF ss[s].header = NoText THEN <<"group", s - 1>>
                                          ELSE ss[s].header, <<ss[s]>>)]
          [] mode.mode = "perRecord" ->
                SeqsExt!FlattenSeq([s \in DOMAIN ss |-> [r \in DOMAIN ss[s].records |->
                    Unit(j.result[ss[s].records[r].row].name,
                         <<[ss[s] EXCEPT !.records = <<ss[s].records[r]>>,
                                         !.footer = NoFooter]>>)]])

\* RecordSet::value of record i.
RecordValue(j, i, c) ==
    LET row == j.result[i]
    IN  CASE c = 0 -> row.name
          [] c # 0 /\ c \in DOMAIN row.keys -> row.keys[c]
          [] c # 0 /\ c \notin DOMAIN row.keys -> Null

PlanKey(j, i, by) == [n \in DOMAIN by |-> RecordValue(j, i, by[n])]

\* group_by: the groups in first-seen order.
GroupsSeen(j, by) ==
    LET firsts == {i \in DOMAIN j.result :
                      \A k \in 1..(i - 1) : PlanKey(j, k, by) # PlanKey(j, i, by)}
    IN  [g \in 1..Cardinality(firsts) |-> PlanKey(j, InOrder(firsts)[g], by)]

\* The label of record i: its value of the key column, else its place.
RecordLabel(j, i, key) ==
    IF key # NoKey /\ RecordValue(j, i, key) # Null THEN RecordValue(j, i, key) ELSE <<"row", i - 1>>

\* plan_batch_ordered: the records of each document, numbered in record order.
Plan(j, mode) ==
    CASE mode.mode = "oneCatalog" -> <<[label |-> "catalog", records |-> DOMAIN j.result]>>
      [] mode.mode = "perRecord" ->
            [i \in DOMAIN j.result |-> [label |-> RecordLabel(j, i, mode.key), records |-> {i}]]
      [] mode.mode = "perGroup" ->
            LET seen == GroupsSeen(j, mode.by)
            IN  [g \in DOMAIN seen |->
                    [label |-> seen[g],
                     records |-> {i \in DOMAIN j.result : PlanKey(j, i, mode.by) = seen[g]}]]

-----------------------------------------------------------------------------
(* The job. *)

\* A script that asks for a build overrides the job's binding and mode.
Scripted(j) == j.script # NoScript
Asks(j) == Scripted(j) /\ j.script.returns = "spec" /\ j.script.build # NoBinding
BindingOf(j) == IF Asks(j) THEN j.script.build.binding ELSE j.binding
ModeOf(j) == IF Asks(j) THEN j.script.build.mode ELSE j.mode

\* set_locale of the job, then of the script's spec.
LocaleOf(j) ==
    IF Scripted(j) /\ j.script.returns = "spec" /\ j.script.locale # NoLocale
    THEN j.script.locale ELSE j.locale

\* Where run_job, or the binary before it, gives up, in order; "none" if not.
Failure(j) ==
    CASE ~j.readable -> "invalid job"
      [] j.readable /\ Scripted(j) /\ j.script.returns # "spec" -> "script error"
      [] OTHER ->
            CASE BindingOf(j) = NoBinding -> "no build"
              [] BindingOf(j) # NoBinding /\ ModeOf(j) = NoMode -> "no mode"
              [] OTHER ->
                    CASE j.result = NoResult -> "no result"
                      [] j.result # NoResult /\ BindingOf(j) # FlowBinding -> "not a record flow"
                      [] j.result # NoResult /\ BindingOf(j) = FlowBinding -> "none"

BatchInit ==
    /\ LayoutInit
    /\ job = NoResult
    /\ locale = NoLocale
    /\ outcome = "idle"
    /\ labels = <<>> /\ queue = <<>> /\ runs = <<>>

\* A job that fails prints its error and no documents.
FailJob(j) ==
    /\ outcome = "idle"
    /\ Failure(j) # "none"
    /\ job' = j
    /\ outcome' = Failure(j)
    /\ locale' = IF j.readable THEN (IF Failure(j) = "script error" THEN j.locale ELSE LocaleOf(j))
                 ELSE locale
    /\ UNCHANGED <<layoutVars, labels, queue, runs>>

RunJob(j) ==
    /\ outcome = "idle"
    /\ Failure(j) = "none"
    /\ job' = j
    /\ outcome' = "running"
    /\ locale' = LocaleOf(j)
    /\ queue' = UnitsOf(j, ModeOf(j))
    /\ labels' = [u \in DOMAIN queue' |-> queue'[u].label]
    /\ UNCHANGED <<layoutVars, runs>>

\* The next document starts once the last one is kept.
Idle == step = "idle" \/ (step = "done" /\ Len(runs) + Len(queue) = Len(labels))

PaginateUnit ==
    /\ outcome = "running"
    /\ Idle /\ queue # <<>>
    /\ Paginate(Head(queue).groups, job.chain, job.opts)
    /\ queue' = Tail(queue)
    /\ UNCHANGED <<job, locale, outcome, labels, runs>>

LayOut ==
    /\ outcome = "running"
    /\ LayoutNext
    /\ UNCHANGED batchOwn

KeepRun ==
    /\ outcome = "running"
    /\ step = "done" /\ Len(runs) + Len(queue) < Len(labels)
    /\ runs' = Append(runs, [label |-> labels[Len(runs) + 1], frames |-> PaginatedFrames,
                             placed |-> placed, overflow |-> overflow])
    /\ UNCHANGED <<layoutVars, job, locale, outcome, labels, queue>>

\* Every document is paginated: the output is printed.
FinishJob ==
    /\ outcome = "running"
    /\ Idle /\ queue = <<>>
    /\ outcome' = "done"
    /\ UNCHANGED <<layoutVars, job, locale, labels, queue, runs>>

BatchSteps == PaginateUnit \/ LayOut \/ KeepRun \/ FinishJob

\* One job of any kind.
BatchNext == (\E j \in Job : RunJob(j) \/ FailJob(j)) \/ BatchSteps

Batching == BatchInit /\ [][BatchNext]_batchVars

-----------------------------------------------------------------------------
(* What a batch promises. *)

RowsOn(blocks) == {blocks[i].row : i \in {k \in DOMAIN blocks : blocks[k].block = "record"}}
RowsIn(run) == UNION {RowsOn(run.frames[f].blocks) : f \in DOMAIN run.frames}

\* "one document per record / per group / one catalog": over the documents of
\* a finished job no record is printed in two of them, and one printed in none
\* is missing only because a document says it overflowed.
EveryRecordPrinted ==
    outcome = "done" =>
        /\ \A r, s \in DOMAIN runs : r # s => RowsIn(runs[r]) \cap RowsIn(runs[s]) = {}
        /\ (\A r \in DOMAIN runs : ~runs[r].overflow)
               => UNION {RowsIn(runs[r]) : r \in DOMAIN runs} = DOMAIN job.result

\* The mode names the columns the binding groups by, in whatever order, and no
\* other that is there.
GroupedAlike(j, mode) ==
    mode.mode = "perGroup" =>
        \A i \in DOMAIN j.result : \A c \in 0..Len(j.result[i].keys) :
            (\E n \in DOMAIN mode.by : mode.by[n] = c) <=> c \in 1..j.flow.levels

\* The documents that hold records hold those of the plan's units, though
\* neither their order nor their labels are the plan's.
DocumentsAsPlanned ==
    {RowsIn(runs[r]) : r \in DOMAIN runs} \ {{}} =
        {Plan(job, ModeOf(job))[u].records : u \in DOMAIN Plan(job, ModeOf(job))} \ {{}}

\* "The plan says WHICH records feed WHICH document; the executor resolves +
\* lowers + paginates each unit" (data-automation), when the mode groups as the
\* binding does: the executor cuts up the flow and the plan the result.
PlanIsFollowed ==
    outcome = "done" /\ (\A r \in DOMAIN runs : ~runs[r].overflow) /\ GroupedAlike(job, ModeOf(job))
        => DocumentsAsPlanned

\* The same of every mode: "one document per group, grouped by `by`" (BatchMode).
GroupedAsAsked ==
    outcome = "done" /\ (\A r \in DOMAIN runs : ~runs[r].overflow) => DocumentsAsPlanned

\* As the module documentation has it: one document per planned unit.
OneDocumentPerUnit ==
    outcome = "done" /\ GroupedAlike(job, ModeOf(job)) => Len(runs) = Len(Plan(job, ModeOf(job)))
=============================================================================
