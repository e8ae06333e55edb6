------------------------------- MODULE MCOutput -------------------------------
(* Small instances of what is made of resolved records, in one run: the     *)
(* paginator alone over arbitrary sections (FlowLayout), the batch job that *)
(* partitions a flow and paginates each part (BatchRun), Data Merge         *)
(* (MergePlan) and a lowered table (TableGrid).  A behaviour is of one      *)
(* part, and ends when its output is there.                                 *)
EXTENDS BatchRun, MergePlan, TableGrid

VARIABLE part

SeqsUpTo(S, n) == UNION {[1..k -> S] : k \in 0..n}

-----------------------------------------------------------------------------
(* Up to two sections, or two headings above a section, over up to three    *)
(* frames: a record may fit exactly, be as high as a frame, or higher.      *)

Records == {[i \in DOMAIN hs |-> [row |-> i, height |-> hs[i]]] : hs \in SeqsUpTo(1..3, 2)}
AnyGroup == [header : {1, NoText}, level : {0, 1}, records : Records, footer : {NoFooter, 2}]

Heading(t, l) == [header |-> t, level |-> l, records |-> <<>>, footer |-> NoFooter]
Nested ==
    {<<Heading(1, l), Heading(2, m), [header |-> 1, level |-> n, records |-> rs, footer |-> NoFooter]>> :
        l \in {0, 1}, m \in {0, 1}, n \in 0..2, rs \in Records}

Chains == SeqsUpTo({3}, 3) \cup {<<2>>, <<2, 3>>, <<3, 2>>, <<2, 2, 2>>, <<4, 4>>}
RepeatHeaders(b) == [repeatHeader |-> b, continuedMarker |-> TRUE, headerHeight |-> 1]

PaginateAny ==
    /\ step = "idle"
    /\ \E c \in Chains :
        \/ \E gs \in SeqsUpTo(AnyGroup, 2) \cup Nested : Paginate(gs, c, RepeatHeaders(TRUE))
        \/ \E gs \in SeqsUpTo(AnyGroup, 1) \cup Nested : Paginate(gs, c, RepeatHeaders(FALSE))

-----------------------------------------------------------------------------
(* Up to three records of two grouping columns, laid out on short chains or *)
(* a long one; and the ways a job can fail.                                 *)

Results == SeqsUpTo([keys : [1..2 -> Key], name : Name], 3)
PerGroup(by) == [mode |-> "perGroup", by |-> by]
PerRecord(key) == [mode |-> "perRecord", key |-> key]

\* Grouped by none, by both columns the other way around, by one that is there
\* and one that is not; labelled by the first field.
Modes == {[mode |-> "oneCatalog"], PerRecord(0)}
         \cup {PerGroup(by) : by \in {<<>>, <<2, 1>>, <<3, 1>>}}
Base1 == [readable |-> TRUE, script |-> NoScript, binding |-> FlowBinding,
          mode |-> PerGroup(<<1>>), locale |-> NoLocale, result |-> <<>>,
          flow |-> [levels |-> 1, height |-> 2, footer |-> NoFooter],
          chain |-> <<9>>, opts |-> RepeatHeaders(TRUE)]

FlowJobs ==
    {[Base1 EXCEPT !.mode = m, !.result = r, !.chain = c,
                   !.flow = [levels |-> l, height |-> 2, footer |-> f]] :
        m \in Modes, r \in Results, c \in {<<4, 4>>, <<9>>}, l \in 0..2, f \in {NoFooter, 1}}

Build(b, m) == [binding |-> b, mode |-> m]
Scripts ==
    {[returns |-> "error", build |-> NoBinding, locale |-> NoLocale]}
    \cup {[returns |-> "spec", build |-> b, locale |-> l] :
              b \in {NoBinding, Build(OtherBinding, PerRecord(3)),
                     Build(FlowBinding, PerRecord(NoKey))},
              l \in {NoLocale, 1}}

OtherJobs ==
    {[Base1 EXCEPT !.readable = a, !.script = s, !.binding = b, !.mode = m, !.result = r] :
        a \in BOOLEAN, s \in Scripts \cup {NoScript}, b \in {NoBinding, FlowBinding, OtherBinding},
        m \in {NoMode, PerGroup(<<1>>)},
        r \in {NoResult, <<[keys |-> <<1, 2>>, name |-> 7]>>}}

Jobs == FlowJobs \cup OtherJobs

\* They are jobs.
ASSUME Jobs \subseteq Job

-----------------------------------------------------------------------------
(* Merges: any line of up to four tokens; three records on pages with room  *)
(* for none to nine; and texts that fill their frame exactly or just not.   *)

Field(b) == [ats |-> 0, base |-> b, caps |-> FALSE]
OneColumn(values) == [columns |-> <<Field("x")>>, rows |-> [i \in DOMAIN values |-> <<values[i]>>]]

TextFrame(text, bounds) == [kind |-> "text", bounds |-> bounds, text |-> text, field |-> Field("x")]
ImageFrame(f, bounds) == [kind |-> "image", bounds |-> bounds, text |-> <<>>, field |-> f]
Template(fs) ==
    [mode |-> "single", frames |-> fs, spacing |-> <<0, 0>>, marginBox |-> <<0, 0, 8, 8>>,
     arrange |-> "rows", removeBlank |-> FALSE]

Tokens == {Open, Close, Field("x"), Word(0), Word(1)}
LineMerges ==
    {<<[Template(<<TextFrame(<<line>>, <<0, 0, 4, 4>>)>>) EXCEPT !.removeBlank = b], OneColumn(<<v>>)>> :
        line \in SeqsUpTo(Tokens, 4), b \in BOOLEAN, v \in {0, 2}}

GridMerges ==
    {<<[Template(<<ImageFrame([Field("x") EXCEPT !.ats = a, !.caps = (a = 1)], <<1, 1, 1 + h, 3>>)>>)
            EXCEPT !.mode = m, !.spacing = sp, !.marginBox = <<2, 3, 2 + mh, 11>>, !.arrange = ar],
       OneColumn(<<1, 2, 3, 4, 5, 6, 7>>)>> :
        a \in {0, 1}, h \in {0, 2, 9}, m \in {"single", "multiple"}, sp \in {<<0, 0>>, <<1, 0>>, <<2, 1>>, <<-1, 0>>},
        mh \in {4, 5, 7}, ar \in {"rows", "columns"}}

Story(ws) == [i \in DOMAIN ws |-> Word(ws[i])]
OversetMerges ==
    {<<Template(<<TextFrame(lines, <<0, 0, 6, w>>)>>), OneColumn(<<1>>)>> :
        lines \in {<<Story(ws)>> : ws \in SeqsUpTo({1, 3, 5}, 3)}
                  \cup {<<Story(<<1>>), Story(ws)>> : ws \in SeqsUpTo({3, 5}, 2)},
        w \in {2, 4}}

Merges == LineMerges \cup GridMerges \cup OversetMerges

\* They are templates and tables.
ASSUME Merges \subseteq MergeSpec \X MergeTable

-----------------------------------------------------------------------------
(* Tables up to three columns, with rows longer and shorter than the header. *)

Tables ==
    {[headers |-> h, rows |-> r, headerRow |-> b] :
        h \in SeqsUpTo({1, 4}, 2), b \in BOOLEAN,
        r \in SeqsUpTo(SeqsUpTo({0, 2, 5}, 3), 1) \cup {<<<<2, 5>>, <<5, 0>>>>, <<<<5>>, <<0, 2>>>>}}

\* They are tables.
ASSUME Tables \subseteq GridTable

-----------------------------------------------------------------------------
PartInit ==
    /\ BatchInit /\ MergeInit /\ GridInit
    /\ part \in {"flow", "batch", "merge", "grid"}

Finished ==
    CASE part = "flow"  -> step = "done"
      [] part = "batch" -> outcome \notin {"idle", "running"}
      [] part = "merge" -> stage = "checked"
      [] part = "grid"  -> grid # NoGrid

PartNext ==
    \/ /\ part = "flow"
       /\ PaginateAny \/ LayoutNext
       /\ UNCHANGED <<batchOwn, mergeVars, gridVars, part>>
    \/ /\ part = "batch"
       /\ \/ \E j \in Jobs : RunJob(j) \/ FailJob(j)
          \/ BatchSteps
       /\ UNCHANGED <<mergeVars, gridVars, part>>
    \/ /\ part = "merge"
       /\ \/ \E m \in Merges : PlanMerge(m[1], m[2])
          \/ MergeSteps
          \/ \E space \in {0, 1}, leading \in {2, 3} : CheckOverset(space, leading)
       /\ UNCHANGED <<batchVars, gridVars, part>>
    \/ /\ part = "grid"
       /\ LowerGrid \/ \E t \in Tables : ResolveGrid(t)
       /\ UNCHANGED <<batchVars, mergeVars, part>>
    \/ Finished /\ UNCHANGED <<batchVars, mergeVars, gridVars, part>>

PartSpec == PartInit /\ [][PartNext]_<<batchVars, mergeVars, gridVars, part>>
=============================================================================
