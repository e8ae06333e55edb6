-------------------------------- MODULE MCRows --------------------------------
(* Small instances of what happens to the rows of a result, in one run: the  *)
(* record order (ChangeReport), the change report (ChangeReport), the row    *)
(* review (RowReview) and the order a statement asks for (OrderBy).  A       *)
(* behaviour is of one part; the others stay as they start.                  *)
EXTENDS RowReview, OrderBy

LOCAL INSTANCE FiniteSetsExt

CONSTANTS b1, q1, t1, p0, en, de

VARIABLE part

AB == <<"a", "b">>
OnlyA == <<"a">>
Schemas == {AB, <<"b", "a">>, OnlyA}

\* A text of column a, a table of column b grouped by a, and two flows: one
\* grouped by b with footers that sum a, which its template reads too, and one
\* grouped by a with footers that sum b, which nothing else of it reads.
AllKinds ==
    {[kind |-> "record", query |-> q1, reads |-> {"a"}, keys |-> <<>>, template |-> t1,
      sums |-> {}],
     [kind |-> "table", query |-> q1, reads |-> {"b"}, keys |-> <<"a">>, template |-> t1,
      sums |-> {}],
     [kind |-> "flow", query |-> q1, reads |-> {}, keys |-> <<"b">>, template |-> t1,
      sums |-> {"a"}],
     [kind |-> "flow", query |-> q1, reads |-> {}, keys |-> <<"a">>, template |-> t1,
      sums |-> {"b"}]}

\* FooterAgg::Sum.
SumOf(counts) == MapThenSumSet(LAMBDA x : x * counts[x], DOMAIN counts)

\* Of the flows, a report is asked of the one whose sum nothing else reads.
Reported == {d \in AllKinds : d.kind = "flow" => d.sums = {"b"}}

\* Two rows; the same in the other order; another b; fewer rows and a column gone.
Cells(x, y) == [c \in {"a", "b"} |-> IF c = "a" THEN x ELSE y]
FewResults ==
    {[schema |-> AB, rows |-> <<Cells(1, 2), Cells(2, 1)>>],
     [schema |-> AB, rows |-> <<Cells(2, 1), Cells(1, 2)>>],
     [schema |-> AB, rows |-> <<Cells(1, 1), Cells(2, 1)>>],
     [schema |-> OnlyA, rows |-> <<Cells(1, Absent)>>]}

\* A row changed, gone, new, twice, or twice but for one column.
ReviewResults ==
    {[schema |-> AB, rows |-> r] :
        r \in {<<>>, <<Cells(1, 1), Cells(2, 1)>>, <<Cells(2, 1)>>, <<Cells(1, 1), Cells(1, 1)>>,
               <<Cells(1, 1), Cells(1, 2)>>, <<Cells(2, 2), Cells(1, 2)>>}}

NoSizes == [v \in {} |-> 0]
KeysDeclared == {<<"a">>, <<>>}

-----------------------------------------------------------------------------
(* Statements: a plain select, and each construct that makes or breaks an  *)
(* order, combined two or three at a time.                                 *)

Plain == [cte |-> NoQuery, fromFirst |-> FALSE, sources |-> <<Table("t")>>, distinct |-> FALSE,
          over |-> "none", filter |-> NoQuery, group |-> FALSE, branch |-> NoQuery,
          all |-> FALSE, order |-> FALSE]
FromFirst == [Plain EXCEPT !.fromFirst = TRUE]
Joined == [Plain EXCEPT !.sources = <<Table("t"), Table("u")>>]
Grouped == [Plain EXCEPT !.group = TRUE]
Sorted == [Plain EXCEPT !.order = TRUE]

Sources ==
    {<<Table("t")>>, <<Table("t"), Table("u")>>, <<Table("c")>>, <<Derived(Plain), Table("t")>>}
    \cup {<<Derived(i)>> : i \in {Plain, Sorted, [Joined EXCEPT !.fromFirst = TRUE],
                                  [Plain EXCEPT !.filter = Plain]}}

\* A subquery written FROM-first inside a filter is left to the README: the
\* code reads it as ordered.
Statements(filters) ==
    {q \in [cte : {NoQuery, Plain, Grouped, Sorted}, fromFirst : BOOLEAN, sources : Sources,
            distinct : BOOLEAN, over : {"none", "keyed", "quoted"}, filter : filters,
            group : {FALSE}, branch : {NoQuery, Plain, Grouped, Joined}, all : BOOLEAN,
            order : BOOLEAN] :
        /\ q.order => q.filter = NoQuery /\ q.cte = NoQuery
        /\ q.branch # NoQuery => q.over # "keyed" /\ Len(q.sources) = 1
        /\ q.branch = NoQuery => ~q.all
        /\ q.fromFirst => q.over = "none"
        /\ q.distinct => q.over = "none" /\ q.cte = NoQuery /\ q.branch = NoQuery /\ ~q.fromFirst}

-----------------------------------------------------------------------------
PartInit == RowInit /\ OrderInit /\ part \in {"order", "report", "review", "statement"}

PartNext ==
    \/ /\ part = "order"
       /\ \/ \E q \in QueryId, o \in BOOLEAN : AddQuery(q, o)
          \/ \E q \in QueryId, res \in Result : SetResult(q, res)
          \/ \E q \in QueryId, keys \in SortKeys : UseOrder(q, keys)
          \/ \E t \in TemplateRef, fields \in Fields : AddTemplate(t, fields)
          \/ LoadPayload
       /\ UNCHANGED <<reviewVars, orderVars, part>>
    \/ /\ part = "report"
       /\ Next
       /\ \A b \in BindingId : bindings'[b] \in Reported \cup {NoDefinition}
       /\ \A q \in QueryId : orderCache'[<<q, <<"b">>>>] = NoOrder  \* none of those sorts by b
       /\ \A b \in BindingId : bindingLocale'[b] # InitLocale  \* overridden by the other one
       /\ UNCHANGED <<reviewVars, orderVars, part>>
    \/ /\ part = "review"
       /\ RowNext \/ \E q \in QueryId, res \in ReviewResults : Deliver(q, res)
       /\ UNCHANGED <<orderVars, part>>
    \/ /\ part = "statement"
       /\ \/ orderStep = "idle" /\ \E q \in Statements({NoQuery, Plain}) : Ask(q)
          \/ Judge
          \/ orderStep = "answered" /\ UNCHANGED orderVars  \* a behaviour judges one statement
       /\ UNCHANGED <<rowVars, part>>

PartSpec == PartInit /\ [][PartNext]_<<rowVars, orderVars, part>>
=============================================================================
