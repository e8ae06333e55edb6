------------------------------ MODULE OrderBy ------------------------------
(***************************************************************************)
(* Whether a query defines the order of its result (data-query/order.rs).  *)
(*                                                                         *)
(* The engine numbers records by delivery when the query defines the       *)
(* order and by content when it does not (ChangeReport), so a statement    *)
(* wrongly read as ordered gives a document records that change places     *)
(* between two refreshes of the same rows.  The code reads TOKENS; this    *)
(* module writes statements down as trees, says on the tree when DuckDB    *)
(* keeps the order (the rules of the source's own module comment), renders *)
(* the tree to the tokens the code lexes and compares the two.             *)
(*                                                                         *)
(* A lexeme is a word in capitals; a quoted one and a comment hold words   *)
(* that look like keywords and are not. *)
(***************************************************************************)
EXTENDS Integers, Sequences, FiniteSets

LOCAL INSTANCE SequencesExt

CONSTANT NoQuery

VARIABLES
    orderStep,      \* "idle", "asked" or "answered"
    statement,      \* the tree of the statement that is asked about
    orderDefined    \* result_order_is_defined of its text

orderVars == <<orderStep, statement, orderDefined>>

-----------------------------------------------------------------------------
(* The lexer and the reading of its tokens                                 *)

QuotedText == {"'ORDER'", "'BY'", "'JOIN'"}
Comments   == {"--JOIN"}
Operators  == {"*", "="}

(* A comment leaves no token; a literal or an operator leaves one to skip. *)
Lex(text) ==
    LET kept == SelectSeq(text, LAMBDA x : x \notin Comments)
    IN  [i \in DOMAIN kept |->
            IF kept[i] \in QuotedText \cup Operators THEN "?" ELSE kept[i]]

FromEnds ==
    {"WHERE", "GROUP", "HAVING", "ORDER", "LIMIT", "OFFSET", "QUALIFY", "WINDOW",
     "UNION", "INTERSECT", "EXCEPT", "USING", "SELECT", "RETURNING", "FETCH"}

Unordering ==
    {"JOIN", "GROUP", "HAVING", "DISTINCT", "INTERSECT", "EXCEPT", "PIVOT", "UNPIVOT",
     "SAMPLE", "TABLESAMPLE", "QUALIFY", "WINDOW", "RECURSIVE", "LATERAL",
     "POSITIONAL", "ASOF"}

At(toks, i) == IF i \in DOMAIN toks THEN toks[i] ELSE ""

(* The depth a token sits at: an opener opens after itself. *)
Depth(toks) ==
    [i \in DOMAIN toks |->
        Cardinality({k \in 1..(i - 1) : toks[k] = "("})
            - Cardinality({k \in 1..i : toks[k] = ")"})]

Balanced(toks, depth) ==
    /\ \A i \in DOMAIN toks : depth[i] >= 0
    /\ Cardinality({i \in DOMAIN toks : toks[i] = "("})
          = Cardinality({i \in DOMAIN toks : toks[i] = ")"})

TopLevelOrderBy(toks, depth) ==
    \E i \in DOMAIN toks : depth[i] = 0 /\ toks[i] = "ORDER" /\ At(toks, i + 1) = "BY"

(* UNION ALL keeps the order of its branches, UNION removes duplicates. *)
Deduplicates(toks, i) == toks[i] = "UNION" /\ At(toks, i + 1) # "ALL"

Windowed(toks, i) ==
    toks[i] = "OVER" /\ ~(At(toks, i + 1) = "(" /\ At(toks, i + 2) = ")")

(* The token before the parenthesis that holds token i. *)
BeforeOpener(toks, depth, i) ==
    LET openers == {k \in 1..(i - 1) : toks[k] = "(" /\ depth[k] = depth[i] - 1}
    IN  IF openers = {} THEN ""
        ELSE At(toks, (CHOOSE k \in openers : \A j \in openers : j <= k) - 1)

NestedOutsideOf(openers, toks, depth, i) ==
    /\ toks[i] = "SELECT"
    /\ depth[i] > 0
    /\ BeforeOpener(toks, depth, i) \notin openers

\* Mutant of NestedElsewhere: a list of IN is taken for a FROM item.
NestedOutsideLists(toks, depth, i) == NestedOutsideOf({"FROM", "AS", "IN"}, toks, depth, i)

NestedElsewhere(toks, depth, i) == NestedOutsideOf({"FROM", "AS"}, toks, depth, i)

FirstOf(S) == {i \in S : \A j \in S : i <= j}

(* Several tables in one FROM list: a comma at its depth before it ends. *)
ListsTables(toks, depth, i) ==
    /\ toks[i] = "FROM"
    /\ LET after == (i + 1)..Len(toks)
           stops == {k \in after : depth[k] < depth[i]
                                   \/ (depth[k] = depth[i] /\ toks[k] \in FromEnds \cup {","})}
       IN  \E k \in FirstOf(stops) : depth[k] = depth[i] /\ toks[k] = ","

ResultOrderIsDefined(text) ==
    LET toks  == Lex(text)
        depth == Depth(toks)
    IN  /\ At(toks, 1) \in {"SELECT", "WITH", "FROM", "VALUES", "TABLE"}
        /\ Balanced(toks, depth)
        /\ \/ TopLevelOrderBy(toks, depth)
           \/ \A i \in DOMAIN toks :
                 /\ toks[i] \notin Unordering
                 /\ ~Deduplicates(toks, i)
                 /\ ~Windowed(toks, i)
                 /\ ~NestedElsewhere(toks, depth, i)
                 /\ ~ListsTables(toks, depth, i)

-----------------------------------------------------------------------------
(* Statements: what a user writes in the query editor                      *)

(* A query scans its sources (tables by name, or derived tables), may      *)
(* bind one CTE, filter by a subquery, window, group, sort, and be set     *)
(* against a second branch. *)
Table(name) == [table |-> name]
Derived(q)  == [derived |-> q]

RECURSIVE Render(_)
Source(s) ==
    IF "table" \in DOMAIN s THEN <<s.table>> ELSE <<"(">> \o Render(s.derived) \o <<")">>

FromList(sources) ==
    <<"FROM">> \o FlattenSeq([i \in DOMAIN sources |->
        (IF i = 1 THEN <<>> ELSE <<",">>) \o Source(sources[i])])

Listed(q) ==
    CASE q.over = "none"  -> <<"a", ",", "b">>
      [] q.over = "empty" -> <<"ROW_NUMBER", "(", ")", "OVER", "(", ")">>
      [] q.over = "keyed" -> <<"ROW_NUMBER", "(", ")", "OVER", "(", "ORDER", "BY", "b", ")">>
      [] q.over = "quoted" -> <<"'ORDER'", "'BY'", "--JOIN">>

Render(q) ==
    (IF q.cte = NoQuery THEN <<>> ELSE <<"WITH", "c", "AS", "(">> \o Render(q.cte) \o <<")">>)
    \o (IF q.fromFirst THEN FromList(q.sources)
        ELSE <<"SELECT">> \o (IF q.distinct THEN <<"DISTINCT">> ELSE <<>>)
                \o Listed(q) \o FromList(q.sources))
    \o (IF q.filter = NoQuery THEN <<>> ELSE <<"WHERE", "a", "IN", "(">> \o Render(q.filter) \o <<")">>)
    \o (IF q.group THEN <<"GROUP", "BY", "a">> ELSE <<>>)
    \o (IF q.branch = NoQuery THEN <<>>
        ELSE <<"UNION">> \o (IF q.all THEN <<"ALL">> ELSE <<>>) \o Render(q.branch))
    \o (IF q.order THEN <<"ORDER", "BY", "a">> ELSE <<>>)

(* When DuckDB defines the order of a result (the comment of order.rs): a  *)
(* sort at the top, or a scan of one table through clauses that keep the   *)
(* order; what a CTE or a derived table loses, its reader has lost. *)
RECURSIVE KeepsOrder(_, _)
SourceKeeps(s, cte) ==
    CASE s = Table("c") /\ cte # NoQuery -> KeepsOrder(cte, NoQuery)
      [] "derived" \in DOMAIN s        -> KeepsOrder(s.derived, cte)
      [] OTHER                         -> TRUE

KeepsOrder(q, outer) ==
    LET cte == IF q.cte = NoQuery THEN outer ELSE q.cte
    IN  \/ q.order
        \/ /\ Len(q.sources) = 1
           /\ SourceKeeps(q.sources[1], cte)
           /\ ~q.distinct /\ ~q.group
           /\ q.over # "keyed"
           /\ q.filter = NoQuery
           /\ q.branch # NoQuery => q.all /\ KeepsOrder(q.branch, cte)

-----------------------------------------------------------------------------
OrderInit ==
    /\ orderStep = "idle"
    /\ statement = NoQuery
    /\ orderDefined = FALSE

Ask(q) ==
    /\ orderStep # "asked"
    /\ orderStep' = "asked"
    /\ statement' = q
    /\ UNCHANGED orderDefined

Judge ==
    /\ orderStep = "asked"
    /\ orderStep' = "answered"
    /\ orderDefined' = ResultOrderIsDefined(Render(statement))
    /\ UNCHANGED statement

-----------------------------------------------------------------------------
(* A subquery that is written FROM first has no SELECT for the code to see. *)
FromFirstFilter(q) == q.filter # NoQuery /\ q.filter.fromFirst

(* A statement read as ordered really keeps its order: the reading may be  *)
(* too careful, never too bold, whatever is nested, quoted or bound in a   *)
(* CTE.  Filters written FROM first are the exception SubqueryUnordered    *)
(* states. *)
OrderIsReal ==
    orderStep = "answered" /\ orderDefined /\ ~FromFirstFilter(statement)
        => KeepsOrder(statement, NoQuery)

(* The comment of order.rs, lines 38-43: a subquery outside FROM leaves    *)
(* the order undefined, since DuckDB plans it as a join. *)
SubqueryUnordered ==
    orderStep = "answered" /\ statement.filter # NoQuery /\ ~statement.order
        => ~orderDefined
=============================================================================
