----------------------------- MODULE Expression -----------------------------
(***************************************************************************)
(* The binding language (data-expr): the precedence-climbing parser over   *)
(* tokens (parser.rs); ExprValue evaluates what it reads.                  *)
(*                                                                         *)
(* A token is a string.  A tree is a record; a text that cannot be read is *)
(* NoTree, one that calls a function nobody registered NoFunction.         *)
(* Every binding, rule and filter of a document is such a text, so a tree  *)
(* read with the wrong grouping prints wrong values and no error.          *)
(***************************************************************************)
EXTENDS Integers, Sequences, FiniteSets

LOCAL INSTANCE SequencesExt

CONSTANTS NoTree, NoFunction

VARIABLES
    exprStep,   \* "idle", "written", "parsed" or, in ExprValue, "evaluated"
    written,    \* the tree the author has in mind, or a malformed text
    parsed      \* what parse made of its text

exprVars == <<exprStep, written, parsed>>

-----------------------------------------------------------------------------
(* Trees                                                                   *)

Leaf(tok)      == [k |-> "leaf", tok |-> tok]
Neg(rhs)       == [k |-> "neg", rhs |-> rhs]
Binary(op, l, r) == [k |-> "binary", op |-> op, lhs |-> l, rhs |-> r]
Call(f, args)  == [k |-> "call", func |-> f, args |-> args]

\* The registered names that are modelled: the logic family and CONCAT.
Functions ==
    {"IF", "AND", "OR", "NOT", "ISBLANK", "ISERROR", "COALESCE", "SWITCH", "IFERROR", "CONCAT"}
\* FOO is no function: a field, unless it is called.
Identifiers == Functions \cup {"name", "NULL", "TRUE", "FOO"}

(* The left binding power of each infix operator (infix_bp). *)
InfixBp ==
    [op \in {"=", "<>", "<", "<=", ">", ">=", "&", "+", "-", "*", "/"} |->
        CASE op \in {"=", "<>", "<", "<=", ">", ">="} -> 10
          [] op = "&"         -> 20
          [] op \in {"+", "-"} -> 30
          [] op \in {"*", "/"} -> 40]

UnaryBp == 50

-----------------------------------------------------------------------------
(* The parser: each reader returns the tree and the position after it      *)

TokenAt(toks, i) == IF i \in DOMAIN toks THEN toks[i] ELSE ""
Read(tree, next) == [tree |-> tree, next |-> next]
Failed  == Read(NoTree, 0)
Unknown == Read(NoFunction, 0)
Stopped(r) == r.next = 0

\* Mutant of RightBp: the right side binds as tightly as the operator.
RightBpLoose(op) == InfixBp[op]

(* The right side of an operator binds tighter by one: left-associative. *)
RightBp(op) == InfixBp[op] + 1

RECURSIVE ParseExpr(_, _, _), ParseInfix(_, _, _), ParseArgs(_, _, _)

ParseIdent(toks, i) ==
    IF TokenAt(toks, i + 1) = "("
    THEN LET a == IF TokenAt(toks, i + 2) = ")" THEN Read(<<>>, i + 3) ELSE ParseArgs(toks, i + 2, <<>>)
         IN  IF Stopped(a) THEN a
             ELSE IF toks[i] \notin Functions THEN Unknown
             ELSE Read(Call(toks[i], a.tree), a.next)
    ELSE Read(Leaf(toks[i]), i + 1)

ParsePrefix(toks, i) ==
    LET tok == TokenAt(toks, i)
    IN  CASE tok = "-" ->
                LET r == ParseExpr(toks, i + 1, UnaryBp)
                IN  IF Stopped(r) THEN r ELSE Read(Neg(r.tree), r.next)
          [] tok = "(" ->
                LET r == ParseExpr(toks, i + 1, 0)
                IN  IF Stopped(r) THEN r
                    ELSE IF TokenAt(toks, r.next) = ")" THEN Read(r.tree, r.next + 1) ELSE Failed
          [] tok \in Identifiers -> ParseIdent(toks, i)
          [] tok \in {"1", "'t'", "@p"} -> Read(Leaf(tok), i + 1)
          [] OTHER -> Failed

ParseInfix(toks, lhs, minBp) ==
    LET op == TokenAt(toks, lhs.next)
    IN  IF op \notin DOMAIN InfixBp THEN lhs
        ELSE IF InfixBp[op] < minBp THEN lhs
        ELSE LET rhs == ParseExpr(toks, lhs.next + 1, RightBp(op))
             IN  IF Stopped(rhs) THEN rhs
                 ELSE ParseInfix(toks, Read(Binary(op, lhs.tree, rhs.tree), rhs.next), minBp)

ParseExpr(toks, i, minBp) ==
    LET lhs == ParsePrefix(toks, i)
    IN  IF Stopped(lhs) THEN lhs ELSE ParseInfix(toks, lhs, minBp)

ParseArgs(toks, i, args) ==
    LET a == ParseExpr(toks, i, 0)
    IN  CASE Stopped(a) -> a
          [] ~Stopped(a) /\ TokenAt(toks, a.next) = "," -> ParseArgs(toks, a.next + 1, Append(args, a.tree))
          [] ~Stopped(a) /\ TokenAt(toks, a.next) = ")" -> Read(Append(args, a.tree), a.next + 1)
          [] OTHER -> Failed

(* A complete expression, and nothing after it. *)
Parse(toks) ==
    LET r == ParseExpr(toks, 1, 0)
    IN  IF r.next \in {0, Len(toks) + 1} THEN r.tree ELSE NoTree

-----------------------------------------------------------------------------
(* What an author writes for a tree: parentheses where the usual rules of  *)
(* precedence and grouping from the left ask for them, and nowhere else.   *)
RECURSIVE Spelled(_)
Level(t) == CASE t.k = "binary" -> InfixBp[t.op] [] t.k = "neg" -> UnaryBp [] OTHER -> 60
Inside(t, needed) == IF needed THEN <<"(">> \o Spelled(t) \o <<")">> ELSE Spelled(t)
Spelled(t) ==
    CASE t.k = "leaf"   -> <<t.tok>>
      [] t.k = "neg"    -> <<"-">> \o Inside(t.rhs, Level(t.rhs) < UnaryBp)
      [] t.k = "binary" -> Inside(t.lhs, Level(t.lhs) < InfixBp[t.op]) \o <<t.op>>
                              \o Inside(t.rhs, Level(t.rhs) <= InfixBp[t.op])
      [] t.k = "call"   -> <<t.func, "(">> \o FlattenSeq([i \in DOMAIN t.args |->
                              (IF i = 1 THEN <<>> ELSE <<",">>) \o Spelled(t.args[i])]) \o <<")">>

-----------------------------------------------------------------------------
ExprInit == exprStep = "idle" /\ written = NoTree /\ parsed = NoTree

WriteExpression(tree) ==
    /\ exprStep = "idle"
    /\ exprStep' = "written"
    /\ written' = [tree |-> tree, text |-> Spelled(tree)]
    /\ UNCHANGED parsed

(* A text typed with one token missing, repeated or another. *)
MistypeExpression(tree, i, instead) ==
    /\ exprStep = "idle"
    /\ i \in DOMAIN Spelled(tree)
    /\ exprStep' = "written"
    /\ LET text == Spelled(tree)
       IN  written' = [tree |-> NoTree,
                       text |-> SubSeq(text, 1, i - 1) \o instead \o SubSeq(text, i + 1, Len(text))]
    /\ UNCHANGED parsed

ParseExpression ==
    /\ exprStep = "written"
    /\ exprStep' = "parsed"
    /\ parsed' = Parse(written.text)
    /\ UNCHANGED written

-----------------------------------------------------------------------------
(* An expression means what its author wrote: the tree that was printed is *)
(* the tree that is read, and a mistyped text is refused or is another     *)
(* expression written out, never read past a token or into one. *)
ReadAsWritten ==
    exprStep = "parsed" =>
        IF written.tree # NoTree THEN parsed = written.tree
        ELSE parsed \notin {NoTree, NoFunction} =>
                SelectSeq(Spelled(parsed), LAMBDA x : x \notin {"(", ")"})
                    = SelectSeq(written.text, LAMBDA x : x \notin {"(", ")"})
=============================================================================
