----------------------------- MODULE ExprValue -----------------------------
(***************************************************************************)
(* What an expression is worth (data-expr: eval.rs over the values of      *)
(* data-core/value.rs, families/logic.rs, CONCAT of families/text.rs and   *)
(* the arity check build.rs generates).                                    *)
(*                                                                         *)
(* Values are those of PropertyValue; an error has a code here.  Joining   *)
(* two texts joins their pieces, which is exact while no two numerals      *)
(* meet.  The kernels of the other families are left out.                  *)
(***************************************************************************)
EXTENDS Expression, PropertyValue
LOCAL INSTANCE SequencesExt
LOCAL INSTANCE FiniteSetsExt

CONSTANT Alphabet   \* the pieces texts are made of, as their characters sort

VARIABLES
    env,        \* the record and the parameter: [name, param]
    result      \* what the expression evaluated to

valueVars == <<exprVars, env, result>>

-----------------------------------------------------------------------------
(* Errors and coercions                                                    *)

Fault(code) == [t |-> "error", code |-> code]
IsFault(v)  == v.t = "error"

\* as_bool, as a value: the boolean, or the error it ends in.
Condition(v) ==
    IF IsFault(v) THEN v
    ELSE IF AsBool(v) = {} THEN Fault("#TYPE") ELSE Bool(CHOOSE b \in AsBool(v) : TRUE)

NotNumbers(l, r) == NoNumber \in {AsNumber(l), AsNumber(r)}

-----------------------------------------------------------------------------
(* Operators                                                               *)

ApplyNeg(v) ==
    CASE IsFault(v) -> v
      [] ~IsFault(v) /\ AsNumber(v) = NoNumber -> Fault("#TYPE")
      [] OTHER -> Number(IF AsNumber(v) = NotFinite THEN NotFinite ELSE -AsNumber(v))

Quotient(a, b) == IF b > 0 THEN (a * PointUnits) \div b ELSE (-a * PointUnits) \div (-b)

Arithmetic(op, a, b) ==
    IF op = "/" /\ b = 0 THEN Fault("#DIV/0")
    ELSE IF NotFinite \in {a, b} THEN Number(NotFinite)
    ELSE Number(CASE op = "+" -> a + b
                  [] op = "-" -> a - b
                  [] op = "*" -> (a * b) \div PointUnits
                  [] op = "/" -> Quotient(a, b))

\* value_eq
ValueEq(l, r) ==
    IF Null \in {l, r} THEN l = r
    ELSE IF NotNumbers(l, r) THEN AsDisplay(l) = AsDisplay(r)
    ELSE AsNumber(l) = AsNumber(r) /\ AsNumber(l) # NotFinite

\* One text before another, piece by piece.
Before(p, q) ==
    LET rank(piece) == IndexFirstSubSeq(<<piece>>, Alphabet)
    IN  \E i \in DOMAIN q :
            /\ \A j \in 1..(i - 1) : j \in DOMAIN p /\ p[j] = q[j]
            /\ i \in DOMAIN p => rank(p[i]) < rank(q[i])

\* The order cmp_op compares by: "<", "=", ">", or "none" for NaN.
OrderOf(l, r) ==
    LET a == AsNumber(l)
        b == AsNumber(r)
        p == AsDisplay(l)
        q == AsDisplay(r)
    IN  CASE NotNumbers(l, r) -> (IF p = q THEN "=" ELSE IF Before(p, q) THEN "<" ELSE ">")
          [] ~NotNumbers(l, r) /\ NotFinite \in {a, b} -> "none"
          [] OTHER -> (IF a = b THEN "=" ELSE IF a < b THEN "<" ELSE ">")

\* The orders each comparison accepts.
Accepts ==
    [op \in {"<", "<=", ">", ">="} |->
        CASE op = "<"  -> {"<"}
          [] op = "<=" -> {"<", "="}
          [] op = ">"  -> {">"}
          [] op = ">=" -> {">", "="}]

Compare(op, l, r) ==
    IF OrderOf(l, r) = "none" THEN Fault("#TYPE") ELSE Bool(OrderOf(l, r) \in Accepts[op])

ApplyBinary(op, l, r) ==
    IF IsFault(l) THEN l
    ELSE IF IsFault(r) THEN r
    ELSE CASE op = "&"  -> Pieces(AsDisplay(l) \o AsDisplay(r))
           [] op = "="  -> Bool(ValueEq(l, r))
           [] op = "<>" -> Bool(~ValueEq(l, r))
           [] op \in DOMAIN Accepts -> Compare(op, l, r)
           [] OTHER -> IF NotNumbers(l, r) THEN Fault("#TYPE")
                       ELSE Arithmetic(op, AsNumber(l), AsNumber(r))

-----------------------------------------------------------------------------
(* Functions, on values already evaluated                                  *)

Arity ==
    [f \in Functions |->
        CASE f = "IF" -> {3}
          [] f \in {"NOT", "ISBLANK", "ISERROR"} -> {1}
          [] f = "IFERROR" -> {2}
          [] f = "SWITCH" -> Nat \ 0..2
          [] OTHER -> Nat \ {0}]

\* AND and OR stop at the first condition that is not `going'.
FirstToStop(args, going) ==
    LET stops == {i \in DOMAIN args : Condition(args[i]) # Bool(going)}
    IN  IF stops = {} THEN Bool(going) ELSE Condition(args[Min(stops)])

Coalesce(args) ==
    LET given == {i \in DOMAIN args : args[i] # Null /\ ~IsFault(args[i])}
    IN  IF given = {} THEN Null ELSE args[Min(given)]

\* Cases are compared by display; a last argument without a result is the default.
Switch(args) ==
    LET cases == {i \in DOMAIN args : i % 2 = 0 /\ i < Len(args)}
        hits  == {i \in cases : AsDisplay(args[i]) = AsDisplay(args[1])}
    IN  CASE IsFault(args[1]) -> args[1]
          [] ~IsFault(args[1]) /\ hits # {} -> args[Min(hits) + 1]
          [] ~IsFault(args[1]) /\ hits = {} /\ Len(args) % 2 = 0 -> args[Len(args)]
          [] OTHER -> Null

Concat(args) ==
    LET faults == {i \in DOMAIN args : IsFault(args[i])}
    IN  IF faults # {} THEN args[Min(faults)]
        ELSE Pieces(FlattenSeq([i \in DOMAIN args |-> AsDisplay(args[i])]))

If(args) ==
    IF IsFault(Condition(args[1])) THEN Condition(args[1])
    ELSE IF Condition(args[1]).b THEN args[2] ELSE args[3]

IfError(args) == IF IsFault(args[1]) THEN args[2] ELSE args[1]

Dispatch(func, args) ==
    IF Len(args) \notin Arity[func] THEN Fault("#VALUE")
    ELSE CASE func = "IF"       -> If(args)
           [] func = "AND"      -> FirstToStop(args, TRUE)
           [] func = "OR"       -> FirstToStop(args, FALSE)
           [] func = "NOT"      -> (IF IsFault(Condition(args[1])) THEN Condition(args[1])
                                    ELSE Bool(~Condition(args[1]).b))
           [] func = "ISBLANK"  -> Bool(args[1] \in {Null, Pieces(<<>>)})
           [] func = "ISERROR"  -> Bool(IsFault(args[1]))
           [] func = "IFERROR"  -> IfError(args)
           [] func = "COALESCE" -> Coalesce(args)
           [] func = "SWITCH"   -> Switch(args)
           [] func = "CONCAT"   -> Concat(args)

-----------------------------------------------------------------------------
(* The tree walk: every argument is evaluated, the discarded ones too      *)

LeafValue(tok, e) ==
    CASE tok = "1"    -> Number(PointUnits)
      [] tok = "'t'"  -> Pieces(<<W("t")>>)
      [] tok = "TRUE" -> Bool(TRUE)
      [] tok = "name" -> e.name
      [] tok = "@p"   -> e.param
      [] OTHER        -> Null       \* NULL, and a field the record has not

Kids(t) ==
    CASE t.k = "leaf"   -> <<>>
      [] t.k = "neg"    -> <<t.rhs>>
      [] t.k = "binary" -> <<t.lhs, t.rhs>>
      [] t.k = "call"   -> t.args

RECURSIVE Eval(_, _)
Eval(t, e) ==
    CASE t.k = "leaf"   -> LeafValue(t.tok, e)
      [] t.k = "neg"    -> ApplyNeg(Eval(t.rhs, e))
      [] t.k = "binary" -> ApplyBinary(t.op, Eval(t.lhs, e), Eval(t.rhs, e))
      [] t.k = "call"   -> Dispatch(t.func, [i \in DOMAIN t.args |-> Eval(t.args[i], e)])

-----------------------------------------------------------------------------
NoEnv == [name |-> Null, param |-> Null]

ValueInit == ExprInit /\ env = NoEnv /\ result = Null

(* eval_str, on a text that has been parsed. *)
EvaluateExpression(e) ==
    /\ exprStep = "parsed"
    /\ exprStep' = "evaluated"
    /\ env' = e
    /\ result' = CASE parsed = NoFunction -> Fault("#NAME")
                   [] parsed = NoTree     -> Fault("#PARSE")
                   [] OTHER               -> Eval(parsed, e)
    /\ UNCHANGED <<written, parsed>>

-----------------------------------------------------------------------------
Tree == exprStep = "evaluated" /\ parsed \notin {NoTree, NoFunction}

RECURSIVE Within(_)
Within(t) == {t} \cup UNION {Within(Kids(t)[i]) : i \in DOMAIN Kids(t)}

\* The calls that may do without argument i: those that ask about an error,
\* those that have a fallback, and the branches a condition passed over.
DoesWithout(t, i, v) ==
    /\ t.k = "call"
    /\ \/ t.func \in {"ISERROR", "ISBLANK", "COALESCE"}
       \/ t.func = "IFERROR" /\ (i = 1 \/ ~IsFault(v[1]))
       \/ t.func = "IF" /\ i = (IF Condition(v[1]) = Bool(TRUE) THEN 3 ELSE 2)
       \/ t.func \in {"AND", "OR"} /\ \E j \in 1..(i - 1) : Condition(v[j]) = Bool(t.func = "OR")
       \/ t.func = "SWITCH" /\ i > 1

(* "Errors propagate as values" (eval.rs): an error anywhere in an         *)
(* expression is in its value, unless a call may do without that argument. *)
ErrorsSurface ==
    Tree => \A s \in Within(parsed) :
        LET v == [i \in DOMAIN Kids(s) |-> Eval(Kids(s)[i], env)]
        IN  \A i \in DOMAIN v : IsFault(v[i]) => IsFault(Eval(s, env)) \/ DoesWithout(s, i, v)

\* What the comparisons of two values say, given as the operators that hold.
Ordinary(v) == v # Null /\ ~IsFault(v) /\ AsNumber(v) # NotFinite
TrueOf(l, r) == {op \in {"=", "<>"} \cup DOMAIN Accepts : ApplyBinary(op, l, r) = Bool(TRUE)}

(* The two comparisons of eval.rs agree: of two values exactly one of <, = *)
(* and > holds, the others follow, and they turn around with the operands. *)
(* Null is left out (neither below, above nor equal to ""), and so is a    *)
(* text that spells NaN, which is not equal to itself.                     *)
ComparisonsAgree ==
    Tree /\ parsed.k = "binary" =>
        LET l     == Eval(parsed.lhs, env)
            r     == Eval(parsed.rhs, env)
            there == TrueOf(l, r)
            back  == TrueOf(r, l)
        IN  Ordinary(l) /\ Ordinary(r) =>
                /\ there \in {{"=", "<=", ">="}, {"<", "<=", "<>"}, {">", ">=", "<>"}}
                /\ \A p \in {<<"=", "=">>, <<"<", ">">>, <<">", "<">>} : p[1] \in there <=> p[2] \in back

(* An expression is worth what its author wrote. *)
ExpressionSound == ReadAsWritten /\ ErrorsSurface /\ ComparisonsAgree
=============================================================================
