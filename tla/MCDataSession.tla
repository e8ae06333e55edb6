----------------------------- MODULE MCDataSession ----------------------------
(* Small instances of DataSession for TLC. *)
EXTENDS DataSession, TLC

CONSTANTS b1, q1, r1, r2, c1, c2, p0, p1, e1, buf1, buf2, s1

\* A text variable, a record flow and a property on one query: every branch of
\* the resolve (a value, a missing template, a failed coercion).
OneQueryDefinition ==
    [kind : {"variable", "recordFlow", "property"}, query : {q1}, reads : {e1}]

\* Expression e1 over content c1 cannot be coerced at record 1.
BadSecondRecord == {<<e1, c1, p0, 1>>}

\* Each buffer decodes to its own records.
OneWay == buf1 :> c1 @@ buf2 :> c2

\* Recipes are compared with each other and with NoRecipe only.
RecipeSymmetry == Permutations(Recipe)
=============================================================================
