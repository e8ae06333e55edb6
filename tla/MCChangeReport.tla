---------------------------- MODULE MCChangeReport ----------------------------
(* Small instances of ChangeReport for TLC. *)
EXTENDS ChangeReport

LOCAL INSTANCE FiniteSetsExt

CONSTANTS b1, q1, t1, p0, p1, en, de

AB == <<"a", "b">>
BA == <<"b", "a">>
OnlyA == <<"a">>
Schemas == {AB, BA, OnlyA}

\* FooterAgg::Sum.
SumOf(counts) == MapThenSumSet(LAMBDA x : x * counts[x], DOMAIN counts)

\* An image of column a.
OneImage == {[kind |-> "record", query |-> q1, reads |-> {"a"}, keys |-> <<>>, template |-> t1,
              sums |-> {}]}

\* Every result of the instance.
AnyResult == Result

\* Two rows; the same in the other order; fewer rows and a column gone.
Row(x, y) == [c \in {"a", "b"} |-> IF c = "a" THEN x ELSE y]
FewResults ==
    {[schema |-> AB, rows |-> <<Row(1, 2), Row(2, 1)>>],
     [schema |-> AB, rows |-> <<Row(2, 1), Row(1, 2)>>],
     [schema |-> OnlyA, rows |-> <<Row(1, Absent)>>]}

NoSizes == [v \in {} |-> 0]
EqualSizes == [v \in {1, 2} |-> 7]
=============================================================================
