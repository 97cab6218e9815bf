--------------------------------- MODULE MCApp ---------------------------------
(* Values for the constants of App.                                         *)
EXTENDS App

\* One letter in lower and in upper case.
LowerDef == [t \in Texts |-> IF t = "A" THEN "a" ELSE t]

\* Two votes, which the server may list in either order.
AnswersDef == {<<1, 2>>, <<2, 1>>}

\* Scalars for which the product of a base of order 52 or 26 exists, meets an entry
\* among the additions (12, 40), or only in the subtraction (0, 2, 26, 28), those
\* modulo the order included.
InputsDef == {-1, 0, 1, 2, 5, 12, 21, 26, 28, 40, CURVE_ORDER, CURVE_ORDER + 5}
=============================================================================
