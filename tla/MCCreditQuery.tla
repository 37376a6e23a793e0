--------------------------- MODULE MCCreditQuery ---------------------------
(* Instances of CreditQuery for TLC. *)
EXTENDS CreditQuery

CONSTANTS a, b

Item(s, p) == [symbol |-> s, price |-> p]

\* Two symbols, and two prices of one.
SomeBatches == {<<Item(a, 1), Item(b, 1)>>, <<Item(a, 2), Item(a, 1)>>}
=============================================================================
