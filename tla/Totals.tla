------------------------------- MODULE Totals -------------------------------
(***************************************************************************)
(* The days a set of rewards is worth together, counted one by one.        *)
(***************************************************************************)
EXTENDS Naturals, FiniteSets

DaysOf(r, worth) == {r} \X (1 .. worth[r])

Total(R, worth) == Cardinality(UNION {DaysOf(r, worth) : r \in R})
=============================================================================
