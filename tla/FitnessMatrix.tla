--------------------------- MODULE FitnessMatrix ----------------------------
(***************************************************************************)
(* The fitness matrix that a sort or a search works on.  Row i holds the   *)
(* fitness vector of solution i; the number of rows is chosen initially.   *)
(***************************************************************************)
EXTENDS Dominance

CONSTANT MaxLen  \* bound on the number of solutions

VARIABLE fmat

SomeMatrix == \E n \in 1 .. MaxLen : fmat \in [1 .. n -> Fitness]
=============================================================================
