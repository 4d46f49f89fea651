--------------------------- MODULE MCResultCache ----------------------------
(* Small instances of ResultCache for TLC: a small and a large result, one  *)
(* with credentials and one that is too large for the store.                *)
EXTENDS ResultCache, TLC

CONSTANT large

MCSize == [b \in Bodies |-> IF b = large THEN 2 ELSE 1]

TaskSymmetry == Permutations(Tasks)
=============================================================================
