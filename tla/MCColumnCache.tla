---------------------------- MODULE MCColumnCache ----------------------------
(* Small instances of ColumnCache for TLC.                                 *)
EXTENDS ColumnCache, TLC

CONSTANTS l1, l2

OneLoad  == {l1}
TwoLoads == {l1, l2}
NoWarmup == {}
SecondWarms == {l2}

Symmetry == Permutations(TwoLoads)
=============================================================================
