--------------------------- MODULE MCResidentPool ---------------------------
(***************************************************************************)
(* Three experts over two rows, the first allocation of one row.          *)
(***************************************************************************)
EXTENDS ResidentPool, TLC

CONSTANTS e1, e2, e3

\* A run ends with the first ValueError.
OneError == raised = {}
Symmetry == Permutations(Experts)
Loaders == {<<"sync", "lfu">>, <<"sync", "lru">>, <<"async", "lfu">>, <<"bg", "lru">>,
            <<"blob", "lru">>, <<"dual", "lru">>}
Dual == {<<"dual", "lfu">>}
=============================================================================
