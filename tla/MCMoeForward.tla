---------------------------- MODULE MCMoeForward ----------------------------
(* Four layers and three route positions: a layer may miss up to its        *)
(* budget, above it, or not at all.  Every record of MCConfigs is a set of  *)
(* switches the code supports together; MCLossy are those it accepts and    *)
(* does not replay exactly.                                                 *)
EXTENDS MoeForward

MCPositions == 1 .. 3
MCAhead == 1 :> 1 @@ 2 :> 2 @@ 3 :> 2
MCRoutes == {<<0>>, <<1, 0, 1, 2>>, <<2, 2, 2, 0, 3>>}

\* The two orders of an expert-major prefill are those of the library's sort.
ASSUME OrdersAreSorted ==
    \A route \in UNION {[1 .. n -> 0 .. 3] : n \in 0 .. 4} :
        /\ ByExpert(route) = SortSeq(route, <)
        /\ Ascending(ToSet(route)) = SetToSortSeq(ToSet(route), <)

Plain == [verify |-> "batch", commits |-> TRUE, async |-> TRUE, budget |-> [l \in Layers |-> 0],
          partition |-> FALSE, localfix |-> FALSE, custom |-> FALSE, single |-> FALSE, suffix |-> FALSE,
          optimistic |-> FALSE, exactgpu |-> FALSE, progressive |-> {}, fuse |-> FALSE, multi |-> FALSE,
          ready |-> FALSE, wide |-> FALSE]

\* Layers 1 and 3 correct one and two positions.
SparseBudget == [Plain EXCEPT !.budget = 0 :> 0 @@ 1 :> 1 @@ 2 :> 0 @@ 3 :> 2, !.progressive = {2}]

AsyncConfigs ==
    {[Plain EXCEPT !.verify = v, !.custom = c, !.fuse = ~c, !.multi = ~c, !.single = b, !.commits = k,
                   !.progressive = p] :
        v \in Verifies, c \in BOOLEAN, b \in BOOLEAN, k \in BOOLEAN, p \in {{}, {1, 2}}}

SparseConfigs ==
    {[SparseBudget EXCEPT !.suffix = s, !.partition = p] : s \in BOOLEAN, p \in BOOLEAN} \cup
    {[SparseBudget EXCEPT !.partition = TRUE, !.localfix = TRUE, !.commits = k, !.verify = v] :
        k \in BOOLEAN, v \in {"batch", "rescue"}}

OptimisticConfigs ==
    {[Plain EXCEPT !.async = FALSE, !.optimistic = TRUE, !.exactgpu = e, !.ready = y,
                   !.progressive = {1, 3}, !.commits = k, !.verify = v, !.wide = w] :
        e \in BOOLEAN, y \in BOOLEAN, k \in BOOLEAN, v \in {"batch", "rescue"}, w \in BOOLEAN}

MCConfigs == AsyncConfigs \cup SparseConfigs \cup OptimisticConfigs

MCLossy ==
    {[SparseBudget EXCEPT !.verify = v] : v \in {"rescue", "step", "paths"}} \cup
    {[SparseBudget EXCEPT !.commits = FALSE], [SparseBudget EXCEPT !.localfix = TRUE],
     [SparseBudget EXCEPT !.optimistic = TRUE], [Plain EXCEPT !.async = FALSE, !.exactgpu = TRUE,
                                                               !.progressive = {1, 3}]}

\* A fused prediction whose next block maps its route in two passes; a
\* progressive target that is also predicted far ahead.
MCDropped == {[Plain EXCEPT !.fuse = TRUE, !.custom = TRUE]}
MCTwice == {[Plain EXCEPT !.multi = TRUE, !.progressive = {3}]}
=============================================================================
