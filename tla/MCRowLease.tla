----------------------------- MODULE MCRowLease -----------------------------
(* RowLease on small instances.                                            *)
EXTENDS RowLease, TLC

\* Experts, rows and threads are interchangeable.
Symmetry ==
    Permutations(Experts) \cup Permutations(Rows) \cup Permutations(Threads)
=============================================================================
