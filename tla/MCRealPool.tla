----------------------------- MODULE MCRealPool -----------------------------
(* RealPool on small instances.                                            *)
EXTENDS RealPool, TLC

\* Experts are interchangeable, and so are rows.
Symmetry == Permutations(Experts) \cup Permutations(Rows)
=============================================================================
