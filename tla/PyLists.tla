------------------------------- MODULE PyLists -------------------------------
(* Lists as the Python code uses them.                                     *)
EXTENDS Integers, SequencesExt

\* [x for x in s if x not in gone]
Without(s, gone) == FoldLeft(LAMBDA kept, x : IF x \in gone THEN kept ELSE Append(kept, x), <<>>, s)
=============================================================================
