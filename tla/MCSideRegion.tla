---------------------------- MODULE MCSideRegion ----------------------------
(***************************************************************************)
(* A region of two rows and three experts over two forwards.               *)
(***************************************************************************)
EXTENDS SideRegion

CONSTANTS e1, e2, e3, r1, r2

MCExperts == {e1, e2, e3}
MCRows    == {r1, r2}
MCRoutes  == {{e1, e2}, {e2, e3}}

\* The first forward fills the region; the second predicts again, with
\* victims to take and a refinement that reorders and adds a candidate.
MCEarly   == <<{<<e1, e2>>}, {<<e2, e3>>}>>
MCTail    == <<{}, {<<e3, e1, e2>>}>>

M(leases, late, cancel, split, wait, tail) ==
    [leases |-> leases, late |-> late, cancel |-> cancel, jobs |-> split,
     wait |-> wait, tail |-> tail, reset |-> FALSE]

\* Leases on: callbacks in any order, refinement joined by the demand.  Leases
\* off (the default): callbacks in stream order.  The three ways to split a
\* batch and to wait for it occur once each.
MCModes ==
    { M(TRUE,  TRUE,  TRUE,  "rows",  "refinement", 1),
      M(FALSE, FALSE, TRUE,  "first", "pending",    2),
      M(FALSE, FALSE, FALSE, "batch", "none",       1) }

\* The books are reset while reads are in flight.
WithReset == { [M(FALSE, FALSE, FALSE, "batch", "none", 1) EXCEPT !.reset = TRUE] }
=============================================================================
