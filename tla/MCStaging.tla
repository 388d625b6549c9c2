----------------------------- MODULE MCStaging -----------------------------
(***************************************************************************)
(* Two banks for up to four submissions, one row each, so that banks run   *)
(* out and come back while fills and copies are under way.                 *)
(***************************************************************************)
EXTENDS Staging

CONSTANTS e1, e2

MCExperts == {e1, e2}
MCAhead == [l \in 2 .. NL |-> IF l = 3 THEN 2 ELSE 1]
MCEarly == {<<e1, e2>>}
MCTail == {<<e2>>}
MCResidents == {{}, {e1}}
MCRoutes == {{e1, e2}}

M(kinds, layers, noio, late, faults) ==
    [kinds |-> kinds, layers |-> layers, noio |-> noio, late |-> late, faults |-> faults]
MCModes == { M(<<"host", "sync">>, {2}, FALSE, TRUE, TRUE), M(<<"sync", "sync">>, {2}, FALSE, FALSE, FALSE),
             M(<<"sync">>, {2, 3}, FALSE, FALSE, FALSE), M(<<"async">>, {2}, FALSE, FALSE, FALSE),
             M(<<"async">>, {2, 4}, TRUE, FALSE, FALSE), M(<<"promote">>, {2, 3}, FALSE, FALSE, FALSE) }

\* A forward too long for the GPU remap takes the host path, the next one does not.
HostThenAsync == { M(<<"host", "async">>, {2}, FALSE, FALSE, FALSE) }

\* A synchronous demand of a target whose refinement skips the submission.
SyncNoIO == { M(<<"sync">>, {2, 3}, TRUE, FALSE, FALSE) }
=============================================================================
