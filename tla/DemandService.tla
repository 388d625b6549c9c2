--------------------------- MODULE DemandService ----------------------------
(***************************************************************************)
(* What the demand path of one layer promises to the layer's MoE kernel,   *)
(* with no rows, reads, leases or predictions in sight: a route is asked   *)
(* for; the answer serves every routed expert's own weights and goes on    *)
(* serving them until the kernel is done; and a demand is refused only     *)
(* when the route and the pinned experts do not fit the pool together.     *)
(***************************************************************************)
EXTENDS Naturals, FiniteSets

CONSTANTS
    Experts,    \* the experts of the layer
    Slots       \* experts the pool can hold at once

VARIABLES
    phase,      \* "idle", "asked" or "answered"
    asked,      \* the route being served
    served,     \* experts whose weights the kernel can read
    pins        \* experts promised to stay in the pool

vars == <<phase, asked, served, pins>>

Init == phase = "idle" /\ asked = {} /\ served = {} /\ pins = {}

Ask(R) ==
    /\ phase = "idle" /\ R # {}
    /\ phase' = "asked" /\ asked' = R
    /\ UNCHANGED <<served, pins>>

Answer ==
    /\ phase = "asked"
    /\ phase' = "answered" /\ served' = asked
    /\ UNCHANGED <<asked, pins>>

Refuse ==
    /\ phase = "asked" /\ Cardinality(asked \cup pins) > Slots
    /\ phase' = "idle" /\ asked' = {}
    /\ UNCHANGED <<served, pins>>

Done ==
    /\ phase = "answered"
    /\ phase' = "idle" /\ asked' = {} /\ served' = {}
    /\ UNCHANGED pins

Pin(S) ==
    /\ phase = "idle" /\ Cardinality(pins \cup S) <= Slots
    /\ pins' = pins \cup S
    /\ UNCHANGED <<phase, asked, served>>

Next ==
    \/ \E R \in SUBSET Experts : Ask(R) \/ Pin(R)
    \/ Answer \/ Refuse \/ Done

Spec == Init /\ [][Next]_vars
=============================================================================
