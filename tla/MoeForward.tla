----------------------------- MODULE MoeForward -----------------------------
(***************************************************************************)
(* One forward of the target model (mtp/generate.py, core/moe/block.py,    *)
(* core/cache/virtual_pool.py, core/prefetch/cross_layer.py) layer by      *)
(* layer: the decoder call, which may find its attention already moved to  *)
(* the layer before; the predictions for later layers; the demand, whose   *)
(* result may hold throwaway rows under a replay flag; and how the         *)
(* decoder takes the flags, restores the caches and replays.               *)
(*                                                                         *)
(* A route position is right when it was computed from its own expert's    *)
(* row.  Entry mappings are right where they hit, final mappings always    *)
(* (RealPool, RowLease).  A cache is what was fed to it since the last     *)
(* commit.                                                                 *)
(***************************************************************************)
EXTENDS Integers, SequencesExt, FiniteSetsExt

CONSTANTS
    NL,          \* layers
    Positions,   \* route positions of a layer: tokens times top_k
    Ahead,       \* ahead_for of a target layer
    MultiAhead,  \* PREFETCH_MULTISTAGE_EARLY_AHEAD
    Configs,     \* switches
    Routes,      \* what a prefill may route to, per position
    GroupCap, GroupMax, \* experts and assignments of an expert-major group
    MaxSteps,    \* bound on verify steps
    None

Layers == 0 .. NL - 1
Verifies == {"batch", "rescue", "step", "paths"}

ASSUME MoeForwardAssumption ==
    /\ {NL, MultiAhead, GroupCap, GroupMax, MaxSteps} \subseteq Nat \ {0}
    /\ IsFiniteSet(Positions)
    /\ Ahead \in [1 .. NL - 1 -> Nat \ {0}]
    /\ Configs \subseteq
         [verify : Verifies, commits : BOOLEAN, async : BOOLEAN, budget : [Layers -> Nat],
          partition : BOOLEAN, localfix : BOOLEAN, custom : BOOLEAN, single : BOOLEAN,
          suffix : BOOLEAN, optimistic : BOOLEAN, exactgpu : BOOLEAN,
          progressive : SUBSET Layers, fuse : BOOLEAN, multi : BOOLEAN, ready : BOOLEAN,
          wide : BOOLEAN]
    /\ Routes \subseteq Seq(Nat)

VARIABLES
    cfg,
    pc,        \* what mtp_generate does
    fwd,       \* the forward under way: kind, first layer, layer, switches
    good,      \* the hidden state that enters the layer is the exact one
    at,        \* where the layer is: "attend", "predict", "serve"
    fed,       \* per layer, what its cache was fed since the last commit: exact or not
    gen, last, \* VirtualPool._gen and _last_layer
    pools,     \* layers whose pool was built
    prog,      \* _progressive: targets whose early prediction awaits refinement
    ready,     \* _progressive_ready_dummy: the exact route is known early
    fused,     \* _fused_prefetch_pending: <<gen, trigger, target>>
    deferred,  \* host-ready predictions of the block
    moved,     \* _prefetch_adjacent_reuse: <<gen, layer>>
    asked,     \* predictions submitted in this forward: <<target, source, where>>
    flags,     \* layers with a true flag in _optimistic_miss_flags
    inputs,    \* exactness of the captured inputs of each layer
    optLayers, \* optimistic_layers of the request
    steps

python == <<pc, fwd, inputs, optLayers, steps>>
caches == <<good, at, fed, moved>>
vpool == <<gen, last, pools, prog, ready, fused, deferred, asked, flags>>
vars == <<cfg, python, caches, vpool>>

SparseEnabled == \E l \in Layers : cfg.budget[l] > 0
InitialOptimistic == IF cfg.optimistic THEN cfg.progressive \ {0} ELSE {}
OptimisticMode == cfg.verify \notin {"step", "paths"} /\ InitialOptimistic # {}
SparseReplayMode ==
    SparseEnabled /\ ~cfg.localfix /\ cfg.async /\ cfg.verify = "batch"
Captures == SparseReplayMode /\ cfg.commits /\ cfg.suffix

Forward(kind, start, async, noio) ==
    [kind |-> kind, start |-> start, layer |-> start, async |-> async, noio |-> noio,
     warm |-> pools = Layers]

Init ==
    /\ cfg \in Configs
    /\ pc = "forward" /\ good = TRUE /\ at = "attend"
    /\ pools = {}
    /\ fwd = Forward("prefill", 0, cfg.async, {})
    /\ fed = [l \in Layers |-> <<>>]
    /\ gen = 0 /\ last = -1
    /\ prog = {} /\ ready = {} /\ fused = {} /\ deferred = {} /\ moved = {} /\ asked = {} /\ flags = {}
    /\ inputs = [l \in Layers |-> None]
    /\ optLayers = InitialOptimistic
    /\ steps = 0

L == fwd.layer
Running(where) == pc = "forward" /\ at = where /\ L \in Layers
Prefilling == fwd.kind = "prefill"
-----------------------------------------------------------------------------
(* The decoder call up to its MoE block.                                   *)

\* Attention and cache update, unless the layer before has done them on
\* this very input and cache; begin_forward, a new one when the layer
\* number does not rise.
Attend ==
    /\ Running("attend")
    /\ LET again == <<gen, L>> \in moved
           g == IF L <= last THEN gen + 1 ELSE gen
           kept(S) == {k \in S : k[1] >= g}
       IN  /\ fed' = IF again THEN fed ELSE [fed EXCEPT ![L] = Append(@, good)]
           /\ gen' = g /\ prog' = kept(prog) /\ ready' = kept(ready) /\ fused' = kept(fused)
           /\ asked' = IF L = fwd.start THEN {} ELSE asked
    /\ moved' = {m \in moved : m[2] # L}
    /\ inputs' = [inputs EXCEPT ![L] = good]
    /\ last' = L /\ at' = "predict"
    /\ UNCHANGED <<cfg, pc, fwd, good, pools, deferred, flags, optLayers, steps>>
-----------------------------------------------------------------------------
(* Predictions of a block.                                                 *)

TargetsFor(l) == {t \in l + 1 .. NL - 1 : t - Ahead[t] = l}

\* With PREFETCH_MULTISTAGE_EARLY, one more target far ahead.
Targets(l) == TargetsFor(l) \cup {t \in Layers : cfg.multi /\ t = l + MultiAhead}

\* A single ordinary target rides on the demand of the next block.
Fusable(l) ==
    {t \in Targets(l) : /\ cfg.fuse /\ fwd.async /\ Targets(l) = {t}
                        /\ t \notin cfg.progressive /\ t \in pools /\ t - l >= 2}

\* (mutant) A target handed to the demand is submitted here as well.
ScheduledNowAll(l) == Targets(l)

\* _targets without _fused_scheduled_targets
ScheduledNow(l) == Targets(l) \ Fusable(l)

HostReady == cfg.ready /\ ~fwd.async

\* A second progressive record of the same forward raises.
Duplicate ==
    ~HostReady /\ \E t \in ScheduledNow(L) \cap cfg.progressive \cap pools : <<gen, t>> \in prog

\* Early submissions whose target will be refined leave a record.
Recorded(now) == {<<gen, t>> : t \in now \cap cfg.progressive}

Predict ==
    /\ Running("predict") /\ ~Prefilling
    /\ LET now == ScheduledNow(L) \cap pools IN
       IF Duplicate
       THEN pc' = "raised" /\ UNCHANGED <<prog, fused, deferred, asked, at>>
       ELSE /\ at' = "serve" /\ UNCHANGED pc
            /\ IF HostReady
               THEN /\ deferred' = Targets(L)
                    /\ UNCHANGED <<prog, fused, asked>>
               ELSE /\ asked' = asked \cup {<<t, L, L>> : t \in now}
                    /\ prog' = prog \cup Recorded(now)
                    /\ fused' = fused \cup {<<gen, L + 1, t>> : t \in Fusable(L)}
                    /\ deferred' = {}
    /\ UNCHANGED <<cfg, fwd, good, fed, moved, gen, last, pools, ready, flags, inputs, optLayers, steps>>
-----------------------------------------------------------------------------
(* The demand and what the block makes of its mappings.                    *)

Rows == Cardinality(Positions)
Least(a, b) == IF a < b THEN a ELSE b
NoIO == L \in fwd.noio

\* Handler-free lookup in the GPU's table.
GpuOnly ==
    /\ cfg.exactgpu
    /\ <<gen, L>> \in ready \/ (cfg.optimistic /\ NoIO)
    /\ ~(NoIO /\ fwd.async)
    /\ cfg.optimistic => NoIO

SplitMapping == cfg.budget[L] > 0 \/ cfg.custom
Budget == Least(cfg.budget[L], Rows)
Sparse == fwd.async /\ ~GpuOnly /\ SplitMapping /\ ~cfg.single /\ Budget > 0

\* argsort puts the positions with the wanted key first: any set of n
\* positions that prefers them.
First(n, S) == {E \in SUBSET Positions : Cardinality(E) = n /\ (E \subseteq S \/ S \subseteq E)}

\* The positions whose result comes from the final mapping, given the hits
\* of the entry mapping.  The rest comes from the entry mapping, row zero
\* where it has missed.
FromFinal(hit) ==
    LET miss == Positions \ hit IN
    IF GpuOnly THEN {{}}
    ELSE IF ~fwd.async \/ ~SplitMapping \/ cfg.single THEN {Positions}
    ELSE IF Budget = 0 THEN {miss}
    ELSE IF cfg.partition
         THEN {(Positions \ early) \cup (IF cfg.localfix THEN early \ hit ELSE {}) :
                 early \in First(Rows - Budget, hit)}
         ELSE {corrected \cap miss : corrected \in First(Budget, miss)}

\* (mutant) One position too many is let through.
FlaggedLate(hit) ==
    \/ GpuOnly /\ NoIO /\ hit # Positions
    \/ Sparse /\ ~(cfg.partition /\ cfg.localfix) /\ Cardinality(Positions \ hit) > Budget + 1

\* optimistic_safe_local and record_lazy_replay_flag
Flagged(hit) ==
    \/ GpuOnly /\ NoIO /\ hit # Positions
    \/ Sparse /\ ~(cfg.partition /\ cfg.localfix) /\ Cardinality(Positions \ hit) > Budget

Submitted(T) == {<<t, L, L>> : t \in T \cap pools}

\* The fused prediction of an earlier block rides on the plain async demand.
FusedHere == {k[3] : k \in {f \in fused : f[1] = gen /\ f[2] = L}}
Rides == fwd.async /\ ~GpuOnly /\ ~SplitMapping

\* After the block, the next layer's attention runs on its real cache when
\* its early prediction awaits the exact route, and the refinement is sent.
Refines == <<gen, L + 1>> \in prog /\ ~cfg.wide

Serve ==
    /\ Running("serve") /\ ~Prefilling
    /\ \E hit \in SUBSET Positions : \E final \in FromFinal(hit) :
       /\ good' = (good /\ (Positions \ final) \subseteq hit)
       /\ flags' = IF Flagged(hit) THEN flags \cup {L} ELSE flags
       /\ IF Refines
          THEN fed' = [fed EXCEPT ![L + 1] = Append(@, good')] /\ moved' = moved \cup {<<gen, L + 1>>}
          ELSE UNCHANGED <<fed, moved>>
    /\ prog' = IF Refines THEN prog \ {<<gen, L + 1>>} ELSE prog
    /\ ready' = (ready \ {<<gen, L>>}) \cup (IF Refines THEN {<<gen, L + 1>>} ELSE {})
    /\ fused' = {k \in fused : ~(k[1] = gen /\ k[2] = L)}
    /\ asked' = asked \cup Submitted(deferred) \cup (IF Rides THEN {<<t, L - 1, L>> : t \in FusedHere} ELSE {})
    /\ deferred' = {}
    /\ pools' = pools \cup {L}
    /\ fwd' = [fwd EXCEPT !.layer = @ + 1] /\ at' = "attend"
    /\ UNCHANGED <<cfg, pc, gen, last, inputs, optLayers, steps>>
-----------------------------------------------------------------------------
(* Expert-major prefill: groups of experts, in expert order, each computed *)
(* from a bank that holds this group only.                                 *)

Uses(route, e) == Cardinality({p \in DOMAIN route : route[p] = e})
UpTo(route, e) == Cardinality({p \in DOMAIN route : route[p] <= e})

\* The experts of a route in increasing order.
Ascending(S) ==
    [k \in 1 .. Cardinality(S) |-> CHOOSE e \in S : Cardinality({x \in S : x < e}) = k - 1]

\* argsort: the q-th assignment by expert is of the expert whose stretch holds q.
ByExpert(route) ==
    [q \in DOMAIN route |->
        CHOOSE e \in ToSet(route) : UpTo(route, e) - Uses(route, e) < q /\ q <= UpTo(route, e)]

Join(groups, e, n) ==
    LET g == groups[Len(groups)] IN
    IF g.experts # <<>> /\ (Len(g.experts) >= GroupCap \/ g.n + n > GroupMax)
    THEN Append(groups, [experts |-> <<e>>, n |-> n])
    ELSE [groups EXCEPT ![Len(groups)] = [experts |-> Append(g.experts, e), n |-> g.n + n]]

Groups(route) ==
    FoldLeft(LAMBDA gs, e : Join(gs, e, Uses(route, e)), <<[experts |-> <<>>, n |-> 0]>>,
             Ascending(ToSet(route)))

\* The slice of the argsorted assignments that belongs to group i, as experts.
Slice(route, i) ==
    LET gs == Groups(route)
        upTo(k) == FoldLeft(LAMBDA s, g : s + g.n, 0, SubSeq(gs, 1, k))
    IN  SubSeq(ByExpert(route), upTo(i - 1) + 1, upTo(i))

\* Each assignment is in one slice, and finds its expert in the group's bank.
GroupedRight(route) ==
    LET gs == Groups(route) IN
    /\ FoldLeft(LAMBDA s, g : s + g.n, 0, gs) = Len(route)
    /\ \A i \in DOMAIN gs : ToSet(Slice(route, i)) \subseteq ToSet(gs[i].experts)

PrefillLayer ==
    /\ Running("predict") /\ Prefilling
    /\ \E route \in Routes : good' = (good /\ GroupedRight(route))
    /\ fwd' = [fwd EXCEPT !.layer = @ + 1] /\ at' = "attend"
    /\ UNCHANGED <<cfg, pc, fed, moved, gen, last, pools, prog, ready, fused, deferred, asked, flags,
                   inputs, optLayers, steps>>
-----------------------------------------------------------------------------
(* mtp_generate.                                                           *)

Ended(kinds) == pc = "forward" /\ L = NL /\ fwd.kind \in kinds
Run(f, g) == pc' = "forward" /\ fwd' = f /\ good' = g /\ at' = "attend"
Keep == pc' = "kept" /\ UNCHANGED <<fwd, good, at>>
Restored(from) == fed' = [l \in Layers |-> IF l >= from THEN <<>> ELSE fed[l]]

EndPrefill ==
    /\ Ended({"prefill"}) /\ Keep
    /\ UNCHANGED <<cfg, fed, moved, vpool, inputs, optLayers, steps>>

Verify ==
    /\ pc = "step" /\ steps < MaxSteps
    /\ steps' = steps + 1
    /\ Run(Forward("verify", 0, cfg.async, IF OptimisticMode THEN optLayers ELSE {}), TRUE)
    /\ UNCHANGED <<cfg, fed, moved, vpool, inputs, optLayers>>

\* step mode feeds the tokens one by one.
StepAgain ==
    /\ Ended({"verify"}) /\ cfg.verify = "step" /\ Len(fed[0]) = 1
    /\ Run(Forward("verify", 0, cfg.async, {}), TRUE)
    /\ UNCHANGED <<cfg, fed, moved, vpool, inputs, optLayers, steps>>

Accept ==
    /\ Ended({"verify"}) /\ ~OptimisticMode /\ ~SparseReplayMode
    /\ cfg.verify = "step" => Len(fed[0]) = 2
    /\ Keep
    /\ UNCHANGED <<cfg, fed, moved, vpool, inputs, optLayers, steps>>

OptimisticCheck ==
    /\ Ended({"verify"}) /\ OptimisticMode
    /\ flags' = {}
    /\ optLayers' = optLayers \ flags
    /\ IF flags = {} THEN Keep /\ UNCHANGED fed
       ELSE Restored(0) /\ Run(Forward("replay", 0, cfg.async, {}), TRUE)
    /\ UNCHANGED <<cfg, moved, gen, last, pools, prog, ready, fused, deferred, asked, inputs, steps>>

\* failed_start
ReplayStart == IF Captures THEN Min(flags) ELSE 0

\* (mutant) The replay keeps the asynchronous demand.
ReplayAsyncKept == cfg.async

\* override_demand_async(False)
ReplayAsync == FALSE

SparseCheck ==
    /\ Ended({"verify"}) /\ ~OptimisticMode /\ SparseReplayMode
    /\ flags' = {}
    /\ IF flags = {} THEN Keep /\ UNCHANGED fed
       ELSE /\ Restored(ReplayStart)
            /\ Run(Forward("replay", ReplayStart, ReplayAsync, {}),
                   IF ReplayStart = 0 THEN TRUE ELSE inputs[ReplayStart])
    /\ UNCHANGED <<cfg, moved, gen, last, pools, prog, ready, fused, deferred, asked, inputs, optLayers, steps>>

Replayed ==
    /\ Ended({"replay", "rescue", "fallback"}) /\ Keep
    /\ UNCHANGED <<cfg, fed, moved, vpool, inputs, optLayers, steps>>

\* The first draft was rejected and another chain has the right token.
Rescue ==
    /\ pc = "kept" /\ fwd.kind \in {"verify", "replay"} /\ cfg.verify = "rescue"
    /\ Restored(0)
    /\ Run(Forward("rescue", 0, cfg.async, {}), TRUE)
    /\ UNCHANGED <<cfg, moved, vpool, inputs, optLayers, steps>>

\* A cache without checkpoint: restore and replay the accepted prefix.
Fallback ==
    /\ pc = "kept" /\ fwd.kind \in {"verify", "replay", "rescue"} /\ ~cfg.commits
    /\ Restored(0)
    /\ Run(Forward("fallback", 0, cfg.async, {}), TRUE)
    /\ UNCHANGED <<cfg, moved, vpool, inputs, optLayers, steps>>

Commit ==
    /\ pc = "kept"
    /\ pc' = "step"
    /\ fed' = [l \in Layers |-> <<>>]
    /\ UNCHANGED <<cfg, fwd, good, at, moved, vpool, inputs, optLayers, steps>>

Next ==
    \/ Attend \/ Predict \/ Serve \/ PrefillLayer
    \/ EndPrefill \/ Verify \/ StepAgain \/ Accept \/ OptimisticCheck \/ SparseCheck \/ Replayed
    \/ Rescue \/ Fallback \/ Commit

Spec == Init /\ [][Next]_vars
-----------------------------------------------------------------------------
(* Properties.                                                             *)

\* What the decoder keeps is exact: no throwaway row is left in the result,
\* and every layer's cache was fed the kept tokens once, from exact inputs.
KeptExact ==
    pc = "kept" => /\ good
                   /\ \A l \in Layers :
                        fed[l] = IF cfg.verify = "step" /\ fwd.kind = "verify"
                                 THEN <<TRUE, TRUE>> ELSE <<TRUE>>

\* A verify begins with no flag of an earlier forward pending: each replay
\* is for a layer that did miss in this forward.
FlagsConsumed == pc = "step" => flags = {}

Wanted == {w \in Layers \X Layers : w[1] \in Targets(w[2])}

\* Once every pool exists, a whole forward submits each wanted prediction of
\* a target from a source exactly once, whether at once, with the host ready
\* ids or on the next block's demand; and no record is made twice.
PredictedOnce ==
    /\ pc # "raised"
    /\ Ended({"verify", "replay", "rescue", "fallback"}) /\ fwd.start = 0 /\ fwd.warm =>
         \A w \in Wanted : Cardinality({a \in asked : <<a[1], a[2]>> = w}) = 1
=============================================================================
