------------------------------ MODULE SpecDecode ------------------------------
(***************************************************************************)
(* Self-speculative decoding: mtp_generate (mtp/generate.py) over the      *)
(* caches of the main model (mtp/kv_cache.py) and the drafts of the MTP    *)
(* head (mtp/drafter.py).  A step drafts tokens, runs them through the     *)
(* main model in one forward, accepts the longest verified prefix and      *)
(* brings every layer's cache back to exactly the accepted tokens.         *)
(*                                                                         *)
(* The model is an operator, Argmax, from a context to the next token.  A  *)
(* layer's cache is the sequence of tokens it has absorbed, or Bad in the  *)
(* place of a token whose input was not the exact one; what a forward      *)
(* returns at a position is the context it was computed from, or Bad.      *)
(* Drafts are arbitrary: nothing here depends on their quality.            *)
(*                                                                         *)
(* The request (Start) and what becomes of the cache afterwards belong to  *)
(* the caller, module ChatSession.                                         *)
(***************************************************************************)
EXTENDS Naturals, Sequences, FiniteSets

CONSTANTS
    Tokens,         \* the vocabulary
    Argmax(_),      \* greedy next token of the main model after a context
    NumLayers,      \* decoder layers
    Linear,         \* layers with a recurrent state (ArraysCache)
    Progressive,    \* layers an optimistic verify may run without I/O
    K,              \* --k, drafts of a step
    DepthMax,       \* MTP_DEPTH_MAX, drafts of an adaptive step
    Branches,       \* TREE_BRANCHES
    MaxTokens,      \* max_tokens of a request
    Configs,        \* the flag records of the environment considered
    Bad             \* computed from anything but the accepted context

Layers == 1..NumLayers

\* MTP_VERIFY_MODE; TREE_TOP2, TREE_TOP2_P1 and TREE_VERIFY; MTP_ADAPTIVE_DEPTH
\* and _RESCUE; PREFETCH_OPTIMISTIC_VERIFY; a sparse miss budget under asynchronous
\* demand without local correction; its suffix replay; and whether every recurrent
\* layer is the patched Qwen3NextGatedDeltaNet.
Flags == [verify : {"batch", "step"}, tree : {"none", "top2", "top2_p1", "paths"},
          adaptive : BOOLEAN, rescue : BOOLEAN, optimistic : BOOLEAN,
          sparse : BOOLEAN, suffix : BOOLEAN, patched : BOOLEAN]

ASSUME SpecDecodeAssumption ==
    /\ NumLayers \in Nat \ {0} /\ Linear \subseteq Layers
    /\ Progressive \subseteq Layers
    /\ K \in Nat \ {0} /\ DepthMax \in Nat \ {0} /\ Branches \in Nat \ {0}
    /\ MaxTokens \in Nat \ {0}
    /\ Configs \subseteq Flags
    /\ Linear # Layers /\ Bad \notin Tokens \cup Seq(Tokens)

VARIABLES
    cfg,            \* environment flags of the process
    pc,             \* where mtp_generate is
    ids,            \* the prompt
    main_cache,     \* per layer: the tokens absorbed
    checkpoints,    \* per recurrent layer: armed, or the state after each token
    x,              \* the pending token, not yet in the cache
    produced,
    stopping,       \* on_tokens asked to stop
    mtp_cache,      \* tokens the MTP head has absorbed
    snap_d,         \* its snapshot of the step
    drafts,         \* the chain under verification
    branches,       \* chains B and C of the tree (empty: none)
    verify_in,
    verify_snaps,   \* stepwise verify: the caches after each token but the last
    snap_m,         \* snapshot of main_cache taken before the verify
    logits,         \* per verified position: the context it was computed from
    failed,         \* layers that reported a miss in the verify forward
    optimistic_layers,
    accepted_in,    \* the tokens the step added to main_cache
    new_tokens      \* what the step emits

step == <<drafts, branches, verify_in, verify_snaps, snap_m, logits, failed, accepted_in, new_tokens>>
vars == <<cfg, pc, ids, main_cache, checkpoints, x, produced, stopping,
          mtp_cache, snap_d, optimistic_layers, step>>

-----------------------------------------------------------------------------
(* Helpers on sequences *)

Entries(s) == {s[i] : i \in DOMAIN s}
Take(s, n) == SubSeq(s, 1, n)
Drop(s, n) == SubSeq(s, 1, Len(s) - n)
Smaller(a, b) == IF a < b THEN a ELSE b
Chains(n) == [1..n -> Tokens]

-----------------------------------------------------------------------------
(* The modes mtp_generate derives from the environment *)

TreeMode == cfg.tree \in {"top2", "top2_p1"}
TreeVerify == cfg.tree = "paths" /\ cfg.verify # "step"
AdaptiveMode == cfg.adaptive /\ cfg.tree = "none" /\ cfg.verify # "step"
AdaptiveRescue == AdaptiveMode /\ cfg.rescue
OptimisticVerify == /\ cfg.optimistic /\ Progressive # {}
                    /\ cfg.verify # "step" /\ ~TreeVerify
SparseReplay == /\ cfg.sparse /\ cfg.verify # "step"
                /\ ~TreeVerify /\ ~TreeMode /\ ~AdaptiveRescue

\* (mutant) a snapshot skipped as well in the modes that restore it
SkipSnapAlways == cfg.patched

\* _skip_snap: nothing in this mode goes back to a snapshot, and the model
\* always captures checkpoints, so the snapshot is not taken.
SkipSnap == /\ cfg.verify # "step" /\ cfg.tree = "none" /\ ~AdaptiveRescue
            /\ ~OptimisticVerify /\ ~SparseReplay /\ cfg.patched
ShallowRollback == SparseReplay /\ cfg.patched
SuffixReplay == ShallowRollback /\ cfg.suffix

-----------------------------------------------------------------------------
(* The main model *)

\* Is the input of layer l exact, in a forward from layer s whose own input
\* continues the context ctx, when the layers of miss lack an expert?
ExactInput(c, s, ctx, miss, l) ==
    /\ ctx # Bad
    /\ \A m \in s..(l - 1) : m \notin miss /\ c[m] = ctx

\* What layer l absorbs of toks.
Absorbed(c, s, ctx, toks, miss, l) ==
    IF ExactInput(c, s, ctx, miss, l) THEN toks ELSE [i \in DOMAIN toks |-> Bad]

\* The caches after a forward of toks through layers s and up.
Forward(c, s, ctx, toks, miss) ==
    [l \in Layers |-> IF l < s THEN c[l]
                      ELSE c[l] \o Absorbed(c, s, ctx, toks, miss, l)]

\* The context behind the logits of each position.
Logits(c, s, ctx, toks, miss) ==
    [i \in DOMAIN toks |->
        IF ExactInput(c, s, ctx, miss, NumLayers + 1) THEN ctx \o Take(toks, i) ELSE Bad]

\* The context a full forward over cache c continues.
Context(c) == IF Bad \in Entries(c[1]) THEN Bad ELSE c[1]

\* int(mx.argmax(...)) of a position
Pred(ctx) == IF ctx = Bad THEN Bad ELSE Argmax(ctx)


\* A recurrent cache's _capture_spec_checkpoints and _spec_checkpoints.
NotCaptured == [l \in Linear |-> [armed |-> FALSE, states |-> <<>>]]
\* begin_speculative_checkpoints
Arm(layers) ==
    [l \in Linear |-> IF l \in layers THEN [armed |-> TRUE, states |-> <<>>]
                      ELSE checkpoints[l]]
\* The patched layer keeps its state after each token, once, when armed.
Captured(ck, before, after) ==
    [l \in Linear |->
        IF ck[l].armed /\ cfg.patched
        THEN [armed |-> FALSE,
              states |-> [i \in 1..(Len(after[l]) - Len(before[l])) |->
                             Take(after[l], Len(before[l]) + i)]]
        ELSE ck[l]]

-----------------------------------------------------------------------------
(* Snapshots of the main cache *)

NoSnapshot == [kind |-> "none"]
\* _snapshot copies; _shallow_rollback_checkpoint keeps the length of a
\* trimmable cache and the old arrays of a recurrent one.
Snapshot ==
    IF SkipSnap THEN NoSnapshot
    ELSE IF ShallowRollback
    THEN [kind |-> "shallow",
          state |-> [l \in Layers |-> IF l \in Linear THEN main_cache[l]
                                      ELSE Len(main_cache[l])]]
    ELSE [kind |-> "deep", state |-> main_cache]

\* _restore_shallow_rollback of the layers from s up
RestoredShallow(s) ==
    [l \in Layers |-> IF l < s THEN main_cache[l]
                      ELSE IF l \in Linear THEN snap_m.state[l]
                      ELSE Take(main_cache[l], snap_m.state[l])]

-----------------------------------------------------------------------------
(* Acceptance *)

PredsOf(row) == [i \in DOMAIN row |-> Pred(row[i])]
Preds == PredsOf(logits)

Agree(a, b, n) == \A i \in 1..n : a[i] = b[i]
\* (mutant) one draft too many is taken for verified
MatchedOneMore(chain, preds) ==
    Smaller(Len(chain),
            1 + CHOOSE n \in 0..Len(chain) :
                    /\ Agree(chain, preds, n)
                    /\ n < Len(chain) => chain[n + 1] # preds[n + 1])

\* accept_prefix
Matched(chain, preds) ==
    CHOOSE n \in 0..Smaller(Len(chain), Len(preds)) :
        /\ Agree(chain, preds, n)
        /\ n < Smaller(Len(chain), Len(preds)) => chain[n + 1] # preds[n + 1]
MatchedNow == Matched(drafts, Preds)
AcceptedLen == Smaller(MatchedNow + 1, Len(drafts))

-----------------------------------------------------------------------------
(* A request, from prefill on *)

ClearStep ==
    /\ drafts' = <<>> /\ branches' = <<<<>>, <<>>>> /\ verify_in' = <<>>
    /\ verify_snaps' = <<>> /\ snap_m' = NoSnapshot /\ logits' = <<>>
    /\ failed' = {} /\ accepted_in' = <<>> /\ new_tokens' = <<>>

\* mtp_generate up to the loop: the cache passed in is said to hold the first
\* cached_len tokens of the prompt, and only the rest is run.
Prefill(prompt, cache, cached_len) ==
    LET rest  == SubSeq(prompt, cached_len + 1, Len(prompt))
        first == Pred(Logits(cache, 1, Context(cache), rest, {})[Len(rest)])
    IN  /\ ids' = prompt
        /\ main_cache' = Forward(cache, 1, Context(cache), rest, {})
        /\ checkpoints' = NotCaptured
        /\ x' = first /\ produced' = <<first>>
        /\ stopping' \in BOOLEAN
        /\ mtp_cache' = <<>> /\ snap_d' = <<>>
        /\ optimistic_layers' = IF OptimisticVerify THEN Progressive ELSE {}
        /\ ClearStep
        /\ pc' = "loop"

Continues == Len(produced) < MaxTokens /\ ~stopping

\* The main chain of a step and its branches at the first and second position.
DraftChains ==
    LET alone(a)   == <<a, <<<<>>, <<>>>>>>
        first(a)   == {b \in Chains(Len(a)) : b[1] # a[1]}
        second(a)  == {c \in Chains(Len(a)) : c[1] = a[1] /\ c[2] # a[2]}
        deep       == UNION {Chains(n) : n \in 1..DepthMax}
    IN  IF cfg.verify # "step" /\ cfg.tree = "top2"
        THEN UNION {{<<a, <<b, <<>>>>>> : b \in first(a)} : a \in Chains(K)}
        ELSE IF cfg.verify # "step" /\ cfg.tree = "top2_p1"
        THEN UNION {{<<a, <<b, c>>>> : b \in first(a), c \in second(a)} : a \in Chains(K)}
        ELSE IF AdaptiveRescue
        THEN UNION {IF Len(a) = 1 THEN {alone(a)}
                    ELSE {<<a, <<b, <<>>>>>> : b \in first(a)} : a \in deep}
        ELSE IF AdaptiveMode THEN {alone(a) : a \in deep}
        ELSE {alone(a) : a \in Chains(K)}

\* Draft, with the tokens the MTP head absorbs on the way.
Draft ==
    /\ pc = "loop" /\ Continues /\ ~TreeVerify
    /\ \E d \in DraftChains :
          LET last == IF d[2][1] # <<>> THEN d[2][1] ELSE d[1]
          IN  /\ drafts' = d[1] /\ branches' = d[2]
              /\ verify_in' = <<x>> \o Drop(d[1], 1)
              /\ mtp_cache' = mtp_cache \o <<x>> \o Drop(last, 1)
    /\ snap_d' = mtp_cache
    /\ pc' = "drafted"
    /\ UNCHANGED <<cfg, ids, main_cache, checkpoints, x, produced, stopping,
                   optimistic_layers, verify_snaps, snap_m, logits, failed,
                   accepted_in, new_tokens>>

\* A forward over cache c that continues its context, checkpoints armed.
ForwardFrom(c, toks, miss) ==
    /\ main_cache' = Forward(c, 1, Context(c), toks, miss)
    /\ checkpoints' = Captured(Arm(Layers), c, main_cache')
    /\ logits' = Logits(c, 1, Context(c), toks, miss)

\* Layers that may run with experts absent: an optimistic verify does not wait
\* for them, and the fixed tail of a sparse demand holds only so many misses.
SparseOverflows == SUBSET (IF cfg.sparse THEN Layers ELSE {})
VerifyMisses ==
    SUBSET ((IF OptimisticVerify THEN optimistic_layers ELSE {}) \cup UNION SparseOverflows)
\* _take_optimistic_miss_flags, read in these two modes only
Detects == OptimisticVerify \/ SparseReplay

\* Snapshot and verify.  A stepwise verify keeps a snapshot after every token
\* but the last.
Verify ==
    /\ pc = "drafted"
    /\ snap_m' = Snapshot
    /\ \E miss \in VerifyMisses :
          /\ IF cfg.verify = "step"
             THEN LET after(n) == Forward(main_cache, 1, Context(main_cache),
                                          Take(verify_in, n), miss)
                  IN  /\ main_cache' = after(Len(verify_in))
                      /\ verify_snaps' = [i \in 1..(Len(verify_in) - 1) |-> after(i)]
                      /\ logits' = Logits(main_cache, 1, Context(main_cache), verify_in, miss)
                      /\ UNCHANGED checkpoints
             ELSE ForwardFrom(main_cache, verify_in, miss) /\ UNCHANGED verify_snaps
          /\ failed' = IF Detects THEN miss ELSE {}
    /\ pc' = IF failed' = {} THEN "verified" ELSE "missed"
    /\ UNCHANGED <<cfg, ids, x, produced, stopping, mtp_cache, snap_d,
                   optimistic_layers, drafts, branches, verify_in, accepted_in, new_tokens>>

RecoverUnchanged ==
    UNCHANGED <<cfg, ids, x, produced, stopping, mtp_cache, snap_d, drafts,
                branches, verify_in, verify_snaps, snap_m, accepted_in, new_tokens>>

\* An optimistic verify that missed is thrown away and run again with I/O; the
\* layers that missed stay on the safe path for the rest of the request.
ReplayOptimistic ==
    /\ pc = "missed" /\ OptimisticVerify /\ snap_m.kind = "deep"
    /\ \E miss \in SparseOverflows : ForwardFrom(snap_m.state, verify_in, miss)
    /\ optimistic_layers' = optimistic_layers \ failed
    /\ failed' = {} /\ pc' = "verified"
    /\ RecoverUnchanged

FirstFailed == CHOOSE l \in failed : \A m \in failed : l <= m

\* A sparse overflow: the whole forward again, without asynchronous demand.
ReplaySparse ==
    /\ pc = "missed" /\ ~OptimisticVerify /\ snap_m.kind # "none"
    /\ ~(SuffixReplay /\ FirstFailed > 1)
    /\ ForwardFrom(IF snap_m.kind = "shallow" THEN RestoredShallow(1) ELSE snap_m.state,
                   verify_in, {})
    /\ failed' = {} /\ pc' = "verified"
    /\ UNCHANGED optimistic_layers /\ RecoverUnchanged

\* The input of layer s captured in the forward that failed.
LayerInput(s) ==
    IF ExactInput(main_cache, 1, Context(main_cache), failed, s)
    THEN Drop(main_cache[1], Len(verify_in)) ELSE Bad

\* A sparse overflow: only the layers from the first that failed.
ReplaySuffix ==
    /\ pc = "missed" /\ ~OptimisticVerify /\ SuffixReplay
    /\ FirstFailed > 1
    /\ LET s == FirstFailed
           c == RestoredShallow(s)
       IN  /\ main_cache' = Forward(c, s, LayerInput(s), verify_in, {})
           /\ checkpoints' = Captured(Arm(s..NumLayers), c, main_cache')
           /\ logits' = Logits(c, s, LayerInput(s), verify_in, {})
    /\ failed' = {} /\ pc' = "verified"
    /\ UNCHANGED optimistic_layers /\ RecoverUnchanged

\* restore before verify the tensor state of chain B or C: the branch whose
\* token is the one the model wanted where chain A went wrong
RescueChain ==
    LET preds == Preds IN
    IF branches[1] # <<>> /\ MatchedNow = 0 /\ branches[1][1] = preds[1] THEN branches[1]
    ELSE IF branches[2] # <<>> /\ MatchedNow = 1 /\ branches[2][2] = preds[2] THEN branches[2]
    ELSE <<>>

Rescue ==
    /\ pc = "verified" /\ RescueChain # <<>> /\ snap_m.kind = "deep"
    /\ verify_in' = <<x>> \o Drop(RescueChain, 1)
    /\ \E miss \in SparseOverflows : ForwardFrom(snap_m.state, verify_in', miss)
    /\ drafts' = RescueChain
    /\ pc' = "judged"
    /\ UNCHANGED <<cfg, ids, x, produced, stopping, mtp_cache, snap_d,
                   optimistic_layers, branches, verify_snaps, snap_m, failed,
                   accepted_in, new_tokens>>

\* draft_paths: the paths differ in their first token
PathSets ==
    {p \in [1..Branches -> Chains(K)] :
        \A v, w \in 1..Branches : v # w => p[v][1] # p[w][1]}

\* tree_verify_step: every path is a row of one batched forward; the first path
\* with the most accepted drafts is the row that is kept.
VerifyPaths ==
    /\ pc = "loop" /\ Continues /\ TreeVerify
    /\ \E paths \in PathSets, miss \in SparseOverflows :
          LET input(w) == <<x>> \o Drop(paths[w], 1)
              row(w)   == Logits(main_cache, 1, Context(main_cache), input(w), miss)
              score(w) == Matched(paths[w], PredsOf(row(w)))
          IN  \E best \in 1..Branches :
                /\ \A w \in 1..Branches : score(w) <= score(best)
                /\ \A w \in 1..(best - 1) : score(w) < score(best)
                /\ drafts' = paths[best] /\ verify_in' = input(best)
                /\ ForwardFrom(main_cache, input(best), miss)
                /\ mtp_cache' = mtp_cache \o input(Branches)
    /\ snap_m' = [kind |-> "deep", state |-> main_cache]
    /\ snap_d' = mtp_cache
    /\ pc' = "judged"
    /\ UNCHANGED <<cfg, ids, x, produced, stopping, optimistic_layers,
                   branches, verify_snaps, failed, accepted_in, new_tokens>>

Judged == \/ pc = "judged"
          \/ (pc = "verified" /\ RescueChain = <<>>)

\* commit_verified_prefix (commit_tree_row on the winning row) and
\* commit_verified_snapshot
CanCommit ==
    \/ cfg.verify = "step"
    \/ \A l \in Linear : Len(checkpoints[l].states) >= AcceptedLen
\* (mutant) rejected tokens left in the trimmable caches
CommittedUntrimmed(l) ==
    IF cfg.verify # "step" /\ l \in Linear THEN checkpoints[l].states[AcceptedLen]
    ELSE main_cache[l]
Committed(l) ==
    IF cfg.verify = "step"
    THEN IF AcceptedLen = Len(drafts) THEN main_cache[l] ELSE verify_snaps[AcceptedLen][l]
    ELSE IF l \in Linear THEN checkpoints[l].states[AcceptedLen]
    ELSE Drop(main_cache[l], Len(drafts) - AcceptedLen)

\* (mutant) the pending token is not counted as run
AcceptedInMatched == Take(verify_in, MatchedNow)
AcceptedIn == Take(verify_in, AcceptedLen)

CommitUnchanged ==
    UNCHANGED <<cfg, ids, produced, stopping, snap_d, optimistic_layers, drafts,
                branches, verify_in, verify_snaps, snap_m, failed>>

Commit ==
    /\ Judged /\ CanCommit
    /\ main_cache' = [l \in Layers |-> Committed(l)]
    /\ checkpoints' = IF cfg.verify = "step" THEN checkpoints ELSE NotCaptured
    /\ mtp_cache' = snap_d
    /\ accepted_in' = AcceptedIn
    /\ new_tokens' = IF MatchedNow = Len(drafts) THEN drafts
                     ELSE Append(Take(drafts, MatchedNow), Preds[MatchedNow + 1])
    /\ x' = new_tokens'[Len(new_tokens')]
    /\ logits' = <<>> /\ pc' = "emit"
    /\ CommitUnchanged

\* A recurrent cache without checkpoints: back to the snapshot and run the
\* accepted prefix again.
Replay ==
    /\ Judged /\ ~CanCommit /\ snap_m.kind = "deep"
    /\ accepted_in' = <<x>> \o Take(drafts, MatchedNow)
    /\ \E miss \in SparseOverflows :
          LET c   == snap_m.state
              row == Logits(c, 1, Context(c), accepted_in', miss)
          IN  /\ main_cache' = Forward(c, 1, Context(c), accepted_in', miss)
              /\ x' = Pred(row[Len(accepted_in')])
    /\ new_tokens' = Append(Take(drafts, MatchedNow), x')
    /\ mtp_cache' = snap_d
    /\ logits' = <<>> /\ pc' = "emit"
    /\ UNCHANGED checkpoints /\ CommitUnchanged

\* Here the step cannot go on and raises: "batch verify commit failed but
\* snapshot was skipped", or the snapshot is not of the kind _restore unpacks.
Raises ==
    \/ (Judged /\ ~CanCommit /\ snap_m.kind # "deep")
    \/ (pc = "verified" /\ RescueChain # <<>> /\ snap_m.kind # "deep")
    \/ (pc = "missed" /\ OptimisticVerify /\ snap_m.kind # "deep")
    \/ (pc = "missed" /\ ~OptimisticVerify /\ snap_m.kind = "none")

Room == Smaller(MaxTokens - Len(produced), Len(new_tokens))

\* Append what fits, report it, and bring the MTP head up to the accepted tokens.
Emit ==
    /\ pc = "emit"
    /\ produced' = produced \o Take(new_tokens, Room)
    /\ stopping' \in BOOLEAN
    /\ mtp_cache' = mtp_cache \o accepted_in
    /\ snap_d' = <<>> /\ ClearStep
    /\ pc' = "loop"
    /\ UNCHANGED <<cfg, ids, main_cache, checkpoints, x, optimistic_layers>>

\* stats["resident_tokens"]: the offset of the first trimmable cache
ResidentTokens ==
    LET kv == Layers \ Linear
    IN  Len(main_cache[CHOOSE l \in kv : \A m \in kv : l <= m])

Step == \/ Draft \/ Verify \/ ReplayOptimistic \/ ReplaySparse \/ ReplaySuffix
        \/ Rescue \/ VerifyPaths \/ Commit \/ Replay \/ Emit

Returned == pc = "loop" /\ ~Continues
=============================================================================
