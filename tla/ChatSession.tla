---------------------------- MODULE ChatSession ----------------------------
(***************************************************************************)
(* A conversation over SpecDecode: MLXBackend.generate (tui/backend.py)    *)
(* and the loop of cli.py keep the cache of one turn for the next, which   *)
(* reuses it when its tokens are a strict prefix of the new prompt and so  *)
(* runs only the rest.  Nothing of the cache is copied: a turn that reuses *)
(* works on the kept object itself.                                        *)
(***************************************************************************)
EXTENDS SpecDecode

CONSTANTS
    Prompts,        \* the token sequences a conversation may encode to
    FailReused,     \* may mtp_generate raise in a turn that reuses a cache?
    None

ASSUME ChatSessionAssumption ==
    Prompts \subseteq Seq(Tokens) \ {<<>>} /\ FailReused \in BOOLEAN

VARIABLES
    kept,           \* _main_cache
    cached_ids,     \* _cached_ids
    reused          \* this turn runs on the kept cache

session == <<kept, cached_ids, reused>>
allvars == <<vars, session>>

NewCache == [l \in Layers |-> <<>>]

\* the variables of a turn when none is running
NoTurn ==
    /\ pc' = "idle" /\ ids' = <<>> /\ main_cache' = NewCache
    /\ checkpoints' = NotCaptured /\ x' = Bad /\ produced' = <<>>
    /\ stopping' = FALSE /\ mtp_cache' = <<>> /\ snap_d' = <<>>
    /\ optimistic_layers' = {} /\ ClearStep /\ reused' = FALSE
    /\ UNCHANGED cfg

Init ==
    /\ cfg \in Configs
    /\ pc = "idle" /\ ids = <<>> /\ main_cache = NewCache
    /\ checkpoints = NotCaptured /\ x = Bad /\ produced = <<>>
    /\ stopping = FALSE /\ mtp_cache = <<>> /\ snap_d = <<>>
    /\ optimistic_layers = {}
    /\ drafts = <<>> /\ branches = <<<<>>, <<>>>> /\ verify_in = <<>>
    /\ verify_snaps = <<>> /\ snap_m = NoSnapshot /\ logits = <<>>
    /\ failed = {} /\ accepted_in = <<>> /\ new_tokens = <<>>
    /\ kept = None /\ cached_ids = <<>> /\ reused = FALSE

\* _reuse_prefix_len
ReusePrefixLen(old, new) ==
    IF old # <<>> /\ Len(new) > Len(old) /\ Take(new, Len(old)) = old
    THEN Len(old) ELSE 0

\* The next message: generate up to the first token.
Turn ==
    /\ pc = "idle"
    /\ \E new \in Prompts :
          LET cached_len == IF kept = None THEN 0 ELSE ReusePrefixLen(cached_ids, new)
          IN  /\ Prefill(new, IF cached_len > 0 THEN kept ELSE NewCache, cached_len)
              /\ reused' = (cached_len > 0)
    /\ UNCHANGED <<cfg, kept, cached_ids>>

\* (mutant) a cache that leads the tokens reported is kept as well
ReconciledAtLeast == ResidentTokens >= Len(ids) + Len(produced) - 1
\* The cache is kept only if it holds what the tokens reported say it holds.
Reconciled == ResidentTokens = Len(ids) + Len(produced) - 1

Finish ==
    /\ Returned
    /\ kept' = IF Reconciled THEN main_cache ELSE None
    /\ cached_ids' = IF Reconciled THEN ids \o Drop(produced, 1) ELSE <<>>
    /\ NoTurn

\* /reset of the command line; the terminal interface only empties the history.
Reset ==
    /\ pc = "idle"
    /\ kept' = None /\ cached_ids' = <<>>
    /\ UNCHANGED <<vars, reused>>

\* mtp_generate raises, anywhere in the turn, and the application carries on.
Fail ==
    /\ pc # "idle" /\ (reused => FailReused)
    /\ kept' = IF reused THEN main_cache ELSE kept
    /\ UNCHANGED cached_ids
    /\ NoTurn

DecodeStep == Step /\ UNCHANGED session
Next == Turn \/ DecodeStep \/ Finish \/ Reset \/ Fail

\* A turn runs on its own thread until it returns; the user may never write again.
Fairness == WF_allvars(DecodeStep) /\ WF_allvars(Finish)
Spec == Init /\ [][Next]_allvars
FairSpec == Spec /\ Fairness

-----------------------------------------------------------------------------
(* Properties *)

CacheType(c) == c \in [Layers -> Seq(Tokens \cup {Bad})]

TypeOK ==
    /\ cfg \in Configs
    /\ pc \in {"idle", "loop", "drafted", "missed", "verified", "judged", "emit"}
    /\ CacheType(main_cache) /\ kept # None => CacheType(kept)
    /\ ids \in Seq(Tokens) /\ cached_ids \in Seq(Tokens) /\ reused \in BOOLEAN
    /\ x \in Tokens \cup {Bad} /\ produced \in Seq(Tokens \cup {Bad})
    /\ Len(produced) <= MaxTokens /\ stopping \in BOOLEAN
    /\ mtp_cache \in Seq(Tokens) /\ drafts \in Seq(Tokens) /\ verify_in \in Seq(Tokens)
    /\ failed \subseteq Layers /\ optimistic_layers \subseteq Layers

\* Whatever was drafted, missed, thrown away and run again, every layer of the
\* cache is back at the same tokens when the loop comes round: the prompt and
\* what was produced, but for the pending token.  At the cap it may lead by the
\* tokens that no longer fitted.
CacheHoldsAccepted ==
    pc = "loop" =>
        \A l \in Layers :
            LET said == ids \o Drop(produced, 1)
            IN  /\ main_cache[l] = main_cache[1]
                /\ Take(main_cache[l], Len(said)) = said
                /\ Len(produced) < MaxTokens => main_cache[l] = said

\* The MTP head, whose cache every draft runs ahead and every step restores, has
\* absorbed exactly what the main model was brought up to since the prefill.
MtpAligned ==
    pc = "loop" => \A l \in Layers : main_cache[l] = ids \o mtp_cache

\* No verify that misses and no commit that fails finds its snapshot skipped or
\* of the wrong kind.
NeverRaises == ~Raises

\* A cache kept for the next turn holds cached_ids in every layer, so a turn
\* that reuses it starts where a turn from scratch would.
ReuseExact ==
    (kept # None /\ ~reused) => \A l \in Layers : kept[l] = cached_ids

Abstract == INSTANCE Greedy WITH
    prompt <- ids, out <- produced

\* Speculation, trees, rescues, replays and reuse are invisible: the tokens of
\* every turn are those of greedy decoding from its prompt.
ImplementsGreedy == Abstract!Spec

=============================================================================
