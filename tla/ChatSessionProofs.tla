------------------------- MODULE ChatSessionProofs -------------------------
(***************************************************************************)
(* Proofs about ChatSession and, through it, SpecDecode, for every model,  *)
(* prompt, draft and configuration: the tokens of each turn are those of   *)
(* greedy decoding, the caches hold what was accepted, the MTP head is     *)
(* level with them, and a kept cache is exactly what the next turn takes   *)
(* it for.  The last part shows where a step may raise.                    *)
(*                                                                         *)
(* The argument follows the caches through a step.  Base, what all layers  *)
(* held when the step began, is the snapshot; a forward takes them to Base *)
(* and the chain or, if it missed, leaves the layers up to the first that  *)
(* missed there and Base in front in all; whatever is run again ends in    *)
(* the same state as if nothing had missed, and the commit cuts every      *)
(* layer back to Base and the accepted tokens.                             *)
(***************************************************************************)
EXTENDS ChatSession, SequenceTheorems, WellFoundedInduction, TLAPS

-----------------------------------------------------------------------------
(* Hypotheses *)

\* What the model says after a context is a token.
ArgmaxIsToken == \A c \in Seq(Tokens) \ {<<>>} : Argmax(c) \in Tokens

\* A sparse miss budget is set only in modes that read the overflow flags and run the
\* forward again, with recurrent layers that keep checkpoints.
SparseIsReplayed ==
    \A c \in Configs :
        c.sparse => /\ c.verify # "step" /\ c.tree = "none" /\ c.patched
                    /\ ~(c.adaptive /\ c.rescue) /\ ~c.optimistic

-----------------------------------------------------------------------------
(* The inductive invariant *)

\* Every layer of c holds s.
Exactly(c, s) == \A l \in Layers : c[l] = s

\* What all layers held when the step began.
Base == ids \o snap_d

\* And after n tokens of the chain.
Fed(n) == Base \o Take(verify_in, n)

\* A step up to its commit.
Before == {"drafted", "missed", "verified", "judged"}

\* Configuration, request and the tokens the MTP head holds.
Types ==
    /\ cfg \in Configs
    /\ pc \in Before \cup {"idle", "loop", "emit"}
    /\ ids \in Seq(Tokens) /\ produced \in Seq(Tokens) /\ Len(produced) <= MaxTokens
    /\ mtp_cache \in Seq(Tokens) /\ snap_d \in Seq(Tokens)
    /\ cached_ids \in Seq(Tokens) /\ reused \in BOOLEAN

\* A turn has a prompt and greedy tokens; between turns there is none.
TurnInv ==
    /\ pc = "idle" => ids = <<>> /\ produced = <<>> /\ ~reused
    /\ pc # "idle" => ids # <<>> /\ produced # <<>> /\ Abstract!GreedyRun(ids, produced)

\* The caches hold the prompt and what the MTP head absorbed, which begins with
\* what was produced but for the last token, and is no more until the cap.
LoopInv ==
    pc = "loop" =>
        /\ Exactly(main_cache, ids \o mtp_cache)
        /\ Len(produced) - 1 <= Len(mtp_cache)
        /\ Take(mtp_cache, Len(produced) - 1) = Drop(produced, 1)
        /\ Len(produced) < MaxTokens =>
               mtp_cache = Drop(produced, 1) /\ x = produced[Len(produced)]
        /\ branches = <<<<>>, <<>>>>

\* A step runs only below the cap, from the MTP head's cache of the loop.
StepInv ==
    pc \notin {"idle", "loop"} =>
        /\ Len(produced) < MaxTokens
        /\ snap_d = Drop(produced, 1)

\* The chain under verification follows the pending token.  Only modes that take a
\* deep snapshot draft branches.
ChainInv ==
    pc \in Before =>
        /\ x = produced[Len(produced)]
        /\ drafts \in Seq(Tokens) /\ drafts # <<>>
        /\ verify_in = <<x>> \o Drop(drafts, 1)
        /\ \A i \in {1, 2} :
               branches[i] # <<>> => /\ branches[i] \in Seq(Tokens)
                                     /\ ~SkipSnap /\ ~ShallowRollback /\ ~cfg.sparse
                                     /\ cfg.verify # "step"

\* Drafting leaves the main model alone.
DraftedInv == pc = "drafted" => Exactly(main_cache, Base)

\* The snapshot is of the kind its mode takes, and of the caches of before.
SnapInv ==
    pc \in Before \ {"drafted"} =>
        /\ snap_m.kind = IF SkipSnap THEN "none" ELSE IF ShallowRollback THEN "shallow" ELSE "deep"
        /\ snap_m.kind = "deep" => Exactly(snap_m.state, Base)
        /\ snap_m.kind = "shallow" =>
               \A l \in Layers : snap_m.state[l] = IF l \in Linear THEN Base ELSE Len(Base)

\* What a patched layer keeps of a forward that grew it from b to b \o toks.
StatesAfter(b, toks) ==
    IF cfg.patched THEN [i \in 1 .. Len(toks) |-> b \o Take(toks, i)] ELSE <<>>

\* A recurrent layer's checkpoints are those of the chain.
CheckpointOf(l) == checkpoints[l].states = StatesAfter(Base, verify_in)

\* After a forward that missed: layers up to the first that failed are exact, and no
\* layer has lost what it held.
MissedInv ==
    pc = "missed" =>
        /\ failed # {} /\ Detects
        /\ cfg.sparse => failed \subseteq Layers
        /\ cfg.sparse =>
             \A l \in Layers :
                /\ main_cache[l] \in Seq(Tokens \cup {Bad})
                /\ Len(Base) <= Len(main_cache[l])
                /\ Take(main_cache[l], Len(Base)) = Base
                /\ (\A m \in failed : l <= m) =>
                     /\ main_cache[l] = Base \o verify_in
                     /\ l \in Linear => CheckpointOf(l) /\ ~checkpoints[l].armed

\* After a forward that counts: caches, logits and checkpoints are of the chain.
VerifiedInv ==
    pc \in {"verified", "judged"} =>
        /\ Exactly(main_cache, Base \o verify_in)
        /\ logits = [i \in 1 .. Len(verify_in) |-> Fed(i)]
        /\ cfg.verify = "step" =>
               \A i \in 1 .. Len(verify_in) - 1 : Exactly(verify_snaps[i], Fed(i))
        /\ cfg.verify # "step" => \A l \in Linear : CheckpointOf(l)

\* The accepted tokens begin with the pending one and are the emitted ones shifted by
\* one place; each emitted token is what the model says after those before it.
EmitInv ==
    pc = "emit" =>
        /\ Exactly(main_cache, Base \o accepted_in)
        /\ mtp_cache = snap_d
        /\ new_tokens \in Seq(Tokens) /\ new_tokens # <<>>
        /\ accepted_in = <<produced[Len(produced)]>> \o Drop(new_tokens, 1)
        /\ \A i \in DOMAIN new_tokens : new_tokens[i] = Argmax(Base \o Take(accepted_in, i))
        /\ x = new_tokens[Len(new_tokens)]

\* The inductive invariant.
IInv ==
    /\ Types /\ TurnInv /\ ReuseExact /\ LoopInv /\ StepInv /\ ChainInv /\ DraftedInv
    /\ SnapInv /\ MissedInv /\ VerifiedInv /\ EmitInv

-----------------------------------------------------------------------------
(* Sequences and least elements *)

\* Every nonempty set of numbers has a least element (least-number principle).
LEMMA LeastElement ==
    ASSUME NEW T \in SUBSET Nat, T # {}
    PROVE  \E a \in T : \A y \in T : a <= y
<1> DEFINE Below == OpToRel(<, Nat)
<1>0. T \subseteq Nat
  OBVIOUS
<1>1. IsWellFoundedOn(Below, Nat)
  BY NatLessThanWellFounded, Zenon
<1>a. \A y, z \in Nat : y < z => <<y, z>> \in Below
  BY SMT DEF OpToRel
<1> HIDE DEF Below
<1>2. \E z \in T : \A y \in T : ~ (<<y, z>> \in Below)
  BY <1>1, <1>0, WFMin, Zenon
<1>3. PICK z \in T : \A y \in T : ~ (<<y, z>> \in Below)
  BY <1>2
<1>4. ASSUME NEW y \in T PROVE z <= y
  <2>1. y \in Nat /\ z \in Nat
    BY <1>0
  <2>2. ~ (y < z)
    BY <2>1, <1>a, <1>3, Zenon
  <2> QED
    BY <2>1, <2>2
<1> QED
  BY <1>4, <1>3

\* The first n elements of a sequence.
LEMMA TakeIs ==
    ASSUME NEW S, NEW s \in Seq(S), NEW n \in 0 .. Len(s)
    PROVE  /\ Take(s, n) \in Seq(S) /\ Len(Take(s, n)) = n
           /\ \A i \in 1 .. n : Take(s, n)[i] = s[i]
  BY DEF Take

\* A sequence without its last n elements.
LEMMA DropIs ==
    ASSUME NEW S, NEW s \in Seq(S), NEW n \in 0 .. Len(s)
    PROVE  /\ Drop(s, n) \in Seq(S) /\ Len(Drop(s, n)) = Len(s) - n
           /\ \A i \in 1 .. Len(s) - n : Drop(s, n)[i] = s[i]
           /\ Drop(s, n) = Take(s, Len(s) - n)
  BY DEF Drop, Take

\* What is cut after a whole first part is cut inside the second.
LEMMA TakeOfConcat ==
    ASSUME NEW S, NEW b \in Seq(S), NEW v \in Seq(S), NEW i \in 0 .. Len(v)
    PROVE  Take(b \o v, Len(b) + i) = b \o Take(v, i)
<1>1. SubSeq(b \o v, 1, Len(b) + i) = b \o SubSeq(v, 1, i)
  OBVIOUS
<1> QED
  BY <1>1 DEF Take

\* Concatenation is associative.
LEMMA Associative ==
    \A a, b, c \in Seq(Tokens) : (a \o b) \o c = a \o (b \o c)
  BY ConcatAssociative

\* Length, elements and first part of a concatenation.
LEMMA ConcatIs ==
    ASSUME NEW S, NEW a \in Seq(S), NEW b \in Seq(S)
    PROVE  /\ a \o b \in Seq(S) /\ Len(a \o b) = Len(a) + Len(b) /\ Len(a \o b) \in Nat
           /\ DOMAIN (a \o b) = 1 .. Len(a) + Len(b)
           /\ \A i \in 1 .. Len(a) : (a \o b)[i] = a[i]
           /\ \A i \in 1 .. Len(b) : (a \o b)[Len(a) + i] = b[i]
           /\ \A k \in 0 .. Len(a) : Take(a \o b, k) = Take(a, k)
           /\ Take(a \o b, Len(a \o b)) = a \o b
<1>1. a \o b \in Seq(S) /\ Len(a \o b) = Len(a) + Len(b) /\ Len(a \o b) \in Nat
  OBVIOUS
<1>2. DOMAIN (a \o b) = 1 .. Len(a) + Len(b)
  OBVIOUS
<1>3. \A i \in 1 .. Len(a) : (a \o b)[i] = a[i]
  OBVIOUS
<1>4. \A i \in 1 .. Len(b) : (a \o b)[Len(a) + i] = b[i]
  OBVIOUS
<1>5. \A k \in 0 .. Len(a) : SubSeq(a \o b, 1, k) = SubSeq(a, 1, k)
  OBVIOUS
<1>6. SubSeq(a \o b, 1, Len(a \o b)) = a \o b
  BY <1>1
<1> QED
  BY <1>1, <1>2, <1>3, <1>4, <1>5, <1>6 DEF Take

\* A prefix of a prefix is a prefix.
LEMMA TakeOfTake ==
    ASSUME NEW S, NEW s \in Seq(S), NEW r \in 0 .. Len(s), NEW k \in 0 .. r
    PROVE  Take(Take(s, r), k) = Take(s, k)
<1>1. SubSeq(SubSeq(s, 1, r), 1, k) = SubSeq(s, 1, k)
  OBVIOUS
<1> QED
  BY <1>1 DEF Take

\* A prefix of what is left after dropping is a prefix of the whole.
LEMMA TakeOfDrop ==
    ASSUME NEW S, NEW s \in Seq(S), NEW r \in 0 .. Len(s), NEW k \in 0 .. Len(s) - r
    PROVE  Take(Drop(s, r), k) = Take(s, k)
<1>1. Drop(s, r) = Take(s, Len(s) - r) /\ Len(s) - r \in 0 .. Len(s)
  BY DropIs
<1> QED
  BY <1>1, TakeOfTake

\* The layers are numbers from 1, and there is one.
LEMMA LayersAre == 1 \in Layers /\ Layers \subseteq Nat /\ NumLayers \in Layers
  BY SpecDecodeAssumption DEF Layers

\* A sequence of tokens is not Bad and holds no Bad.
LEMMA TokensAreNotBad ==
    ASSUME NEW s \in Seq(Tokens)
    PROVE  s # Bad /\ Bad \notin Entries(s)
<1>1. \A i \in DOMAIN s : s[i] \in Tokens
  BY ElementOfSeq, LenProperties
<1> QED
  BY <1>1, SpecDecodeAssumption DEF Entries

-----------------------------------------------------------------------------
(* Forwards *)

\* A forward over exact caches continues the context they hold.
LEMMA ExactContext ==
    ASSUME NEW c, NEW b \in Seq(Tokens), Exactly(c, b)
    PROVE  Context(c) = b /\ b # Bad
  BY TokensAreNotBad, LayersAre DEF Context, Exactly

\* A forward from layer s over exact caches, with no miss, leaves layers s and up
\* exact, and returns at each position the context it stands for.
LEMMA ExactForward ==
    ASSUME NEW c, NEW s \in Layers, NEW b \in Seq(Tokens), NEW toks \in Seq(Tokens),
           \A l \in Layers : s <= l => c[l] = b
    PROVE  /\ \A l \in Layers : Forward(c, s, b, toks, {})[l] = IF l < s THEN c[l] ELSE b \o toks
           /\ Logits(c, s, b, toks, {}) = [i \in 1 .. Len(toks) |-> b \o Take(toks, i)]
<1>1. ASSUME NEW l \in Layers \cup {NumLayers + 1}
      PROVE  ExactInput(c, s, b, {}, l)
  <2>1. \A m \in s .. (l - 1) : m \in Layers /\ s <= m
    BY SpecDecodeAssumption DEF Layers
  <2> QED
    BY <2>1, TokensAreNotBad DEF ExactInput
<1>2. ASSUME NEW l \in Layers
      PROVE  Forward(c, s, b, toks, {})[l] = IF l < s THEN c[l] ELSE b \o toks
  <2>1. Forward(c, s, b, toks, {})[l] = IF l < s THEN c[l] ELSE c[l] \o Absorbed(c, s, b, toks, {}, l)
    BY DEF Forward
  <2>2. Absorbed(c, s, b, toks, {}, l) = toks
    BY <1>1 DEF Absorbed
  <2>3. ~(l < s) => s <= l
    BY LayersAre
  <2> QED
    BY <2>1, <2>2, <2>3
<1>3. Logits(c, s, b, toks, {}) = [i \in 1 .. Len(toks) |-> b \o Take(toks, i)]
  <2>1. ExactInput(c, s, b, {}, NumLayers + 1)
    BY <1>1
  <2>2. DOMAIN toks = 1 .. Len(toks)
    OBVIOUS
  <2> QED
    BY <2>1, <2>2 DEF Logits
<1> QED
  BY <1>2, <1>3

\* A whole forward over exact caches.
LEMMA WholeForward ==
    ASSUME NEW c, NEW b \in Seq(Tokens), NEW toks \in Seq(Tokens), Exactly(c, b)
    PROVE  /\ Exactly(Forward(c, 1, Context(c), toks, {}), b \o toks)
           /\ Logits(c, 1, Context(c), toks, {}) = [i \in 1 .. Len(toks) |-> b \o Take(toks, i)]
<1>1. Context(c) = b
  BY ExactContext
<1>2. \A l \in Layers : ~(l < 1)
  BY LayersAre DEF Layers
<1>3. \A l \in Layers : 1 <= l => c[l] = b
  BY DEF Exactly
<1>a. 1 \in Layers
  BY LayersAre
<1>4. /\ \A l \in Layers : Forward(c, 1, b, toks, {})[l] = IF l < 1 THEN c[l] ELSE b \o toks
      /\ Logits(c, 1, b, toks, {}) = [i \in 1 .. Len(toks) |-> b \o Take(toks, i)]
  BY <1>a, <1>3, ExactForward
<1> QED
  BY <1>1, <1>2, <1>4, Zenon DEF Exactly

\* A patched recurrent layer that was armed has the state after each token, once.
LEMMA CapturedStates ==
    ASSUME NEW ck, NEW c, NEW d, NEW l \in Linear, NEW b \in Seq(Tokens), NEW toks \in Seq(Tokens),
           c[l] = b, d[l] = b \o toks, ck[l] = [armed |-> TRUE, states |-> <<>>]
    PROVE  /\ Captured(ck, c, d)[l].states = StatesAfter(b, toks)
           /\ cfg.patched => ~Captured(ck, c, d)[l].armed
<1>1. CASE ~cfg.patched
  BY <1>1 DEF Captured, StatesAfter
<1>2. CASE cfg.patched
  <2>1. Captured(ck, c, d)[l].states = [i \in 1 .. (Len(d[l]) - Len(c[l])) |-> Take(d[l], Len(c[l]) + i)]
    <3>1. ck[l].armed
      OBVIOUS
    <3>2. l \in Linear
      OBVIOUS
    <3>3. Captured(ck, c, d)[l] = [armed |-> FALSE,
              states |-> [i \in 1..(Len(d[l]) - Len(c[l])) |-> Take(d[l], Len(c[l]) + i)]]
      BY <1>2, <3>1, <3>2, Zenon DEF Captured
    <3> QED
      BY <3>3
  <2>a. ~Captured(ck, c, d)[l].armed
    <3>1. ck[l].armed
      OBVIOUS
    <3> QED
      BY <1>2, <3>1 DEF Captured
  <2>2. Len(d[l]) - Len(c[l]) = Len(toks)
    OBVIOUS
  <2>3. \A i \in 1 .. Len(toks) : Take(d[l], Len(c[l]) + i) = b \o Take(toks, i)
    <3> SUFFICES ASSUME NEW i \in 1 .. Len(toks)
                 PROVE  Take(b \o toks, Len(b) + i) = b \o Take(toks, i)
      BY Zenon
    <3> QED
      BY TakeOfConcat
  <2> QED
    BY <1>2, <2>a, <2>1, <2>2, <2>3 DEF StatesAfter
<1> QED
  BY <1>1, <1>2

-----------------------------------------------------------------------------
(* Modes *)

\* What SparseIsReplayed says of a sparse configuration: overflows are looked for, and
\* a snapshot is taken.
LEMMA SparseModes ==
    ASSUME SparseIsReplayed, cfg \in Configs, cfg.sparse
    PROVE  /\ SparseReplay /\ ShallowRollback /\ cfg.patched /\ cfg.verify # "step"
           /\ ~OptimisticVerify /\ ~SkipSnap /\ ~AdaptiveRescue /\ ~TreeMode /\ ~TreeVerify
<1>1. /\ cfg.verify # "step" /\ cfg.tree = "none" /\ cfg.patched
      /\ ~(cfg.adaptive /\ cfg.rescue) /\ ~cfg.optimistic
  BY Zenon DEF SparseIsReplayed
<1>2. ~AdaptiveRescue /\ ~TreeMode /\ ~TreeVerify /\ ~OptimisticVerify
  BY <1>1 DEF AdaptiveRescue, AdaptiveMode, TreeMode, TreeVerify, OptimisticVerify
<1>3. SparseReplay
  BY <1>1, <1>2 DEF SparseReplay
<1> QED
  BY <1>1, <1>2, <1>3 DEF ShallowRollback, SkipSnap

\* Without a sparse budget nothing overflows, and only optimistic layers can miss.
LEMMA DenseModes ==
    ASSUME ~cfg.sparse
    PROVE  /\ ~SparseReplay /\ ~ShallowRollback /\ SparseOverflows = {{}}
           /\ VerifyMisses = SUBSET (IF OptimisticVerify THEN optimistic_layers ELSE {})
<1>1. ~SparseReplay /\ ~ShallowRollback
  BY DEF SparseReplay, ShallowRollback
<1>2. SparseOverflows = {{}}
  BY DEF SparseOverflows
<1>3. VerifyMisses = SUBSET (IF OptimisticVerify THEN optimistic_layers ELSE {})
  BY <1>2 DEF VerifyMisses
<1> QED
  BY <1>1, <1>2, <1>3

\* The snapshot is skipped only where nothing goes back to it.
LEMMA SnapshotModes ==
    /\ OptimisticVerify \/ AdaptiveRescue \/ TreeVerify \/ ~cfg.patched => ~SkipSnap
    /\ cfg.verify # "step" /\ TreeMode => ~SkipSnap
    /\ AdaptiveRescue \/ TreeVerify \/ ~cfg.patched => ~ShallowRollback
    /\ cfg.verify # "step" /\ TreeMode => ~ShallowRollback
    /\ cfg.verify = "step" => ~Detects /\ ~OptimisticVerify
  BY Zenon DEF SkipSnap, ShallowRollback, SparseReplay, TreeMode, TreeVerify, Detects, OptimisticVerify

-----------------------------------------------------------------------------
(* Acceptance *)

\* accept_prefix: the drafts up to Matched agree, the next one does not.
LEMMA MatchedIs ==
    ASSUME NEW S, NEW chain \in Seq(S), NEW preds, Len(preds) = Len(chain)
    PROVE  /\ Matched(chain, preds) \in 0 .. Len(chain)
           /\ Agree(chain, preds, Matched(chain, preds))
           /\ Matched(chain, preds) < Len(chain) =>
                  chain[Matched(chain, preds) + 1] # preds[Matched(chain, preds) + 1]
<1> DEFINE n == Len(chain)
           Wrong == {k \in 0 .. n : k = n \/ chain[k + 1] # preds[k + 1]}
<1>1. n \in Nat /\ Smaller(n, Len(preds)) = n
  BY DEF Smaller
<1>2. n \in Wrong /\ Wrong \in SUBSET Nat
  BY <1>1
<1>3. PICK a \in Wrong : \A k \in Wrong : a <= k
  <2> HIDE DEF Wrong
  <2> QED
    BY <1>2, LeastElement
<1>4. ASSUME NEW i \in 1 .. a PROVE chain[i] = preds[i]
  <2>1. i - 1 \in 0 .. n /\ i - 1 < a /\ i - 1 # n /\ (i - 1) + 1 = i
    BY <1>1, <1>3
  <2>2. i - 1 \notin Wrong
    <3>1. ~(a <= i - 1)
      BY <1>2, <1>3, <2>1
    <3> HIDE DEF Wrong
    <3> QED
      BY <1>3, <3>1
  <2> QED
    BY <2>1, <2>2
<1>5. /\ a \in 0 .. n /\ Agree(chain, preds, a)
      /\ a < n => chain[a + 1] # preds[a + 1]
  BY <1>1, <1>3, <1>4 DEF Agree
<1>6. Matched(chain, preds) =
        CHOOSE k \in 0 .. n : Agree(chain, preds, k) /\ (k < n => chain[k + 1] # preds[k + 1])
  BY <1>1 DEF Matched
<1> HIDE DEF n, Wrong
<1> QED
  BY <1>5, <1>6 DEF n

\* The tokens a step began with, and the pending one.
LEMMA BaseIsSeq ==
    ASSUME IInv, pc \notin {"idle", "loop"}
    PROVE  /\ Base \in Seq(Tokens) \ {<<>>} /\ Base # Bad
           /\ produced[Len(produced)] \in Tokens
           /\ Len(produced) \in Nat \ {0}
<1>1. ids \in Seq(Tokens) \ {<<>>} /\ snap_d \in Seq(Tokens) /\ produced \in Seq(Tokens) \ {<<>>}
  BY DEF IInv, Types, TurnInv
<1>2. Base \in Seq(Tokens) /\ Base # <<>>
  BY <1>1, ConcatEqualIffEmpty DEF Base
<1>3. Base # Bad
  BY <1>2, TokensAreNotBad
<1> QED
  BY <1>1, <1>2, <1>3

\* The chain under verification, shifted by the pending token.
LEMMA ChainIsSeq ==
    ASSUME IInv, pc \in Before
    PROVE  /\ x \in Tokens
           /\ drafts \in Seq(Tokens) /\ Len(drafts) \in Nat \ {0}
           /\ verify_in \in Seq(Tokens) /\ Len(verify_in) = Len(drafts)
           /\ verify_in[1] = x
           /\ \A i \in 2 .. Len(drafts) : verify_in[i] = drafts[i - 1]
<1>1. x \in Tokens
  BY BaseIsSeq DEF IInv, ChainInv, Before
<1>2. drafts \in Seq(Tokens) /\ Len(drafts) \in Nat \ {0}
  BY EmptySeq DEF IInv, ChainInv
<1>3. verify_in = <<x>> \o Drop(drafts, 1)
  BY DEF IInv, ChainInv
<1> HIDE DEF Before, IInv
<1>4. <<x>> \in Seq(Tokens) /\ Len(<<x>>) = 1 /\ <<x>>[1] = x
  BY <1>1
<1>5. /\ Drop(drafts, 1) \in Seq(Tokens)
      /\ Len(Drop(drafts, 1)) = Len(drafts) - 1
      /\ \A i \in 1 .. Len(drafts) - 1 : Drop(drafts, 1)[i] = drafts[i]
  BY <1>2, DropIs
<1> QED
  BY <1>1, <1>2, <1>3, <1>4, <1>5

\* When a step is judged, each prediction is what the model says after the fed tokens,
\* and the drafts up to the match are those predictions.
LEMMA JudgedIs ==
    ASSUME IInv, pc \in {"verified", "judged"}
    PROVE  /\ Preds = [i \in 1 .. Len(drafts) |-> Argmax(Fed(i))]
           /\ MatchedNow \in 0 .. Len(drafts)
           /\ \A i \in 1 .. MatchedNow : drafts[i] = Argmax(Fed(i))
           /\ AcceptedLen \in 1 .. Len(drafts)
           /\ AcceptedLen = IF MatchedNow = Len(drafts) THEN Len(drafts) ELSE MatchedNow + 1
<1>1. /\ Len(drafts) \in Nat \ {0} /\ drafts \in Seq(Tokens)
      /\ verify_in \in Seq(Tokens) /\ Len(verify_in) = Len(drafts)
      /\ Base \in Seq(Tokens)
  BY ChainIsSeq, BaseIsSeq DEF Before
<1>2. logits = [i \in 1 .. Len(drafts) |-> Fed(i)]
  BY <1>1 DEF IInv, VerifiedInv
<1>3. \A i \in 1 .. Len(drafts) : Fed(i) \in Seq(Tokens) /\ Fed(i) # Bad
  <2> SUFFICES ASSUME NEW i \in 1 .. Len(drafts) PROVE Fed(i) \in Seq(Tokens)
    BY TokensAreNotBad
  <2>1. Take(verify_in, i) \in Seq(Tokens)
    BY <1>1, TakeIs
  <2> QED
    BY <1>1, <2>1 DEF Fed
<1>4. Preds = [i \in 1 .. Len(drafts) |-> Argmax(Fed(i))]
  BY <1>2, <1>3 DEF Preds, PredsOf, Pred
<1>5. Len(Preds) = Len(drafts)
  BY <1>1, <1>4
<1>6. MatchedNow \in 0 .. Len(drafts) /\ Agree(drafts, Preds, MatchedNow)
  BY <1>1, <1>5, MatchedIs DEF MatchedNow
<1>7. \A i \in 1 .. MatchedNow : drafts[i] = Argmax(Fed(i))
  <2> SUFFICES ASSUME NEW i \in 1 .. MatchedNow PROVE drafts[i] = Argmax(Fed(i))
    OBVIOUS
  <2>1. i \in 1 .. Len(drafts) /\ drafts[i] = Preds[i]
    BY <1>1, <1>6 DEF Agree
  <2> QED
    BY <1>4, <2>1
<1>8. /\ AcceptedLen \in 1 .. Len(drafts)
      /\ AcceptedLen = IF MatchedNow = Len(drafts) THEN Len(drafts) ELSE MatchedNow + 1
  BY <1>1, <1>6 DEF AcceptedLen, Smaller
<1> QED
  BY <1>4, <1>6, <1>7, <1>8

\* A forward without misses over exact caches.
LEMMA ForwardFromExact ==
    ASSUME NEW c, NEW b \in Seq(Tokens), NEW toks \in Seq(Tokens), Exactly(c, b),
           ForwardFrom(c, toks, {})
    PROVE  /\ Exactly(main_cache', b \o toks)
           /\ logits' = [i \in 1 .. Len(toks) |-> b \o Take(toks, i)]
           /\ \A l \in Linear : checkpoints'[l].states = StatesAfter(b, toks)
<1>1. /\ main_cache' = Forward(c, 1, Context(c), toks, {})
      /\ logits' = Logits(c, 1, Context(c), toks, {})
      /\ checkpoints' = Captured(Arm(Layers), c, main_cache')
  BY DEF ForwardFrom
<1>2. /\ Exactly(main_cache', b \o toks)
      /\ logits' = [i \in 1 .. Len(toks) |-> b \o Take(toks, i)]
  BY <1>1, WholeForward
<1>3. ASSUME NEW l \in Linear
      PROVE  checkpoints'[l].states = StatesAfter(b, toks)
  <2>1. l \in Layers
    BY SpecDecodeAssumption
  <2>2. c[l] = b /\ main_cache'[l] = b \o toks
    BY <1>2, <2>1 DEF Exactly
  <2>3. Arm(Layers)[l] = [armed |-> TRUE, states |-> <<>>]
    BY <2>1 DEF Arm
  <2>4. PICK ck : ck = Arm(Layers)
    OBVIOUS
  <2>5. PICK d : d = main_cache'
    OBVIOUS
  <2>6. ck[l] = [armed |-> TRUE, states |-> <<>>] /\ c[l] = b /\ d[l] = b \o toks
    BY <2>2, <2>3, <2>4, <2>5, Zenon
  <2>7. Captured(ck, c, d)[l].states = StatesAfter(b, toks)
    BY <2>6, CapturedStates, SMTT(30)
  <2>8. checkpoints' = Captured(ck, c, d)
    BY <1>1, <2>4, <2>5, Zenon
  <2> QED
    BY <2>7, <2>8, Zenon
<1> QED
  BY <1>2, <1>3

-----------------------------------------------------------------------------
(* The steps *)

\* The inductive invariant holds initially.
LEMMA InitInv == Init => IInv
<1> SUFFICES ASSUME Init PROVE IInv
  OBVIOUS
<1>1. Types
  <2>1. <<>> \in Seq(Tokens) /\ Len(<<>>) <= MaxTokens
    BY SpecDecodeAssumption
  <2> QED
    BY <2>1, Zenon DEF Init, Types, Before
<1>2. TurnInv /\ ReuseExact
  BY DEF Init, TurnInv, ReuseExact
<1>3. LoopInv /\ StepInv /\ ChainInv /\ DraftedInv /\ SnapInv /\ MissedInv /\ VerifiedInv /\ EmitInv
  BY DEF Init, LoopInv, StepInv, ChainInv, DraftedInv, SnapInv, MissedInv, VerifiedInv, EmitInv, Before
<1> QED
  BY <1>1, <1>2, <1>3 DEF IInv

\* The chains of n tokens are the sequences of length n.
LEMMA ChainsAre ==
    ASSUME NEW n \in Nat \ {0}, NEW c \in Chains(n)
    PROVE  c \in Seq(Tokens) /\ Len(c) = n /\ c # <<>>
  BY DEF Chains

\* What is drafted: a nonempty chain, with branches in the modes that go back to a deep
\* snapshot only.
LEMMA DraftChainsAre ==
    ASSUME NEW d \in DraftChains
    PROVE  /\ d[1] \in Seq(Tokens) /\ d[1] # <<>>
           /\ \A i \in {1, 2} : d[2][i] # <<>> =>
                  /\ d[2][i] \in Seq(Tokens)
                  /\ (cfg.verify # "step" /\ TreeMode) \/ AdaptiveRescue
<1> DEFINE Fits(a) == a \in Seq(Tokens) /\ a # <<>>
<1>1. \A a \in Chains(K) : Fits(a) /\ Len(a) = K
  BY ChainsAre, SpecDecodeAssumption
<1>2. \A n \in 1 .. DepthMax : \A a \in Chains(n) : Fits(a) /\ Len(a) = n
  BY ChainsAre, SpecDecodeAssumption
<1>3. CASE cfg.verify # "step" /\ cfg.tree = "top2"
  <2>1. PICK a \in Chains(K) : \E b \in Chains(Len(a)) : d = <<a, <<b, <<>>>>>>
    BY <1>3 DEF DraftChains
  <2>2. PICK b \in Chains(Len(a)) : d = <<a, <<b, <<>>>>>>
    BY <2>1
  <2>3. Fits(a) /\ Fits(b)
    BY <1>1
  <2>4. TreeMode
    BY <1>3 DEF TreeMode
  <2> QED
    BY <1>3, <2>2, <2>3, <2>4
<1>4. CASE cfg.verify # "step" /\ cfg.tree = "top2_p1"
  <2>1. PICK a \in Chains(K) : \E b, c \in Chains(Len(a)) : d = <<a, <<b, c>>>>
    BY <1>4 DEF DraftChains
  <2>2. PICK b \in Chains(Len(a)), c \in Chains(Len(a)) : d = <<a, <<b, c>>>>
    BY <2>1
  <2>3. Fits(a) /\ Fits(b) /\ Fits(c)
    BY <1>1
  <2>4. TreeMode
    BY <1>4 DEF TreeMode
  <2> QED
    BY <1>4, <2>2, <2>3, <2>4
<1>5. CASE ~(cfg.verify # "step" /\ cfg.tree = "top2") /\ ~(cfg.verify # "step" /\ cfg.tree = "top2_p1")
  <2>1. CASE AdaptiveRescue
    <3>0. PICK n \in 1 .. DepthMax : \E a \in Chains(n) :
              d \in IF Len(a) = 1 THEN {<<a, <<<<>>, <<>>>>>>}
                    ELSE {<<a, <<b, <<>>>>>> : b \in {e \in Chains(Len(a)) : e[1] # a[1]}}
      BY <1>5, <2>1 DEF DraftChains
    <3>1. PICK a \in Chains(n) :
              d \in IF Len(a) = 1 THEN {<<a, <<<<>>, <<>>>>>>}
                    ELSE {<<a, <<b, <<>>>>>> : b \in {e \in Chains(Len(a)) : e[1] # a[1]}}
      BY <3>0
    <3>2. Fits(a) /\ Len(a) = n
      BY <1>2
    <3>3. CASE Len(a) = 1
      BY <3>1, <3>2, <3>3
    <3>4. CASE Len(a) # 1
      <4>1. PICK b \in Chains(Len(a)) : d = <<a, <<b, <<>>>>>>
        BY <3>1, <3>4
      <4>2. Fits(b)
        BY <1>2, <3>2
      <4> QED
        BY <4>1, <4>2, <3>2, <2>1
    <3> QED
      BY <3>3, <3>4
  <2>2. CASE ~AdaptiveRescue
    <3>1. \/ \E a \in Chains(K) : d = <<a, <<<<>>, <<>>>>>>
          \/ \E n \in 1 .. DepthMax : \E a \in Chains(n) : d = <<a, <<<<>>, <<>>>>>>
      BY <1>5, <2>2 DEF DraftChains
    <3>2. PICK a : Fits(a) /\ d = <<a, <<<<>>, <<>>>>>>
      BY <1>1, <1>2, <3>1
    <3> QED
      BY <3>2
  <2> QED
    BY <2>1, <2>2
<1> QED
  BY <1>3, <1>4, <1>5

\* A draft: the caches stay at Base, the snapshot of the MTP head.
LEMMA DraftStep ==
    ASSUME SparseIsReplayed, IInv, Draft, UNCHANGED session
    PROVE  IInv'
<1>1. /\ pc = "loop" /\ Len(produced) < MaxTokens /\ ~TreeVerify /\ pc' = "drafted"
      /\ snap_d' = mtp_cache
      /\ cfg' = cfg /\ ids' = ids /\ main_cache' = main_cache /\ x' = x /\ produced' = produced
      /\ kept' = kept /\ cached_ids' = cached_ids /\ reused' = reused
  BY DEF Draft, Continues, session
<1>2. PICK d \in DraftChains :
          /\ drafts' = d[1] /\ branches' = d[2]
          /\ verify_in' = <<x>> \o Drop(d[1], 1)
          /\ mtp_cache' = mtp_cache \o <<x>> \o Drop(IF d[2][1] # <<>> THEN d[2][1] ELSE d[1], 1)
  BY Zenon DEF Draft
<1>3. /\ d[1] \in Seq(Tokens) /\ d[1] # <<>>
      /\ \A i \in {1, 2} : d[2][i] # <<>> =>
             /\ d[2][i] \in Seq(Tokens)
             /\ (cfg.verify # "step" /\ TreeMode) \/ AdaptiveRescue
  BY DraftChainsAre
<1>4. /\ Exactly(main_cache, ids \o mtp_cache) /\ mtp_cache = Drop(produced, 1)
      /\ x = produced[Len(produced)]
  BY <1>1 DEF IInv, LoopInv
<1>5. /\ cfg \in Configs /\ ids \in Seq(Tokens) /\ produced \in Seq(Tokens) /\ produced # <<>>
      /\ mtp_cache \in Seq(Tokens) /\ Len(produced) <= MaxTokens /\ cached_ids \in Seq(Tokens)
      /\ reused \in BOOLEAN
  BY <1>1 DEF IInv, Types, TurnInv
<1>6. mtp_cache' \in Seq(Tokens)
  <2>1. x \in Tokens
    BY <1>4, <1>5
  <2>2. PICK e \in Seq(Tokens) : e # <<>> /\ mtp_cache' = mtp_cache \o <<x>> \o Drop(e, 1)
    BY <1>2, <1>3
  <2>3. Drop(e, 1) \in Seq(Tokens)
    BY <2>2, DropIs
  <2> QED
    BY <1>5, <2>1, <2>2, <2>3
<1>7. Types'
  BY <1>1, <1>5, <1>6 DEF Types, Before
<1>8. TurnInv' /\ ReuseExact'
  BY <1>1 DEF IInv, TurnInv, ReuseExact
<1>9. StepInv' /\ DraftedInv'
  BY <1>1, <1>4 DEF StepInv, DraftedInv, Base
<1>10. ChainInv'
  <2>1. ASSUME NEW i \in {1, 2}, branches'[i] # <<>>
        PROVE  /\ branches'[i] \in Seq(Tokens) /\ ~SkipSnap' /\ ~ShallowRollback' /\ ~cfg'.sparse
               /\ cfg'.verify # "step"
    <3>1. (cfg.verify # "step" /\ TreeMode) \/ AdaptiveRescue
      BY <1>2, <1>3, <2>1
    <3>2. ~SkipSnap /\ ~ShallowRollback
      BY <3>1, SnapshotModes, Zenon
    <3>3. ~cfg.sparse
      BY <3>1, <1>5, SparseModes, Zenon
    <3>4. SkipSnap' = SkipSnap /\ ShallowRollback' = ShallowRollback
      BY <1>1 DEF SkipSnap, ShallowRollback, SparseReplay, OptimisticVerify, AdaptiveRescue,
                  AdaptiveMode, TreeVerify, TreeMode
    <3>5. cfg.verify # "step"
      BY <3>1 DEF AdaptiveRescue, AdaptiveMode
    <3> QED
      BY <1>1, <1>2, <1>3, <2>1, <3>2, <3>3, <3>4, <3>5
  <2> QED
    BY <1>1, <1>2, <1>3, <1>4, <2>1 DEF ChainInv
<1>11. LoopInv' /\ SnapInv' /\ MissedInv' /\ VerifiedInv' /\ EmitInv'
  BY <1>1 DEF LoopInv, SnapInv, MissedInv, VerifiedInv, EmitInv, Before
<1> QED
  BY <1>7, <1>8, <1>9, <1>10, <1>11 DEF IInv

\* The modes depend on the flags alone.
LEMMA SameModes ==
    ASSUME cfg' = cfg
    PROVE  /\ SkipSnap' = SkipSnap /\ ShallowRollback' = ShallowRollback
           /\ OptimisticVerify' = OptimisticVerify /\ Detects' = Detects
  BY DEF SkipSnap, ShallowRollback, SparseReplay, OptimisticVerify, AdaptiveRescue,
         AdaptiveMode, TreeVerify, TreeMode, Detects

\* A step inside the turn leaves the request and what was produced alone.
LEMMA SameTurn ==
    ASSUME IInv, UNCHANGED <<cfg, ids, produced, snap_d>>, UNCHANGED session,
           mtp_cache' \in Seq(Tokens), pc # "idle", pc' \in Before \cup {"emit"}
    PROVE  Types' /\ TurnInv' /\ ReuseExact' /\ LoopInv' /\ Base' = Base
<1>1. /\ cfg' = cfg /\ ids' = ids /\ produced' = produced /\ snap_d' = snap_d
      /\ kept' = kept /\ cached_ids' = cached_ids /\ reused' = reused
      /\ pc' # "idle" /\ pc' # "loop"
  BY DEF session, Before
<1>2. Types'
  BY <1>1 DEF IInv, Types
<1>3. TurnInv' /\ ReuseExact' /\ LoopInv'
  BY <1>1 DEF IInv, TurnInv, ReuseExact, LoopInv
<1>4. Base' = Base
  BY <1>1 DEF Base
<1> QED
  BY <1>2, <1>3, <1>4

\* The snapshot of the caches a step begins with.
LEMMA SnapshotIs ==
    ASSUME Exactly(main_cache, Base)
    PROVE  /\ Snapshot.kind = IF SkipSnap THEN "none" ELSE IF ShallowRollback THEN "shallow" ELSE "deep"
           /\ Snapshot.kind = "deep" => Exactly(Snapshot.state, Base)
           /\ Snapshot.kind = "shallow" =>
                  \A l \in Layers : Snapshot.state[l] = IF l \in Linear THEN Base ELSE Len(Base)
<1>1. CASE SkipSnap
  BY <1>1 DEF Snapshot, NoSnapshot
<1>2. CASE ~SkipSnap /\ ShallowRollback
  BY <1>2 DEF Snapshot, Exactly
<1>3. CASE ~SkipSnap /\ ~ShallowRollback
  BY <1>3 DEF Snapshot
<1> QED
  BY <1>1, <1>2, <1>3

\* A forward in which layers missed: no cache loses what it held, and up to the
\* first layer that missed all are exact.
LEMMA PartialForward ==
    ASSUME NEW c, NEW b \in Seq(Tokens), NEW toks \in Seq(Tokens), NEW miss \in SUBSET Layers,
           NEW l \in Layers, Exactly(c, b)
    PROVE  /\ Forward(c, 1, Context(c), toks, miss)[l] \in Seq(Tokens \cup {Bad})
           /\ Len(b) <= Len(Forward(c, 1, Context(c), toks, miss)[l])
           /\ Take(Forward(c, 1, Context(c), toks, miss)[l], Len(b)) = b
           /\ (\A m \in miss : l <= m) => Forward(c, 1, Context(c), toks, miss)[l] = b \o toks
<1>1. Context(c) = b /\ b # Bad
  BY ExactContext
<1>2. PICK t : t = Absorbed(c, 1, b, toks, miss, l)
  OBVIOUS
<1>3. Forward(c, 1, Context(c), toks, miss)[l] = b \o t
  <2>1. ~(l < 1) /\ c[l] = b
    BY DEF Layers, Exactly
  <2> QED
    BY <1>1, <1>2, <2>1 DEF Forward
<1>4. t \in Seq(Tokens \cup {Bad})
  <2>1. toks \in Seq(Tokens \cup {Bad})
    BY SeqMonotonic
  <2>2. [i \in DOMAIN toks |-> Bad] \in Seq(Tokens \cup {Bad})
    OBVIOUS
  <2> QED
    BY <1>2, <2>1, <2>2 DEF Absorbed
<1>5. b \in Seq(Tokens \cup {Bad})
  BY SeqMonotonic
<1>6. /\ b \o t \in Seq(Tokens \cup {Bad}) /\ Len(b) <= Len(b \o t)
      /\ Take(b \o t, Len(b)) = b
  <2>1. Len(t) \in Nat /\ Len(b) \in Nat /\ Len(b \o t) = Len(b) + Len(t) /\ b \o t \in Seq(Tokens \cup {Bad})
    BY <1>4, <1>5
  <2>2. SubSeq(b \o t, 1, Len(b)) = b
    BY <1>4, <1>5
  <2> QED
    BY <2>1, <2>2 DEF Take
<1>7. ASSUME \A m \in miss : l <= m PROVE t = toks
  <2>1. \A m \in 1 .. (l - 1) : m \in Layers /\ ~(l <= m)
    BY SpecDecodeAssumption DEF Layers
  <2>2. ExactInput(c, 1, b, miss, l)
    BY <1>1, <1>7, <2>1 DEF ExactInput, Exactly
  <2> QED
    BY <1>2, <2>2 DEF Absorbed
<1> QED
  BY <1>3, <1>6, <1>7

\* A verify: exact without misses; with misses, what the replays rely on.
LEMMA VerifyStep ==
    ASSUME SparseIsReplayed, IInv, Verify, UNCHANGED session
    PROVE  IInv'
<1>1. /\ pc = "drafted" /\ pc' = IF failed' = {} THEN "verified" ELSE "missed"
      /\ snap_m' = Snapshot
      /\ cfg' = cfg /\ ids' = ids /\ x' = x /\ produced' = produced /\ mtp_cache' = mtp_cache
      /\ snap_d' = snap_d /\ drafts' = drafts /\ branches' = branches /\ verify_in' = verify_in
  BY DEF Verify
<1>2. /\ Exactly(main_cache, Base) /\ cfg \in Configs
      /\ Base \in Seq(Tokens) /\ verify_in \in Seq(Tokens) /\ Len(verify_in) = Len(drafts)
      /\ mtp_cache \in Seq(Tokens)
  BY <1>1, BaseIsSeq, ChainIsSeq DEF IInv, DraftedInv, Types, Before
<1>3. Types' /\ TurnInv' /\ ReuseExact' /\ LoopInv' /\ Base' = Base
  BY <1>1, <1>2, SameTurn DEF Before
<1>4. StepInv' /\ ChainInv' /\ DraftedInv' /\ EmitInv'
  <2>1. StepInv' /\ DraftedInv' /\ EmitInv'
    BY <1>1 DEF IInv, StepInv, DraftedInv, EmitInv
  <2>2. ChainInv'
    BY <1>1, SameModes DEF IInv, ChainInv, Before
  <2> QED
    BY <2>1, <2>2
<1>5. SnapInv'
  BY <1>1, <1>2, <1>3, SnapshotIs, SameModes DEF SnapInv, Before
<1>6. PICK miss \in VerifyMisses :
          /\ IF cfg.verify = "step"
             THEN LET after(n) == Forward(main_cache, 1, Context(main_cache),
                                          Take(verify_in, n), miss)
                  IN  /\ main_cache' = after(Len(verify_in))
                      /\ verify_snaps' = [i \in 1..(Len(verify_in) - 1) |-> after(i)]
                      /\ logits' = Logits(main_cache, 1, Context(main_cache), verify_in, miss)
                      /\ UNCHANGED checkpoints
             ELSE ForwardFrom(main_cache, verify_in, miss) /\ UNCHANGED verify_snaps
          /\ failed' = IF Detects THEN miss ELSE {}
  BY DEF Verify
<1>7. CASE cfg.verify = "step"
  <2>1. miss = {} /\ failed' = {} /\ pc' = "verified"
    <3>1. ~cfg.sparse /\ ~Detects /\ ~OptimisticVerify
      BY <1>2, <1>7, SparseModes, SnapshotModes
    <3>2. VerifyMisses = SUBSET {}
      BY <3>1, DenseModes
    <3> QED
      BY <1>1, <1>6, <3>1, <3>2
  <2> DEFINE After(n) == Forward(main_cache, 1, Context(main_cache), Take(verify_in, n), {})
  <2>2. /\ main_cache' = After(Len(verify_in))
        /\ verify_snaps' = [i \in 1..(Len(verify_in) - 1) |-> After(i)]
        /\ logits' = Logits(main_cache, 1, Context(main_cache), verify_in, {})
    BY <1>6, <1>7, <2>1
  <2>3. \A n \in 1 .. Len(verify_in) : Exactly(After(n), Base \o Take(verify_in, n))
    <3> SUFFICES ASSUME NEW n \in 1 .. Len(verify_in)
                 PROVE  Exactly(Forward(main_cache, 1, Context(main_cache), Take(verify_in, n), {}),
                                Base \o Take(verify_in, n))
      OBVIOUS
    <3>1. Take(verify_in, n) \in Seq(Tokens)
      BY <1>2, TakeIs
    <3> QED
      BY <1>2, <3>1, WholeForward
  <2>4. logits' = [i \in 1 .. Len(verify_in) |-> Base \o Take(verify_in, i)]
    BY <1>2, <2>2, WholeForward
  <2> HIDE DEF After
  <2>5. Len(verify_in) \in 1 .. Len(verify_in) /\ Take(verify_in, Len(verify_in)) = verify_in
    BY <1>1, <1>2, ChainIsSeq DEF Before, Take
  <2>6. Exactly(main_cache', Base \o verify_in)
    BY <2>2, <2>3, <2>5
  <2>7. \A i \in 1 .. Len(verify_in) - 1 : Exactly(verify_snaps'[i], Base \o Take(verify_in, i))
    BY <2>2, <2>3, <2>5
  <2>8. VerifiedInv'
    BY <1>1, <1>3, <1>7, <2>4, <2>6, <2>7 DEF VerifiedInv, Fed
  <2>9. MissedInv'
    BY <2>1 DEF MissedInv
  <2> QED
    BY <1>3, <1>4, <1>5, <2>8, <2>9 DEF IInv
<1>8. CASE cfg.verify # "step" /\ miss = {}
  <2>1. ForwardFrom(main_cache, verify_in, {}) /\ failed' = {}
    BY <1>6, <1>8
  <2>2. /\ Exactly(main_cache', Base \o verify_in)
        /\ logits' = [i \in 1 .. Len(verify_in) |-> Base \o Take(verify_in, i)]
        /\ \A l \in Linear : checkpoints'[l].states = StatesAfter(Base, verify_in)
    BY <1>2, <2>1, ForwardFromExact
  <2>3. VerifiedInv'
    BY <1>1, <1>3, <1>8, <2>2 DEF VerifiedInv, Fed, CheckpointOf, StatesAfter
  <2>4. MissedInv'
    BY <1>1, <2>1 DEF MissedInv
  <2> QED
    BY <1>3, <1>4, <1>5, <2>3, <2>4 DEF IInv
<1>9. CASE cfg.verify # "step" /\ miss # {}
  <2>1. Detects
    <3>1. CASE cfg.sparse
      BY <1>2, <3>1, SparseModes DEF Detects
    <3>2. CASE ~cfg.sparse
      BY <1>9, <3>2, DenseModes DEF Detects
    <3> QED
      BY <3>1, <3>2
  <2>2. failed' = miss /\ pc' = "missed"
    BY <1>1, <1>6, <1>9, <2>1
  <2>3. ASSUME cfg.sparse
        PROVE  /\ failed' \subseteq Layers
               /\ \A l \in Layers :
                     /\ main_cache'[l] \in Seq(Tokens \cup {Bad})
                     /\ Len(Base) <= Len(main_cache'[l])
                     /\ Take(main_cache'[l], Len(Base)) = Base
                     /\ (\A m \in failed' : l <= m) =>
                          /\ main_cache'[l] = Base \o verify_in
                          /\ l \in Linear => /\ checkpoints'[l].states = StatesAfter(Base, verify_in)
                                             /\ ~checkpoints'[l].armed
    <3>1. miss \in SUBSET Layers
      <4>1. ~OptimisticVerify
        BY <1>2, <2>3, SparseModes
      <4>2. UNION SparseOverflows \subseteq Layers
        BY DEF SparseOverflows
      <4> QED
        BY <4>1, <4>2 DEF VerifyMisses
    <3>2. /\ main_cache' = Forward(main_cache, 1, Context(main_cache), verify_in, miss)
          /\ checkpoints' = Captured(Arm(Layers), main_cache, main_cache')
      BY <1>6, <1>9 DEF ForwardFrom
    <3> SUFFICES ASSUME NEW l \in Layers
                 PROVE  /\ main_cache'[l] \in Seq(Tokens \cup {Bad})
                        /\ Len(Base) <= Len(main_cache'[l])
                        /\ Take(main_cache'[l], Len(Base)) = Base
                        /\ (\A m \in failed' : l <= m) =>
                              /\ main_cache'[l] = Base \o verify_in
                              /\ l \in Linear => /\ checkpoints'[l].states = StatesAfter(Base, verify_in)
                                                 /\ ~checkpoints'[l].armed
      BY <2>2, <3>1, Zenon
    <3>3. /\ main_cache'[l] \in Seq(Tokens \cup {Bad})
          /\ Len(Base) <= Len(main_cache'[l])
          /\ Take(main_cache'[l], Len(Base)) = Base
          /\ (\A m \in miss : l <= m) => main_cache'[l] = Base \o verify_in
      BY <1>2, <3>1, <3>2, PartialForward
    <3>4. ASSUME main_cache'[l] = Base \o verify_in, l \in Linear
          PROVE  /\ checkpoints'[l].states = StatesAfter(Base, verify_in)
                 /\ ~checkpoints'[l].armed
      <4>0. cfg.patched
        BY <1>2, <2>3, SparseModes
      <4>1. PICK ck : ck = Arm(Layers)
        OBVIOUS
      <4>2. PICK d : d = main_cache'
        OBVIOUS
      <4>3. ck[l] = [armed |-> TRUE, states |-> <<>>] /\ d[l] = Base \o verify_in /\ main_cache[l] = Base
        BY <1>2, <3>4, <4>1, <4>2 DEF Arm, Exactly
      <4>4. /\ Captured(ck, main_cache, d)[l].states = StatesAfter(Base, verify_in)
            /\ ~Captured(ck, main_cache, d)[l].armed
        <5>1. l \in Linear /\ Base \in Seq(Tokens) /\ verify_in \in Seq(Tokens)
          BY <1>2, <3>4
        <5>2. PICK b \in Seq(Tokens) : b = Base
          BY <5>1
        <5>3. PICK toks \in Seq(Tokens) : toks = verify_in
          BY <5>1
        <5>4. PICK c : c = main_cache
          OBVIOUS
        <5>5. PICK k \in Linear : k = l
          BY <5>1
        <5>6. ck[k] = [armed |-> TRUE, states |-> <<>>] /\ c[k] = b /\ d[k] = b \o toks
          BY <5>2, <5>3, <5>4, <5>5, <4>3, Zenon
        <5>7. Captured(ck, c, d)[k].states = StatesAfter(b, toks) /\ ~Captured(ck, c, d)[k].armed
          BY <4>0, <5>6, CapturedStates, SMTT(30)
        <5> QED
          BY <5>2, <5>3, <5>4, <5>5, <5>7, Zenon
      <4> QED
        BY <3>2, <4>1, <4>2, <4>4, Zenon
    <3> QED
      BY <2>2, <3>3, <3>4
  <2>4. MissedInv'
    BY <1>1, <1>3, <1>9, <2>1, <2>2, <2>3, SameModes DEF MissedInv, CheckpointOf, StatesAfter
  <2>5. VerifiedInv'
    BY <2>2 DEF VerifiedInv
  <2> QED
    BY <1>3, <1>4, <1>5, <2>4, <2>5 DEF IInv
<1> QED
  BY <1>7, <1>8, <1>9

\* A forward that is run again, over the same tokens or over a branch.
LEMMA ForwardAgain ==
    ASSUME IInv, pc \in {"missed", "verified"}, pc' \in {"verified", "judged"}, cfg.verify # "step",
           UNCHANGED <<cfg, ids, x, produced, snap_d, mtp_cache, branches, snap_m>>,
           UNCHANGED session,
           drafts' \in Seq(Tokens), drafts' # <<>>, verify_in' = <<x>> \o Drop(drafts', 1),
           Exactly(main_cache', Base \o verify_in'),
           logits' = [i \in 1 .. Len(verify_in') |-> Base \o Take(verify_in', i)],
           \A l \in Linear : checkpoints'[l].states = StatesAfter(Base, verify_in')
    PROVE  IInv'
<1>1. /\ cfg' = cfg /\ ids' = ids /\ x' = x /\ produced' = produced /\ snap_d' = snap_d
      /\ mtp_cache' = mtp_cache /\ branches' = branches /\ snap_m' = snap_m
  OBVIOUS
<1>2. Types' /\ TurnInv' /\ ReuseExact' /\ LoopInv' /\ Base' = Base
  <2>1. mtp_cache' \in Seq(Tokens)
    BY <1>1 DEF IInv, Types
  <2> QED
    BY <1>1, <2>1, SameTurn DEF Before
<1>3. StepInv' /\ DraftedInv' /\ MissedInv' /\ EmitInv'
  BY <1>1 DEF IInv, StepInv, DraftedInv, MissedInv, EmitInv
<1>4. ChainInv'
  BY <1>1, SameModes DEF IInv, ChainInv, Before
<1>5. SnapInv'
  BY <1>1, <1>2, SameModes DEF IInv, SnapInv, Before
<1>6. VerifiedInv'
  <2>1. \A l \in Linear : CheckpointOf(l)'
    BY <1>1, <1>2 DEF CheckpointOf, StatesAfter
  <2>2. Exactly(main_cache, Base \o verify_in)'
    BY <1>2
  <2>3. (logits = [i \in 1 .. Len(verify_in) |-> Fed(i)])'
    BY <1>2 DEF Fed
  <2> QED
    BY <1>1, <2>1, <2>2, <2>3 DEF VerifiedInv
<1> QED
  BY <1>2, <1>3, <1>4, <1>5, <1>6 DEF IInv

\* A miss is seen in two modes: optimistic, with a deep snapshot, or sparse, with a
\* shallow one.
LEMMA MissedModes ==
    ASSUME SparseIsReplayed, IInv, pc = "missed"
    PROVE  /\ cfg.verify # "step"
           /\ OptimisticVerify => ~cfg.sparse
           /\ ~OptimisticVerify => cfg.sparse /\ snap_m.kind = "shallow"
<1>1. Detects /\ cfg \in Configs
  BY DEF IInv, MissedInv, Types
<1>2. cfg.verify # "step"
  BY <1>1, SnapshotModes
<1>3. OptimisticVerify => ~cfg.sparse
  BY <1>1, SparseModes
<1>4. ASSUME ~OptimisticVerify PROVE cfg.sparse /\ snap_m.kind = "shallow"
  <2>1. cfg.sparse
    BY <1>1, <1>4 DEF Detects, SparseReplay
  <2>2. ~SkipSnap /\ ShallowRollback
    BY <1>1, <2>1, SparseModes
  <2> QED
    BY <2>1, <2>2 DEF IInv, SnapInv, Before
<1> QED
  BY <1>2, <1>3, <1>4

\* An optimistic verify that is run again from the deep snapshot.
LEMMA ReplayOptimisticStep ==
    ASSUME SparseIsReplayed, IInv, ReplayOptimistic, UNCHANGED session
    PROVE  IInv'
<1>1. /\ pc = "missed" /\ OptimisticVerify /\ snap_m.kind = "deep" /\ pc' = "verified"
      /\ UNCHANGED <<cfg, ids, x, produced, snap_d, mtp_cache, branches, snap_m>>
      /\ drafts' = drafts /\ verify_in' = verify_in
  BY DEF ReplayOptimistic, RecoverUnchanged
<1>2. PICK miss \in SparseOverflows : ForwardFrom(snap_m.state, verify_in, miss)
  BY DEF ReplayOptimistic
<1>3. cfg.verify # "step" /\ miss = {}
  BY <1>1, <1>2, MissedModes, DenseModes
<1>4. Exactly(snap_m.state, Base) /\ Base \in Seq(Tokens) /\ verify_in \in Seq(Tokens)
  BY <1>1, BaseIsSeq, ChainIsSeq DEF IInv, SnapInv, Before
<1>5. /\ Exactly(main_cache', Base \o verify_in)
      /\ logits' = [i \in 1 .. Len(verify_in) |-> Base \o Take(verify_in, i)]
      /\ \A l \in Linear : checkpoints'[l].states = StatesAfter(Base, verify_in)
  <2>1. ForwardFrom(snap_m.state, verify_in, {})
    BY <1>2, <1>3
  <2> QED
    BY <1>4, <2>1, ForwardFromExact
<1>6. drafts \in Seq(Tokens) /\ drafts # <<>> /\ verify_in = <<x>> \o Drop(drafts, 1)
  BY <1>1 DEF IInv, ChainInv, Before
<1> QED
  BY <1>1, <1>3, <1>5, <1>6, ForwardAgain

\* A shallow rollback gives back what the layers held.
LEMMA RestoredIs ==
    ASSUME SparseIsReplayed, IInv, pc = "missed", ~OptimisticVerify,
           NEW s \in Layers, NEW l \in Layers, s <= l
    PROVE  RestoredShallow(s)[l] = Base
<1>1. cfg.sparse /\ snap_m.kind = "shallow"
  BY MissedModes
<1>2. ~(l < s)
  BY LayersAre
<1>3. snap_m.state[l] = IF l \in Linear THEN Base ELSE Len(Base)
  BY <1>1 DEF IInv, SnapInv, Before
<1>4. Take(main_cache[l], Len(Base)) = Base
  BY <1>1 DEF IInv, MissedInv
<1> QED
  BY <1>2, <1>3, <1>4 DEF RestoredShallow

\* A sparse overflow that is run again from the first layer.
LEMMA ReplaySparseStep ==
    ASSUME SparseIsReplayed, IInv, ReplaySparse, UNCHANGED session
    PROVE  IInv'
<1>1. /\ pc = "missed" /\ ~OptimisticVerify /\ pc' = "verified"
      /\ UNCHANGED <<cfg, ids, x, produced, snap_d, mtp_cache, branches, snap_m>>
      /\ drafts' = drafts /\ verify_in' = verify_in
      /\ ForwardFrom(IF snap_m.kind = "shallow" THEN RestoredShallow(1) ELSE snap_m.state,
                     verify_in, {})
  BY DEF ReplaySparse, RecoverUnchanged
<1>2. cfg.verify # "step" /\ snap_m.kind = "shallow"
  BY <1>1, MissedModes
<1>3. Base \in Seq(Tokens) /\ verify_in \in Seq(Tokens)
  BY <1>1, BaseIsSeq, ChainIsSeq DEF Before
<1>4. Exactly(RestoredShallow(1), Base)
  <2>1. \A l \in Layers : 1 <= l
    BY DEF Layers
  <2> QED
    BY <1>1, <2>1, LayersAre, RestoredIs DEF Exactly
<1>5. /\ Exactly(main_cache', Base \o verify_in)
      /\ logits' = [i \in 1 .. Len(verify_in) |-> Base \o Take(verify_in, i)]
      /\ \A l \in Linear : checkpoints'[l].states = StatesAfter(Base, verify_in)
  <2>1. ForwardFrom(RestoredShallow(1), verify_in, {})
    BY <1>1, <1>2
  <2> QED
    BY <1>3, <1>4, <2>1, ForwardFromExact
<1>6. drafts \in Seq(Tokens) /\ drafts # <<>> /\ verify_in = <<x>> \o Drop(drafts, 1)
  BY <1>1 DEF IInv, ChainInv, Before
<1> QED
  BY <1>1, <1>2, <1>5, <1>6, ForwardAgain

\* A sparse overflow that is run again from the first layer that failed: the layers
\* below are exact, and so is the input captured for it.
LEMMA ReplaySuffixStep ==
    ASSUME SparseIsReplayed, IInv, ReplaySuffix, UNCHANGED session
    PROVE  IInv'
<1>1. /\ pc = "missed" /\ ~OptimisticVerify /\ pc' = "verified" /\ FirstFailed > 1
      /\ UNCHANGED <<cfg, ids, x, produced, snap_d, mtp_cache, branches, snap_m>>
      /\ drafts' = drafts /\ verify_in' = verify_in
  BY DEF ReplaySuffix, RecoverUnchanged
<1>2. cfg.verify # "step" /\ cfg.sparse
  BY <1>1, MissedModes
<1>3. Base \in Seq(Tokens) /\ verify_in \in Seq(Tokens)
  BY <1>1, BaseIsSeq, ChainIsSeq DEF Before
<1>4. PICK s \in failed : s = FirstFailed /\ \A m \in failed : s <= m
  <2>1. failed \in SUBSET Nat /\ failed # {}
    BY <1>1, <1>2, LayersAre DEF IInv, MissedInv
  <2>2. \E l \in failed : \A m \in failed : l <= m
    BY <2>1, LeastElement
  <2> QED
    BY <2>2, Zenon DEF FirstFailed
<1>5. s \in Layers /\ 1 \in Layers /\ s > 1 /\ failed \subseteq Layers
  BY <1>1, <1>2, <1>4, LayersAre DEF IInv, MissedInv
<1>6. PICK c : c = RestoredShallow(s)
  OBVIOUS
<1>7. /\ main_cache' = Forward(c, s, LayerInput(s), verify_in, {})
      /\ checkpoints' = Captured(Arm(s..NumLayers), c, main_cache')
      /\ logits' = Logits(c, s, LayerInput(s), verify_in, {})
  BY <1>4, <1>6 DEF ReplaySuffix
<1>8. ASSUME NEW l \in Layers, l < s
      PROVE  /\ main_cache[l] = Base \o verify_in
             /\ l \in Linear => /\ checkpoints[l].states = StatesAfter(Base, verify_in)
                                /\ ~checkpoints[l].armed
  <2>1. \A m \in failed : l <= m
    BY <1>4, <1>5, <1>8, LayersAre
  <2> QED
    BY <1>1, <1>2, <2>1 DEF IInv, MissedInv, CheckpointOf
<1>9. LayerInput(s) = Base
  <2>1. Base \o verify_in \in Seq(Tokens)
    BY <1>3
  <2>2. main_cache[1] = Base \o verify_in
    BY <1>5, <1>8
  <2>3. Context(main_cache) = Base \o verify_in /\ Context(main_cache) # Bad
    BY <2>1, <2>2, TokensAreNotBad DEF Context
  <2>4. \A m \in 1 .. (s - 1) : m \in Layers /\ m < s
    BY <1>5, SpecDecodeAssumption DEF Layers
  <2>5. \A m \in 1 .. (s - 1) : m \notin failed
    <3>1. \A m \in 1 .. (s - 1) : ~(s <= m)
      BY <1>5, LayersAre
    <3> QED
      BY <1>4, <3>1
  <2>6. ExactInput(main_cache, 1, Context(main_cache), failed, s)
    BY <1>8, <2>3, <2>4, <2>5 DEF ExactInput
  <2>7. Drop(Base \o verify_in, Len(verify_in)) = Base
    BY <1>3 DEF Drop
  <2> QED
    BY <2>2, <2>6, <2>7 DEF LayerInput
<1>10. /\ \A l \in Layers : s <= l => c[l] = Base
       /\ \A l \in Layers : l < s => c[l] = main_cache[l]
  <2>1. \A l \in Layers : s <= l => c[l] = Base
    BY <1>1, <1>5, <1>6, RestoredIs
  <2>2. \A l \in Layers : l < s => c[l] = main_cache[l]
    BY <1>6 DEF RestoredShallow
  <2> QED
    BY <2>1, <2>2
<1>11. /\ \A l \in Layers : Forward(c, s, Base, verify_in, {})[l] =
                                 IF l < s THEN c[l] ELSE Base \o verify_in
       /\ Logits(c, s, Base, verify_in, {}) = [i \in 1 .. Len(verify_in) |-> Base \o Take(verify_in, i)]
  <2>1. PICK b \in Seq(Tokens) : b = Base
    BY <1>3
  <2>2. PICK toks \in Seq(Tokens) : toks = verify_in
    BY <1>3
  <2>3. PICK k \in Layers : k = s
    BY <1>5
  <2>4. \A l \in Layers : k <= l => c[l] = b
    BY <1>10, <2>1, <2>3
  <2>5. /\ \A l \in Layers : Forward(c, k, b, toks, {})[l] = IF l < k THEN c[l] ELSE b \o toks
        /\ Logits(c, k, b, toks, {}) = [i \in 1 .. Len(toks) |-> b \o Take(toks, i)]
    BY <2>4, ExactForward
  <2> QED
    BY <2>1, <2>2, <2>3, <2>5, Zenon
<1>12. /\ Exactly(main_cache', Base \o verify_in)
       /\ logits' = [i \in 1 .. Len(verify_in) |-> Base \o Take(verify_in, i)]
  BY <1>7, <1>8, <1>9, <1>10, <1>11 DEF Exactly
<1>13. ASSUME NEW l \in Linear
       PROVE  checkpoints'[l].states = StatesAfter(Base, verify_in)
  <2>1. l \in Layers
    BY SpecDecodeAssumption
  <2>2. PICK ck : ck = Arm(s..NumLayers)
    OBVIOUS
  <2>3. PICK d : d = main_cache'
    OBVIOUS
  <2>4. checkpoints' = Captured(ck, c, d)
    BY <1>7, <2>2, <2>3, Zenon
  <2>5. CASE l < s
    <3>1. ck[l] = checkpoints[l]
      BY <2>1, <2>2, <2>5, <1>5, LayersAre DEF Arm
    <3>2. checkpoints[l].states = StatesAfter(Base, verify_in)
      BY <1>8, <2>1, <2>5
    <3>3. Len(d[l]) = Len(c[l])
      BY <1>8, <1>10, <1>12, <2>1, <2>3, <2>5 DEF Exactly
    <3>4. ~checkpoints[l].armed
      BY <1>8, <2>1, <2>5
    <3>5. Captured(ck, c, d)[l] = ck[l]
      BY <3>1, <3>4 DEF Captured
    <3> QED
      BY <2>4, <3>1, <3>2, <3>5
  <2>6. CASE ~(l < s)
    <3>1. l \in s .. NumLayers /\ s <= l
      BY <2>1, <2>6, <1>5 DEF Layers
    <3>2. PICK b \in Seq(Tokens) : b = Base
      BY <1>3
    <3>3. PICK toks \in Seq(Tokens) : toks = verify_in
      BY <1>3
    <3>4. ck[l] = [armed |-> TRUE, states |-> <<>>]
      BY <2>2, <3>1 DEF Arm
    <3>5. PICK k \in Linear : k = l
      OBVIOUS
    <3>6. c[l] = b /\ d[l] = b \o toks
      BY <1>10, <1>12, <2>1, <2>3, <3>1, <3>2, <3>3 DEF Exactly
    <3>7. ck[k] = [armed |-> TRUE, states |-> <<>>] /\ c[k] = b /\ d[k] = b \o toks
      BY <3>4, <3>5, <3>6
    <3>8. Captured(ck, c, d)[k].states = StatesAfter(b, toks)
      BY <3>7, CapturedStates, SMTT(30)
    <3> QED
      BY <2>4, <3>2, <3>3, <3>5, <3>8, Zenon
  <2> QED
    BY <2>5, <2>6
<1>14. drafts \in Seq(Tokens) /\ drafts # <<>> /\ verify_in = <<x>> \o Drop(drafts, 1)
  BY <1>1 DEF IInv, ChainInv, Before
<1> QED
  BY <1>1, <1>2, <1>12, <1>13, <1>14, ForwardAgain

\* A branch that replaces the chain.
LEMMA RescueStep ==
    ASSUME SparseIsReplayed, IInv, Rescue, UNCHANGED session
    PROVE  IInv'
<1>1. /\ pc = "verified" /\ pc' = "judged" /\ RescueChain # <<>> /\ snap_m.kind = "deep"
      /\ UNCHANGED <<cfg, ids, x, produced, snap_d, mtp_cache, branches, snap_m>>
      /\ drafts' = RescueChain /\ verify_in' = <<x>> \o Drop(RescueChain, 1)
  BY DEF Rescue
<1>2. PICK i \in {1, 2} : RescueChain = branches[i] /\ branches[i] # <<>>
  BY <1>1 DEF RescueChain
<1>3. RescueChain \in Seq(Tokens) /\ ~cfg.sparse /\ cfg.verify # "step"
  BY <1>1, <1>2 DEF IInv, ChainInv, Before
<1>4. PICK miss \in SparseOverflows : ForwardFrom(snap_m.state, verify_in', miss)
  BY DEF Rescue
<1>5. miss = {}
  BY <1>3, <1>4, DenseModes
<1>6. Exactly(snap_m.state, Base) /\ Base \in Seq(Tokens) /\ x \in Tokens
  BY <1>1, BaseIsSeq, ChainIsSeq DEF IInv, SnapInv, Before
<1>7. verify_in' \in Seq(Tokens)
  <2>1. Drop(RescueChain, 1) \in Seq(Tokens)
    BY <1>1, <1>3, DropIs
  <2> QED
    BY <1>1, <1>6, <2>1
<1>8. /\ Exactly(main_cache', Base \o verify_in')
      /\ logits' = [j \in 1 .. Len(verify_in') |-> Base \o Take(verify_in', j)]
      /\ \A l \in Linear : checkpoints'[l].states = StatesAfter(Base, verify_in')
  <2>1. PICK toks \in Seq(Tokens) : toks = verify_in'
    BY <1>7
  <2>2. ForwardFrom(snap_m.state, toks, {})
    BY <1>4, <1>5, <2>1
  <2>3. /\ Exactly(main_cache', Base \o toks)
        /\ logits' = [j \in 1 .. Len(toks) |-> Base \o Take(toks, j)]
        /\ \A l \in Linear : checkpoints'[l].states = StatesAfter(Base, toks)
    BY <1>6, <2>2, ForwardFromExact
  <2> QED
    BY <2>1, <2>3
<1> QED
  BY <1>1, <1>3, <1>8, ForwardAgain

\* A batched forward of several paths, of which the best stays.
LEMMA VerifyPathsStep ==
    ASSUME SparseIsReplayed, IInv, VerifyPaths, UNCHANGED session
    PROVE  IInv'
<1>1. /\ pc = "loop" /\ pc' = "judged" /\ Len(produced) < MaxTokens /\ TreeVerify
      /\ cfg' = cfg /\ ids' = ids /\ x' = x /\ produced' = produced /\ branches' = branches
      /\ kept' = kept /\ cached_ids' = cached_ids /\ reused' = reused
      /\ snap_m' = [kind |-> "deep", state |-> main_cache] /\ snap_d' = mtp_cache
  BY DEF VerifyPaths, Continues, session
<1>2. /\ Exactly(main_cache, ids \o mtp_cache) /\ mtp_cache = Drop(produced, 1)
      /\ x = produced[Len(produced)] /\ branches = <<<<>>, <<>>>>
  BY <1>1 DEF IInv, LoopInv
<1>3. /\ cfg \in Configs /\ ids \in Seq(Tokens) /\ produced \in Seq(Tokens) /\ produced # <<>>
      /\ mtp_cache \in Seq(Tokens) /\ Len(produced) <= MaxTokens /\ cached_ids \in Seq(Tokens)
      /\ reused \in BOOLEAN
  BY <1>1 DEF IInv, Types, TurnInv
<1>4. /\ cfg.verify # "step" /\ ~cfg.sparse /\ SkipSnap' = SkipSnap /\ ShallowRollback' = ShallowRollback
      /\ ~SkipSnap /\ ~ShallowRollback
  <2>1. cfg.verify # "step" /\ ~cfg.sparse
    BY <1>1, <1>3, SparseModes DEF TreeVerify
  <2>2. SkipSnap' = SkipSnap /\ ShallowRollback' = ShallowRollback
    BY <1>1, SameModes
  <2>3. ~SkipSnap /\ ~ShallowRollback
    BY <1>1, SnapshotModes, Zenon
  <2> QED
    BY <2>1, <2>2, <2>3
<1>5. PICK paths \in PathSets, miss \in SparseOverflows, best \in 1 .. Branches :
          /\ drafts' = paths[best] /\ verify_in' = <<x>> \o Drop(paths[best], 1)
          /\ ForwardFrom(main_cache, <<x>> \o Drop(paths[best], 1), miss)
          /\ mtp_cache' = mtp_cache \o (<<x>> \o Drop(paths[Branches], 1))
  BY Zenon DEF VerifyPaths
<1>6. miss = {}
  BY <1>4, <1>5, DenseModes
<1>7. \A w \in 1 .. Branches :
          /\ paths[w] \in Seq(Tokens) /\ paths[w] # <<>>
          /\ <<x>> \o Drop(paths[w], 1) \in Seq(Tokens)
  <2> SUFFICES ASSUME NEW w \in 1 .. Branches
               PROVE  /\ paths[w] \in Seq(Tokens) /\ paths[w] # <<>>
                      /\ <<x>> \o Drop(paths[w], 1) \in Seq(Tokens)
    BY Zenon
  <2>1. paths[w] \in Chains(K)
    BY DEF PathSets
  <2>2. PICK p \in Chains(K) : p = paths[w]
    BY <2>1
  <2>3. p \in Seq(Tokens) /\ p # <<>>
    BY ChainsAre, SpecDecodeAssumption
  <2>a. 1 \in 0 .. Len(p)
    BY <2>3
  <2>b. x \in Tokens
    BY <1>2, <1>3
  <2>4. Drop(p, 1) \in Seq(Tokens) /\ x \in Tokens
    BY <2>3, <2>a, <2>b, DropIs
  <2> QED
    BY <2>2, <2>3, <2>4
<1>8. Base' = ids \o mtp_cache /\ ids \o mtp_cache \in Seq(Tokens)
  BY <1>1, <1>3 DEF Base
<1>9. PICK toks \in Seq(Tokens) : toks = verify_in' /\ ForwardFrom(main_cache, toks, {})
  BY <1>5, <1>6, <1>7
<1>10. PICK b \in Seq(Tokens) : b = Base' /\ Exactly(main_cache, b)
  BY <1>2, <1>8
<1>11. /\ Exactly(main_cache', b \o toks)
       /\ logits' = [j \in 1 .. Len(toks) |-> b \o Take(toks, j)]
       /\ \A l \in Linear : checkpoints'[l].states = StatesAfter(b, toks)
  BY <1>9, <1>10, ForwardFromExact
<1>12. Types' /\ TurnInv' /\ ReuseExact'
  <2>1. mtp_cache' \in Seq(Tokens)
    <3>1. Branches \in 1 .. Branches
      BY SpecDecodeAssumption
    <3>2. <<x>> \o Drop(paths[Branches], 1) \in Seq(Tokens)
      BY <1>7, <3>1
    <3> QED
      BY <1>3, <1>5, <3>2
  <2>2. Types'
    BY <1>1, <1>3, <2>1 DEF Types, Before
  <2> QED
    BY <1>1, <2>2 DEF IInv, TurnInv, ReuseExact
<1>13. StepInv' /\ LoopInv' /\ DraftedInv' /\ MissedInv' /\ EmitInv'
  BY <1>1, <1>2 DEF StepInv, LoopInv, DraftedInv, MissedInv, EmitInv
<1>14. ChainInv'
  BY <1>1, <1>2, <1>5, <1>7 DEF ChainInv
<1>15. SnapInv'
  BY <1>1, <1>2, <1>4, <1>8 DEF SnapInv
<1>16. VerifiedInv'
  <2>1. \A l \in Linear : CheckpointOf(l)'
    BY <1>1, <1>9, <1>10, <1>11 DEF CheckpointOf, StatesAfter
  <2>2. Exactly(main_cache, Base \o verify_in)'
    BY <1>9, <1>10, <1>11
  <2>3. (logits = [i \in 1 .. Len(verify_in) |-> Fed(i)])'
    BY <1>9, <1>10, <1>11 DEF Fed
  <2> QED
    BY <1>1, <1>4, <2>1, <2>2, <2>3 DEF VerifiedInv
<1> QED
  BY <1>12, <1>13, <1>14, <1>15, <1>16 DEF IInv

\* A sequence that is another one after its first element.
LEMMA ShiftedIs ==
    ASSUME NEW S, NEW a \in Seq(S), NEW t \in Seq(S), Len(a) = Len(t) + 1,
           \A i \in 2 .. Len(a) : a[i] = t[i - 1]
    PROVE  a = <<a[1]>> \o t
<1>1. a[1] \in S
  OBVIOUS
<1>2. PICK e \in S : e = a[1]
  BY <1>1
<1>3. \A i \in 1 .. Len(a) : a[i] = (<<e>> \o t)[i]
  BY <1>2
<1>4. <<e>> \o t \in Seq(S) /\ Len(<<e>> \o t) = Len(a)
  OBVIOUS
<1>5. a = <<e>> \o t
  BY <1>3, <1>4, SeqEqual
<1> QED
  BY <1>2, <1>5

\* What a step emits when no checkpoint is missing.
Emitted == IF MatchedNow = Len(drafts) THEN drafts
           ELSE Append(Take(drafts, MatchedNow), Preds[MatchedNow + 1])

\* The accepted tokens and those emitted, when no checkpoint is missing.
LEMMA AcceptedIs ==
    ASSUME ArgmaxIsToken, IInv, pc \in {"verified", "judged"}, NEW new, new = Emitted
    PROVE  /\ new \in Seq(Tokens) /\ Len(new) = AcceptedLen /\ AcceptedLen \in 1 .. Len(drafts)
           /\ \A i \in 1 .. AcceptedLen : new[i] = Argmax(Fed(i))
           /\ AcceptedIn = <<x>> \o Drop(new, 1)
           /\ \A i \in 1 .. AcceptedLen : Take(AcceptedIn, i) = Take(verify_in, i)
<1>1. /\ x \in Tokens /\ drafts \in Seq(Tokens) /\ Len(drafts) \in Nat \ {0}
      /\ verify_in \in Seq(Tokens) /\ Len(verify_in) = Len(drafts) /\ verify_in[1] = x
      /\ \A i \in 2 .. Len(drafts) : verify_in[i] = drafts[i - 1]
      /\ Base \in Seq(Tokens) \ {<<>>}
  BY ChainIsSeq, BaseIsSeq DEF Before
<1>2. /\ Preds = [i \in 1 .. Len(drafts) |-> Argmax(Fed(i))]
      /\ MatchedNow \in 0 .. Len(drafts)
      /\ \A i \in 1 .. MatchedNow : drafts[i] = Argmax(Fed(i))
      /\ AcceptedLen \in 1 .. Len(drafts)
      /\ AcceptedLen = IF MatchedNow = Len(drafts) THEN Len(drafts) ELSE MatchedNow + 1
  BY JudgedIs
<1>3. \A i \in 1 .. Len(drafts) : Argmax(Fed(i)) \in Tokens
  <2> SUFFICES ASSUME NEW i \in 1 .. Len(drafts) PROVE Argmax(Fed(i)) \in Tokens
    OBVIOUS
  <2>1. Take(verify_in, i) \in Seq(Tokens)
    BY <1>1, TakeIs
  <2>2. Fed(i) \in Seq(Tokens) /\ Fed(i) # <<>>
    BY <1>1, <2>1, ConcatEqualIffEmpty DEF Fed
  <2> QED
    BY <2>2 DEF ArgmaxIsToken
<1>4. PICK pre : pre = Take(drafts, MatchedNow)
  OBVIOUS
<1>5. /\ pre \in Seq(Tokens) /\ Len(pre) = MatchedNow
      /\ \A i \in 1 .. MatchedNow : pre[i] = drafts[i]
  BY <1>1, <1>2, <1>4, TakeIs
<1>6. /\ new \in Seq(Tokens) /\ Len(new) = AcceptedLen
      /\ \A i \in 1 .. AcceptedLen : new[i] = Argmax(Fed(i))
      /\ \A i \in 1 .. AcceptedLen : i <= MatchedNow => new[i] = drafts[i]
  <2>1. CASE MatchedNow = Len(drafts)
    BY <1>1, <1>2, <2>1 DEF Emitted
  <2>2. CASE MatchedNow # Len(drafts)
    <3>1. PICK t \in Tokens : t = Preds[MatchedNow + 1] /\ t = Argmax(Fed(MatchedNow + 1))
      BY <1>1, <1>2, <1>3, <2>2
    <3>2. new = Append(pre, t)
      BY <1>4, <2>2, <3>1 DEF Emitted
    <3>3. AcceptedLen = MatchedNow + 1 /\ Len(new) = MatchedNow + 1 /\ new \in Seq(Tokens)
      <4>1. Append(pre, t) \in Seq(Tokens) /\ Len(Append(pre, t)) = Len(pre) + 1
        BY <1>5
      <4> QED
        BY <1>2, <1>5, <2>2, <3>2, <4>1
    <3>4. new[MatchedNow + 1] = t /\ \A i \in 1 .. MatchedNow : new[i] = drafts[i]
      <4>1. Append(pre, t)[Len(pre) + 1] = t /\ \A i \in 1 .. Len(pre) : Append(pre, t)[i] = pre[i]
        BY <1>5
      <4> QED
        BY <1>5, <3>2, <4>1
    <3>5. \A i \in 1 .. MatchedNow : new[i] = Argmax(Fed(i))
      BY <1>2, <3>4, Zenon
    <3>6. \A i \in 1 .. MatchedNow + 1 : i \in 1 .. MatchedNow \/ i = MatchedNow + 1
      BY <1>2
    <3>7. \A i \in 1 .. MatchedNow + 1 : new[i] = Argmax(Fed(i))
      BY <3>1, <3>4, <3>5, <3>6, Zenon
    <3> QED
      BY <1>2, <3>3, <3>4, <3>7
  <2> QED
    BY <2>1, <2>2
<1>7. PICK acc : acc = AcceptedIn
  OBVIOUS
<1>8. /\ acc \in Seq(Tokens) /\ Len(acc) = AcceptedLen
      /\ \A i \in 1 .. AcceptedLen : acc[i] = verify_in[i]
  <2>1. PICK v \in Seq(Tokens) : v = verify_in
    BY <1>1
  <2>2. PICK n \in 0 .. Len(v) : n = AcceptedLen
    BY <1>1, <1>2, <2>1
  <2>3. Take(v, n) \in Seq(Tokens) /\ Len(Take(v, n)) = n /\ \A i \in 1 .. n : Take(v, n)[i] = v[i]
    BY TakeIs
  <2> QED
    BY <1>7, <2>1, <2>2, <2>3 DEF AcceptedIn
<1>9. acc = <<x>> \o Drop(new, 1)
  <2>1. PICK t : t = Drop(new, 1)
    OBVIOUS
  <2>2. t \in Seq(Tokens) /\ Len(t) = AcceptedLen - 1 /\ \A i \in 1 .. AcceptedLen - 1 : t[i] = new[i]
    <3>1. PICK e \in Seq(Tokens) : e = new
      BY <1>6
    <3>2. 1 \in 0 .. Len(e) /\ Len(e) = AcceptedLen
      BY <1>2, <1>6, <3>1
    <3>3. /\ Drop(e, 1) \in Seq(Tokens) /\ Len(Drop(e, 1)) = Len(e) - 1
          /\ \A i \in 1 .. Len(e) - 1 : Drop(e, 1)[i] = e[i]
      BY <3>2, DropIs
    <3> QED
      BY <2>1, <3>1, <3>2, <3>3
  <2>3. \A i \in 2 .. AcceptedLen : acc[i] = t[i - 1]
    <3> SUFFICES ASSUME NEW i \in 2 .. AcceptedLen PROVE acc[i] = t[i - 1]
      OBVIOUS
    <3>1. i - 1 \in 1 .. AcceptedLen - 1 /\ i - 1 \in 1 .. AcceptedLen /\ i - 1 <= MatchedNow
          /\ i \in 2 .. Len(drafts) /\ i \in 1 .. AcceptedLen
      BY <1>2
    <3> QED
      BY <1>1, <1>6, <1>8, <2>2, <3>1
  <2>4. acc[1] = x
    BY <1>1, <1>2, <1>8
  <2>5. acc = <<x>> \o t
    <3>1. Len(acc) = Len(t) + 1 /\ \A i \in 2 .. Len(acc) : acc[i] = t[i - 1]
      BY <1>2, <1>8, <2>2, <2>3
    <3> QED
      BY <1>8, <2>2, <2>4, <3>1, ShiftedIs
  <2> QED
    BY <2>1, <2>5
<1>10. \A i \in 1 .. AcceptedLen : Take(acc, i) = Take(verify_in, i)
  <2> SUFFICES ASSUME NEW i \in 1 .. AcceptedLen PROVE Take(acc, i) = Take(verify_in, i)
    OBVIOUS
  <2> QED
    BY <1>1, <1>2, <1>8 DEF Take
<1> QED
  BY <1>2, <1>6, <1>7, <1>9, <1>10

\* The caches of a step that commits or replays.
LEMMA StepEnds ==
    ASSUME IInv, pc \in {"verified", "judged"}, pc' = "emit",
           UNCHANGED <<cfg, ids, produced, snap_d>>, UNCHANGED session, mtp_cache' = snap_d,
           new_tokens' \in Seq(Tokens), new_tokens' # <<>>,
           accepted_in' = <<x>> \o Drop(new_tokens', 1),
           \A i \in 1 .. Len(new_tokens') : new_tokens'[i] = Argmax(Base \o Take(accepted_in', i)),
           x' = new_tokens'[Len(new_tokens')],
           Exactly(main_cache', Base \o accepted_in')
    PROVE  IInv'
<1>1. /\ cfg' = cfg /\ ids' = ids /\ produced' = produced /\ snap_d' = snap_d
  OBVIOUS
<1>2. Types' /\ TurnInv' /\ ReuseExact' /\ LoopInv' /\ Base' = Base
  <2>1. mtp_cache' \in Seq(Tokens)
    BY DEF IInv, Types
  <2> QED
    BY <1>1, <2>1, SameTurn DEF Before
<1>3. StepInv' /\ ChainInv' /\ DraftedInv' /\ SnapInv' /\ MissedInv' /\ VerifiedInv'
  BY <1>1 DEF IInv, StepInv, ChainInv, DraftedInv, SnapInv, MissedInv, VerifiedInv, Before
<1>4. x = produced[Len(produced)]
  BY DEF IInv, ChainInv, Before
<1>5. (\A i \in DOMAIN new_tokens : new_tokens[i] = Argmax(Base \o Take(accepted_in, i)))'
  <2>1. DOMAIN new_tokens' = 1 .. Len(new_tokens')
    OBVIOUS
  <2> QED
    BY <1>2, <2>1
<1>6. EmitInv'
  BY <1>1, <1>2, <1>4, <1>5 DEF EmitInv
<1> QED
  BY <1>2, <1>3, <1>6 DEF IInv

\* A commit keeps the accepted tokens in every layer.
LEMMA CommitStep ==
    ASSUME ArgmaxIsToken, IInv, Commit, UNCHANGED session
    PROVE  IInv'
<1>1. /\ pc \in {"verified", "judged"} /\ pc' = "emit" /\ CanCommit
      /\ UNCHANGED <<cfg, ids, produced, snap_d>> /\ mtp_cache' = snap_d
      /\ main_cache' = [l \in Layers |-> Committed(l)]
      /\ accepted_in' = AcceptedIn /\ new_tokens' = Emitted
      /\ x' = new_tokens'[Len(new_tokens')]
  BY DEF Commit, Judged, CommitUnchanged, Emitted
<1>2. PICK new : new = Emitted
  OBVIOUS
<1>3. /\ new \in Seq(Tokens) /\ Len(new) = AcceptedLen /\ AcceptedLen \in 1 .. Len(drafts)
      /\ \A i \in 1 .. AcceptedLen : new[i] = Argmax(Fed(i))
      /\ AcceptedIn = <<x>> \o Drop(new, 1)
      /\ \A i \in 1 .. AcceptedLen : Take(AcceptedIn, i) = Take(verify_in, i)
  BY <1>1, <1>2, AcceptedIs
<1>4. /\ drafts \in Seq(Tokens) /\ Len(drafts) \in Nat \ {0}
      /\ verify_in \in Seq(Tokens) /\ Len(verify_in) = Len(drafts)
      /\ Base \in Seq(Tokens)
  BY <1>1, ChainIsSeq, BaseIsSeq DEF Before
<1>5. PICK a \in 1 .. Len(verify_in) : a = AcceptedLen
  BY <1>3, <1>4
<1>6. ASSUME NEW l \in Layers PROVE Committed(l) = Base \o Take(verify_in, a)
  <2>1. main_cache[l] = Base \o verify_in
    BY <1>1 DEF IInv, VerifiedInv, Exactly
  <2>2. CASE cfg.verify = "step"
    <3>1. CASE a = Len(drafts)
      <4>1. Take(verify_in, a) = verify_in
        BY <1>4, <3>1 DEF Take
      <4> QED
        BY <1>5, <2>1, <2>2, <3>1, <4>1 DEF Committed
    <3>2. CASE a # Len(drafts)
      <4>1. a \in 1 .. Len(verify_in) - 1
        BY <1>4, <1>5, <3>2
      <4>2. Exactly(verify_snaps[a], Fed(a))
        BY <1>1, <2>2, <4>1 DEF IInv, VerifiedInv
      <4>3. verify_snaps[a][l] = Fed(a)
        BY <4>2 DEF Exactly
      <4> QED
        BY <1>5, <2>2, <3>2, <4>3 DEF Committed, Fed
    <3> QED
      BY <3>1, <3>2
  <2>3. CASE cfg.verify # "step" /\ l \in Linear
    <3>1. checkpoints[l].states = StatesAfter(Base, verify_in)
      BY <1>1, <2>3 DEF IInv, VerifiedInv, CheckpointOf
    <3>2. Len(checkpoints[l].states) >= a
      BY <1>1, <1>5, <2>3 DEF CanCommit
    <3>3. cfg.patched
      <4>1. ~cfg.patched => Len(StatesAfter(Base, verify_in)) = 0
        BY DEF StatesAfter
      <4> QED
        BY <1>5, <3>1, <3>2, <4>1
    <3>4. StatesAfter(Base, verify_in)[a] = Base \o Take(verify_in, a)
      BY <1>5, <3>3 DEF StatesAfter
    <3> QED
      BY <1>5, <2>3, <3>1, <3>4 DEF Committed
  <2>4. CASE cfg.verify # "step" /\ l \notin Linear
    <3>1. PICK b \in Seq(Tokens), v \in Seq(Tokens) : b = Base /\ v = verify_in
      BY <1>4
    <3>2. Len(b \o v) - (Len(v) - a) = Len(b) + a /\ a \in 0 .. Len(v)
      BY <1>5, <3>1
    <3>3. Take(b \o v, Len(b) + a) = b \o Take(v, a)
      BY <3>2, TakeOfConcat
    <3>4. Drop(b \o v, Len(v) - a) = b \o Take(v, a)
      BY <3>2, <3>3 DEF Drop, Take
    <3> QED
      BY <1>4, <1>5, <2>1, <2>4, <3>1, <3>4 DEF Committed
  <2> QED
    BY <2>2, <2>3, <2>4
<1>7. Take(verify_in, a) = AcceptedIn
  <2>1. AcceptedLen \in 1 .. AcceptedLen /\ AcceptedIn = Take(verify_in, AcceptedLen)
    BY <1>3 DEF AcceptedIn
  <2> QED
    BY <1>5, <2>1
<1>8. Exactly(main_cache', Base \o accepted_in')
  BY <1>1, <1>6, <1>7 DEF Exactly
<1>9. \A i \in 1 .. Len(new) : new[i] = Argmax(Base \o Take(AcceptedIn, i))
  BY <1>3 DEF Fed
<1>10. new # <<>>
  BY <1>3
<1> QED
  BY <1>1, <1>2, <1>3, <1>8, <1>9, <1>10, StepEnds

\* Only unpatched recurrent layers go without checkpoints, and then there is a deep
\* snapshot.
LEMMA CommitModes ==
    ASSUME SparseIsReplayed, IInv, Judged, ~CanCommit
    PROVE  cfg.verify # "step" /\ ~cfg.patched /\ ~cfg.sparse /\ snap_m.kind = "deep"
<1>1. pc \in {"verified", "judged"} /\ cfg.verify # "step"
  BY DEF Judged, CanCommit
<1>2. PICK l \in Linear : ~(Len(checkpoints[l].states) >= AcceptedLen)
  BY DEF CanCommit
<1>3. checkpoints[l].states = StatesAfter(Base, verify_in)
  BY <1>1 DEF IInv, VerifiedInv, CheckpointOf
<1>4. AcceptedLen \in 1 .. Len(drafts) /\ Len(verify_in) = Len(drafts) /\ Len(drafts) \in Nat
  BY <1>1, JudgedIs, ChainIsSeq DEF Before
<1>5. ~cfg.patched
  <2>1. cfg.patched => Len(StatesAfter(Base, verify_in)) = Len(drafts)
    BY <1>4 DEF StatesAfter
  <2> QED
    BY <1>2, <1>3, <1>4, <2>1
<1>6. ~cfg.sparse /\ ~SkipSnap /\ ~ShallowRollback
  BY <1>5, SparseModes, SnapshotModes DEF IInv, Types
<1> QED
  BY <1>1, <1>5, <1>6 DEF IInv, SnapInv, Before

\* Replaying the accepted tokens from the snapshot.
LEMMA ReplayStep ==
    ASSUME ArgmaxIsToken, SparseIsReplayed, IInv, Replay, UNCHANGED session
    PROVE  IInv'
<1>1. /\ pc \in {"verified", "judged"} /\ pc' = "emit" /\ Judged /\ ~CanCommit
      /\ UNCHANGED <<cfg, ids, produced, snap_d>> /\ mtp_cache' = snap_d
      /\ accepted_in' = <<x>> \o Take(drafts, MatchedNow)
      /\ new_tokens' = Append(Take(drafts, MatchedNow), x')
  BY DEF Replay, Judged, CommitUnchanged
<1>2. PICK miss \in SparseOverflows :
          /\ main_cache' = Forward(snap_m.state, 1, Context(snap_m.state), accepted_in', miss)
          /\ x' = Pred(Logits(snap_m.state, 1, Context(snap_m.state), accepted_in', miss)[Len(accepted_in')])
  BY DEF Replay
<1>3. ~cfg.sparse /\ snap_m.kind = "deep" /\ miss = {}
  BY <1>1, <1>2, CommitModes, DenseModes
<1>4. /\ x \in Tokens /\ drafts \in Seq(Tokens) /\ Len(drafts) \in Nat \ {0}
      /\ verify_in \in Seq(Tokens) /\ Len(verify_in) = Len(drafts) /\ verify_in[1] = x
      /\ \A i \in 2 .. Len(drafts) : verify_in[i] = drafts[i - 1]
      /\ Base \in Seq(Tokens) \ {<<>>} /\ Exactly(snap_m.state, Base)
  BY <1>1, <1>3, ChainIsSeq, BaseIsSeq DEF Before, IInv, SnapInv
<1>5. PICK m \in 0 .. Len(drafts) : m = MatchedNow /\ \A i \in 1 .. m : drafts[i] = Argmax(Fed(i))
  BY <1>1, JudgedIs
<1>6. PICK pre : pre = Take(drafts, m)
  OBVIOUS
<1>7. pre \in Seq(Tokens) /\ Len(pre) = m /\ \A i \in 1 .. m : pre[i] = drafts[i]
  <2>1. PICK d \in Seq(Tokens) : d = drafts
    BY <1>4
  <2>2. m \in 0 .. Len(d)
    BY <2>1
  <2>3. Take(d, m) \in Seq(Tokens) /\ Len(Take(d, m)) = m /\ \A i \in 1 .. m : Take(d, m)[i] = d[i]
    BY <2>2, TakeIs
  <2> QED
    BY <1>6, <2>1, <2>3
<1>8. PICK acc : acc = <<x>> \o pre
  OBVIOUS
<1>9. /\ acc \in Seq(Tokens) /\ Len(acc) = m + 1 /\ acc # <<>> /\ Take(acc, m + 1) = acc
  <2>1. PICK e \in Tokens : e = x
    BY <1>4
  <2>2. <<e>> \o pre \in Seq(Tokens) /\ Len(<<e>> \o pre) = 1 + Len(pre)
    BY <1>7
  <2>3. acc \in Seq(Tokens) /\ Len(acc) = m + 1
    BY <1>5, <1>7, <1>8, <2>1, <2>2
  <2>4. Take(acc, m + 1) = acc
    BY <2>3 DEF Take
  <2> QED
    BY <1>5, <2>3, <2>4
<1>10. \A i \in 1 .. m : Take(acc, i) = Take(verify_in, i)
  <2> SUFFICES ASSUME NEW i \in 1 .. m PROVE Take(acc, i) = Take(verify_in, i)
    OBVIOUS
  <2>1. PICK v \in Seq(Tokens) : v = verify_in
    BY <1>4
  <2>2. i <= Len(acc) /\ i <= Len(v) /\ i \in Nat
    BY <1>4, <1>5, <1>9, <2>1
  <2>3. \A j \in 1 .. i : acc[j] = v[j]
    <3> SUFFICES ASSUME NEW j \in 1 .. i PROVE acc[j] = v[j]
      OBVIOUS
    <3>1. CASE j = 1
      BY <1>4, <1>8, <1>7, <2>1, <3>1
    <3>2. CASE j # 1
      <4>1. j - 1 \in 1 .. m /\ j \in 2 .. Len(drafts)
        BY <1>4, <1>5, <3>2
      <4>2. acc[j] = pre[j - 1]
        BY <1>7, <1>8, <4>1
      <4> QED
        BY <1>4, <1>7, <2>1, <4>1, <4>2
    <3> QED
      BY <3>1, <3>2
  <2>4. SubSeq(acc, 1, i) = SubSeq(v, 1, i)
    BY <1>9, <2>2, <2>3
  <2> QED
    BY <2>1, <2>4 DEF Take
<1>11. accepted_in' = acc
  BY <1>1, <1>5, <1>6, <1>8
<1>12. PICK b \in Seq(Tokens) : b = Base /\ b # <<>>
  BY <1>4
<1>13. Exactly(main_cache', b \o acc) /\ x' = Pred(b \o acc)
  <2>1. Exactly(snap_m.state, b)
    BY <1>4, <1>12
  <2>2. PICK c : c = snap_m.state
    OBVIOUS
  <2>3. PICK a \in Seq(Tokens) : a = acc
    BY <1>9
  <2>4. /\ Exactly(Forward(c, 1, Context(c), a, {}), b \o a)
        /\ Logits(c, 1, Context(c), a, {}) = [i \in 1 .. Len(a) |-> b \o Take(a, i)]
    BY <2>1, <2>2, WholeForward
  <2>5. Len(a) \in 1 .. Len(a) /\ Take(a, Len(a)) = a
    BY <1>5, <1>9, <2>3
  <2>6. Logits(c, 1, Context(c), a, {})[Len(a)] = b \o a
    BY <2>4, <2>5
  <2> QED
    BY <1>2, <1>3, <1>11, <2>2, <2>3, <2>4, <2>6
<1>14. x' = Argmax(b \o acc) /\ x' \in Tokens
  <2>1. b \o acc \in Seq(Tokens) /\ b \o acc # <<>>
    BY <1>9, <1>12, ConcatEqualIffEmpty
  <2>2. b \o acc # Bad
    BY <2>1, TokensAreNotBad
  <2> QED
    BY <1>13, <2>1, <2>2 DEF Pred, ArgmaxIsToken
<1>15. PICK t \in Tokens : t = x'
  BY <1>14
<1>16. PICK new : new = Append(pre, t)
  OBVIOUS
<1>17. /\ new \in Seq(Tokens) /\ new # <<>> /\ Len(new) = m + 1 /\ new[Len(new)] = t
       /\ \A i \in 1 .. m : new[i] = pre[i]
       /\ Drop(new, 1) = pre
  <2>1. /\ Append(pre, t) \in Seq(Tokens) /\ Len(Append(pre, t)) = Len(pre) + 1
        /\ Append(pre, t)[Len(pre) + 1] = t
        /\ \A i \in 1 .. Len(pre) : Append(pre, t)[i] = pre[i]
        /\ SubSeq(Append(pre, t), 1, Len(pre)) = pre
    BY <1>7
  <2>2. Len(Append(pre, t)) - 1 = Len(pre)
    BY <1>7, <2>1
  <2>3. Drop(new, 1) = pre
    BY <1>16, <2>1, <2>2 DEF Drop
  <2> QED
    BY <1>7, <1>16, <2>1, <2>3
<1>18. \A i \in 1 .. Len(new) : new[i] = Argmax(b \o Take(acc, i))
  <2> SUFFICES ASSUME NEW i \in 1 .. Len(new) PROVE new[i] = Argmax(b \o Take(acc, i))
    OBVIOUS
  <2>1. CASE i = m + 1
    BY <1>9, <1>14, <1>15, <1>17, <2>1
  <2>2. CASE i # m + 1
    <3>1. i \in 1 .. m
      BY <1>17, <2>2
    <3> QED
      BY <1>5, <1>7, <1>10, <1>12, <1>17, <3>1 DEF Fed
  <2> QED
    BY <2>1, <2>2
<1>19. new_tokens' = new
  BY <1>1, <1>5, <1>6, <1>15, <1>16
<1> QED
  BY <1>1, <1>8, <1>11, <1>12, <1>13, <1>15, <1>17, <1>18, <1>19, StepEnds

\* The last element can move from the end of one sequence to the front of the next.
LEMMA JoinedIs ==
    ASSUME NEW S, NEW p \in Seq(S), p # <<>>, NEW t \in Seq(S)
    PROVE  Drop(p, 1) \o (<<p[Len(p)]>> \o t) = p \o t
<1>1. Len(p) \in Nat \ {0} /\ p[Len(p)] \in S
  OBVIOUS
<1>2. PICK e \in S : e = p[Len(p)]
  BY <1>1
<1>a. 1 \in 0 .. Len(p)
  BY <1>1
<1>3. PICK f \in Seq(S) : f = Drop(p, 1)
  BY <1>a, DropIs
<1>4. Len(f) = Len(p) - 1 /\ \A i \in 1 .. Len(p) - 1 : f[i] = p[i]
  <2>1. Len(Drop(p, 1)) = Len(p) - 1 /\ \A i \in 1 .. Len(p) - 1 : Drop(p, 1)[i] = p[i]
    BY <1>a, DropIs
  <2> QED
    BY <1>3, <2>1
<1>5. f \o <<e>> = p
  <2>1. f \o <<e>> \in Seq(S) /\ Len(f \o <<e>>) = Len(p)
    BY <1>1, <1>4
  <2>2. \A i \in 1 .. Len(p) : (f \o <<e>>)[i] = p[i]
    BY <1>1, <1>2, <1>4
  <2> QED
    BY <2>1, <2>2, SeqEqual
<1>6. f \o (<<e>> \o t) = (f \o <<e>>) \o t
  BY ConcatAssociative
<1> QED
  BY <1>2, <1>3, <1>5, <1>6

\* What a step emits continues what was produced as its acceptance continues Base.
LEMMA EmittedIs ==
    ASSUME IInv, pc = "emit"
    PROVE  /\ ids \in Seq(Tokens) /\ produced \in Seq(Tokens) /\ snap_d \in Seq(Tokens)
           /\ new_tokens \in Seq(Tokens) /\ Len(new_tokens) \in Nat \ {0}
           /\ Len(produced) \in Nat \ {0} /\ Len(produced) < MaxTokens
           /\ accepted_in \in Seq(Tokens)
           /\ snap_d \o accepted_in = produced \o Drop(new_tokens, 1)
           /\ \A j \in 1 .. Len(new_tokens) :
                  new_tokens[j] = Argmax(ids \o (produced \o Take(new_tokens, j - 1)))
<1>1. /\ ids \in Seq(Tokens) /\ produced \in Seq(Tokens) /\ snap_d \in Seq(Tokens)
      /\ produced # <<>> /\ Len(produced) < MaxTokens /\ snap_d = Drop(produced, 1)
      /\ new_tokens \in Seq(Tokens) /\ new_tokens # <<>>
      /\ accepted_in = <<produced[Len(produced)]>> \o Drop(new_tokens, 1)
      /\ \A i \in DOMAIN new_tokens : new_tokens[i] = Argmax(Base \o Take(accepted_in, i))
  BY DEF IInv, Types, TurnInv, StepInv, EmitInv
<1>2. Len(new_tokens) \in Nat \ {0} /\ Len(produced) \in Nat \ {0}
  BY <1>1, EmptySeq
<1>3. PICK p \in Seq(Tokens) : p = produced /\ p # <<>>
  BY <1>1
<1>4. PICK n \in Seq(Tokens) : n = new_tokens /\ Len(n) \in Nat \ {0}
  BY <1>1, <1>2
<1>5. PICK e \in Tokens : e = p[Len(p)]
  BY <1>2, <1>3
<1>6. PICK t \in Seq(Tokens) : t = Drop(n, 1) /\ Len(t) = Len(n) - 1 /\ \A i \in 1 .. Len(n) - 1 : t[i] = n[i]
  BY <1>4, DropIs
<1>7. accepted_in = <<e>> \o t /\ <<e>> \o t \in Seq(Tokens)
  BY <1>1, <1>3, <1>4, <1>5, <1>6
<1>8. snap_d \o accepted_in = produced \o Drop(new_tokens, 1)
  <2>1. Drop(p, 1) \o (<<p[Len(p)]>> \o t) = p \o t
    BY <1>3, JoinedIs
  <2> QED
    BY <1>1, <1>3, <1>4, <1>5, <1>6, <1>7, <2>1
<1>9. ASSUME NEW j \in 1 .. Len(n)
      PROVE  n[j] = Argmax(ids \o (p \o Take(n, j - 1)))
  <2>1. PICK u \in Seq(Tokens) : u = Take(n, j - 1)
    BY <1>4, TakeIs
  <2>2. Take(<<e>> \o t, j) = <<e>> \o u
    <3>1. Len(<<e>>) = 1 /\ <<e>> \in Seq(Tokens) /\ 1 + (j - 1) = j /\ j - 1 \in 0 .. Len(t)
      BY <1>4, <1>6
    <3>2. PICK w \in Seq(Tokens) : w = <<e>> /\ Len(w) = 1
      BY <3>1
    <3>3. Take(w \o t, Len(w) + (j - 1)) = w \o Take(t, j - 1)
      BY <3>1, TakeOfConcat
    <3>4. Take(t, j - 1) = u
      <4>1. 1 \in 0 .. Len(n) /\ j - 1 \in 0 .. Len(n) - 1
        BY <1>4
      <4>2. Take(Drop(n, 1), j - 1) = Take(n, j - 1)
        BY <4>1, TakeOfDrop
      <4> QED
        BY <1>6, <2>1, <4>2
    <3> QED
      BY <3>1, <3>2, <3>3, <3>4
  <2>3. Drop(p, 1) \o (<<p[Len(p)]>> \o u) = p \o u
    BY <1>3, JoinedIs
  <2>4. PICK f \in Seq(Tokens) : f = snap_d /\ f \o (<<e>> \o u) = p \o u
    BY <1>1, <1>3, <1>5, <2>3
  <2>5. PICK q \in Seq(Tokens) : q = ids
    BY <1>1
  <2>6. (q \o f) \o (<<e>> \o u) = q \o (f \o (<<e>> \o u))
    <3>1. <<e>> \in Seq(Tokens)
      OBVIOUS
    <3>2. <<e>> \o u \in Seq(Tokens)
      BY <3>1, ConcatProperties, Zenon
    <3> QED
      <4>1. PICK w : w = <<e>> \o u
        OBVIOUS
      <4>2. q \in Seq(Tokens) /\ f \in Seq(Tokens) /\ w \in Seq(Tokens)
        BY <3>2, <4>1
      <4>3. (q \o f) \o w = q \o (f \o w)
        BY <4>2, Associative, ZenonT(30)
      <4> QED
        BY <4>1, <4>3, Zenon
  <2>7. Base \o Take(accepted_in, j) = q \o (p \o u)
    BY <1>7, <2>2, <2>4, <2>5, <2>6 DEF Base
  <2>8. n[j] = Argmax(Base \o Take(accepted_in, j))
    <3>1. j \in DOMAIN new_tokens
      BY <1>4
    <3> QED
      BY <1>1, <1>4, <3>1
  <2> QED
    BY <2>1, <2>5, <2>7, <2>8
<1> QED
  BY <1>1, <1>2, <1>3, <1>4, <1>7, <1>8, <1>9

\* How many of the new tokens fit.
LEMMA RoomIs ==
    ASSUME IInv, pc = "emit"
    PROVE  /\ Room \in 1 .. Len(new_tokens) /\ Room <= MaxTokens - Len(produced)
           /\ Room < Len(new_tokens) => Room = MaxTokens - Len(produced)
  BY EmittedIs, SpecDecodeAssumption DEF Room, Smaller

\* Greedy tokens that go on with what the step emits.
LEMMA GreedyGoesOn ==
    ASSUME IInv, pc = "emit", NEW r \in 1 .. Len(new_tokens)
    PROVE  Abstract!GreedyRun(ids, produced \o Take(new_tokens, r))
<1>1. /\ ids \in Seq(Tokens) /\ produced \in Seq(Tokens)
      /\ new_tokens \in Seq(Tokens) /\ Len(new_tokens) \in Nat \ {0} /\ Len(produced) \in Nat \ {0}
      /\ \A j \in 1 .. Len(new_tokens) :
             new_tokens[j] = Argmax(ids \o (produced \o Take(new_tokens, j - 1)))
      /\ Abstract!GreedyRun(ids, produced)
  BY EmittedIs DEF IInv, TurnInv
<1>2. PICK p \in Seq(Tokens), n \in Seq(Tokens) :
          p = produced /\ n = new_tokens /\ Len(p) \in Nat \ {0} /\ r \in 1 .. Len(n)
  BY <1>1
<1>a. r \in 0 .. Len(n) /\ r \in Nat
  BY <1>2
<1>3. PICK m \in Seq(Tokens) : m = Take(n, r) /\ Len(m) = r /\ \A i \in 1 .. r : m[i] = n[i]
  BY <1>a, TakeIs
<1>b. /\ DOMAIN (p \o m) = 1 .. Len(p) + Len(m)
      /\ \A k \in 1 .. Len(p) : (p \o m)[k] = p[k]
      /\ \A k \in 1 .. Len(m) : (p \o m)[Len(p) + k] = m[k]
      /\ \A k \in 0 .. Len(p) : Take(p \o m, k) = Take(p, k)
  BY ConcatIs
<1>4. ASSUME NEW i \in DOMAIN (p \o m)
      PROVE  (p \o m)[i] = Argmax(ids \o SubSeq(p \o m, 1, i - 1))
  <2>1. i \in 1 .. Len(p) + r
    BY <1>3, <1>b
  <2>2. CASE i <= Len(p)
    <3>1. i \in DOMAIN p
      BY <2>1, <2>2
    <3>2. p[i] = Argmax(ids \o SubSeq(p, 1, i - 1))
      BY <1>1, <1>2, <3>1 DEF Abstract!GreedyRun
    <3>3. SubSeq(p \o m, 1, i - 1) = SubSeq(p, 1, i - 1) /\ (p \o m)[i] = p[i]
      <4>1. i \in 1 .. Len(p) /\ i - 1 \in 0 .. Len(p)
        BY <1>2, <1>a, <2>1, <2>2
      <4> QED
        BY <1>b, <4>1 DEF Take
    <3> QED
      BY <3>2, <3>3
  <2>3. CASE ~(i <= Len(p))
    <3>1. PICK j \in 1 .. r : i = Len(p) + j
      <4>1. i - Len(p) \in 1 .. r /\ i = Len(p) + (i - Len(p))
        BY <2>1, <2>3, <1>2
      <4> QED
        BY <4>1
    <3>2. (p \o m)[i] = n[j]
      BY <1>3, <1>b, <3>1
    <3>3. j - 1 \in 0 .. Len(m) /\ i - 1 = Len(p) + (j - 1)
      BY <1>2, <1>3, <1>a, <3>1
    <3>4. Take(p \o m, Len(p) + (j - 1)) = p \o Take(m, j - 1)
      BY <3>3, TakeOfConcat
    <3>5. Take(m, j - 1) = Take(n, j - 1)
      <4>1. j - 1 \in 0 .. r
        BY <1>a, <3>1
      <4>2. Take(Take(n, r), j - 1) = Take(n, j - 1)
        BY <1>a, <4>1, TakeOfTake
      <4> QED
        BY <1>3, <4>2
    <3>6. SubSeq(p \o m, 1, i - 1) = p \o Take(n, j - 1)
      BY <3>3, <3>4, <3>5 DEF Take
    <3>7. j \in 1 .. Len(new_tokens)
      BY <1>1
    <3>8. n[j] = Argmax(ids \o (p \o Take(n, j - 1)))
      BY <1>1, <1>2, <3>7
    <3> QED
      BY <3>2, <3>6, <3>8
  <2> QED
    BY <2>2, <2>3
<1> QED
  BY <1>2, <1>3, <1>4 DEF Abstract!GreedyRun

\* The caches of before the step and the accepted tokens, regrouped.
LEMMA BaseGrows ==
    ASSUME IInv, pc = "emit"
    PROVE  Base \o accepted_in = ids \o (snap_d \o accepted_in)
<1>1. PICK q, f, g : q = ids /\ f = snap_d /\ g = accepted_in
  OBVIOUS
<1>2. q \in Seq(Tokens) /\ f \in Seq(Tokens) /\ g \in Seq(Tokens)
  BY <1>1, EmittedIs
<1>3. (q \o f) \o g = q \o (f \o g)
  BY <1>2, Associative
<1> QED
  BY <1>1, <1>3 DEF Base

\* Emitting: the MTP head absorbs what the caches did, and the tokens are greedy.
LEMMA EmitStep ==
    ASSUME IInv, Emit, UNCHANGED session
    PROVE  IInv'
<1>1. /\ pc = "emit" /\ pc' = "loop"
      /\ produced' = produced \o Take(new_tokens, Room)
      /\ mtp_cache' = mtp_cache \o accepted_in /\ snap_d' = <<>> /\ branches' = <<<<>>, <<>>>>
      /\ cfg' = cfg /\ ids' = ids /\ main_cache' = main_cache /\ x' = x
      /\ kept' = kept /\ cached_ids' = cached_ids /\ reused' = reused
  BY DEF Emit, ClearStep, session
<1>2. /\ ids \in Seq(Tokens) /\ produced \in Seq(Tokens) /\ snap_d \in Seq(Tokens)
      /\ new_tokens \in Seq(Tokens) /\ Len(new_tokens) \in Nat \ {0}
      /\ Len(produced) \in Nat \ {0} /\ Len(produced) < MaxTokens
      /\ accepted_in \in Seq(Tokens)
      /\ snap_d \o accepted_in = produced \o Drop(new_tokens, 1)
  BY <1>1, EmittedIs
<1>3. /\ Exactly(main_cache, Base \o accepted_in) /\ mtp_cache = snap_d
      /\ x = new_tokens[Len(new_tokens)] /\ ids # <<>>
      /\ cfg \in Configs /\ cached_ids \in Seq(Tokens) /\ reused \in BOOLEAN
  BY <1>1 DEF IInv, EmitInv, TurnInv, Types
<1>4. PICK r \in 1 .. Len(new_tokens) :
          /\ r = Room /\ r <= MaxTokens - Len(produced)
          /\ r < Len(new_tokens) => r = MaxTokens - Len(produced)
  BY <1>1, RoomIs
<1>5. PICK p \in Seq(Tokens), n \in Seq(Tokens) :
          /\ p = produced /\ n = new_tokens
          /\ Len(p) \in Nat \ {0} /\ Len(n) \in Nat \ {0} /\ r \in 1 .. Len(n)
  BY <1>2, <1>4
<1>6. PICK m \in Seq(Tokens) : m = Take(n, r) /\ Len(m) = r /\ \A i \in 1 .. r : m[i] = n[i]
  BY <1>5, TakeIs
<1>7. PICK t \in Seq(Tokens) : t = Drop(n, 1) /\ Len(t) = Len(n) - 1 /\ \A i \in 1 .. Len(n) - 1 : t[i] = n[i]
  BY <1>5, DropIs
<1>8. produced' = p \o m /\ mtp_cache' = p \o t /\ MaxTokens \in Nat
  BY <1>1, <1>2, <1>3, <1>4, <1>5, <1>6, <1>7, SpecDecodeAssumption
<1>9. /\ p \o m \in Seq(Tokens) /\ Len(p \o m) = Len(p) + r /\ p \o m # <<>>
      /\ p \o t \in Seq(Tokens) /\ Len(p \o t) = Len(p) + Len(n) - 1
      /\ Drop(p \o m, 1) = Take(p \o t, Len(p \o m) - 1)
  <2>1. p \o m \in Seq(Tokens) /\ Len(p \o m) = Len(p) + r /\ p \o m # <<>>
    <3>1. p \o m \in Seq(Tokens) /\ Len(p \o m) = Len(p) + Len(m)
      BY ConcatIs
    <3>2. p # <<>>
      BY <1>5
    <3> QED
      BY <1>6, <3>1, <3>2, ConcatEqualIffEmpty
  <2>2. p \o t \in Seq(Tokens) /\ Len(p \o t) = Len(p) + Len(n) - 1
    <3>1. p \o t \in Seq(Tokens) /\ Len(p \o t) = Len(p) + Len(t)
      BY ConcatIs
    <3> QED
      BY <1>5, <1>7, <3>1
  <2>3. Drop(p \o m, 1) = Take(p \o t, Len(p \o m) - 1)
    <3>1. /\ r - 1 \in 0 .. Len(m) /\ r - 1 \in 0 .. Len(t) /\ r \in 0 .. Len(n)
          /\ r - 1 \in 0 .. r /\ r - 1 \in 0 .. Len(n) - 1 /\ 1 \in 0 .. Len(n)
      BY <1>5, <1>6, <1>7
    <3>2. /\ Take(p \o m, Len(p) + (r - 1)) = p \o Take(m, r - 1)
          /\ Take(p \o t, Len(p) + (r - 1)) = p \o Take(t, r - 1)
      BY <3>1, TakeOfConcat
    <3>3. Take(m, r - 1) = Take(t, r - 1)
      <4>1. Take(Take(n, r), r - 1) = Take(n, r - 1)
        BY <3>1, TakeOfTake
      <4>2. Take(Drop(n, 1), r - 1) = Take(n, r - 1)
        BY <3>1, TakeOfDrop
      <4> QED
        BY <1>6, <1>7, <4>1, <4>2
    <3>4. Len(p \o m) - 1 = Len(p) + (r - 1)
      BY <1>5, <2>1
    <3> QED
      BY <3>2, <3>3, <3>4 DEF Drop, Take
  <2> QED
    BY <2>1, <2>2, <2>3
<1>10. Types'
  <2>1. Len(p \o m) <= MaxTokens
    BY <1>2, <1>4, <1>5, <1>8, <1>9
  <2>2. <<>> \in Seq(Tokens)
    OBVIOUS
  <2> QED
    BY <1>1, <1>2, <1>3, <1>8, <1>9, <2>1, <2>2 DEF Types
<1>11. TurnInv' /\ ReuseExact'
  <2>1. Abstract!GreedyRun(ids, produced \o Take(new_tokens, r))
    BY <1>1, GreedyGoesOn
  <2>2. Abstract!GreedyRun(ids, produced)'
    BY <1>1, <1>4, <2>1 DEF Abstract!GreedyRun
  <2>3. TurnInv'
    BY <1>1, <1>3, <1>8, <1>9, <2>2 DEF TurnInv
  <2>4. ReuseExact'
    BY <1>1 DEF IInv, ReuseExact
  <2> QED
    BY <2>3, <2>4
<1>12. LoopInv'
  <2>1. Exactly(main_cache', ids' \o mtp_cache')
    <3>1. Base \o accepted_in = ids \o (snap_d \o accepted_in)
      BY <1>1, BaseGrows
    <3>2. Base \o accepted_in = ids' \o mtp_cache'
      BY <1>1, <1>3, <3>1
    <3> QED
      BY <1>1, <1>3, <3>2
  <2>2. Len(produced') - 1 <= Len(mtp_cache') /\ Take(mtp_cache', Len(produced') - 1) = Drop(produced', 1)
    BY <1>5, <1>8, <1>9
  <2>3. ASSUME Len(produced') < MaxTokens
        PROVE  mtp_cache' = Drop(produced', 1) /\ x' = produced'[Len(produced')]
    <3>1. r = Len(n)
      <4>1. /\ r \in Nat /\ Len(n) \in Nat /\ Len(p) \in Nat /\ MaxTokens \in Nat /\ r <= Len(n)
            /\ Len(p) + r < MaxTokens
        BY <1>5, <1>8, <1>9, <2>3
      <4>2. r < Len(n) => r = MaxTokens - Len(p)
        BY <1>4, <1>5
      <4> QED
        BY <4>1, <4>2
    <3>2. Len(p \o t) = Len(p \o m) - 1
      BY <1>5, <1>9, <3>1
    <3>3. Take(p \o t, Len(p \o t)) = p \o t
      BY ConcatIs
    <3>4. (p \o m)[Len(p \o m)] = n[Len(n)]
      BY <1>5, <1>6, <1>9, <3>1
    <3> QED
      BY <1>1, <1>3, <1>5, <1>8, <1>9, <3>2, <3>3, <3>4
  <2> QED
    BY <1>1, <2>1, <2>2, <2>3 DEF LoopInv
<1>13. StepInv' /\ ChainInv' /\ DraftedInv' /\ SnapInv' /\ MissedInv' /\ VerifiedInv' /\ EmitInv'
  BY <1>1 DEF StepInv, ChainInv, DraftedInv, SnapInv, MissedInv, VerifiedInv, EmitInv, Before
<1> QED
  BY <1>10, <1>11, <1>12, <1>13 DEF IInv

-----------------------------------------------------------------------------
(* Between turns *)

\* The cache a turn starts from holds exactly the part of the prompt it is not given.
LEMMA PrefixIsHeld ==
    ASSUME IInv, pc = "idle", NEW new \in Prompts, NEW n,
           n = IF kept = None THEN 0 ELSE ReusePrefixLen(cached_ids, new)
    PROVE  /\ n \in 0 .. Len(new) - 1
           /\ Exactly(IF n > 0 THEN kept ELSE NewCache, Take(new, n))
<1>1. new \in Seq(Tokens) /\ new # <<>> /\ Len(new) \in Nat \ {0}
  BY ChatSessionAssumption, EmptySeq
<1>2. cached_ids \in Seq(Tokens) /\ (kept # None => \A l \in Layers : kept[l] = cached_ids)
  BY DEF IInv, Types, TurnInv, ReuseExact
<1>3. CASE n > 0
  <2>1. kept # None /\ n = ReusePrefixLen(cached_ids, new)
    BY <1>3
  <2>2. /\ n = Len(cached_ids) /\ Len(new) > Len(cached_ids)
        /\ Take(new, Len(cached_ids)) = cached_ids
    BY <1>3, <2>1 DEF ReusePrefixLen
  <2> QED
    BY <1>1, <1>2, <1>3, <2>1, <2>2 DEF Exactly
<1>4. CASE ~(n > 0)
  <2>1. n = 0
    BY <1>2, <1>4 DEF ReusePrefixLen
  <2>2. Take(new, 0) = <<>>
    BY <1>1 DEF Take
  <2> QED
    BY <1>1, <1>4, <2>1, <2>2 DEF Exactly, NewCache
<1> QED
  BY <1>3, <1>4

\* A prompt is what the cache holds of it and what the turn runs.
LEMMA RestIs ==
    ASSUME NEW S, NEW s \in Seq(S), NEW n \in 0 .. Len(s)
    PROVE  /\ SubSeq(s, n + 1, Len(s)) \in Seq(S)
           /\ Len(SubSeq(s, n + 1, Len(s))) = Len(s) - n
           /\ Take(s, n) \o SubSeq(s, n + 1, Len(s)) = s
<1>1. Len(s) \in Nat /\ n \in Nat
  OBVIOUS
<1>2. /\ SubSeq(s, n + 1, Len(s)) \in Seq(S)
      /\ Len(SubSeq(s, n + 1, Len(s))) = Len(s) - n
  BY <1>1
<1>3. 1 \in 1 .. Len(s) + 1 /\ n \in (1 - 1) .. Len(s) /\ Len(s) \in n .. Len(s)
  BY <1>1
<1>4. SubSeq(s, 1, n) \o SubSeq(s, n + 1, Len(s)) = SubSeq(s, 1, Len(s))
  BY <1>3, ConcatAdjacentSubSeq
<1>5. SubSeq(s, 1, Len(s)) = s
  OBVIOUS
<1>6. Take(s, n) = SubSeq(s, 1, n)
  BY DEF Take
<1> QED
  BY <1>2, <1>4, <1>5, <1>6, Zenon

\* A turn runs what the cache does not hold and is then at its first greedy token,
\* whether or not it reuses a cache.
LEMMA TurnIs ==
    ASSUME ArgmaxIsToken, IInv, Turn
    PROVE  /\ pc = "idle" /\ pc' = "loop" /\ cfg' = cfg /\ kept' = kept /\ cached_ids' = cached_ids
           /\ ids' \in Seq(Tokens) \ {<<>>} /\ produced' = <<Argmax(ids')>> /\ x' = Argmax(ids')
           /\ Argmax(ids') \in Tokens
           /\ Exactly(main_cache', ids') /\ mtp_cache' = <<>> /\ snap_d' = <<>>
           /\ branches' = <<<<>>, <<>>>> /\ reused' \in BOOLEAN
<1>1. PICK new \in Prompts :
          LET cached_len == IF kept = None THEN 0 ELSE ReusePrefixLen(cached_ids, new)
          IN  /\ Prefill(new, IF cached_len > 0 THEN kept ELSE NewCache, cached_len)
              /\ reused' = (cached_len > 0)
  BY Zenon DEF Turn
<1>2. pc = "idle" /\ cfg' = cfg /\ kept' = kept /\ cached_ids' = cached_ids
  BY DEF Turn
<1>3. PICK n : n = IF kept = None THEN 0 ELSE ReusePrefixLen(cached_ids, new)
  OBVIOUS
<1>4. PICK c : c = IF n > 0 THEN kept ELSE NewCache
  OBVIOUS
<1>5. Prefill(new, c, n) /\ reused' = (n > 0)
  BY <1>1, <1>3, <1>4, Zenon
<1>6. n \in 0 .. Len(new) - 1 /\ Exactly(c, Take(new, n))
  BY <1>2, <1>3, <1>4, PrefixIsHeld
<1>7. new \in Seq(Tokens) /\ new # <<>> /\ Len(new) \in Nat \ {0}
  BY ChatSessionAssumption, EmptySeq
<1>8. PICK b \in Seq(Tokens) : b = Take(new, n) /\ Len(b) = n
  BY <1>6, <1>7, TakeIs
<1>a. PICK s \in Seq(Tokens) : s = new
  BY <1>7
<1>c. PICK k \in 0 .. Len(s) : k = n
  BY <1>6, <1>7, <1>a
<1>b. /\ SubSeq(s, k + 1, Len(s)) \in Seq(Tokens)
      /\ Len(SubSeq(s, k + 1, Len(s))) = Len(s) - k
      /\ Take(s, k) \o SubSeq(s, k + 1, Len(s)) = s
  BY RestIs
<1>9. PICK rest \in Seq(Tokens) :
          /\ rest = SubSeq(new, n + 1, Len(new)) /\ Len(rest) = Len(new) - n
          /\ Take(new, n) \o rest = new
  BY <1>a, <1>b, <1>c
<1>10. b \o rest = new /\ Len(rest) \in 1 .. Len(rest) /\ Take(rest, Len(rest)) = rest
  <2>1. Len(rest) \in 1 .. Len(rest)
    BY <1>6, <1>7, <1>9
  <2>2. rest \in Seq(Tokens)
    BY <1>9
  <2>3. Take(rest, Len(rest)) = rest
    BY <2>2 DEF Take
  <2> QED
    BY <1>8, <1>9, <2>1, <2>3
<1>11. /\ Exactly(Forward(c, 1, Context(c), rest, {}), b \o rest)
       /\ Logits(c, 1, Context(c), rest, {}) = [i \in 1 .. Len(rest) |-> b \o Take(rest, i)]
  <2>1. PICK d : d = c
    OBVIOUS
  <2>2. Exactly(d, b)
    BY <1>6, <1>8, <2>1
  <2>3. /\ Exactly(Forward(d, 1, Context(d), rest, {}), b \o rest)
        /\ Logits(d, 1, Context(d), rest, {}) = [i \in 1 .. Len(rest) |-> b \o Take(rest, i)]
    BY <2>2, WholeForward
  <2> QED
    BY <2>1, <2>3
<1>12. Logits(c, 1, Context(c), rest, {})[Len(rest)] = new
  BY <1>10, <1>11
<1>13. Pred(new) = Argmax(new) /\ Argmax(new) \in Tokens
  BY <1>7, TokensAreNotBad DEF Pred, ArgmaxIsToken
<1>14. /\ ids' = new /\ main_cache' = Forward(c, 1, Context(c), rest, {})
       /\ x' = Argmax(new) /\ produced' = <<Argmax(new)>>
       /\ mtp_cache' = <<>> /\ snap_d' = <<>> /\ branches' = <<<<>>, <<>>>> /\ pc' = "loop"
  BY <1>5, <1>9, <1>12, <1>13 DEF Prefill, ClearStep
<1> QED
  BY <1>2, <1>5, <1>7, <1>10, <1>11, <1>13, <1>14

\* The invariant at the beginning of a turn.
LEMMA TurnStep ==
    ASSUME ArgmaxIsToken, IInv, Turn
    PROVE  IInv'
<1>1. /\ pc = "idle" /\ pc' = "loop" /\ cfg' = cfg /\ kept' = kept /\ cached_ids' = cached_ids
      /\ ids' \in Seq(Tokens) \ {<<>>} /\ produced' = <<Argmax(ids')>> /\ x' = Argmax(ids')
      /\ Argmax(ids') \in Tokens
      /\ Exactly(main_cache', ids') /\ mtp_cache' = <<>> /\ snap_d' = <<>>
      /\ branches' = <<<<>>, <<>>>> /\ reused' \in BOOLEAN
  BY TurnIs
<1>2. PICK p, t : p = ids' /\ t = Argmax(ids')
  OBVIOUS
<1>3. /\ <<t>> \in Seq(Tokens) /\ <<t>> # <<>> /\ Len(<<t>>) = 1 /\ <<t>>[1] = t
      /\ Drop(<<t>>, 1) = <<>> /\ Take(<<>>, 0) = <<>> /\ <<>> \in Seq(Tokens)
      /\ p \o <<>> = p /\ DOMAIN <<t>> = {1} /\ SubSeq(<<t>>, 1, 0) = <<>>
  <2>1. p \in Seq(Tokens) /\ t \in Tokens
    BY <1>1, <1>2
  <2> QED
    BY <2>1 DEF Drop, Take
<1>4. Types'
  BY <1>1, <1>2, <1>3, SpecDecodeAssumption DEF IInv, Types
<1>5. TurnInv'
  <2>1. (Abstract!GreedyRun(ids, produced))'
    <3>0. SubSeq(<<t>>, 1, 1 - 1) = <<>>
      BY <1>3
    <3>1. \A i \in {1} : <<t>>[i] = Argmax(p \o SubSeq(<<t>>, 1, i - 1))
      BY <1>2, <1>3, <3>0, Zenon
    <3> QED
      BY <1>1, <1>2, <1>3, <3>1 DEF Abstract!GreedyRun
  <2> QED
    BY <1>1, <1>2, <1>3, <2>1 DEF TurnInv
<1>6. ReuseExact'
  BY <1>1 DEF IInv, TurnInv, ReuseExact
<1>7. LoopInv'
  BY <1>1, <1>2, <1>3 DEF LoopInv
<1>8. StepInv' /\ ChainInv' /\ DraftedInv' /\ SnapInv' /\ MissedInv' /\ VerifiedInv' /\ EmitInv'
  BY <1>1 DEF StepInv, ChainInv, DraftedInv, SnapInv, MissedInv, VerifiedInv, EmitInv, Before
<1> QED
  BY <1>4, <1>5, <1>6, <1>7, <1>8 DEF IInv

\* Nothing but what is kept survives the turn.
LEMMA NoTurnIs ==
    ASSUME IInv, NoTurn, ReuseExact', cached_ids' \in Seq(Tokens)
    PROVE  IInv'
<1>1. /\ pc' = "idle" /\ ids' = <<>> /\ produced' = <<>> /\ mtp_cache' = <<>> /\ snap_d' = <<>>
      /\ reused' = FALSE /\ cfg' = cfg
  BY DEF NoTurn
<1>2. <<>> \in Seq(Tokens) /\ Len(<<>>) <= MaxTokens
  BY SpecDecodeAssumption
<1>3. Types'
  BY <1>1, <1>2 DEF IInv, Types
<1>4. TurnInv' /\ LoopInv' /\ StepInv' /\ ChainInv' /\ DraftedInv' /\ SnapInv' /\ MissedInv'
      /\ VerifiedInv' /\ EmitInv'
  BY <1>1 DEF TurnInv, LoopInv, StepInv, ChainInv, DraftedInv, SnapInv, MissedInv, VerifiedInv,
              EmitInv, Before
<1> QED
  BY <1>3, <1>4 DEF IInv

\* A cache is kept only if its length tells that it holds the tokens reported.
LEMMA FinishStep ==
    ASSUME IInv, Finish
    PROVE  IInv'
<1>1. /\ pc = "loop" /\ NoTurn
      /\ kept' = IF Reconciled THEN main_cache ELSE None
      /\ cached_ids' = IF Reconciled THEN ids \o Drop(produced, 1) ELSE <<>>
  BY DEF Finish, Returned
<1>2. /\ ids \in Seq(Tokens) /\ produced \in Seq(Tokens) /\ produced # <<>>
      /\ mtp_cache \in Seq(Tokens) /\ Exactly(main_cache, ids \o mtp_cache)
      /\ Take(mtp_cache, Len(produced) - 1) = Drop(produced, 1)
  BY <1>1 DEF IInv, Types, TurnInv, LoopInv
<1>3. Drop(produced, 1) \in Seq(Tokens) /\ Len(produced) \in Nat \ {0}
  <2>1. PICK p \in Seq(Tokens) : p = produced /\ Len(p) \in Nat \ {0}
    BY <1>2
  <2>2. 1 \in 0 .. Len(p)
    BY <2>1
  <2> QED
    BY <2>1, <2>2, DropIs
<1>4. ResidentTokens = Len(ids) + Len(mtp_cache)
  <2> DEFINE kv == Layers \ Linear
             first == CHOOSE l \in kv : \A m \in kv : l <= m
  <2>1. kv \in SUBSET Nat /\ kv # {}
    BY LayersAre, SpecDecodeAssumption
  <2>2. \E l \in kv : \A m \in kv : l <= m
    <3> HIDE DEF kv
    <3> QED
      BY <2>1, LeastElement
  <2>3. first \in Layers
    BY <2>2
  <2> HIDE DEF first
  <2>4. main_cache[first] = ids \o mtp_cache
    BY <1>2, <2>3 DEF Exactly
  <2>5. ResidentTokens = Len(main_cache[first])
    BY DEF ResidentTokens, first
  <2> QED
    BY <1>2, <2>4, <2>5
<1>5. ASSUME Reconciled PROVE Exactly(main_cache, ids \o Drop(produced, 1))
  <2>1. Len(mtp_cache) = Len(produced) - 1
    <3>1. Len(ids) \in Nat /\ Len(mtp_cache) \in Nat
      BY <1>2
    <3> QED
      BY <1>3, <1>4, <1>5, <3>1 DEF Reconciled
  <2>2. Take(mtp_cache, Len(mtp_cache)) = mtp_cache
    BY <1>2 DEF Take
  <2> QED
    BY <1>2, <2>1, <2>2
<1>6. ReuseExact'
  BY <1>1, <1>5 DEF ReuseExact, Exactly
<1>7. cached_ids' \in Seq(Tokens)
  BY <1>1, <1>2, <1>3
<1> QED
  BY <1>1, <1>6, <1>7, NoTurnIs

\* A turn that fails on a cache of its own leaves the kept one alone.
LEMMA FailStep ==
    ASSUME ~FailReused, IInv, Fail
    PROVE  IInv'
<1>1. NoTurn /\ ~reused /\ kept' = kept /\ cached_ids' = cached_ids
  BY DEF Fail
<1>2. ReuseExact' /\ cached_ids' \in Seq(Tokens)
  BY <1>1 DEF IInv, ReuseExact, Types
<1> QED
  BY <1>1, <1>2, NoTurnIs

\* The definitions IInv is made of, and the modes they read.
LEMMA ResetStep ==
    ASSUME IInv, Reset \/ UNCHANGED allvars
    PROVE  IInv'
<1>1. /\ cfg' = cfg /\ pc' = pc /\ ids' = ids /\ main_cache' = main_cache
      /\ checkpoints' = checkpoints /\ x' = x /\ produced' = produced
      /\ mtp_cache' = mtp_cache /\ snap_d' = snap_d /\ drafts' = drafts /\ branches' = branches
      /\ verify_in' = verify_in /\ verify_snaps' = verify_snaps /\ snap_m' = snap_m
      /\ logits' = logits /\ failed' = failed /\ accepted_in' = accepted_in
      /\ new_tokens' = new_tokens /\ reused' = reused
      /\ (kept' = kept /\ cached_ids' = cached_ids) \/ (kept' = None /\ cached_ids' = <<>>)
  BY DEF Reset, allvars, session, vars, step
<1>2. Base' = Base /\ \A l \in Linear : CheckpointOf(l)' = CheckpointOf(l)
  BY <1>1 DEF Base, CheckpointOf, StatesAfter
<1>3. Types' /\ TurnInv' /\ ReuseExact'
  <2>1. <<>> \in Seq(Tokens)
    OBVIOUS
  <2>2. Types'
    BY <1>1, <2>1 DEF IInv, Types
  <2>3. TurnInv'
    BY <1>1 DEF IInv, TurnInv
  <2>4. ReuseExact'
    BY <1>1 DEF IInv, ReuseExact
  <2> QED
    BY <2>2, <2>3, <2>4
<1>4. LoopInv' /\ StepInv' /\ DraftedInv'
  BY <1>1, <1>2 DEF IInv, LoopInv, StepInv, DraftedInv
<1>5. ChainInv' /\ SnapInv'
  BY <1>1, <1>2, SameModes DEF IInv, ChainInv, SnapInv
<1>6. MissedInv'
  BY <1>1, <1>2, SameModes DEF IInv, MissedInv, CheckpointOf, StatesAfter
<1>7. VerifiedInv'
  BY <1>1, <1>2 DEF IInv, VerifiedInv, Fed, CheckpointOf, StatesAfter
<1>8. EmitInv'
  BY <1>1, <1>2 DEF IInv, EmitInv
<1> QED
  BY <1>3, <1>4, <1>5, <1>6, <1>7, <1>8 DEF IInv

\* Every step preserves the inductive invariant.
LEMMA NextInv ==
    ASSUME ArgmaxIsToken, SparseIsReplayed, ~FailReused, IInv, [Next]_allvars
    PROVE  IInv'
<1>1. CASE Turn
  BY <1>1, TurnStep
<1>2. CASE DecodeStep
  <2>1. Step /\ UNCHANGED session
    BY <1>2 DEF DecodeStep
  <2>2. CASE Draft
    BY <2>1, <2>2, DraftStep
  <2>3. CASE Verify
    BY <2>1, <2>3, VerifyStep
  <2>4. CASE ReplayOptimistic
    BY <2>1, <2>4, ReplayOptimisticStep
  <2>5. CASE ReplaySparse
    BY <2>1, <2>5, ReplaySparseStep
  <2>6. CASE ReplaySuffix
    BY <2>1, <2>6, ReplaySuffixStep
  <2>7. CASE Rescue
    BY <2>1, <2>7, RescueStep
  <2>8. CASE VerifyPaths
    BY <2>1, <2>8, VerifyPathsStep
  <2>9. CASE Commit
    BY <2>1, <2>9, CommitStep
  <2>10. CASE Replay
    BY <2>1, <2>10, ReplayStep
  <2>11. CASE Emit
    BY <2>1, <2>11, EmitStep
  <2> QED
    BY <2>1, <2>2, <2>3, <2>4, <2>5, <2>6, <2>7, <2>8, <2>9, <2>10, <2>11 DEF Step
<1>3. CASE Finish
  BY <1>3, FinishStep
<1>4. CASE Fail
  BY <1>4, FailStep
<1>5. CASE Reset \/ UNCHANGED allvars
  BY <1>5, ResetStep
<1> QED
  BY <1>1, <1>2, <1>3, <1>4, <1>5 DEF Next

\* The caches, chains, snapshots and checkpoints of every step are as the code
\* assumes when it goes on (mtp_generate).
THEOREM Inductive ==
    ASSUME ArgmaxIsToken, SparseIsReplayed, ~FailReused
    PROVE  Spec => []IInv
<1>1. Init => IInv
  BY InitInv
<1>2. IInv /\ [Next]_allvars => IInv'
  BY NextInv
<1> QED
  BY <1>1, <1>2, PTL DEF Spec

\* Whatever was drafted, missed, restored and run again, each layer of the cache holds
\* the prompt and the accepted tokens when the loop of mtp_generate comes round.
THEOREM CacheIsWhatWasAccepted ==
    ASSUME ArgmaxIsToken, SparseIsReplayed, ~FailReused
    PROVE  Spec => []CacheHoldsAccepted
<1>1. ASSUME IInv PROVE CacheHoldsAccepted
  <2> SUFFICES ASSUME pc = "loop", NEW l \in Layers
               PROVE  /\ main_cache[l] = main_cache[1]
                      /\ Take(main_cache[l], Len(ids \o Drop(produced, 1))) = ids \o Drop(produced, 1)
                      /\ Len(produced) < MaxTokens => main_cache[l] = ids \o Drop(produced, 1)
    BY Zenon DEF CacheHoldsAccepted
  <2>1. /\ ids \in Seq(Tokens) /\ produced \in Seq(Tokens) /\ produced # <<>> /\ mtp_cache \in Seq(Tokens)
        /\ Exactly(main_cache, ids \o mtp_cache)
        /\ Len(produced) - 1 <= Len(mtp_cache)
        /\ Take(mtp_cache, Len(produced) - 1) = Drop(produced, 1)
        /\ Len(produced) < MaxTokens => mtp_cache = Drop(produced, 1)
    BY <1>1 DEF IInv, Types, TurnInv, LoopInv
  <2>2. main_cache[l] = ids \o mtp_cache /\ main_cache[1] = ids \o mtp_cache
    BY <2>1, LayersAre DEF Exactly
  <2>3. PICK p \in Seq(Tokens), q \in Seq(Tokens), m \in Seq(Tokens) :
            p = produced /\ q = ids /\ m = mtp_cache /\ Len(p) \in Nat \ {0}
    BY <2>1
  <2>4. Len(p) - 1 \in 0 .. Len(m) /\ 1 \in 0 .. Len(p)
    BY <2>1, <2>3
  <2>5. Drop(p, 1) \in Seq(Tokens) /\ Len(Drop(p, 1)) = Len(p) - 1
    BY <2>3, <2>4, DropIs
  <2>6. Len(q \o Drop(p, 1)) = Len(q) + (Len(p) - 1)
    <3>1. PICK f \in Seq(Tokens) : f = Drop(p, 1) /\ Len(f) = Len(p) - 1
      BY <2>5
    <3>2. Len(q \o f) = Len(q) + Len(f)
      BY ConcatIs
    <3> QED
      BY <3>1, <3>2
  <2>7. Take(q \o m, Len(q) + (Len(p) - 1)) = q \o Take(m, Len(p) - 1)
    BY <2>3, <2>4, TakeOfConcat
  <2>8. Take(q \o m, Len(q \o Drop(p, 1))) = q \o Drop(p, 1)
    BY <2>1, <2>3, <2>6, <2>7
  <2> QED
    BY <2>1, <2>2, <2>3, <2>8
<1> QED
  BY <1>1, Inductive, PTL

\* The cache of the MTP head and those of the main model are at the same token when
\* the loop comes round (the sync at the end of each step).
THEOREM HeadIsAligned ==
    ASSUME ArgmaxIsToken, SparseIsReplayed, ~FailReused
    PROVE  Spec => []MtpAligned
<1>1. IInv => MtpAligned
  BY DEF IInv, LoopInv, Exactly, MtpAligned
<1> QED
  BY <1>1, Inductive, PTL

\* A cache kept for the next turn holds exactly the tokens it is said to hold
\* (_main_cache and _cached_ids).
THEOREM ReuseIsExact ==
    ASSUME ArgmaxIsToken, SparseIsReplayed, ~FailReused
    PROVE  Spec => []ReuseExact
<1>1. IInv => ReuseExact
  BY DEF IInv
<1> QED
  BY <1>1, Inductive, PTL

\* Between turns nothing was asked and nothing reported.
LEMMA InitRefines == Init => Abstract!Init
  BY DEF Init, Abstract!Init, Abstract!Idle

\* An emission is a report of greedy tokens.
LEMMA EmitRefines ==
    ASSUME IInv, Emit
    PROVE  Abstract!Report
<1>1. /\ pc = "emit" /\ ids' = ids /\ produced' = produced \o Take(new_tokens, Room)
  BY DEF Emit
<1>2. ids # <<>>
  BY <1>1 DEF IInv, TurnInv
<1>3. PICK r \in 1 .. Len(new_tokens) : r = Room /\ r <= MaxTokens - Len(produced)
  BY <1>1, RoomIs
<1>4. new_tokens \in Seq(Tokens) /\ Len(produced) \in Nat /\ MaxTokens \in Nat
  BY <1>1, EmittedIs, SpecDecodeAssumption
<1>5. PICK n \in Seq(Tokens) : n = new_tokens /\ r \in 0 .. Len(n)
  BY <1>4
<1>6. Take(n, r) \in Seq(Tokens) /\ Len(Take(n, r)) = r
  BY <1>5, TakeIs
<1>7. r \in 1 .. (MaxTokens - Len(produced)) /\ Take(n, r) \in [1 .. r -> Tokens]
  <2>1. r \in 1 .. (MaxTokens - Len(produced))
    BY <1>3, <1>4
  <2>2. \A s \in Seq(Tokens) : s \in [1 .. Len(s) -> Tokens]
    OBVIOUS
  <2> QED
    BY <1>6, <2>1, <2>2
<1>8. Abstract!GreedyRun(ids, produced \o Take(new_tokens, r))
  BY <1>1, GreedyGoesOn
<1>9. produced' = produced \o Take(n, r) /\ Abstract!GreedyRun(ids, produced')
  BY <1>1, <1>3, <1>5, <1>8
<1>10. ~Abstract!Idle
  BY <1>2 DEF Abstract!Idle
<1> QED
  BY <1>1, <1>7, <1>9, <1>10 DEF Abstract!Report

\* Every step is a step of Greedy or invisible to it.
LEMMA StepRefines ==
    ASSUME ArgmaxIsToken, IInv, [Next]_allvars
    PROVE  Abstract!Next \/ (ids' = ids /\ produced' = produced)
<1>1. CASE Turn
  <2>1. /\ pc = "idle" /\ ids' \in Seq(Tokens) \ {<<>>} /\ produced' = <<Argmax(ids')>>
    BY <1>1, TurnIs
  <2>2. ids = <<>> /\ produced = <<>>
    BY <2>1 DEF IInv, TurnInv
  <2> QED
    BY <2>1, <2>2 DEF Abstract!Next, Abstract!Ask, Abstract!Idle
<1>2. CASE Finish \/ Fail
  <2>1. pc # "idle" /\ NoTurn
    BY <1>2 DEF Finish, Returned, Fail
  <2>2. ids # <<>> /\ ids' = <<>> /\ produced' = <<>>
    BY <2>1 DEF IInv, TurnInv, NoTurn
  <2> QED
    BY <2>2 DEF Abstract!Next, Abstract!End, Abstract!Idle
<1>3. CASE Emit
  BY <1>3, EmitRefines DEF Abstract!Next
<1>4. CASE Reset \/ UNCHANGED allvars
  BY <1>4 DEF Reset, allvars, vars
<1>5. CASE Draft \/ Verify \/ ReplayOptimistic \/ ReplaySparse \/ ReplaySuffix \/ Rescue
           \/ VerifyPaths \/ Commit \/ Replay
  BY <1>5 DEF Draft, Verify, ReplayOptimistic, ReplaySparse, ReplaySuffix, Rescue, VerifyPaths,
              Commit, Replay, RecoverUnchanged, CommitUnchanged
<1> QED
  BY <1>1, <1>2, <1>3, <1>4, <1>5, Zenon DEF Next, DecodeStep, Step

\* Speculative decoding with cache reuse reports the tokens of greedy decoding:
\* ChatSession implements Greedy.
THEOREM TurnsAreGreedy ==
    ASSUME ArgmaxIsToken, SparseIsReplayed, ~FailReused
    PROVE  Spec => ImplementsGreedy
<1>1. Init => Abstract!Init
  BY InitRefines
<1>2. IInv /\ [Next]_allvars => [Abstract!Next]_<<ids, produced>>
  BY StepRefines
<1> QED
  BY <1>1, <1>2, Inductive, PTL DEF Spec, ImplementsGreedy, Abstract!Spec

-----------------------------------------------------------------------------
(* What a step goes back to, in every mode.  Whether a step raises depends *)
(* on the kind of its snapshot and on how many states its checkpoints      *)
(* have, never on the tokens in them: no hypothesis is needed.             *)

\* An optimistic verify over a sparse budget and patched layers: its snapshot is
\* shallow, and what it goes back to is a deep one.
MixedSnapshot == OptimisticVerify /\ ShallowRollback

\* s is a sequence, whatever its elements are.
IsSeq(s) == s \in Seq(Entries(s))

\* What the recurrent layers hold is.
AllSeq(c) == \A l \in Linear : IsSeq(c[l])

\* A patched layer has kept n states; the others keep none.
Held(k, n) ==
    IF cfg.patched
    THEN ~k.armed /\ Len(k.states) = n /\ \A i \in 1 .. n : IsSeq(k.states[i])
    ELSE k.states = <<>>

SessionLists ==
    /\ IsSeq(ids) /\ IsSeq(produced) /\ IsSeq(cached_ids)
    /\ AllSeq(main_cache) /\ (kept # None => AllSeq(kept))
    /\ pc = "emit" => IsSeq(new_tokens)

\* Branches are drafted only where a deep snapshot is taken.
ChainLists ==
    /\ pc \in Before =>
         /\ drafts \in Seq(Tokens) /\ drafts # <<>>
         /\ IsSeq(verify_in) /\ Len(verify_in) = Len(drafts)
    /\ pc \in {"drafted", "missed", "verified"} =>
         \A i \in {1, 2} :
            branches[i] # <<>> => /\ branches[i] \in Seq(Tokens)
                                  /\ ~SkipSnap /\ ~ShallowRollback /\ cfg.verify # "step"
    /\ pc = "judged" => cfg.verify # "step"

\* The kind of snapshot its mode takes, and a deep one in tree and rescue modes.
SnapLists ==
    /\ pc \in {"missed", "verified"} =>
         snap_m.kind = IF SkipSnap THEN "none" ELSE IF ShallowRollback THEN "shallow" ELSE "deep"
    /\ pc = "judged" => snap_m.kind = "deep"
    /\ pc = "missed" => Detects /\ failed # {} /\ (~OptimisticVerify => failed \subseteq Layers)
    /\ pc \in {"missed", "verified", "judged"} /\ snap_m.kind # "none" => AllSeq(snap_m.state)

\* A forward leaves one checkpoint, and one row of logits, for each token.
ForwardLists ==
    /\ pc \in {"missed", "verified", "judged"} /\ cfg.verify # "step" =>
         \A l \in Linear : Held(checkpoints[l], Len(verify_in))
    /\ pc \in {"verified", "judged"} => DOMAIN logits = 1 .. Len(verify_in)
    /\ pc \in {"verified", "judged"} /\ cfg.verify = "step" =>
         \A i \in 1 .. Len(verify_in) - 1 : AllSeq(verify_snaps[i])

RaiseInv == SessionLists /\ ChainLists /\ SnapLists /\ ForwardLists

\* A sequence over any set is a sequence.
LEMMA SeqIsSeq ==
    ASSUME NEW S, NEW s \in Seq(S)
    PROVE  IsSeq(s) /\ Len(s) \in Nat /\ DOMAIN s = 1 .. Len(s)
<1>1. Len(s) \in Nat /\ DOMAIN s = 1 .. Len(s) /\ s = [i \in 1 .. Len(s) |-> s[i]]
  BY LenProperties
<1>2. \A i \in 1 .. Len(s) : s[i] \in Entries(s)
  BY <1>1 DEF Entries
<1>3. s \in Seq(Entries(s))
  BY <1>1, <1>2, IsASeq
<1> QED
  BY <1>1, <1>3 DEF IsSeq

LEMMA EmptyIsSeq == IsSeq(<<>>)
  BY SeqIsSeq, EmptySeq

\* A concatenation, a part and an extension of sequences are sequences.
LEMMA ConcatIsSeq ==
    ASSUME NEW a, NEW b, IsSeq(a), IsSeq(b)
    PROVE  IsSeq(a \o b) /\ Len(a \o b) = Len(a) + Len(b)
<1> DEFINE S == Entries(a) \cup Entries(b)
<1>1. a \in Seq(S) /\ b \in Seq(S)
  BY SeqMonotonic DEF IsSeq
<1> HIDE DEF S
<1>2. a \o b \in Seq(S) /\ Len(a \o b) = Len(a) + Len(b)
  BY <1>1
<1> QED
  BY <1>2, SeqIsSeq

LEMMA PartIsSeq ==
    ASSUME NEW s, IsSeq(s), NEW m \in Nat \ {0}, NEW n \in Int, n <= Len(s)
    PROVE  IsSeq(SubSeq(s, m, n))
<1> DEFINE S == Entries(s)
<1>1. s \in Seq(S)
  BY DEF IsSeq
<1> HIDE DEF S
<1>2. SubSeq(s, m, n) \in Seq(S)
  BY <1>1
<1> QED
  BY <1>2, SeqIsSeq

LEMMA AppendIsSeq ==
    ASSUME NEW s, NEW e, IsSeq(s)
    PROVE  IsSeq(Append(s, e))
<1> DEFINE S == Entries(s) \cup {e}
<1>1. s \in Seq(S) /\ e \in S
  BY SeqMonotonic DEF IsSeq
<1> HIDE DEF S
<1>2. Append(s, e) \in Seq(S)
  BY <1>1
<1> QED
  BY <1>2, SeqIsSeq

\* The chain of a step follows the pending token.
LEMMA ShiftIsSeq ==
    ASSUME NEW d \in Seq(Tokens), d # <<>>, NEW t
    PROVE  IsSeq(<<t>> \o Drop(d, 1)) /\ Len(<<t>> \o Drop(d, 1)) = Len(d)
<1>1. /\ IsSeq(d) /\ Len(d) \in Nat \ {0}
      /\ Drop(d, 1) \in Seq(Tokens) /\ Len(Drop(d, 1)) = Len(d) - 1
  BY SeqIsSeq, DropIs, EmptySeq
<1>2. <<t>> \in Seq({t}) /\ Len(<<t>>) = 1
  OBVIOUS
<1>3. IsSeq(<<t>>) /\ IsSeq(Drop(d, 1))
  BY <1>1, <1>2, SeqIsSeq
<1> QED
  BY <1>1, <1>2, <1>3, ConcatIsSeq

\* A forward appends its tokens to the layers it runs.
LEMMA ForwardGrows ==
    ASSUME NEW c, NEW s, NEW ctx, NEW toks, NEW miss, NEW l \in Linear,
           IsSeq(c[l]), IsSeq(toks)
    PROVE  /\ IsSeq(Forward(c, s, ctx, toks, miss)[l])
           /\ ~(l < s) => Len(Forward(c, s, ctx, toks, miss)[l]) = Len(c[l]) + Len(toks)
<1>1. l \in Layers
  BY SpecDecodeAssumption
<1>2. PICK t : t = Absorbed(c, s, ctx, toks, miss, l)
  OBVIOUS
<1>3. Forward(c, s, ctx, toks, miss)[l] = IF l < s THEN c[l] ELSE c[l] \o t
  BY <1>1, <1>2 DEF Forward
<1>4. IsSeq(t) /\ Len(t) = Len(toks)
  <2>1. toks \in Seq(Entries(toks))
    BY DEF IsSeq
  <2>2. DOMAIN toks = 1 .. Len(toks) /\ Len(toks) \in Nat
    BY <2>1, LenProperties
  <2>3. [i \in DOMAIN toks |-> Bad] \in Seq({Bad}) /\ Len([i \in DOMAIN toks |-> Bad]) = Len(toks)
    BY <2>2
  <2> QED
    BY <1>2, <2>3, SeqIsSeq DEF Absorbed
<1> QED
  BY <1>3, <1>4, ConcatIsSeq

\* What an armed layer keeps of a forward that grew it by n tokens.
LEMMA CapturedHeld ==
    ASSUME NEW ck, NEW c, NEW d, NEW l \in Linear, NEW n \in Nat,
           IsSeq(c[l]), IsSeq(d[l]), Len(d[l]) = Len(c[l]) + n,
           ck[l] = [armed |-> TRUE, states |-> <<>>]
    PROVE  Held(Captured(ck, c, d)[l], n)
<1>1. CASE ~cfg.patched
  BY <1>1 DEF Captured, Held
<1>2. CASE cfg.patched
  <2>1. Len(c[l]) \in Nat /\ Len(d[l]) \in Nat /\ Len(d[l]) - Len(c[l]) = n
    BY LenProperties DEF IsSeq
  <2>2. ck[l].armed
    OBVIOUS
  <2>3. Captured(ck, c, d)[l] = [armed |-> FALSE,
            states |-> [i \in 1 .. (Len(d[l]) - Len(c[l])) |-> Take(d[l], Len(c[l]) + i)]]
    BY <1>2, <2>2, Zenon DEF Captured
  <2>4. PICK k : k = Captured(ck, c, d)[l]
    OBVIOUS
  <2>5. ~k.armed /\ k.states = [i \in 1 .. n |-> Take(d[l], Len(c[l]) + i)]
    BY <2>1, <2>3, <2>4
  <2>6. ASSUME NEW i \in 1 .. n PROVE IsSeq(k.states[i])
    <3>1. /\ k.states[i] = SubSeq(d[l], 1, Len(c[l]) + i)
          /\ Len(c[l]) + i \in Int /\ Len(c[l]) + i <= Len(d[l])
      BY <2>1, <2>5 DEF Take
    <3> QED
      BY <3>1, PartIsSeq
  <2>7. Len(k.states) = n
    BY <2>5
  <2> QED
    BY <1>2, <2>4, <2>5, <2>6, <2>7 DEF Held
<1> QED
  BY <1>1, <1>2

\* A whole forward, with any misses, over caches that are sequences.
LEMMA ForwardFromLists ==
    ASSUME NEW c, NEW toks, NEW miss, AllSeq(c), IsSeq(toks), ForwardFrom(c, toks, miss)
    PROVE  /\ AllSeq(main_cache')
           /\ \A l \in Linear : Held(checkpoints'[l], Len(toks))
           /\ DOMAIN logits' = 1 .. Len(toks)
<1>1. /\ main_cache' = Forward(c, 1, Context(c), toks, miss)
      /\ checkpoints' = Captured(Arm(Layers), c, main_cache')
      /\ logits' = Logits(c, 1, Context(c), toks, miss)
  BY DEF ForwardFrom
<1>2. Len(toks) \in Nat /\ DOMAIN toks = 1 .. Len(toks)
  BY LenProperties DEF IsSeq
<1>3. ASSUME NEW l \in Linear
      PROVE  IsSeq(main_cache'[l]) /\ Held(checkpoints'[l], Len(toks))
  <2>1. l \in Layers /\ ~(l < 1)
    BY SpecDecodeAssumption DEF Layers
  <2>2. IsSeq(c[l])
    BY DEF AllSeq
  <2>3. IsSeq(main_cache'[l]) /\ Len(main_cache'[l]) = Len(c[l]) + Len(toks)
    BY <1>1, <2>1, <2>2, ForwardGrows
  <2>4. Arm(Layers)[l] = [armed |-> TRUE, states |-> <<>>]
    BY <2>1 DEF Arm
  <2>5. PICK ck : ck = Arm(Layers)
    OBVIOUS
  <2>6. PICK d : d = main_cache'
    OBVIOUS
  <2>7. PICK n \in Nat : n = Len(toks)
    BY <1>2
  <2>8. Held(Captured(ck, c, d)[l], n)
    <3>1. /\ IsSeq(c[l]) /\ IsSeq(d[l]) /\ Len(d[l]) = Len(c[l]) + n
          /\ ck[l] = [armed |-> TRUE, states |-> <<>>]
      BY <2>2, <2>3, <2>4, <2>5, <2>6, <2>7, Zenon
    <3> QED
      BY <3>1, CapturedHeld, Zenon
  <2> QED
    BY <1>1, <2>3, <2>5, <2>6, <2>7, <2>8, Zenon
<1>4. DOMAIN logits' = 1 .. Len(toks)
  BY <1>1, <1>2 DEF Logits
<1> QED
  BY <1>3, <1>4 DEF AllSeq

LEMMA RaiseInit == Init => RaiseInv
<1> SUFFICES ASSUME Init PROVE RaiseInv
  OBVIOUS
<1>1. SessionLists
  BY EmptyIsSeq, SpecDecodeAssumption DEF Init, SessionLists, NewCache, AllSeq
<1>2. ChainLists /\ SnapLists /\ ForwardLists
  BY DEF Init, ChainLists, SnapLists, ForwardLists, Before
<1> QED
  BY <1>1, <1>2 DEF RaiseInv

LEMMA RaiseDraft ==
    ASSUME RaiseInv, Draft, UNCHANGED session
    PROVE  RaiseInv'
<1>1. /\ pc' = "drafted" /\ cfg' = cfg /\ ids' = ids /\ main_cache' = main_cache
      /\ produced' = produced /\ kept' = kept /\ cached_ids' = cached_ids
  BY DEF Draft, session
<1>2. PICK d \in DraftChains :
          /\ drafts' = d[1] /\ branches' = d[2]
          /\ verify_in' = <<x>> \o Drop(d[1], 1)
  BY Zenon DEF Draft
<1>3. /\ d[1] \in Seq(Tokens) /\ d[1] # <<>>
      /\ \A i \in {1, 2} : d[2][i] # <<>> =>
             /\ d[2][i] \in Seq(Tokens)
             /\ (cfg.verify # "step" /\ TreeMode) \/ AdaptiveRescue
  BY DraftChainsAre
<1>4. SessionLists'
  BY <1>1 DEF RaiseInv, SessionLists, AllSeq
<1>5. ChainLists'
  <2>1. IsSeq(verify_in') /\ Len(verify_in') = Len(drafts')
    BY <1>2, <1>3, ShiftIsSeq
  <2>2. ASSUME NEW i \in {1, 2}, branches'[i] # <<>>
        PROVE  /\ branches'[i] \in Seq(Tokens)
               /\ ~SkipSnap' /\ ~ShallowRollback' /\ cfg'.verify # "step"
    <3>1. (cfg.verify # "step" /\ TreeMode) \/ AdaptiveRescue
      BY <1>2, <1>3, <2>2
    <3>2. ~SkipSnap /\ ~ShallowRollback
      BY <3>1, SnapshotModes, Zenon
    <3>3. cfg.verify # "step"
      BY <3>1 DEF AdaptiveRescue, AdaptiveMode
    <3> QED
      BY <1>1, <1>2, <1>3, <2>2, <3>2, <3>3, SameModes
  <2> QED
    BY <1>1, <1>2, <1>3, <2>1, <2>2 DEF ChainLists
<1>6. SnapLists' /\ ForwardLists'
  BY <1>1 DEF SnapLists, ForwardLists
<1> QED
  BY <1>4, <1>5, <1>6 DEF RaiseInv

\* The snapshot is of the kind its mode takes, and of sequences.
LEMMA SnapshotLists ==
    ASSUME AllSeq(main_cache)
    PROVE  /\ Snapshot.kind = IF SkipSnap THEN "none" ELSE IF ShallowRollback THEN "shallow" ELSE "deep"
           /\ Snapshot.kind # "none" => AllSeq(Snapshot.state)
<1>1. Linear \subseteq Layers
  BY SpecDecodeAssumption
<1>2. CASE SkipSnap
  BY <1>2 DEF Snapshot, NoSnapshot
<1>3. CASE ~SkipSnap /\ ShallowRollback
  BY <1>1, <1>3 DEF Snapshot, AllSeq
<1>4. CASE ~SkipSnap /\ ~ShallowRollback
  BY <1>4 DEF Snapshot
<1> QED
  BY <1>2, <1>3, <1>4

LEMMA RaiseVerify ==
    ASSUME RaiseInv, Verify, UNCHANGED session
    PROVE  RaiseInv'
<1>1. /\ pc = "drafted" /\ pc' = IF failed' = {} THEN "verified" ELSE "missed"
      /\ snap_m' = Snapshot /\ cfg' = cfg /\ ids' = ids /\ produced' = produced
      /\ drafts' = drafts /\ branches' = branches /\ verify_in' = verify_in
      /\ kept' = kept /\ cached_ids' = cached_ids
  BY DEF Verify, session
<1>2. PICK miss \in VerifyMisses :
          /\ IF cfg.verify = "step"
             THEN LET after(n) == Forward(main_cache, 1, Context(main_cache),
                                          Take(verify_in, n), miss)
                  IN  /\ main_cache' = after(Len(verify_in))
                      /\ verify_snaps' = [i \in 1..(Len(verify_in) - 1) |-> after(i)]
                      /\ logits' = Logits(main_cache, 1, Context(main_cache), verify_in, miss)
                      /\ UNCHANGED checkpoints
             ELSE ForwardFrom(main_cache, verify_in, miss) /\ UNCHANGED verify_snaps
          /\ failed' = IF Detects THEN miss ELSE {}
  BY DEF Verify
<1>3. /\ AllSeq(main_cache) /\ IsSeq(verify_in) /\ verify_in \in Seq(Entries(verify_in))
      /\ Len(verify_in) \in Nat /\ DOMAIN verify_in = 1 .. Len(verify_in)
  BY <1>1, SeqIsSeq DEF RaiseInv, SessionLists, ChainLists, Before, IsSeq
<1>4. AllSeq(main_cache') /\ DOMAIN logits' = 1 .. Len(verify_in)
  <2>1. CASE cfg.verify # "step"
    <3>1. ForwardFrom(main_cache, verify_in, miss)
      BY <1>2, <2>1
    <3> QED
      BY <1>3, <3>1, ForwardFromLists
  <2>2. CASE cfg.verify = "step"
    <3>1. Take(verify_in, Len(verify_in)) = verify_in
      BY <1>3 DEF Take
    <3>2. main_cache' = Forward(main_cache, 1, Context(main_cache), verify_in, miss)
      BY <1>2, <2>2, <3>1
    <3>3. AllSeq(main_cache')
      BY <1>3, <3>2, ForwardGrows DEF AllSeq
    <3>4. logits' = Logits(main_cache, 1, Context(main_cache), verify_in, miss)
      BY <1>2, <2>2
    <3> QED
      BY <1>3, <3>3, <3>4 DEF Logits
  <2> QED
    BY <2>1, <2>2
<1>5. SessionLists'
  BY <1>1, <1>4 DEF RaiseInv, SessionLists, AllSeq
<1>6. ChainLists'
  BY <1>1, SameModes DEF RaiseInv, ChainLists, Before
<1>7. SnapLists'
  <2>1. /\ snap_m'.kind = IF SkipSnap THEN "none" ELSE IF ShallowRollback THEN "shallow" ELSE "deep"
        /\ snap_m'.kind # "none" => AllSeq(snap_m'.state)
    BY <1>1, <1>3, SnapshotLists
  <2>2. ASSUME pc' = "missed"
        PROVE  Detects /\ failed' # {} /\ (~OptimisticVerify => failed' \subseteq Layers)
    <3>1. failed' # {} /\ Detects /\ failed' = miss
      BY <1>1, <1>2, <2>2
    <3>2. ~OptimisticVerify => miss \subseteq Layers
      <4>1. UNION SparseOverflows \subseteq Layers
        BY DEF SparseOverflows
      <4> QED
        BY <4>1 DEF VerifyMisses
    <3> QED
      BY <3>1, <3>2
  <2>3. pc' # "judged"
    BY <1>1
  <2> QED
    BY <1>1, <2>1, <2>2, <2>3, SameModes DEF SnapLists, AllSeq
<1>8. ForwardLists'
  <2>1. ASSUME cfg.verify # "step", NEW l \in Linear
        PROVE  Held(checkpoints'[l], Len(verify_in))
    <3>1. ForwardFrom(main_cache, verify_in, miss)
      BY <1>2, <2>1
    <3> QED
      BY <1>3, <3>1, ForwardFromLists
  <2>2. ASSUME cfg.verify = "step", NEW i \in 1 .. Len(verify_in) - 1
        PROVE  AllSeq(verify_snaps'[i])
    <3>1. verify_snaps'[i] = Forward(main_cache, 1, Context(main_cache), Take(verify_in, i), miss)
      BY <1>2, <2>2
    <3>2. IsSeq(Take(verify_in, i))
      BY <1>3, PartIsSeq DEF Take
    <3> QED
      BY <1>3, <3>1, <3>2, ForwardGrows DEF AllSeq
  <2> QED
    BY <1>1, <1>4, <2>1, <2>2 DEF ForwardLists, Held, AllSeq
<1> QED
  BY <1>5, <1>6, <1>7, <1>8 DEF RaiseInv

\* A forward that is run again, over the same tokens or over a branch.
LEMMA RaiseAgain ==
    ASSUME RaiseInv, pc \in {"missed", "verified"}, pc' \in {"verified", "judged"},
           cfg.verify # "step", UNCHANGED <<cfg, ids, produced, branches, snap_m>>,
           UNCHANGED session, drafts' \in Seq(Tokens), drafts' # <<>>,
           IsSeq(verify_in'), Len(verify_in') = Len(drafts'), AllSeq(main_cache'),
           DOMAIN logits' = 1 .. Len(verify_in'),
           \A l \in Linear : Held(checkpoints'[l], Len(verify_in')),
           pc' = "judged" => snap_m.kind = "deep"
    PROVE  RaiseInv'
<1>1. /\ cfg' = cfg /\ ids' = ids /\ produced' = produced /\ branches' = branches
      /\ snap_m' = snap_m /\ kept' = kept /\ cached_ids' = cached_ids
  BY DEF session
<1>2. SessionLists'
  BY <1>1 DEF RaiseInv, SessionLists, AllSeq
<1>3. ChainLists'
  BY <1>1, SameModes DEF RaiseInv, ChainLists
<1>4. SnapLists'
  BY <1>1, SameModes DEF RaiseInv, SnapLists, AllSeq
<1>5. ForwardLists'
  BY <1>1 DEF ForwardLists, Held
<1> QED
  BY <1>2, <1>3, <1>4, <1>5 DEF RaiseInv

\* The chain of a step under way, in a mode that does not step.
LEMMA ChainOf ==
    ASSUME RaiseInv, pc \in {"missed", "verified"}
    PROVE  /\ drafts \in Seq(Tokens) /\ drafts # <<>>
           /\ IsSeq(verify_in) /\ Len(verify_in) = Len(drafts)
           /\ pc = "missed" => cfg.verify # "step"
<1>1. pc = "missed" => cfg.verify # "step"
  BY SnapshotModes DEF RaiseInv, SnapLists
<1> QED
  BY <1>1 DEF RaiseInv, ChainLists, Before

LEMMA RaiseReplayOptimistic ==
    ASSUME RaiseInv, ReplayOptimistic, UNCHANGED session
    PROVE  RaiseInv'
<1>1. /\ pc = "missed" /\ pc' = "verified" /\ snap_m.kind = "deep"
      /\ UNCHANGED <<cfg, ids, produced, branches, snap_m>>
      /\ drafts' = drafts /\ verify_in' = verify_in
  BY DEF ReplayOptimistic, RecoverUnchanged
<1>2. PICK miss : ForwardFrom(snap_m.state, verify_in, miss)
  BY DEF ReplayOptimistic
<1>3. AllSeq(snap_m.state)
  BY <1>1 DEF RaiseInv, SnapLists
<1>4. /\ AllSeq(main_cache') /\ DOMAIN logits' = 1 .. Len(verify_in)
      /\ \A l \in Linear : Held(checkpoints'[l], Len(verify_in))
  BY <1>1, <1>2, <1>3, ChainOf, ForwardFromLists
<1> QED
  BY <1>1, <1>4, ChainOf, RaiseAgain

\* The restored recurrent layers are sequences again.
LEMMA RestoredLists ==
    ASSUME RaiseInv, pc = "missed", snap_m.kind # "none", NEW s
    PROVE  AllSeq(RestoredShallow(s))
<1>1. AllSeq(snap_m.state) /\ AllSeq(main_cache) /\ Linear \subseteq Layers
  BY SpecDecodeAssumption DEF RaiseInv, SnapLists, SessionLists
<1> QED
  BY <1>1 DEF RestoredShallow, AllSeq

LEMMA RaiseReplaySparse ==
    ASSUME RaiseInv, ReplaySparse, UNCHANGED session
    PROVE  RaiseInv'
<1>1. /\ pc = "missed" /\ pc' = "verified" /\ snap_m.kind # "none"
      /\ UNCHANGED <<cfg, ids, produced, branches, snap_m>>
      /\ drafts' = drafts /\ verify_in' = verify_in
  BY DEF ReplaySparse, RecoverUnchanged
<1>2. PICK c : /\ c = IF snap_m.kind = "shallow" THEN RestoredShallow(1) ELSE snap_m.state
               /\ ForwardFrom(c, verify_in, {})
  BY DEF ReplaySparse
<1>3. AllSeq(c)
  <2>1. AllSeq(snap_m.state)
    BY <1>1 DEF RaiseInv, SnapLists
  <2> QED
    BY <1>1, <1>2, <2>1, RestoredLists
<1>4. /\ AllSeq(main_cache') /\ DOMAIN logits' = 1 .. Len(verify_in)
      /\ \A l \in Linear : Held(checkpoints'[l], Len(verify_in))
  BY <1>1, <1>2, <1>3, ChainOf, ForwardFromLists
<1> QED
  BY <1>1, <1>4, ChainOf, RaiseAgain

\* A suffix replay arms the layers it runs; those before keep what they have.
LEMMA RaiseReplaySuffix ==
    ASSUME RaiseInv, ReplaySuffix, UNCHANGED session
    PROVE  RaiseInv'
<1>1. /\ pc = "missed" /\ pc' = "verified" /\ ~OptimisticVerify /\ SuffixReplay
      /\ UNCHANGED <<cfg, ids, produced, branches, snap_m>>
      /\ drafts' = drafts /\ verify_in' = verify_in
  BY DEF ReplaySuffix, RecoverUnchanged
<1>2. PICK s \in failed : s = FirstFailed
  <2>1. failed \in SUBSET Nat /\ failed # {}
    BY <1>1, LayersAre DEF RaiseInv, SnapLists
  <2>2. \E l \in failed : \A m \in failed : l <= m
    BY <2>1, LeastElement
  <2> QED
    BY <2>2, Zenon DEF FirstFailed
<1>3. s \in Layers /\ Linear \subseteq Layers
  BY <1>1, <1>2, SpecDecodeAssumption DEF RaiseInv, SnapLists
<1>4. PICK c : c = RestoredShallow(s)
  OBVIOUS
<1>5. PICK d : d = main_cache'
  OBVIOUS
<1>6. PICK ck : ck = Arm(s..NumLayers)
  OBVIOUS
<1>7. /\ d = Forward(c, s, LayerInput(s), verify_in, {})
      /\ checkpoints' = Captured(ck, c, d)
      /\ logits' = Logits(c, s, LayerInput(s), verify_in, {})
  BY <1>2, <1>4, <1>5, <1>6 DEF ReplaySuffix
<1>8. snap_m.kind # "none" /\ cfg.patched
  <2>1. ShallowRollback /\ cfg.patched /\ ~SkipSnap
    BY <1>1 DEF SuffixReplay, ShallowRollback, SkipSnap
  <2> QED
    BY <1>1, <2>1 DEF RaiseInv, SnapLists
<1>9. AllSeq(c)
  BY <1>1, <1>4, <1>8, RestoredLists
<1>10. /\ IsSeq(verify_in) /\ Len(verify_in) \in Nat /\ DOMAIN verify_in = 1 .. Len(verify_in)
       /\ cfg.verify # "step"
  BY <1>1, ChainOf, LenProperties DEF IsSeq
<1>11. ASSUME NEW l \in Linear
       PROVE  IsSeq(d[l]) /\ Held(checkpoints'[l], Len(verify_in))
  <2>1. /\ IsSeq(c[l]) /\ IsSeq(d[l])
        /\ ~(l < s) => Len(d[l]) = Len(c[l]) + Len(verify_in)
    BY <1>7, <1>9, <1>10, ForwardGrows DEF AllSeq
  <2>2. CASE l < s
    <3>1. Held(checkpoints[l], Len(verify_in))
      BY <1>1, <1>10 DEF RaiseInv, ForwardLists
    <3>2. ck[l] = checkpoints[l]
      <4>1. l \notin s .. NumLayers
        BY <1>3, <2>2, SpecDecodeAssumption DEF Layers
      <4> QED
        BY <1>6, <4>1 DEF Arm
    <3>3. ~ck[l].armed
      BY <1>8, <3>1, <3>2 DEF Held
    <3>4. checkpoints'[l] = checkpoints[l]
      BY <1>7, <3>2, <3>3, Zenon DEF Captured
    <3> QED
      BY <2>1, <3>1, <3>4
  <2>3. CASE ~(l < s)
    <3>1. ck[l] = [armed |-> TRUE, states |-> <<>>]
      <4>1. l \in s .. NumLayers
        BY <1>3, <2>3, SpecDecodeAssumption DEF Layers
      <4> QED
        BY <1>6, <4>1 DEF Arm
    <3>2. PICK n \in Nat : n = Len(verify_in)
      BY <1>10
    <3>3. Held(Captured(ck, c, d)[l], n)
      BY <2>1, <2>3, <3>1, <3>2, CapturedHeld
    <3> QED
      BY <1>7, <2>1, <3>2, <3>3, Zenon
  <2> QED
    BY <2>2, <2>3
<1>12. AllSeq(main_cache') /\ \A l \in Linear : Held(checkpoints'[l], Len(verify_in))
  BY <1>5, <1>11 DEF AllSeq
<1>13. DOMAIN logits' = 1 .. Len(verify_in)
  BY <1>7, <1>10 DEF Logits
<1> QED
  BY <1>1, <1>10, <1>12, <1>13, ChainOf, RaiseAgain

LEMMA RaiseRescue ==
    ASSUME RaiseInv, Rescue, UNCHANGED session
    PROVE  RaiseInv'
<1>1. /\ pc = "verified" /\ pc' = "judged" /\ RescueChain # <<>> /\ snap_m.kind = "deep"
      /\ UNCHANGED <<cfg, ids, produced, branches, snap_m>>
      /\ drafts' = RescueChain /\ verify_in' = <<x>> \o Drop(RescueChain, 1)
  BY DEF Rescue
<1>2. PICK miss : ForwardFrom(snap_m.state, verify_in', miss)
  BY DEF Rescue
<1>3. RescueChain \in Seq(Tokens) /\ cfg.verify # "step"
  <2>1. PICK i \in {1, 2} : RescueChain = branches[i] /\ branches[i] # <<>>
    BY <1>1 DEF RescueChain
  <2> QED
    BY <1>1, <2>1 DEF RaiseInv, ChainLists
<1>4. IsSeq(verify_in') /\ Len(verify_in') = Len(drafts')
  BY <1>1, <1>3, ShiftIsSeq
<1>5. AllSeq(snap_m.state)
  BY <1>1 DEF RaiseInv, SnapLists
<1>6. /\ AllSeq(main_cache') /\ DOMAIN logits' = 1 .. Len(verify_in')
      /\ \A l \in Linear : Held(checkpoints'[l], Len(verify_in'))
  BY <1>2, <1>4, <1>5, ForwardFromLists
<1> QED
  BY <1>1, <1>3, <1>4, <1>6, RaiseAgain

LEMMA RaiseVerifyPaths ==
    ASSUME RaiseInv, VerifyPaths, UNCHANGED session
    PROVE  RaiseInv'
<1>1. /\ pc = "loop" /\ pc' = "judged" /\ TreeVerify
      /\ snap_m' = [kind |-> "deep", state |-> main_cache]
      /\ cfg' = cfg /\ ids' = ids /\ produced' = produced
      /\ kept' = kept /\ cached_ids' = cached_ids
  BY DEF VerifyPaths, session
<1>2. PICK paths \in PathSets, miss \in SparseOverflows, best \in 1 .. Branches :
          /\ drafts' = paths[best] /\ verify_in' = <<x>> \o Drop(paths[best], 1)
          /\ ForwardFrom(main_cache, <<x>> \o Drop(paths[best], 1), miss)
  BY Zenon DEF VerifyPaths
<1>3. drafts' \in Seq(Tokens) /\ drafts' # <<>>
  <2>1. paths[best] \in Chains(K)
    BY DEF PathSets
  <2> QED
    BY <1>2, <2>1, ChainsAre, SpecDecodeAssumption
<1>4. IsSeq(verify_in') /\ Len(verify_in') = Len(drafts')
  BY <1>2, <1>3, ShiftIsSeq
<1>5. AllSeq(main_cache)
  BY DEF RaiseInv, SessionLists
<1>6. /\ AllSeq(main_cache') /\ DOMAIN logits' = 1 .. Len(verify_in')
      /\ \A l \in Linear : Held(checkpoints'[l], Len(verify_in'))
  BY <1>2, <1>4, <1>5, ForwardFromLists
<1>7. cfg.verify # "step"
  BY <1>1 DEF TreeVerify
<1>8. SessionLists'
  BY <1>1, <1>6 DEF RaiseInv, SessionLists, AllSeq
<1>9. ChainLists'
  BY <1>1, <1>3, <1>4, <1>7 DEF ChainLists
<1>10. SnapLists'
  BY <1>1, <1>5 DEF SnapLists, AllSeq
<1>11. ForwardLists'
  BY <1>1, <1>6, <1>7 DEF ForwardLists, Held
<1> QED
  BY <1>8, <1>9, <1>10, <1>11 DEF RaiseInv

\* When a step is judged, what it accepts is a part of the chain that is not empty.
LEMMA AcceptedPart ==
    ASSUME RaiseInv, pc \in {"verified", "judged"}
    PROVE  /\ drafts \in Seq(Tokens) /\ Len(drafts) \in Nat \ {0} /\ Len(verify_in) = Len(drafts)
           /\ MatchedNow \in 0 .. Len(drafts) /\ AcceptedLen \in 1 .. Len(drafts)
<1>1. /\ drafts \in Seq(Tokens) /\ Len(drafts) \in Nat \ {0} /\ Len(verify_in) = Len(drafts)
      /\ DOMAIN logits = 1 .. Len(drafts)
  BY EmptySeq DEF RaiseInv, ChainLists, ForwardLists, Before
<1>2. Len(Preds) = Len(drafts)
  BY <1>1 DEF Preds, PredsOf
<1>3. MatchedNow \in 0 .. Len(drafts)
  BY <1>1, <1>2, MatchedIs DEF MatchedNow
<1>4. AcceptedLen \in 1 .. Len(drafts)
  BY <1>1, <1>3 DEF AcceptedLen, Smaller
<1> QED
  BY <1>1, <1>3, <1>4

\* A judged step that ends: its caches and what it emits are sequences.
LEMMA RaiseEnds ==
    ASSUME RaiseInv, pc' = "emit", UNCHANGED <<cfg, ids, produced>>, UNCHANGED session,
           AllSeq(main_cache'), IsSeq(new_tokens')
    PROVE  RaiseInv'
<1>1. SessionLists'
  BY DEF RaiseInv, SessionLists, AllSeq, session
<1>2. ChainLists' /\ SnapLists' /\ ForwardLists'
  BY DEF ChainLists, SnapLists, ForwardLists, Before
<1> QED
  BY <1>1, <1>2 DEF RaiseInv

LEMMA RaiseCommit ==
    ASSUME RaiseInv, Commit, UNCHANGED session
    PROVE  RaiseInv'
<1>1. /\ pc \in {"verified", "judged"} /\ CanCommit /\ pc' = "emit"
      /\ main_cache' = [l \in Layers |-> Committed(l)]
      /\ new_tokens' = IF MatchedNow = Len(drafts) THEN drafts
                       ELSE Append(Take(drafts, MatchedNow), Preds[MatchedNow + 1])
      /\ UNCHANGED <<cfg, ids, produced>>
  BY DEF Commit, Judged, CommitUnchanged
<1>2. /\ drafts \in Seq(Tokens) /\ Len(drafts) \in Nat \ {0} /\ Len(verify_in) = Len(drafts)
      /\ MatchedNow \in 0 .. Len(drafts) /\ AcceptedLen \in 1 .. Len(drafts)
  BY <1>1, AcceptedPart
<1>3. IsSeq(new_tokens')
  <2>1. IsSeq(drafts)
    BY <1>2, SeqIsSeq
  <2>2. IsSeq(Take(drafts, MatchedNow))
    BY <1>2, <2>1, PartIsSeq DEF Take
  <2> QED
    BY <1>1, <2>1, <2>2, AppendIsSeq
<1>4. ASSUME NEW l \in Linear PROVE IsSeq(Committed(l))
  <2>1. CASE cfg.verify = "step"
    <3>1. IsSeq(main_cache[l])
      BY DEF RaiseInv, SessionLists, AllSeq
    <3>2. AcceptedLen # Len(drafts) => IsSeq(verify_snaps[AcceptedLen][l])
      <4> SUFFICES ASSUME AcceptedLen # Len(drafts)
                   PROVE  IsSeq(verify_snaps[AcceptedLen][l])
        OBVIOUS
      <4>1. AcceptedLen \in 1 .. Len(verify_in) - 1
        BY <1>2
      <4>2. \A i \in 1 .. Len(verify_in) - 1 : AllSeq(verify_snaps[i])
        BY <1>1, <2>1 DEF RaiseInv, ForwardLists
      <4> QED
        BY <4>1, <4>2 DEF AllSeq
    <3> QED
      BY <2>1, <3>1, <3>2 DEF Committed
  <2>2. CASE cfg.verify # "step"
    <3>1. Held(checkpoints[l], Len(verify_in))
      BY <1>1, <2>2 DEF RaiseInv, ForwardLists
    <3>2. Len(checkpoints[l].states) >= AcceptedLen
      BY <1>1, <2>2 DEF CanCommit
    <3>3. cfg.patched
      <4>1. ASSUME checkpoints[l].states = <<>> PROVE FALSE
        <5>1. Len(checkpoints[l].states) = 0
          BY <4>1
        <5> QED
          BY <1>2, <3>2, <5>1
      <4> QED
        BY <3>1, <4>1 DEF Held
    <3>4. IsSeq(checkpoints[l].states[AcceptedLen])
      BY <1>2, <3>1, <3>3 DEF Held
    <3> QED
      BY <2>2, <3>4 DEF Committed
  <2> QED
    BY <2>1, <2>2
<1>5. AllSeq(main_cache')
  <2>1. Linear \subseteq Layers
    BY SpecDecodeAssumption
  <2> QED
    BY <1>1, <1>4, <2>1 DEF AllSeq
<1> QED
  BY <1>1, <1>3, <1>5, RaiseEnds

LEMMA RaiseReplay ==
    ASSUME RaiseInv, Replay, UNCHANGED session
    PROVE  RaiseInv'
<1>1. /\ pc \in {"verified", "judged"} /\ snap_m.kind = "deep" /\ pc' = "emit"
      /\ accepted_in' = <<x>> \o Take(drafts, MatchedNow)
      /\ new_tokens' = Append(Take(drafts, MatchedNow), x')
      /\ UNCHANGED <<cfg, ids, produced>>
  BY DEF Replay, Judged, CommitUnchanged
<1>2. PICK miss : main_cache' = Forward(snap_m.state, 1, Context(snap_m.state), accepted_in', miss)
  BY Zenon DEF Replay
<1>3. IsSeq(Take(drafts, MatchedNow))
  <2>1. IsSeq(drafts) /\ MatchedNow \in Int /\ MatchedNow <= Len(drafts)
    BY <1>1, AcceptedPart, SeqIsSeq
  <2> QED
    BY <2>1, PartIsSeq DEF Take
<1>4. IsSeq(accepted_in') /\ IsSeq(new_tokens')
  <2>1. <<x>> \in Seq({x})
    OBVIOUS
  <2> QED
    BY <1>1, <1>3, <2>1, SeqIsSeq, ConcatIsSeq, AppendIsSeq
<1>5. AllSeq(snap_m.state)
  BY <1>1 DEF RaiseInv, SnapLists
<1>6. AllSeq(main_cache')
  BY <1>2, <1>4, <1>5, ForwardGrows DEF AllSeq
<1> QED
  BY <1>1, <1>4, <1>6, RaiseEnds

LEMMA RaiseEmit ==
    ASSUME RaiseInv, Emit, UNCHANGED session
    PROVE  RaiseInv'
<1>1. /\ pc = "emit" /\ pc' = "loop" /\ produced' = produced \o Take(new_tokens, Room)
      /\ cfg' = cfg /\ ids' = ids /\ main_cache' = main_cache
      /\ kept' = kept /\ cached_ids' = cached_ids
  BY DEF Emit, session
<1>2. IsSeq(produced) /\ IsSeq(new_tokens)
  BY <1>1 DEF RaiseInv, SessionLists
<1>3. Room \in Int /\ Room <= Len(new_tokens)
  <2>1. Len(produced) \in Nat /\ Len(new_tokens) \in Nat /\ MaxTokens \in Nat
    BY <1>2, LenProperties, SpecDecodeAssumption DEF IsSeq
  <2> QED
    BY <2>1 DEF Room, Smaller
<1>4. IsSeq(produced')
  BY <1>1, <1>2, <1>3, PartIsSeq, ConcatIsSeq DEF Take
<1>5. SessionLists'
  BY <1>1, <1>4 DEF RaiseInv, SessionLists, AllSeq
<1>6. ChainLists' /\ SnapLists' /\ ForwardLists'
  BY <1>1 DEF ChainLists, SnapLists, ForwardLists, Before
<1> QED
  BY <1>5, <1>6 DEF RaiseInv

LEMMA RaiseTurn ==
    ASSUME RaiseInv, Turn
    PROVE  RaiseInv'
<1>1. PICK new, n, c :
          /\ new \in Prompts /\ n \in Nat
          /\ n = IF kept = None THEN 0 ELSE ReusePrefixLen(cached_ids, new)
          /\ c = IF n > 0 THEN kept ELSE NewCache
          /\ Prefill(new, c, n)
  <2>1. PICK new \in Prompts :
            Prefill(new, IF (IF kept = None THEN 0 ELSE ReusePrefixLen(cached_ids, new)) > 0
                         THEN kept ELSE NewCache,
                    IF kept = None THEN 0 ELSE ReusePrefixLen(cached_ids, new))
    BY DEF Turn
  <2>2. Len(cached_ids) \in Nat
    BY LenProperties DEF RaiseInv, SessionLists, IsSeq
  <2>3. (IF kept = None THEN 0 ELSE ReusePrefixLen(cached_ids, new)) \in Nat
    BY <2>2 DEF ReusePrefixLen
  <2> QED
    BY <2>1, <2>3
<1>2. AllSeq(c)
  <2>1. CASE n > 0
    BY <1>1, <2>1 DEF RaiseInv, SessionLists
  <2>2. CASE ~(n > 0)
    BY <1>1, <2>2, EmptyIsSeq, SpecDecodeAssumption DEF NewCache, AllSeq
  <2> QED
    BY <2>1, <2>2
<1>3. IsSeq(new) /\ IsSeq(SubSeq(new, n + 1, Len(new)))
  <2>1. new \in Seq(Tokens)
    BY <1>1, ChatSessionAssumption
  <2>2. IsSeq(new) /\ Len(new) \in Int /\ n + 1 \in Nat \ {0}
    BY <1>1, <2>1, SeqIsSeq
  <2> QED
    BY <2>2, PartIsSeq
<1>4. PICK rest, first :
          /\ rest = SubSeq(new, n + 1, Len(new))
          /\ ids' = new /\ main_cache' = Forward(c, 1, Context(c), rest, {})
          /\ produced' = <<first>>
  BY <1>1 DEF Prefill
<1>5. AllSeq(main_cache')
  BY <1>2, <1>3, <1>4, ForwardGrows DEF AllSeq
<1>6. IsSeq(produced')
  <2>1. <<first>> \in Seq({first})
    OBVIOUS
  <2> QED
    BY <1>4, <2>1, SeqIsSeq
<1>7. pc' = "loop" /\ cfg' = cfg /\ kept' = kept /\ cached_ids' = cached_ids
  BY <1>1 DEF Turn, Prefill
<1>8. SessionLists'
  BY <1>3, <1>4, <1>5, <1>6, <1>7 DEF RaiseInv, SessionLists, AllSeq
<1>9. ChainLists' /\ SnapLists' /\ ForwardLists'
  BY <1>7 DEF ChainLists, SnapLists, ForwardLists, Before
<1> QED
  BY <1>8, <1>9 DEF RaiseInv

\* The end of a turn, however it ends, and a reset.
LEMMA RaiseSession ==
    ASSUME RaiseInv, Finish \/ Fail \/ Reset \/ UNCHANGED allvars
    PROVE  RaiseInv'
<1>1. /\ IsSeq(ids) /\ IsSeq(produced) /\ IsSeq(cached_ids) /\ AllSeq(main_cache)
      /\ kept # None => AllSeq(kept)
  BY DEF RaiseInv, SessionLists
<1>2. ASSUME NoTurn, IsSeq(cached_ids'), kept' # None => AllSeq(kept')
      PROVE  RaiseInv'
  <2>1. pc' = "idle" /\ ids' = <<>> /\ produced' = <<>> /\ main_cache' = NewCache
    BY <1>2 DEF NoTurn
  <2>2. AllSeq(main_cache')
    BY <2>1, EmptyIsSeq, SpecDecodeAssumption DEF NewCache, AllSeq
  <2>3. SessionLists'
    BY <1>2, <2>1, <2>2, EmptyIsSeq DEF SessionLists, AllSeq
  <2>4. ChainLists' /\ SnapLists' /\ ForwardLists'
    BY <2>1 DEF ChainLists, SnapLists, ForwardLists, Before
  <2> QED
    BY <2>3, <2>4 DEF RaiseInv
<1>3. CASE Finish
  <2>1. /\ NoTurn /\ kept' = IF Reconciled THEN main_cache ELSE None
        /\ cached_ids' = IF Reconciled THEN ids \o Drop(produced, 1) ELSE <<>>
    BY <1>3 DEF Finish
  <2>2. IsSeq(Drop(produced, 1))
    <3>1. Len(produced) \in Nat
      BY <1>1, LenProperties DEF IsSeq
    <3> QED
      BY <1>1, <3>1, PartIsSeq DEF Drop
  <2>3. IsSeq(cached_ids')
    BY <1>1, <2>1, <2>2, ConcatIsSeq, EmptyIsSeq
  <2>4. kept' # None => AllSeq(kept')
    BY <1>1, <2>1
  <2> QED
    BY <1>2, <2>1, <2>3, <2>4
<1>4. CASE Fail
  <2>1. /\ NoTurn /\ kept' = IF reused THEN main_cache ELSE kept
        /\ cached_ids' = cached_ids
    BY <1>4 DEF Fail
  <2> QED
    BY <1>1, <1>2, <2>1
<1>5. CASE Reset \/ UNCHANGED allvars
  <2>1. /\ UNCHANGED vars
        /\ (kept' = kept /\ cached_ids' = cached_ids) \/ (kept' = None /\ cached_ids' = <<>>)
    BY <1>5 DEF Reset, allvars, session
  <2>2. SessionLists'
    BY <1>1, <2>1, EmptyIsSeq DEF RaiseInv, SessionLists, AllSeq, vars, step
  <2>3. ChainLists' /\ SnapLists'
    BY <2>1, SameModes DEF RaiseInv, ChainLists, SnapLists, AllSeq, vars, step
  <2>4. ForwardLists'
    BY <2>1 DEF RaiseInv, ForwardLists, Held, AllSeq, vars, step
  <2> QED
    BY <2>2, <2>3, <2>4 DEF RaiseInv
<1> QED
  BY <1>3, <1>4, <1>5

LEMMA RaiseNext ==
    ASSUME RaiseInv, [Next]_allvars
    PROVE  RaiseInv'
<1>1. CASE DecodeStep
  <2>1. Step /\ UNCHANGED session
    BY <1>1 DEF DecodeStep
  <2> QED
    BY <2>1, RaiseDraft, RaiseVerify, RaiseReplayOptimistic, RaiseReplaySparse,
       RaiseReplaySuffix, RaiseRescue, RaiseVerifyPaths, RaiseCommit, RaiseReplay, RaiseEmit
    DEF Step
<1> QED
  BY <1>1, RaiseTurn, RaiseSession DEF Next

\* No step finds its snapshot skipped or of the wrong kind, in any mode but one:
\* an optimistic verify over a sparse budget takes a shallow snapshot and would
\* unpack a deep one (_restore after _shallow_rollback_checkpoint).  It holds for
\* every model, whatever missed unnoticed and whichever turns failed.
THEOREM StepsNeverRaise == Spec => [](~MixedSnapshot => NeverRaises)
<1>1. ASSUME RaiseInv, ~MixedSnapshot PROVE NeverRaises
  <2>1. ~(Judged /\ ~CanCommit /\ snap_m.kind # "deep")
    <3> SUFFICES ASSUME pc = "verified", ~CanCommit, snap_m.kind # "deep" PROVE FALSE
      BY <1>1 DEF Judged, RaiseInv, SnapLists
    <3>1. cfg.patched /\ cfg.verify # "step"
      <4>1. SkipSnap \/ ShallowRollback
        BY <1>1 DEF RaiseInv, SnapLists
      <4> QED
        BY <4>1 DEF SkipSnap, ShallowRollback, SparseReplay
    <3>2. PICK l \in Linear : ~(Len(checkpoints[l].states) >= AcceptedLen)
      BY <3>1 DEF CanCommit
    <3>3. Len(checkpoints[l].states) = Len(verify_in)
      BY <1>1, <3>1 DEF RaiseInv, ForwardLists, Held
    <3>4. Len(verify_in) = Len(drafts) /\ AcceptedLen \in 1 .. Len(drafts) /\ Len(drafts) \in Nat
      BY <1>1, AcceptedPart
    <3> QED
      BY <3>2, <3>3, <3>4
  <2>2. ~(pc = "verified" /\ RescueChain # <<>> /\ snap_m.kind # "deep")
    <3> SUFFICES ASSUME pc = "verified", RescueChain # <<>> PROVE snap_m.kind = "deep"
      OBVIOUS
    <3>1. PICK i \in {1, 2} : RescueChain = branches[i] /\ branches[i] # <<>>
      BY DEF RescueChain
    <3> QED
      BY <1>1, <3>1 DEF RaiseInv, ChainLists, SnapLists
  <2>3. ~(pc = "missed" /\ OptimisticVerify /\ snap_m.kind # "deep")
    <3> SUFFICES ASSUME pc = "missed", OptimisticVerify PROVE snap_m.kind = "deep"
      OBVIOUS
    <3>1. ~SkipSnap /\ ~ShallowRollback
      BY <1>1, SnapshotModes DEF MixedSnapshot
    <3> QED
      BY <1>1, <3>1 DEF RaiseInv, SnapLists
  <2>4. ~(pc = "missed" /\ ~OptimisticVerify /\ snap_m.kind = "none")
    <3> SUFFICES ASSUME pc = "missed", ~OptimisticVerify PROVE snap_m.kind # "none"
      OBVIOUS
    <3>1. ~SkipSnap
      BY <1>1 DEF RaiseInv, SnapLists, Detects, SkipSnap
    <3> QED
      BY <1>1, <3>1 DEF RaiseInv, SnapLists
  <2> QED
    BY <2>1, <2>2, <2>3, <2>4 DEF NeverRaises, Raises
<1> QED
  BY <1>1, RaiseInit, RaiseNext, PTL DEF Spec

=============================================================================
